------------------------- MODULE OrderLifecycle_proofs -------------------------
(***************************************************************************)
(* Theorems about OrderLifecycle for every set of decisions, every bound   *)
(* and every choice of modes, failures and exchange behaviour.             *)
(***************************************************************************)
EXTENDS OrderLifecycle, WellFoundedInduction, TLAPS

-------------------------------------------------------------------------------
(* Sequences and the last row of a mode *)

\* Appending an element of S to a sequence over S gives a sequence over S that
\* keeps its old elements and ends with the new one.
LEMMA AppendFacts ==
    ASSUME NEW S, NEW s \in Seq(S), NEW e \in S
    PROVE  /\ Append(s, e) \in Seq(S)
           /\ Len(s) \in Nat
           /\ Len(Append(s, e)) = Len(s) + 1
           /\ DOMAIN s = 1 .. Len(s)
           /\ DOMAIN Append(s, e) = 1 .. Len(s) + 1
           /\ \A i \in DOMAIN s : Append(s, e)[i] = s[i]
           /\ Append(s, e)[Len(s) + 1] = e
  BY SMT

\* A non-empty set of indices up to n has a largest one.
LEMMA LargestIndex ==
    ASSUME NEW n \in Nat, NEW T \in SUBSET (1 .. n), T # {}
    PROVE  \E i \in T : \A j \in T : j <= i
  <1> DEFINE U == {n - i : i \in T}
             Less == {ss \in Nat \X Nat : ss[1] < ss[2]}
  <1>1. IsWellFoundedOn(Less, Nat)
    BY NatLessThanWellFounded, Zenon DEF OpToRel
  <1>0. \A i \in T : i \in 1 .. n /\ n - i \in Nat
    OBVIOUS
  <1>2. U \subseteq Nat /\ U # {}
    BY <1>0
  <1> HIDE DEF U
  <1>3. PICK u \in U : \A v \in U : ~(<<v, u>> \in Less)
    <2> HIDE DEF Less
    <2> QED BY <1>1, <1>2, WFMin
  <1>4. \A v \in U : ~(v < u)
    BY <1>2, <1>3
  <1>5. PICK i \in T : u = n - i
    BY DEF U
  <1>6. \A j \in T : ~(n - j < n - i)
    BY <1>4, <1>5 DEF U
  <1> QED BY <1>0, <1>6

\* Appending a row makes it the last one of its own mode and leaves the last row
\* of the other mode as it was.
LEMMA LastInAppend ==
    ASSUME NEW s \in Seq(Row), NEW row \in Row, NEW m
    PROVE  LastIn(Append(s, row), m) = IF row.mode = m THEN row ELSE LastIn(s, m)
  <1> DEFINE t == Append(s, row)
             n == Len(s)
  <1>1. /\ n \in Nat /\ DOMAIN s = 1 .. n /\ DOMAIN t = 1 .. n + 1
        /\ \A i \in DOMAIN s : t[i] = s[i]
        /\ t[n + 1] = row
    BY AppendFacts
  <1>2. InMode(s, m) \in SUBSET (1 .. n)
    BY <1>1 DEF InMode
  <1> SUFFICES LastIn(t, m) = IF row.mode = m THEN row ELSE LastIn(s, m)
    OBVIOUS
  <1> HIDE DEF t, n
  <1>3. CASE row.mode = m
    <2>1. n + 1 \in InMode(t, m) /\ \A k \in InMode(t, m) : k <= n + 1
      BY <1>1, <1>3 DEF InMode
    <2>2. \A i \in InMode(t, m) : (\A k \in InMode(t, m) : k <= i) => i = n + 1
      BY <1>1, <2>1 DEF InMode
    <2>3. (CHOOSE i \in InMode(t, m) : \A k \in InMode(t, m) : k <= i) = n + 1
      BY <2>1, <2>2
    <2> QED BY <1>1, <1>3, <2>1, <2>3 DEF LastIn
  <1>4. CASE row.mode # m
    <2>1. InMode(t, m) = InMode(s, m)
      BY <1>1, <1>4 DEF InMode
    <2>2. CASE InMode(s, m) = {}
      BY <2>1, <2>2, <1>4 DEF LastIn
    <2>3. CASE InMode(s, m) # {}
      <3> DEFINE c == CHOOSE i \in InMode(s, m) : \A k \in InMode(s, m) : k <= i
      <3>1. c \in InMode(s, m)
        BY <1>1, <1>2, <2>3, LargestIndex
      <3>2. LastIn(t, m) = t[c] /\ LastIn(s, m) = s[c]
        BY <2>1, <2>3 DEF LastIn
      <3> QED BY <1>1, <1>2, <1>4, <3>1, <3>2
    <2> QED BY <2>2, <2>3
  <1> QED BY <1>3, <1>4

\* The last row of a mode is one of the rows and is of that mode.
LEMMA LastInIsRow ==
    ASSUME NEW s \in Seq(Row), NEW m
    PROVE  \/ InMode(s, m) = {} /\ LastIn(s, m) = NoRow
           \/ \E i \in DOMAIN s : LastIn(s, m) = s[i] /\ s[i].mode = m
  <1>1. CASE InMode(s, m) = {}
    BY <1>1 DEF LastIn
  <1>2. CASE InMode(s, m) # {}
    <2>1. DOMAIN s = 1 .. Len(s) /\ Len(s) \in Nat
      OBVIOUS
    <2>2. \E i \in InMode(s, m) : \A j \in InMode(s, m) : j <= i
      BY <1>2, <2>1, LargestIndex DEF InMode
    <2> QED BY <1>2, <2>2 DEF LastIn, InMode
  <1> QED BY <1>1, <1>2

-------------------------------------------------------------------------------
(* Type correctness *)

\* The last row of every decision and mode is a row or the absence of one.
LEMMA LatestType ==
    ASSUME TypeOK, NEW d \in Decision, NEW m
    PROVE  Latest(d, m) \in Row \cup {NoRow}
  <1>1. orders[d] \in Seq(Row)
    BY DEF TypeOK
  <1>2. \A i \in DOMAIN orders[d] : orders[d][i] \in Row
    BY <1>1
  <1> QED BY <1>1, <1>2, LastInIsRow DEF Latest

LEMMA NoRoundType == NoRound \in Round
  BY ConstantsAssumption DEF NoRound, Round, NoRow, NotListed, View, Row

\* A row that a call records is well formed.
LEMMA RowTypes ==
    /\ DryRunRow \in Row
    /\ ErrorRow \in Row
    /\ \A success \in BOOLEAN, view \in View :
          view.status \in OrderStatus \/ ~success => PlacedRow(success, view) \in Row
  BY ConstantsAssumption DEF DryRunRow, ErrorRow, PlacedRow, ReportedStatus, Row, View,
                             OrderStatus, ExecutionMode

LEMMA StartCallType ==
    ASSUME TypeOK, NEW d \in Decision, StartCall(d)
    PROVE  call' \in Call
  <1>1. CASE call' = Idle
    BY <1>1 DEF Call
  <1>2. CASE call' = [pc |-> "recording", ref |-> d, row |-> DryRunRow]
    BY <1>2, RowTypes DEF Call
  <1>3. ASSUME NEW s \in 1 .. MaxStake, call' = [pc |-> "placing", ref |-> d, size |-> s]
        PROVE  call' \in Call
    BY <1>3 DEF Call
  <1> QED BY <1>1, <1>2, <1>3 DEF StartCall

\* A call in flight has the fields of its program counter.
LEMMA CallFields ==
    ASSUME call \in Call
    PROVE  /\ call.pc = "placing" => call.ref \in Decision /\ call.size \in 1 .. MaxStake
           /\ call.pc = "replying" => /\ call.ref \in Decision
                                       /\ call.success \in BOOLEAN
                                       /\ call.view \in View
           /\ call.pc = "recording" => call.ref \in Decision /\ call.row \in Row
  BY DEF Call, Idle

\* The report of an accepted order has a status OrderStatus knows.
ReportParsed ==
    call.pc = "replying" /\ call.success =>
        call.view.status \in {"EXECUTABLE", "EXECUTION_COMPLETE"}

TypeInv == TypeOK /\ ReportParsed

\* The steps of an on_decision_allow call keep every variable in its type.
LEMMA CallStepType ==
    ASSUME TypeInv, CallStep \/ RecordPlacementFails
                    \/ \E d \in Decision : OnDecisionAllow(d) \/ RetryDecision(d)
    PROVE  TypeInv'
  <1> USE ConstantsAssumption
  <1>0. TypeOK /\ ReportParsed
    BY DEF TypeInv
  <1>1. ASSUME NEW d \in Decision, OnDecisionAllow(d) PROVE TypeInv'
    <2>1. call' \in Call
      BY <1>0, <1>1, StartCallType DEF OnDecisionAllow
    <2>2. ReportParsed'
      BY <1>1 DEF OnDecisionAllow, StartCall, ReportParsed, Idle
    <2> QED BY <1>0, <1>1, <2>1, <2>2 DEF TypeInv, TypeOK, OnDecisionAllow
  <1>2. ASSUME NEW d \in Decision, RetryDecision(d) PROVE TypeInv'
    <2>1. call' \in Call
      BY <1>0, <1>2, StartCallType DEF RetryDecision
    <2>2. ReportParsed'
      BY <1>2 DEF RetryDecision, StartCall, ReportParsed, Idle
    <2> QED BY <1>0, <1>2, <2>1, <2>2 DEF TypeInv, TypeOK, RetryDecision
  <1>3. CASE AcceptOrder
    <2> DEFINE x(m) == [status |-> IF m = call.size THEN "EXECUTION_COMPLETE" ELSE "EXECUTABLE",
                        matched |-> m, size |-> call.size, listed |-> TRUE]
    <2>1. call.ref \in Decision /\ call.size \in 1 .. MaxStake
      BY <1>0, <1>3, CallFields DEF AcceptOrder, TypeOK
    <2>2. PICK m \in IF ImmediateMatch THEN 0 .. call.size ELSE {0} :
             /\ exchange' = [exchange EXCEPT ![call.ref] = x(m)]
             /\ call' = [pc |-> "replying", ref |-> call.ref, success |-> TRUE,
                         view |-> ViewOf(x(m))]
      BY <1>3 DEF AcceptOrder
    <2>3. m \in 0 .. MaxStake /\ call.size \in 0 .. MaxStake
      BY <2>1, <2>2
    <2>4. x(m) \in ExchangeOrder /\ ViewOf(x(m)) \in View
      BY <2>3 DEF ExchangeOrder, View, ViewOf
    <2>5. call' \in Call
      BY <2>1, <2>2, <2>4 DEF Call
    <2>6. ReportParsed'
      BY <2>2 DEF ReportParsed, ViewOf
    <2>7. exchange' \in [Decision -> ExchangeOrder]
      BY <1>0, <2>1, <2>2, <2>4 DEF TypeOK
    <2> QED BY <1>0, <1>3, <2>5, <2>6, <2>7 DEF TypeInv, TypeOK, AcceptOrder
  <1>4. CASE RefuseOrder
    <2>1. call.ref \in Decision
      BY <1>0, <1>4, CallFields DEF RefuseOrder, TypeOK
    <2>2. call' \in Call /\ ReportParsed'
      BY <1>4, <2>1 DEF RefuseOrder, Call, View, NotListed, ReportParsed
    <2> QED BY <1>0, <1>4, <2>2 DEF TypeInv, TypeOK, RefuseOrder
  <1>5. CASE ReceiveReport
    <2>1. /\ call.ref \in Decision /\ call.success \in BOOLEAN /\ call.view \in View
          /\ call.view.status \in OrderStatus \/ ~call.success
      BY <1>0, <1>5, CallFields
      DEF ReceiveReport, TypeOK, ReportParsed, OrderStatus, ParsedClosing
    <2>2. PlacedRow(call.success, call.view) \in Row
      BY <2>1, RowTypes
    <2>3. call' \in Call /\ ReportParsed'
      BY <1>5, <2>1, <2>2 DEF ReceiveReport, Call, ReportParsed
    <2> QED BY <1>0, <1>5, <2>3 DEF TypeInv, TypeOK, ReceiveReport
  <1>6. CASE PlaceOrdersRaises
    <2>1. call.ref \in Decision
      BY <1>0, <1>6, CallFields DEF PlaceOrdersRaises, TypeOK
    <2>2. call' \in Call /\ ReportParsed'
      BY <1>6, <2>1, RowTypes DEF PlaceOrdersRaises, Call, ReportParsed
    <2>3. faults' \in 0 .. MaxFaults
      BY <1>0, <1>6 DEF PlaceOrdersRaises, Fails, TypeOK
    <2> QED BY <1>0, <1>6, <2>2, <2>3 DEF TypeInv, TypeOK, PlaceOrdersRaises
  <1>7. CASE RecordPlacement
    <2>1. call.ref \in Decision /\ call.row \in Row
      BY <1>0, <1>7, CallFields DEF RecordPlacement, TypeOK
    <2>2. orders' \in [Decision -> Seq(Row)]
      BY <1>0, <1>7, <2>1 DEF RecordPlacement, TypeOK
    <2>3. call' \in Call /\ ReportParsed'
      BY <1>7 DEF RecordPlacement, Call, Idle, ReportParsed
    <2> QED BY <1>0, <1>7, <2>2, <2>3 DEF TypeInv, TypeOK, RecordPlacement
  <1>8. CASE RecordPlacementFails
    <2>1. call' \in Call /\ ReportParsed'
      BY <1>8 DEF RecordPlacementFails, Call, Idle, ReportParsed
    <2>2. faults' \in 0 .. MaxFaults
      BY <1>0, <1>8 DEF RecordPlacementFails, Fails, TypeOK
    <2> QED BY <1>0, <1>8, <2>1, <2>2 DEF TypeInv, TypeOK, RecordPlacementFails
  <1> QED BY <1>1, <1>2, <1>3, <1>4, <1>5, <1>6, <1>7, <1>8 DEF CallStep

\* The rows that a round works on are rows or absent, and its views are views.
LEMMA RoundFields ==
    ASSUME TypeOK
    PROVE  /\ rec = [pc |-> rec.pc, todo |-> rec.todo, half |-> rec.half,
                     prev |-> rec.prev, cur |-> rec.cur]
           /\ rec.pc \in {"idle", "listing", "applying"}
           /\ rec.todo \subseteq Decision /\ rec.half \subseteq Decision
           /\ rec.prev \in [Decision -> Row \cup {NoRow}]
           /\ rec.cur \in [Decision -> View]
           /\ \A r \in Decision : /\ rec.prev[r].mode \in ExecutionMode
                                  /\ rec.prev[r].matched \in 0 .. MaxStake
                                  /\ rec.cur[r].matched \in 0 .. MaxStake
  <1>1. rec \in Round
    BY DEF TypeOK
  <1>2. /\ rec.prev \in [Decision -> Row \cup {NoRow}]
        /\ rec.cur \in [Decision -> View]
    BY <1>1 DEF Round
  <1>3. \A x \in Row \cup {NoRow} : x.mode \in ExecutionMode /\ x.matched \in 0 .. MaxStake
    BY ConstantsAssumption DEF Row, NoRow, ExecutionMode
  <1>4. \A v \in View : v.matched \in 0 .. MaxStake
    BY DEF View
  <1> QED BY <1>1, <1>2, <1>3, <1>4 DEF Round

\* What a round reads of an order the exchange may show is a view.
LEMMA ViewTypes ==
    /\ NotListed \in View
    /\ \A x \in ExchangeOrder : ViewOf(x) \in View
  BY ConstantsAssumption DEF NotListed, View, ViewOf, ExchangeOrder

\* The steps of a reconcile_open_orders round keep every variable in its type.
LEMMA ReconcileStepType ==
    ASSUME TypeInv, ReconcileStep
    PROVE  TypeInv'
  <1> USE ConstantsAssumption
  <1>0. TypeOK /\ ReportParsed
    BY DEF TypeInv
  <1>a. /\ rec.pc \in {"idle", "listing", "applying"}
        /\ rec.todo \subseteq Decision /\ rec.half \subseteq Decision
        /\ rec.prev \in [Decision -> Row \cup {NoRow}]
        /\ rec.cur \in [Decision -> View]
    BY <1>0, RoundFields
  <1>b. rec \in Round
    BY <1>0 DEF TypeOK
  <1>1. CASE FetchOpenOrders
    <2> DEFINE prev == [d \in Decision |->
                          IF d \in OpenOrders(mode) THEN Latest(d, mode) ELSE NoRow]
    <2>1. prev \in [Decision -> Row \cup {NoRow}]
      BY <1>0, LatestType
    <2>2. OpenOrders(mode) \subseteq Decision
      BY DEF OpenOrders
    <2>3. rec' = [NoRound EXCEPT !.pc = "listing", !.todo = OpenOrders(mode), !.prev = prev]
      BY <1>1 DEF FetchOpenOrders
    <2> HIDE DEF prev
    <2>4. rec' \in Round
      BY <2>1, <2>2, <2>3, NoRoundType DEF Round
    <2> QED BY <1>0, <1>1, <2>4 DEF TypeInv, TypeOK, ReportParsed, FetchOpenOrders
  <1>2. CASE ListCurrentOrders
    <2> DEFINE cur == [d \in Decision |-> IF d \in rec.todo /\ exchange[d].listed
                                         THEN ViewOf(exchange[d]) ELSE NotListed]
    <2>1. \A d \in Decision : exchange[d] \in ExchangeOrder
      BY <1>0 DEF TypeOK
    <2>2. cur \in [Decision -> View]
      BY <2>1, ViewTypes
    <2>3. rec' = [rec EXCEPT !.pc = "applying", !.cur = cur]
      BY <1>2 DEF ListCurrentOrders
    <2> HIDE DEF cur
    <2>4. rec' \in Round
      BY <1>b, <2>2, <2>3 DEF Round
    <2> QED BY <1>0, <1>2, <2>4 DEF TypeInv, TypeOK, ReportParsed, ListCurrentOrders
  <1>3. ASSUME NEW r \in Decision, PassOver(r) PROVE TypeInv'
    <2>1. rec' \in Round
      BY <1>b, <1>3 DEF PassOver, Round
    <2> QED BY <1>0, <1>3, <2>1 DEF TypeInv, TypeOK, ReportParsed, PassOver
  <1>4. ASSUME NEW r \in Decision, InsertFill(r) PROVE TypeInv'
    <2> DEFINE f == [delta |-> MatchedDelta(r), cumulative |-> rec.cur[r].matched]
    <2>1. f \in Fill
      BY <1>0, <1>4, RoundFields DEF InsertFill, MatchedDelta, Fill
    <2>2. fills' = [fills EXCEPT ![r] = Append(@, f)]
      BY <1>4 DEF InsertFill
    <2> HIDE DEF f
    <2>3. fills' \in [Decision -> Seq(Fill)]
      BY <1>0, <2>1, <2>2 DEF TypeOK
    <2>4. rec' \in Round
      BY <1>b, <1>4 DEF InsertFill, Round
    <2> QED BY <1>0, <1>4, <2>3, <2>4 DEF TypeInv, TypeOK, ReportParsed, InsertFill
  <1>5. ASSUME NEW r \in Decision, InsertLifecycleRow(r) PROVE TypeInv'
    <2>1. LifecycleRow(r) \in Row
      BY <1>0, <1>5, RoundFields DEF InsertLifecycleRow, LifecycleRow, Parsed, Row
    <2>2. orders' \in [Decision -> Seq(Row)]
      BY <1>0, <1>5, <2>1 DEF TypeOK, InsertLifecycleRow
    <2>3. rec' \in Round
      BY <1>b, <1>5 DEF InsertLifecycleRow, Round
    <2> QED BY <1>0, <1>5, <2>2, <2>3 DEF TypeInv, TypeOK, ReportParsed, InsertLifecycleRow
  <1>6. CASE FinishRound
    BY <1>0, <1>6, NoRoundType DEF TypeInv, TypeOK, ReportParsed, FinishRound
  <1>7. CASE RoundRaises
    <2>1. faults' \in 0 .. MaxFaults
      BY <1>0, <1>7 DEF RoundRaises, Fails, TypeOK
    <2> QED BY <1>0, <1>7, <2>1, NoRoundType
            DEF TypeInv, TypeOK, ReportParsed, RoundRaises, AfterRaise
  <1> QED BY <1>1, <1>2, <1>3, <1>4, <1>5, <1>6, <1>7 DEF ReconcileStep

\* The exchange's own steps and a restart keep every variable in its type.
LEMMA OtherStepType ==
    ASSUME TypeInv, ExchangeStep \/ Restart \/ UNCHANGED vars
    PROVE  TypeInv'
  <1> USE ConstantsAssumption
  <1>0. TypeOK /\ ReportParsed
    BY DEF TypeInv
  <1>1. ASSUME NEW d \in Decision, MatchOrder(d) PROVE TypeInv'
    <2>1. exchange[d] \in ExchangeOrder
      BY <1>0 DEF TypeOK
    <2> DEFINE x(m) == [exchange[d] EXCEPT
                          !.matched = m,
                          !.status = IF m = exchange[d].size
                                     THEN "EXECUTION_COMPLETE" ELSE "EXECUTABLE"]
    <2>2. PICK m \in exchange[d].matched + 1 .. exchange[d].size :
             exchange' = [exchange EXCEPT ![d] = x(m)]
      BY <1>1 DEF MatchOrder
    <2>3. m \in 0 .. MaxStake
      BY <2>1, <2>2 DEF ExchangeOrder
    <2>4. x(m) \in ExchangeOrder
      BY <2>1, <2>3 DEF ExchangeOrder
    <2> HIDE DEF x
    <2>5. exchange' \in [Decision -> ExchangeOrder]
      BY <1>0, <2>2, <2>4 DEF TypeOK
    <2> QED BY <1>0, <1>1, <2>5 DEF TypeInv, TypeOK, ReportParsed, MatchOrder
  <1>2. ASSUME NEW d \in Decision, CloseOrder(d) PROVE TypeInv'
    <2>1. exchange[d] \in ExchangeOrder
      BY <1>0 DEF TypeOK
    <2>2. PICK s \in ExchangeClosing :
             exchange' = [exchange EXCEPT ![d] = [@ EXCEPT !.status = s]]
      BY <1>2 DEF CloseOrder
    <2>3. [exchange[d] EXCEPT !.status = s] \in ExchangeOrder
      BY <2>1 DEF ExchangeOrder
    <2>4. exchange' \in [Decision -> ExchangeOrder]
      BY <1>0, <2>2, <2>3 DEF TypeOK
    <2> QED BY <1>0, <1>2, <2>4 DEF TypeInv, TypeOK, ReportParsed, CloseOrder
  <1>3. ASSUME NEW d \in Decision, ForgetOrder(d) PROVE TypeInv'
    <2>1. exchange' \in [Decision -> ExchangeOrder]
      BY <1>0, <1>3 DEF ForgetOrder, TypeOK, ExchangeOrder
    <2> QED BY <1>0, <1>3, <2>1 DEF TypeInv, TypeOK, ReportParsed, ForgetOrder
  <1>4. CASE Restart
    <2>1. faults' \in 0 .. MaxFaults
      BY <1>0, <1>4 DEF Restart, Fails, TypeOK
    <2> QED BY <1>0, <1>4, <2>1, NoRoundType
            DEF TypeInv, TypeOK, ReportParsed, Restart, Call, Idle
  <1>5. CASE UNCHANGED vars
    BY <1>0, <1>5 DEF TypeInv, TypeOK, ReportParsed, vars
  <1> QED BY <1>1, <1>2, <1>3, <1>4, <1>5 DEF ExchangeStep

\* The initial state is well typed.
LEMMA InitType == Init => TypeInv
  <1> USE ConstantsAssumption
  <1> SUFFICES ASSUME Init PROVE TypeInv
    OBVIOUS
  <1>1. NotPlaced \in ExchangeOrder
    BY DEF NotPlaced, ExchangeOrder
  <1> QED BY <1>1, NoRoundType DEF Init, TypeInv, TypeOK, ReportParsed, Call, Idle

LEMMA TypeInductive == TypeInv /\ [Next]_vars => TypeInv'
  BY CallStepType, ReconcileStepType, OtherStepType DEF Next

\* TypeOK is an invariant: whatever the order of calls, rounds, exchange steps,
\* failures and restarts, both tables hold well-formed rows (statuses of the
\* OrderStatus enum, fills with a positive delta) and both tasks a legal state.
THEOREM TypeCorrect == Spec => []TypeOK
  <1>1. TypeInv => TypeOK
    BY DEF TypeInv
  <1> QED BY InitType, TypeInductive, <1>1, PTL DEF Spec

-------------------------------------------------------------------------------
(* The rows of `orders` never overtake the exchange *)

\* The exchange's order y is the same order as x or a later state of it.
Forward(x, y) ==
    /\ x.matched <= y.matched
    /\ x.status # "NONE" => y.status # "NONE"
    /\ x.status \in ExchangeClosing => y.status = x.status /\ y.matched = x.matched

\* What an answer shows was true of the order x, or still is.
Seen(v, x) ==
    /\ v.matched <= x.matched
    /\ v.status # "NONE" => x.status # "NONE"
    /\ v.status \in ExchangeClosing => v.status = x.status /\ v.matched = x.matched

CallTruthful ==
    /\ call.pc = "replying" => Seen(call.view, exchange[call.ref])
    /\ call.pc = "recording" => RowTruthful(call.row, exchange[call.ref])
ViewsTruthful == \A r \in Decision : Seen(rec.cur[r], exchange[r])

\* The inductive strengthening of RowsTruthful: the answers both tasks still
\* carry, and the row a call is about to insert, are truthful as well.
TruthInv == TypeInv /\ RowsTruthful /\ CallTruthful /\ ViewsTruthful

\* What was true of an order stays true as the exchange moves it forward.
LEMMA ForwardKeepsTruth ==
    ASSUME NEW x \in ExchangeOrder, NEW y \in ExchangeOrder, Forward(x, y)
    PROVE  /\ \A row \in Row : RowTruthful(row, x) => RowTruthful(row, y)
           /\ \A v \in View : Seen(v, x) => Seen(v, y)
  <1> USE ConstantsAssumption
  <1>1. /\ x.matched \in Nat /\ y.matched \in Nat
        /\ x.status \in {"NONE", "EXECUTABLE"} \cup ExchangeClosing
    BY DEF ExchangeOrder
  <1>2. ASSUME NEW row \in Row, RowTruthful(row, x) PROVE RowTruthful(row, y)
    <2>1. row.matched \in Nat
      BY DEF Row
    <2>2. row.status \in ParsedClosing => x.status \in ExchangeClosing
      BY <1>1, <1>2 DEF RowTruthful, ParsedClosing
    <2> QED BY <1>1, <1>2, <2>1, <2>2 DEF RowTruthful, Forward
  <1>3. ASSUME NEW v \in View, Seen(v, x) PROVE Seen(v, y)
    <2>1. v.matched \in Nat
      BY DEF View
    <2> QED BY <1>1, <1>3, <2>1 DEF Seen, Forward
  <1> QED BY <1>2, <1>3

\* Every step of the system leaves every order as it was or moves it forward.
LEMMA ExchangeMovesForward ==
    ASSUME TypeOK, [Next]_vars
    PROVE  \A d \in Decision : Forward(exchange[d], exchange'[d])
  <1> USE ConstantsAssumption
  <1>0. /\ exchange \in [Decision -> ExchangeOrder]
        /\ \A d \in Decision : exchange[d] \in ExchangeOrder
        /\ \A x \in ExchangeOrder : x.matched \in Nat /\ Forward(x, x)
    BY DEF TypeOK, ExchangeOrder, Forward
  <1>1. CASE exchange' = exchange
    BY <1>0, <1>1
  <1>2. ASSUME NEW d \in Decision, NEW y, Forward(exchange[d], y),
               exchange' = [exchange EXCEPT ![d] = y]
        PROVE  \A e \in Decision : Forward(exchange[e], exchange'[e])
    BY <1>0, <1>2
  <1>3. CASE AcceptOrder
    <2>1. call.ref \in Decision /\ call.size \in 1 .. MaxStake
      BY <1>3, CallFields DEF TypeOK, AcceptOrder
    <2> DEFINE x(m) == [status |-> IF m = call.size THEN "EXECUTION_COMPLETE" ELSE "EXECUTABLE",
                        matched |-> m, size |-> call.size, listed |-> TRUE]
    <2>2. PICK m \in IF ImmediateMatch THEN 0 .. call.size ELSE {0} :
             exchange' = [exchange EXCEPT ![call.ref] = x(m)]
      BY <1>3 DEF AcceptOrder
    <2>3. Forward(NotPlaced, x(m))
      BY <2>1, <2>2 DEF Forward, NotPlaced
    <2>4. Forward(exchange[call.ref], x(m))
      BY <1>3, <2>3 DEF AcceptOrder
    <2> HIDE DEF x
    <2> QED BY <1>2, <2>1, <2>2, <2>4
  <1>4. ASSUME NEW d \in Decision, MatchOrder(d)
        PROVE  \A e \in Decision : Forward(exchange[e], exchange'[e])
    <2> DEFINE x(m) == [exchange[d] EXCEPT
                          !.matched = m,
                          !.status = IF m = exchange[d].size
                                     THEN "EXECUTION_COMPLETE" ELSE "EXECUTABLE"]
    <2>1. PICK m \in exchange[d].matched + 1 .. exchange[d].size :
             exchange' = [exchange EXCEPT ![d] = x(m)]
      BY <1>4 DEF MatchOrder
    <2>2. exchange[d].status = "EXECUTABLE" /\ exchange[d] \in ExchangeOrder
      BY <1>0, <1>4 DEF MatchOrder
    <2>3. Forward(exchange[d], x(m))
      BY <2>1, <2>2 DEF Forward, ExchangeOrder
    <2> HIDE DEF x
    <2> QED BY <1>2, <2>1, <2>3
  <1>5. ASSUME NEW d \in Decision, CloseOrder(d)
        PROVE  \A e \in Decision : Forward(exchange[e], exchange'[e])
    <2> DEFINE x(s) == [exchange[d] EXCEPT !.status = s]
    <2>1. PICK s \in ExchangeClosing : exchange' = [exchange EXCEPT ![d] = x(s)]
      BY <1>5 DEF CloseOrder
    <2>2. exchange[d].status = "EXECUTABLE" /\ exchange[d] \in ExchangeOrder
      BY <1>0, <1>5 DEF CloseOrder
    <2>3. Forward(exchange[d], x(s))
      BY <2>1, <2>2 DEF Forward, ExchangeOrder
    <2> HIDE DEF x
    <2> QED BY <1>2, <2>1, <2>3
  <1>6. ASSUME NEW d \in Decision, ForgetOrder(d)
        PROVE  \A e \in Decision : Forward(exchange[e], exchange'[e])
    <2> DEFINE x == [exchange[d] EXCEPT !.listed = FALSE]
    <2>1. exchange' = [exchange EXCEPT ![d] = x]
      BY <1>6 DEF ForgetOrder
    <2>2. exchange[d] \in ExchangeOrder
      BY <1>0
    <2>3. Forward(exchange[d], x)
      BY <2>2 DEF Forward, ExchangeOrder
    <2> HIDE DEF x
    <2> QED BY <1>2, <2>1, <2>3
  <1>7. \/ exchange' = exchange \/ AcceptOrder
        \/ \E d \in Decision : MatchOrder(d) \/ CloseOrder(d) \/ ForgetOrder(d)
    BY DEF Next, vars, CallStep, ReconcileStep, ExchangeStep, OnDecisionAllow,
           RetryDecision, RefuseOrder, ReceiveReport, PlaceOrdersRaises,
           RecordPlacement, RecordPlacementFails, FetchOpenOrders, ListCurrentOrders,
           PassOver, InsertFill, InsertLifecycleRow, FinishRound, RoundRaises, Restart
  <1> QED BY <1>1, <1>3, <1>4, <1>5, <1>6, <1>7

\* A row that a step inserts is truthful of the order as it is before the step.
LEMMA InsertedRowTruthful ==
    ASSUME TruthInv
    PROVE  /\ call.pc = "recording" => RowTruthful(call.row, exchange[call.ref])
           /\ \A r \in Decision : InsertLifecycleRow(r) =>
                 LifecycleRow(r) \in Row /\ RowTruthful(LifecycleRow(r), exchange[r])
  <1> USE ConstantsAssumption
  <1>1. call.pc = "recording" => RowTruthful(call.row, exchange[call.ref])
    BY DEF TruthInv, CallTruthful
  <1>2. ASSUME NEW r \in Decision, InsertLifecycleRow(r)
        PROVE  LifecycleRow(r) \in Row /\ RowTruthful(LifecycleRow(r), exchange[r])
    <2>1. /\ rec.cur[r] \in View /\ rec.prev[r].mode \in ExecutionMode
          /\ rec.cur[r].matched \in 0 .. MaxStake
      BY RoundFields DEF TruthInv, TypeInv
    <2>2. rec.cur[r].status \in OrderStatus /\ rec.cur[r].status # "NONE"
      BY <1>2 DEF InsertLifecycleRow, Parsed, Listed
    <2>3. rec.cur[r].status \in ParsedClosing => rec.cur[r].status \in ExchangeClosing
      BY <2>1 DEF View, ParsedClosing
    <2>4. Seen(rec.cur[r], exchange[r])
      BY DEF TruthInv, ViewsTruthful
    <2> QED BY <2>1, <2>2, <2>3, <2>4 DEF LifecycleRow, Row, RowTruthful, Seen
  <1> QED BY <1>1, <1>2

\* Every step leaves the rows of `orders` truthful of the order as it is now.
LEMMA RowsStep ==
    ASSUME TruthInv, TypeInv', [Next]_vars
    PROVE  RowsTruthful'
  <1> USE ConstantsAssumption
  <1>0. /\ TypeOK /\ RowsTruthful /\ orders \in [Decision -> Seq(Row)]
        /\ \A d \in Decision : exchange[d] \in ExchangeOrder /\ exchange'[d] \in ExchangeOrder
        /\ \A d \in Decision : Forward(exchange[d], exchange'[d])
    BY ExchangeMovesForward DEF TruthInv, TypeInv, TypeOK
  <1>1. ASSUME NEW d \in Decision, NEW i \in DOMAIN orders[d]
        PROVE  RowTruthful(orders[d][i], exchange'[d])
    <2>1. orders[d][i] \in Row /\ RowTruthful(orders[d][i], exchange[d])
      BY <1>0 DEF RowsTruthful
    <2> QED BY <1>0, <2>1, ForwardKeepsTruth
  <1>2. CASE orders' = orders
    BY <1>1, <1>2 DEF RowsTruthful
  <1>3. ASSUME NEW d \in Decision, NEW row \in Row, RowTruthful(row, exchange[d]),
               orders' = [orders EXCEPT ![d] = Append(@, row)]
        PROVE  RowsTruthful'
    <2>1. RowTruthful(row, exchange'[d])
      BY <1>0, <1>3, ForwardKeepsTruth
    <2> SUFFICES ASSUME NEW e \in Decision, NEW i \in DOMAIN orders'[e]
                 PROVE  RowTruthful(orders'[e][i], exchange'[e])
      BY DEF RowsTruthful
    <2>2. CASE e # d
      BY <1>0, <1>1, <1>3, <2>2
    <2>3. CASE e = d
      <3>1. orders'[d] = Append(orders[d], row) /\ orders[d] \in Seq(Row)
        BY <1>0, <1>3
      <3>2. \/ i \in DOMAIN orders[d] /\ orders'[d][i] = orders[d][i]
            \/ orders'[d][i] = row
        BY <2>3, <3>1, AppendFacts
      <3> QED BY <1>1, <2>1, <2>3, <3>2
    <2> QED BY <2>2, <2>3
  <1>4. CASE RecordPlacement
    <2>1. call.ref \in Decision /\ call.row \in Row
      BY <1>0, <1>4, CallFields DEF RecordPlacement, TypeOK
    <2>2. RowTruthful(call.row, exchange[call.ref])
      BY <1>4, InsertedRowTruthful DEF RecordPlacement
    <2> QED BY <1>3, <1>4, <2>1, <2>2 DEF RecordPlacement
  <1>5. ASSUME NEW r \in Decision, InsertLifecycleRow(r) PROVE RowsTruthful'
    <2>1. LifecycleRow(r) \in Row /\ RowTruthful(LifecycleRow(r), exchange[r])
      BY <1>5, InsertedRowTruthful
    <2> QED BY <1>3, <1>5, <2>1 DEF InsertLifecycleRow
  <1>6. \/ orders' = orders \/ RecordPlacement
        \/ \E r \in Decision : InsertLifecycleRow(r)
    BY DEF Next, vars, CallStep, ReconcileStep, ExchangeStep, OnDecisionAllow,
           RetryDecision, AcceptOrder, RefuseOrder, ReceiveReport, PlaceOrdersRaises,
           RecordPlacementFails, FetchOpenOrders, ListCurrentOrders, PassOver,
           InsertFill, FinishRound, RoundRaises, MatchOrder, CloseOrder,
           ForgetOrder, Restart
  <1> QED BY <1>2, <1>4, <1>5, <1>6

\* Every step leaves the call in flight with a truthful report or row.
LEMMA CallTruthStep ==
    ASSUME TruthInv, TypeInv', [Next]_vars
    PROVE  CallTruthful'
  <1> USE ConstantsAssumption
  <1>0. /\ TypeOK /\ CallTruthful /\ ReportParsed /\ exchange \in [Decision -> ExchangeOrder]
        /\ \A d \in Decision : exchange[d] \in ExchangeOrder /\ exchange'[d] \in ExchangeOrder
        /\ \A d \in Decision : Forward(exchange[d], exchange'[d])
    BY ExchangeMovesForward DEF TruthInv, TypeInv, TypeOK
  <1>1. CASE call' = call
    <2>1. call.pc = "replying" => call.ref \in Decision /\ call.view \in View
      BY <1>0, CallFields DEF TypeOK
    <2>2. call.pc = "recording" => call.ref \in Decision /\ call.row \in Row
      BY <1>0, CallFields DEF TypeOK
    <2> QED BY <1>0, <1>1, <2>1, <2>2, ForwardKeepsTruth DEF CallTruthful
  <1>2. CASE call' = Idle
    BY <1>2 DEF CallTruthful, Idle
  <1>3. ASSUME NEW d \in Decision, StartCall(d), exchange' = exchange
        PROVE  CallTruthful'
    <2>1. exchange[d] \in ExchangeOrder
      BY <1>0
    <2>2. RowTruthful(DryRunRow, exchange[d])
      BY <2>1 DEF RowTruthful, DryRunRow, ExchangeOrder, ParsedClosing
    <2> QED BY <1>3, <2>2 DEF StartCall, CallTruthful, Idle
  <1>4. CASE AcceptOrder
    <2>1. call.ref \in Decision /\ call.size \in 1 .. MaxStake
      BY <1>0, <1>4, CallFields DEF TypeOK, AcceptOrder
    <2> DEFINE x(m) == [status |-> IF m = call.size THEN "EXECUTION_COMPLETE" ELSE "EXECUTABLE",
                        matched |-> m, size |-> call.size, listed |-> TRUE]
    <2>2. PICK m \in IF ImmediateMatch THEN 0 .. call.size ELSE {0} :
             /\ exchange' = [exchange EXCEPT ![call.ref] = x(m)]
             /\ call' = [pc |-> "replying", ref |-> call.ref, success |-> TRUE,
                         view |-> ViewOf(x(m))]
      BY <1>4 DEF AcceptOrder
    <2>3. Seen(ViewOf(x(m)), x(m))
      BY <2>1, <2>2 DEF Seen, ViewOf
    <2> HIDE DEF x
    <2>4. exchange'[call.ref] = x(m)
      BY <1>0, <2>1, <2>2
    <2> QED BY <2>2, <2>3, <2>4 DEF CallTruthful
  <1>5. CASE RefuseOrder
    <2>1. call.ref \in Decision
      BY <1>0, <1>5, CallFields DEF TypeOK, RefuseOrder
    <2>2. Seen(NotListed, exchange[call.ref])
      BY <1>0, <2>1 DEF Seen, NotListed, ExchangeOrder
    <2> QED BY <1>5, <2>2 DEF RefuseOrder, CallTruthful
  <1>6. CASE ReceiveReport
    <2>1. /\ call.ref \in Decision /\ call.success \in BOOLEAN /\ call.view \in View
          /\ Seen(call.view, exchange[call.ref]) /\ exchange[call.ref] \in ExchangeOrder
      BY <1>0, <1>6, CallFields DEF TypeOK, ReceiveReport, CallTruthful
    <2>2. call.success => call.view.status \in {"EXECUTABLE", "EXECUTION_COMPLETE"}
      BY <1>0, <1>6 DEF ReceiveReport, ReportParsed
    <2>3. RowTruthful(PlacedRow(call.success, call.view), exchange[call.ref])
      BY <2>1, <2>2 DEF PlacedRow, ReportedStatus, RowTruthful, Seen, ParsedClosing
    <2> QED BY <1>6, <2>3 DEF ReceiveReport, CallTruthful
  <1>7. CASE PlaceOrdersRaises
    <2>1. call.ref \in Decision
      BY <1>0, <1>7, CallFields DEF TypeOK, PlaceOrdersRaises
    <2>2. RowTruthful(ErrorRow, exchange[call.ref])
      BY <1>0, <2>1 DEF RowTruthful, ErrorRow, ExchangeOrder, ParsedClosing
    <2> QED BY <1>7, <2>2 DEF PlaceOrdersRaises, CallTruthful
  <1>8. \/ call' = call \/ call' = Idle
        \/ \E d \in Decision : StartCall(d) /\ exchange' = exchange
        \/ AcceptOrder \/ RefuseOrder \/ ReceiveReport \/ PlaceOrdersRaises
    BY DEF Next, vars, CallStep, ReconcileStep, ExchangeStep, OnDecisionAllow,
           RetryDecision, RecordPlacement, RecordPlacementFails, FetchOpenOrders,
           ListCurrentOrders, PassOver, InsertFill, InsertLifecycleRow, FinishRound,
           RoundRaises, MatchOrder, CloseOrder, ForgetOrder, Restart
  <1> QED BY <1>1, <1>2, <1>3, <1>4, <1>5, <1>6, <1>7, <1>8

\* Every step leaves the listing of the round in flight truthful.
LEMMA ViewsTruthStep ==
    ASSUME TruthInv, TypeInv', [Next]_vars
    PROVE  ViewsTruthful'
  <1> USE ConstantsAssumption
  <1>0. /\ TypeOK /\ ViewsTruthful
        /\ \A d \in Decision : exchange[d] \in ExchangeOrder /\ exchange'[d] \in ExchangeOrder
        /\ \A d \in Decision : Forward(exchange[d], exchange'[d])
        /\ \A d \in Decision : rec.cur[d] \in View
    BY ExchangeMovesForward, RoundFields DEF TruthInv, TypeInv, TypeOK
  <1>1. CASE rec'.cur = rec.cur
    BY <1>0, <1>1, ForwardKeepsTruth DEF ViewsTruthful
  <1>2. CASE rec'.cur = [d \in Decision |-> NotListed]
    BY <1>0, <1>2 DEF ViewsTruthful, Seen, NotListed, ExchangeOrder
  <1>3. CASE ListCurrentOrders
    <2> SUFFICES ASSUME NEW d \in Decision PROVE Seen(rec'.cur[d], exchange'[d])
      BY DEF ViewsTruthful
    <2>1. rec'.cur[d] = IF d \in rec.todo /\ exchange[d].listed
                        THEN ViewOf(exchange[d]) ELSE NotListed
      BY <1>0, <1>3, RoundFields DEF ListCurrentOrders
    <2>2. exchange' = exchange
      BY <1>3 DEF ListCurrentOrders
    <2> QED BY <1>0, <2>1, <2>2 DEF Seen, ViewOf, NotListed, ExchangeOrder
  <1>4. \/ rec' = rec \/ rec' = NoRound \/ FetchOpenOrders \/ ListCurrentOrders
        \/ \E r \in Decision : PassOver(r) \/ InsertFill(r) \/ InsertLifecycleRow(r)
    BY DEF Next, vars, CallStep, ReconcileStep, ExchangeStep, OnDecisionAllow,
           RetryDecision, AcceptOrder, RefuseOrder, ReceiveReport, PlaceOrdersRaises,
           RecordPlacement, RecordPlacementFails, FinishRound, RoundRaises, AfterRaise,
           MatchOrder, CloseOrder, ForgetOrder, Restart
  <1>5. rec = [pc |-> rec.pc, todo |-> rec.todo, half |-> rec.half,
               prev |-> rec.prev, cur |-> rec.cur]
    BY <1>0, RoundFields
  <1>6. ASSUME NEW r \in Decision, PassOver(r) \/ InsertFill(r) \/ InsertLifecycleRow(r)
        PROVE  rec'.cur = rec.cur
    BY <1>5, <1>6 DEF PassOver, InsertFill, InsertLifecycleRow
  <1>7. CASE FetchOpenOrders
    BY <1>2, <1>7 DEF FetchOpenOrders, NoRound
  <1>8. CASE rec' = NoRound
    BY <1>2, <1>8 DEF NoRound
  <1> QED BY <1>1, <1>3, <1>4, <1>6, <1>7, <1>8

LEMMA TruthInductive == TruthInv /\ [Next]_vars => TruthInv'
  <1> SUFFICES ASSUME TruthInv, [Next]_vars PROVE TruthInv'
    OBVIOUS
  <1>1. TypeInv'
    BY TypeInductive DEF TruthInv
  <1> QED BY <1>1, RowsStep, CallTruthStep, ViewsTruthStep DEF TruthInv

LEMMA InitTruth == Init => TruthInv
  <1> USE ConstantsAssumption
  <1> SUFFICES ASSUME Init PROVE TruthInv
    OBVIOUS
  <1>1. RowsTruthful /\ CallTruthful
    BY DEF Init, RowsTruthful, CallTruthful, Idle
  <1>2. ViewsTruthful
    BY DEF Init, ViewsTruthful, NoRound, NotListed, NotPlaced, Seen
  <1> QED BY <1>1, <1>2, InitType DEF TruthInv

\* RowsTruthful is an invariant, whatever is matched, closed, lost, repeated by
\* hand, restarted or forgotten in between: no row of `orders` overtakes the
\* exchange, and a row that closes an order has its final status and size.
THEOREM RowsAreTruthful == Spec => []RowsTruthful
  <1>1. TruthInv => RowsTruthful
    BY DEF TruthInv
  <1> QED BY InitTruth, TruthInductive, <1>1, PTL DEF Spec
===============================================================================
