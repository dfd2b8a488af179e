--------------------------- MODULE OrderFills_proofs ---------------------------
(***************************************************************************)
(* Theorems about what the tables `orders` and `fills` say together, and   *)
(* that OrderLifecycle implements OrderAudit, for every value of the       *)
(* constants of OrderLifecycle.                                            *)
(***************************************************************************)
EXTENDS OrderLifecycle_proofs

-------------------------------------------------------------------------------
(* What a step does to the tables *)

\* The fill of the round in flight for order r.
RoundFill(r) == [delta |-> MatchedDelta(r), cumulative |-> rec.cur[r].matched]

\* A step leaves the rows of an order alone, or appends the row of the call in
\* flight or that of the round in flight.
LEMMA OrdersStep ==
    ASSUME TypeInv, [Next]_vars, NEW d \in Decision
    PROVE  \/ orders'[d] = orders[d]
           \/ /\ RecordPlacement /\ d = call.ref /\ call.row \in Row
              /\ orders'[d] = Append(orders[d], call.row)
           \/ /\ InsertLifecycleRow(d) /\ LifecycleRow(d) \in Row
              /\ orders'[d] = Append(orders[d], LifecycleRow(d))
  <1>0. TypeOK /\ orders \in [Decision -> Seq(Row)]
    BY DEF TypeInv, TypeOK
  <1>1. CASE orders' = orders
    BY <1>1
  <1>2. CASE RecordPlacement
    <2>1. call.ref \in Decision /\ call.row \in Row
      BY <1>0, <1>2, CallFields DEF RecordPlacement, TypeOK
    <2> QED BY <1>0, <1>2, <2>1 DEF RecordPlacement
  <1>3. ASSUME NEW r \in Decision, InsertLifecycleRow(r)
        PROVE  \/ orders'[d] = orders[d]
               \/ /\ InsertLifecycleRow(d) /\ LifecycleRow(d) \in Row
                  /\ orders'[d] = Append(orders[d], LifecycleRow(d))
    <2>1. LifecycleRow(r) \in Row
      BY <1>0, <1>3, RoundFields DEF InsertLifecycleRow, LifecycleRow, Parsed, Row
    <2>2. orders' = [orders EXCEPT ![r] = Append(@, LifecycleRow(r))]
      BY <1>3 DEF InsertLifecycleRow
    <2>3. CASE d = r
      BY <1>0, <1>3, <2>1, <2>2, <2>3
    <2>4. CASE d # r
      BY <1>0, <2>2, <2>4
    <2> QED BY <2>3, <2>4
  <1>4. \/ orders' = orders \/ RecordPlacement
        \/ \E r \in Decision : InsertLifecycleRow(r)
    BY DEF Next, vars, CallStep, ReconcileStep, ExchangeStep, OnDecisionAllow,
           RetryDecision, AcceptOrder, RefuseOrder, ReceiveReport, PlaceOrdersRaises,
           RecordPlacementFails, FetchOpenOrders, ListCurrentOrders, PassOver,
           InsertFill, FinishRound, RoundRaises, MatchOrder, CloseOrder,
           ForgetOrder, Restart
  <1> QED BY <1>1, <1>2, <1>3, <1>4

\* A step leaves the fills of an order alone or appends that of the round.
LEMMA FillsStep ==
    ASSUME TypeInv, [Next]_vars, NEW d \in Decision
    PROVE  \/ fills'[d] = fills[d]
           \/ /\ InsertFill(d) /\ RoundFill(d) \in Fill
              /\ fills'[d] = Append(fills[d], RoundFill(d))
  <1>0. TypeOK /\ fills \in [Decision -> Seq(Fill)]
    BY DEF TypeInv, TypeOK
  <1>1. ASSUME NEW r \in Decision, InsertFill(r)
        PROVE  \/ fills'[d] = fills[d]
               \/ /\ InsertFill(d) /\ RoundFill(d) \in Fill
                  /\ fills'[d] = Append(fills[d], RoundFill(d))
    <2>1. RoundFill(r) \in Fill
      BY <1>0, <1>1, RoundFields, ConstantsAssumption
      DEF InsertFill, MatchedDelta, Fill, RoundFill
    <2>2. fills' = [fills EXCEPT ![r] = Append(@, RoundFill(r))]
      BY <1>1 DEF InsertFill, RoundFill
    <2>3. CASE d = r
      BY <1>0, <1>1, <2>1, <2>2, <2>3
    <2>4. CASE d # r
      BY <1>0, <2>2, <2>4
    <2> QED BY <2>3, <2>4
  <1>2. fills' = fills \/ \E r \in Decision : InsertFill(r)
    BY DEF Next, vars, CallStep, ReconcileStep, ExchangeStep, OnDecisionAllow,
           RetryDecision, AcceptOrder, RefuseOrder, ReceiveReport, PlaceOrdersRaises,
           RecordPlacement, RecordPlacementFails, FetchOpenOrders, ListCurrentOrders,
           PassOver, InsertLifecycleRow, FinishRound, RoundRaises, MatchOrder,
           CloseOrder, ForgetOrder, Restart
  <1> QED BY <1>1, <1>2

\* Both tables are append-only.
LEMMA TablesGrow ==
    ASSUME TypeInv, [Next]_vars, NEW d \in Decision
    PROVE  /\ \A i \in DOMAIN orders[d] :
                i \in DOMAIN orders'[d] /\ orders'[d][i] = orders[d][i]
           /\ \A k \in DOMAIN fills[d] :
                k \in DOMAIN fills'[d] /\ fills'[d][k] = fills[d][k]
  <1>1. orders[d] \in Seq(Row) /\ fills[d] \in Seq(Fill)
    BY DEF TypeInv, TypeOK
  <1>2. \A i \in DOMAIN orders[d] :
           i \in DOMAIN orders'[d] /\ orders'[d][i] = orders[d][i]
    <2>1. ASSUME NEW row \in Row, orders'[d] = Append(orders[d], row)
          PROVE  \A i \in DOMAIN orders[d] :
                    i \in DOMAIN orders'[d] /\ orders'[d][i] = orders[d][i]
      BY <1>1, <2>1, AppendFacts
    <2> QED BY <2>1, OrdersStep
  <1>3. \A k \in DOMAIN fills[d] :
           k \in DOMAIN fills'[d] /\ fills'[d][k] = fills[d][k]
    <2>1. ASSUME NEW f \in Fill, fills'[d] = Append(fills[d], f)
          PROVE  \A k \in DOMAIN fills[d] :
                    k \in DOMAIN fills'[d] /\ fills'[d][k] = fills[d][k]
      BY <1>1, <2>1, AppendFacts
    <2> QED BY <2>1, FillsStep
  <1> QED BY <1>2, <1>3

\* What a step does to the round in flight.
LEMMA RoundStep ==
    ASSUME TypeInv, [Next]_vars
    PROVE  \/ rec' = rec
           \/ rec'.pc = "idle" /\ rec'.todo = {} /\ rec'.half = {}
           \/ /\ FetchOpenOrders /\ mode = "paper" /\ rec'.pc = "listing"
              /\ rec'.todo = OpenOrders("paper") /\ rec'.half = {}
              /\ \A d \in rec'.todo : rec'.prev[d] = Latest(d, "paper")
           \/ /\ ListCurrentOrders /\ rec.pc = "listing" /\ rec'.pc = "applying"
              /\ rec'.todo = rec.todo /\ rec'.half = rec.half /\ rec'.prev = rec.prev
              /\ \A d \in rec.todo :
                    rec'.cur[d] = IF exchange[d].listed THEN ViewOf(exchange[d])
                                                        ELSE NotListed
           \/ \E r \in rec.todo :
                 /\ rec.pc = "applying" /\ rec.half \subseteq {r}
                 /\ rec'.pc = rec.pc /\ rec'.prev = rec.prev /\ rec'.cur = rec.cur
                 /\ \/ PassOver(r) /\ rec'.todo = rec.todo \ {r} /\ rec'.half = rec.half
                    \/ InsertFill(r) /\ rec'.todo = rec.todo /\ rec'.half = {r}
                    \/ InsertLifecycleRow(r) /\ rec'.todo = rec.todo \ {r} /\ rec'.half = {}
  <1>0. TypeOK
    BY DEF TypeInv
  <1>1. /\ rec = [pc |-> rec.pc, todo |-> rec.todo, half |-> rec.half,
                  prev |-> rec.prev, cur |-> rec.cur]
        /\ rec.todo \subseteq Decision
    BY <1>0, RoundFields
  <1>2. CASE FetchOpenOrders
    <2> DEFINE prev == [d \in Decision |->
                          IF d \in OpenOrders(mode) THEN Latest(d, mode) ELSE NoRow]
    <2>1. mode = "paper" /\ OpenOrders("paper") \subseteq Decision
      BY <1>2 DEF FetchOpenOrders, OpenOrders
    <2>2. \A d \in OpenOrders("paper") : prev[d] = Latest(d, "paper")
      BY <2>1
    <2>3. rec' = [NoRound EXCEPT !.pc = "listing", !.todo = OpenOrders(mode), !.prev = prev]
      BY <1>2 DEF FetchOpenOrders
    <2> HIDE DEF prev
    <2> QED BY <1>2, <2>1, <2>2, <2>3 DEF NoRound
  <1>3. CASE ListCurrentOrders
    <2> DEFINE cur == [d \in Decision |-> IF d \in rec.todo /\ exchange[d].listed
                                         THEN ViewOf(exchange[d]) ELSE NotListed]
    <2>1. rec' = [rec EXCEPT !.pc = "applying", !.cur = cur] /\ rec.pc = "listing"
      BY <1>3 DEF ListCurrentOrders
    <2>2. \A d \in rec.todo : cur[d] = IF exchange[d].listed THEN ViewOf(exchange[d])
                                                             ELSE NotListed
      BY <1>1
    <2> HIDE DEF cur
    <2> QED BY <1>1, <1>3, <2>1, <2>2
  <1>4. CASE rec' = NoRound
    BY <1>4 DEF NoRound
  <1>5. ASSUME NEW r \in Decision, PassOver(r) \/ InsertFill(r) \/ InsertLifecycleRow(r)
        PROVE  /\ r \in rec.todo /\ rec.pc = "applying" /\ rec.half \subseteq {r}
               /\ rec'.pc = rec.pc /\ rec'.prev = rec.prev /\ rec'.cur = rec.cur
               /\ \/ PassOver(r) /\ rec'.todo = rec.todo \ {r} /\ rec'.half = rec.half
                  \/ InsertFill(r) /\ rec'.todo = rec.todo /\ rec'.half = {r}
                  \/ InsertLifecycleRow(r) /\ rec'.todo = rec.todo \ {r} /\ rec'.half = {}
    BY <1>1, <1>5 DEF PassOver, InsertFill, InsertLifecycleRow, Current
  <1>6. \/ rec' = rec \/ rec' = NoRound \/ FetchOpenOrders \/ ListCurrentOrders
        \/ \E r \in Decision : PassOver(r) \/ InsertFill(r) \/ InsertLifecycleRow(r)
    BY DEF Next, vars, CallStep, ReconcileStep, ExchangeStep, OnDecisionAllow,
           RetryDecision, AcceptOrder, RefuseOrder, ReceiveReport, PlaceOrdersRaises,
           RecordPlacement, RecordPlacementFails, FinishRound, RoundRaises, AfterRaise,
           MatchOrder, CloseOrder, ForgetOrder, Restart
  <1>7. CASE \E r \in Decision : PassOver(r) \/ InsertFill(r) \/ InsertLifecycleRow(r)
    <2>1. PICK r \in Decision : PassOver(r) \/ InsertFill(r) \/ InsertLifecycleRow(r)
      BY <1>7
    <2> QED BY <1>5, <2>1
  <1> QED BY <1>2, <1>3, <1>4, <1>6, <1>7

-------------------------------------------------------------------------------
(* The orders a round works on *)

\* An order of the round has an open row in paper mode, the one the round read,
\* and the only order whose row may be missing is one the listing gives a fill.
RoundInv ==
    /\ rec.pc = "idle" => rec.todo = {}
    /\ \A r \in rec.todo :
          /\ IsOpen(rec.prev[r]) /\ rec.prev[r].mode = "paper"
          /\ \E i \in DOMAIN orders[r] : orders[r][i] = rec.prev[r]
    /\ \A r \in rec.half : /\ rec.pc = "applying" /\ r \in rec.todo
                           /\ Listed(r) /\ Parsed(r) /\ MatchedDelta(r) > 0

\* An order that is fetched has an open row of paper mode among its rows.
LEMMA FetchedHasRow ==
    ASSUME TypeInv, NEW d \in Decision, IsOpen(Latest(d, "paper"))
    PROVE  \E i \in DOMAIN orders[d] :
              orders[d][i] = Latest(d, "paper") /\ orders[d][i].mode = "paper"
  <1>1. orders[d] \in Seq(Row)
    BY DEF TypeInv, TypeOK
  <1>2. ~IsOpen(NoRow)
    BY DEF IsOpen, NoRow
  <1> QED BY <1>1, <1>2, LastInIsRow DEF Latest

LEMMA RoundInvStep ==
    ASSUME TypeInv, RoundInv, [Next]_vars
    PROVE  RoundInv'
  <1>0. rec.todo \subseteq Decision /\ rec.half \subseteq Decision
    BY RoundFields DEF TypeInv
  <1>1. ASSUME NEW r \in rec.todo
        PROVE  \E i \in DOMAIN orders'[r] : orders'[r][i] = rec.prev[r]
    BY <1>0, TablesGrow DEF RoundInv
  <1>2. CASE rec' = rec
    <2>1. \A r : Listed(r)' = Listed(r) /\ Parsed(r)' = Parsed(r)
                 /\ MatchedDelta(r)' = MatchedDelta(r)
      BY <1>2 DEF Listed, Parsed, MatchedDelta
    <2> QED BY <1>1, <1>2, <2>1 DEF RoundInv
  <1>3. CASE rec'.pc = "idle" /\ rec'.todo = {} /\ rec'.half = {}
    BY <1>3 DEF RoundInv
  <1>4. CASE /\ FetchOpenOrders /\ mode = "paper" /\ rec'.pc = "listing"
             /\ rec'.todo = OpenOrders("paper") /\ rec'.half = {}
             /\ \A d \in rec'.todo : rec'.prev[d] = Latest(d, "paper")
    <2>1. orders' = orders
      BY <1>4 DEF FetchOpenOrders
    <2>2. \A r \in rec'.todo : r \in Decision /\ IsOpen(Latest(r, "paper"))
      BY <1>4 DEF OpenOrders
    <2> QED BY <1>4, <2>1, <2>2, FetchedHasRow DEF RoundInv
  <1>5. CASE /\ ListCurrentOrders /\ rec.pc = "listing" /\ rec'.pc = "applying"
             /\ rec'.todo = rec.todo /\ rec'.half = rec.half /\ rec'.prev = rec.prev
    <2>1. rec.half = {}
      BY <1>5 DEF RoundInv
    <2> QED BY <1>1, <1>5, <2>1 DEF RoundInv
  <1>6. ASSUME NEW r \in rec.todo,
               rec.pc = "applying", rec.half \subseteq {r},
               rec'.pc = rec.pc, rec'.prev = rec.prev, rec'.cur = rec.cur,
               \/ PassOver(r) /\ rec'.todo = rec.todo \ {r} /\ rec'.half = rec.half
               \/ InsertFill(r) /\ rec'.todo = rec.todo /\ rec'.half = {r}
               \/ InsertLifecycleRow(r) /\ rec'.todo = rec.todo \ {r} /\ rec'.half = {}
        PROVE  RoundInv'
    <2>1. \A x : Listed(x)' = Listed(x) /\ Parsed(x)' = Parsed(x)
                 /\ MatchedDelta(x)' = MatchedDelta(x)
      BY <1>6 DEF Listed, Parsed, MatchedDelta
    <2>2. /\ rec'.pc = "idle" => rec'.todo = {}
          /\ \A x \in rec'.todo :
                /\ IsOpen(rec'.prev[x]) /\ rec'.prev[x].mode = "paper"
                /\ \E i \in DOMAIN orders'[x] : orders'[x][i] = rec'.prev[x]
      BY <1>1, <1>6 DEF RoundInv
    <2>3. CASE PassOver(r) /\ rec'.todo = rec.todo \ {r} /\ rec'.half = rec.half
      <3>1. /\ rec.prev[r].matched \in 0 .. MaxStake /\ rec.cur[r].matched \in 0 .. MaxStake
        BY <1>0, RoundFields DEF TypeInv
      <3>2. Listed(r) => ~(MatchedDelta(r) > 0)
        BY <2>3, <3>1, ConstantsAssumption DEF PassOver, MatchedDelta
      <3>3. rec.half = {}
        BY <1>6, <3>2 DEF RoundInv
      <3> QED BY <2>2, <2>3, <3>3 DEF RoundInv
    <2>4. CASE InsertFill(r) /\ rec'.todo = rec.todo /\ rec'.half = {r}
      <3>1. Listed(r) /\ Parsed(r) /\ MatchedDelta(r) > 0
        BY <2>4 DEF InsertFill
      <3> QED BY <1>6, <2>1, <2>2, <2>4, <3>1 DEF RoundInv
    <2>5. CASE InsertLifecycleRow(r) /\ rec'.todo = rec.todo \ {r} /\ rec'.half = {}
      BY <2>2, <2>5 DEF RoundInv
    <2> QED BY <1>6, <2>3, <2>4, <2>5
  <1> QED BY <1>2, <1>3, <1>4, <1>5, <1>6, RoundStep

-------------------------------------------------------------------------------
(* One placement of an order *)

\* The row of an order the exchange took.
Placement(row) == row.type = "PLACED" /\ row.status # "ERROR" /\ row.mode = "paper"
Placed(d) == \E i \in DOMAIN orders[d] : Placement(orders[d][i])

\* A row that says nothing of the exchange: a dry run or an error.
Silent(row) == row.matched = 0 /\ (row.mode = "dry_run" \/ row.status = "ERROR")

\* The exchange takes an order that has no placement yet, so the report or row of
\* an accepted order is the first; every other row of a call is silent.
CallInv ==
    /\ call.pc = "replying" /\ ~call.success => call.view = NotListed
    /\ call.pc = "replying" /\ call.success =>
          ~Placed(call.ref) /\ exchange[call.ref].status # "NONE"
    /\ call.pc = "recording" =>
          /\ call.row.type # "LIFECYCLE"
          /\ \/ Silent(call.row)
             \/ /\ Placement(call.row) /\ ~Placed(call.ref)
                /\ exchange[call.ref].status # "NONE"

\* Whatever is not silent comes after the placement.
PlacedInv ==
    \A d \in Decision :
        /\ \A i \in DOMAIN orders[d] : Silent(orders[d][i]) \/ Placed(d)
        /\ fills[d] # <<>> => Placed(d)
        /\ Placed(d) => exchange[d].status # "NONE"

IdempotenceInv == RoundInv /\ CallInv /\ PlacedInv /\ PlacementIsIdempotent

\* Every order of the round in flight is placed.
LEMMA FetchedIsPlaced ==
    ASSUME RoundInv, PlacedInv, NEW r \in rec.todo, r \in Decision
    PROVE  Placed(r)
  <1>1. PICK i \in DOMAIN orders[r] : orders[r][i] = rec.prev[r]
    BY DEF RoundInv
  <1>2. ~Silent(rec.prev[r])
    BY DEF RoundInv, IsOpen, Silent
  <1> QED BY <1>1, <1>2 DEF PlacedInv

\* A placement stays, and only the call in flight adds one.
LEMMA PlacedStep ==
    ASSUME TypeInv, [Next]_vars, NEW d \in Decision
    PROVE  /\ Placed(d) => Placed(d)'
           /\ Placed(d)' => \/ Placed(d)
                            \/ RecordPlacement /\ d = call.ref /\ Placement(call.row)
  <1>1. Placed(d) => Placed(d)'
    BY TablesGrow DEF Placed
  <1>2. orders[d] \in Seq(Row)
    BY DEF TypeInv, TypeOK
  <1>3. ASSUME NEW row \in Row, orders'[d] = Append(orders[d], row), Placed(d)'
        PROVE  Placed(d) \/ Placement(row)
    <2>1. PICK i \in DOMAIN orders'[d] : Placement(orders'[d][i])
      BY <1>3 DEF Placed
    <2> QED BY <1>2, <1>3, <2>1, AppendFacts DEF Placed
  <1>4. ~Placement(LifecycleRow(d))
    BY DEF Placement, LifecycleRow
  <1>5. orders'[d] = orders[d] /\ Placed(d)' => Placed(d)
    BY DEF Placed
  <1> QED BY <1>1, <1>3, <1>4, <1>5, OrdersStep

LEMMA PlacedInvStep ==
    ASSUME TypeInv, IdempotenceInv, [Next]_vars
    PROVE  PlacedInv'
  <1>0. /\ TypeOK /\ RoundInv /\ CallInv /\ PlacedInv
        /\ orders \in [Decision -> Seq(Row)] /\ fills \in [Decision -> Seq(Fill)]
        /\ rec.todo \subseteq Decision
    BY RoundFields DEF TypeInv, TypeOK, IdempotenceInv
  <1> SUFFICES ASSUME NEW d \in Decision
               PROVE  /\ \A i \in DOMAIN orders'[d] : Silent(orders'[d][i]) \/ Placed(d)'
                      /\ fills'[d] # <<>> => Placed(d)'
                      /\ Placed(d)' => exchange'[d].status # "NONE"
    BY DEF PlacedInv
  <1>1. ASSUME NEW r \in rec.todo PROVE Placed(r) /\ Placed(r)'
    BY <1>0, <1>1, FetchedIsPlaced, PlacedStep
  <1>2. \A i \in DOMAIN orders'[d] : Silent(orders'[d][i]) \/ Placed(d)'
    <2>1. \A i \in DOMAIN orders[d] : Silent(orders[d][i]) \/ Placed(d)'
      BY <1>0, PlacedStep DEF PlacedInv
    <2>2. CASE orders'[d] = orders[d]
      BY <2>1, <2>2
    <2>3. ASSUME NEW row \in Row, orders'[d] = Append(orders[d], row)
          PROVE  \A i \in DOMAIN orders'[d] : \/ i \in DOMAIN orders[d]
                                                  /\ orders'[d][i] = orders[d][i]
                                              \/ orders'[d][i] = row
      BY <1>0, <2>3, AppendFacts
    <2>4. CASE /\ RecordPlacement /\ d = call.ref /\ call.row \in Row
               /\ orders'[d] = Append(orders[d], call.row)
      <3>1. Silent(call.row) \/ Placement(call.row)
        BY <1>0, <2>4 DEF CallInv, RecordPlacement
      <3>2. Len(orders[d]) + 1 \in DOMAIN orders'[d]
            /\ orders'[d][Len(orders[d]) + 1] = call.row
        BY <1>0, <2>4, AppendFacts
      <3>3. Placement(call.row) => Placed(d)'
        BY <3>2 DEF Placed
      <3> QED BY <2>1, <2>3, <2>4, <3>1, <3>3
    <2>5. CASE InsertLifecycleRow(d)
      BY <1>1, <2>5 DEF InsertLifecycleRow, Current
    <2> QED BY <2>2, <2>4, <2>5, OrdersStep
  <1>3. fills'[d] # <<>> => Placed(d)'
    <2>1. CASE fills'[d] = fills[d]
      BY <1>0, <2>1, PlacedStep DEF PlacedInv
    <2>2. CASE InsertFill(d)
      BY <1>1, <2>2 DEF InsertFill, Current
    <2> QED BY <2>1, <2>2, FillsStep
  <1>4. Placed(d)' => exchange'[d].status # "NONE"
    <2>1. exchange[d].status # "NONE" => exchange'[d].status # "NONE"
      BY <1>0, ExchangeMovesForward DEF Forward
    <2>2. Placed(d) => exchange[d].status # "NONE"
      BY <1>0 DEF PlacedInv
    <2>3. RecordPlacement /\ d = call.ref /\ Placement(call.row)
             => exchange[d].status # "NONE"
      BY <1>0 DEF CallInv, RecordPlacement, Silent, Placement
    <2> QED BY <2>1, <2>2, <2>3, PlacedStep
  <1> QED BY <1>2, <1>3, <1>4

LEMMA CallInvStep ==
    ASSUME TypeInv, IdempotenceInv, [Next]_vars
    PROVE  CallInv'
  <1>0. /\ TypeOK /\ ReportParsed /\ CallInv /\ PlacedInv
        /\ exchange \in [Decision -> ExchangeOrder]
        /\ \A d \in Decision : Forward(exchange[d], exchange'[d])
    BY ExchangeMovesForward DEF TypeInv, TypeOK, IdempotenceInv
  <1>1. CASE call' = call
    <2>1. CASE call.pc \notin {"replying", "recording"}
      BY <1>1, <2>1 DEF CallInv
    <2>2. CASE call.pc \in {"replying", "recording"}
      <3>1. PICK c \in Decision : c = call.ref
        BY <1>0, <2>2, CallFields DEF TypeOK
      <3>2. ~RecordPlacement
        BY <1>1 DEF RecordPlacement, Idle
      <3>3. Placed(c)' => Placed(c)
        BY <3>2, PlacedStep
      <3>4. exchange[c].status # "NONE" => exchange'[c].status # "NONE"
        BY <1>0 DEF Forward
      <3> QED BY <1>0, <1>1, <3>1, <3>3, <3>4 DEF CallInv, Placed
    <2> QED BY <2>1, <2>2
  <1>2. CASE call' = Idle
    BY <1>2 DEF CallInv, Idle
  <1>3. ASSUME NEW d \in Decision, StartCall(d)
        PROVE  CallInv'
    BY <1>3 DEF StartCall, CallInv, Idle, Silent, DryRunRow
  <1>4. CASE AcceptOrder
    <2>1. call.ref \in Decision /\ call.size \in 1 .. MaxStake
      BY <1>0, <1>4, CallFields DEF TypeOK, AcceptOrder
    <2> DEFINE x(m) == [status |-> IF m = call.size THEN "EXECUTION_COMPLETE" ELSE "EXECUTABLE",
                        matched |-> m, size |-> call.size, listed |-> TRUE]
    <2>2. PICK m \in IF ImmediateMatch THEN 0 .. call.size ELSE {0} :
             /\ exchange' = [exchange EXCEPT ![call.ref] = x(m)]
             /\ call' = [pc |-> "replying", ref |-> call.ref, success |-> TRUE,
                         view |-> ViewOf(x(m))]
      BY <1>4 DEF AcceptOrder
    <2>3. x(m).status # "NONE"
      OBVIOUS
    <2> HIDE DEF x
    <2>4. exchange'[call.ref] = x(m)
      BY <1>0, <2>1, <2>2
    <2>5. ~Placed(call.ref)
      BY <1>0, <1>4, <2>1 DEF PlacedInv, AcceptOrder, NotPlaced
    <2>6. ~Placed(call.ref)'
      BY <1>4, <2>5 DEF AcceptOrder, Placed
    <2> QED BY <2>2, <2>3, <2>4, <2>6 DEF CallInv, Placed
  <1>5. CASE RefuseOrder
    BY <1>5 DEF RefuseOrder, CallInv
  <1>6. CASE ReceiveReport
    <2>1. /\ call.pc = "replying" /\ call.success \in BOOLEAN /\ call.ref \in Decision
          /\ orders' = orders /\ exchange' = exchange
          /\ call' = [pc |-> "recording", ref |-> call.ref,
                      row |-> PlacedRow(call.success, call.view)]
      BY <1>0, <1>6, CallFields DEF TypeOK, ReceiveReport
    <2>2. CASE call.success
      <3>1. call.view.status \in {"EXECUTABLE", "EXECUTION_COMPLETE"}
        BY <1>0, <2>1, <2>2 DEF ReportParsed
      <3>2. Placement(PlacedRow(call.success, call.view))
        BY <2>2, <3>1 DEF Placement, PlacedRow, ReportedStatus
      <3>3. ~Placed(call.ref) /\ exchange[call.ref].status # "NONE"
        BY <1>0, <2>1, <2>2 DEF CallInv
      <3> QED BY <2>1, <3>2, <3>3 DEF CallInv, Placed, PlacedRow
    <2>3. CASE ~call.success
      <3>1. Silent(PlacedRow(call.success, call.view))
        BY <1>0, <2>1, <2>3 DEF CallInv, NotListed, PlacedRow, ReportedStatus, Silent
      <3> QED BY <2>1, <3>1 DEF CallInv, PlacedRow
    <2> QED BY <2>1, <2>2, <2>3
  <1>7. CASE PlaceOrdersRaises
    BY <1>7 DEF PlaceOrdersRaises, CallInv, Silent, ErrorRow
  <1>8. \/ call' = call \/ call' = Idle
        \/ \E d \in Decision : StartCall(d)
        \/ AcceptOrder \/ RefuseOrder \/ ReceiveReport \/ PlaceOrdersRaises
    BY DEF Next, vars, CallStep, ReconcileStep, ExchangeStep, OnDecisionAllow,
           RetryDecision, RecordPlacement, RecordPlacementFails, FetchOpenOrders,
           ListCurrentOrders, PassOver, InsertFill, InsertLifecycleRow, FinishRound,
           RoundRaises, MatchOrder, CloseOrder, ForgetOrder, Restart
  <1> QED BY <1>1, <1>2, <1>3, <1>4, <1>5, <1>6, <1>7, <1>8

\* The property, per order.
OnePlacement(d) ==
    \A i, j \in DOMAIN orders[d] :
        Placement(orders[d][i]) /\ Placement(orders[d][j]) => i = j

LEMMA IdempotentIsOnePlacement ==
    PlacementIsIdempotent <=> \A d \in Decision : OnePlacement(d)
  BY DEF PlacementIsIdempotent, OnePlacement, Placement

LEMMA OnePlacementStep ==
    ASSUME TypeInv, IdempotenceInv, [Next]_vars, NEW d \in Decision
    PROVE  OnePlacement(d)'
  <1>0. /\ OnePlacement(d) /\ CallInv /\ orders[d] \in Seq(Row)
    BY IdempotentIsOnePlacement DEF TypeInv, TypeOK, IdempotenceInv
  <1>1. CASE orders'[d] = orders[d]
    BY <1>0, <1>1 DEF OnePlacement
  <1>2. ASSUME NEW row \in Row, orders'[d] = Append(orders[d], row),
               Placement(row) => ~Placed(d)
        PROVE  OnePlacement(d)'
    <2>1. \A i \in DOMAIN orders'[d] :
             \/ i \in DOMAIN orders[d] /\ orders'[d][i] = orders[d][i]
             \/ i = Len(orders[d]) + 1 /\ orders'[d][i] = row
      BY <1>0, <1>2, AppendFacts
    <2>2. Placement(row) => \A i \in DOMAIN orders[d] : ~Placement(orders[d][i])
      BY <1>2 DEF Placed
    <2> QED BY <1>0, <2>1, <2>2 DEF OnePlacement
  <1>3. CASE /\ RecordPlacement /\ d = call.ref /\ call.row \in Row
             /\ orders'[d] = Append(orders[d], call.row)
    <2>1. Placement(call.row) => ~Placed(d)
      BY <1>0, <1>3 DEF CallInv, RecordPlacement, Silent, Placement
    <2> QED BY <1>2, <1>3, <2>1
  <1>4. CASE /\ InsertLifecycleRow(d) /\ LifecycleRow(d) \in Row
             /\ orders'[d] = Append(orders[d], LifecycleRow(d))
    <2>1. ~Placement(LifecycleRow(d))
      BY DEF Placement, LifecycleRow
    <2> QED BY <1>2, <1>4, <2>1
  <1> QED BY <1>1, <1>3, <1>4, OrdersStep

LEMMA IdempotenceInductive == TypeInv /\ IdempotenceInv /\ [Next]_vars => IdempotenceInv'
  <1> SUFFICES ASSUME TypeInv, IdempotenceInv, [Next]_vars PROVE IdempotenceInv'
    OBVIOUS
  <1>1. RoundInv'
    BY RoundInvStep DEF IdempotenceInv
  <1>2. PlacementIsIdempotent'
    <2>1. \A d \in Decision : OnePlacement(d)'
      BY OnePlacementStep
    <2> QED BY <2>1 DEF PlacementIsIdempotent, OnePlacement, Placement
  <1> QED BY <1>1, <1>2, CallInvStep, PlacedInvStep DEF IdempotenceInv

LEMMA InitIdempotence == Init => IdempotenceInv
  BY DEF Init, IdempotenceInv, RoundInv, CallInv, PlacedInv, PlacementIsIdempotent,
         NoRound, Idle, Placed

\* PlacementIsIdempotent is an invariant: however often a placement is repeated by
\* hand, with replies lost and restarts in between, at most one row of a decision
\* says that the exchange took its order.
THEOREM PlacementIsIdempotentHolds == Spec => []PlacementIsIdempotent
  <1>1. IdempotenceInv => PlacementIsIdempotent
    BY DEF IdempotenceInv
  <1> QED BY InitType, TypeInductive, InitIdempotence, IdempotenceInductive, <1>1, PTL DEF Spec

-------------------------------------------------------------------------------
(* The matched sizes of the rows *)

\* No row of d has a larger matched size.
Covers(size, d) == \A i \in DOMAIN orders[d] : orders[d][i].matched <= size

\* An open row that a round may read covers all rows of its order, and keeps doing
\* so while the round works on it; the listing is not older than that row.
SizeInv ==
    /\ \A d \in Decision :
          IsOpen(Latest(d, "paper")) => Covers(Latest(d, "paper").matched, d)
    /\ \A r \in rec.todo :
          /\ Covers(rec.prev[r].matched, r)
          /\ rec.pc = "applying" /\ Listed(r) => rec.prev[r].matched <= rec.cur[r].matched

\* The sizes of rows and fills are natural numbers.
LEMMA SizesAreNat ==
    ASSUME TypeOK
    PROVE  /\ \A d \in Decision : \A i \in DOMAIN orders[d] :
                 orders[d][i] \in Row /\ orders[d][i].matched \in Nat
           /\ \A d \in Decision : \A k \in DOMAIN fills[d] :
                 /\ fills[d][k].cumulative \in Nat /\ fills[d][k].delta \in Nat
                 /\ Before(fills[d][k]) \in Int
           /\ \A r \in Decision : /\ rec.prev[r].matched \in Nat
                                  /\ rec.cur[r].matched \in Nat
                                  /\ exchange[r].matched \in Nat
  <1>1. \A x \in Row : x.matched \in Nat
    BY DEF Row
  <1>2. \A f \in Fill : f.cumulative \in Nat /\ f.delta \in Nat /\ Before(f) \in Int
    BY DEF Fill, Before
  <1>3. \A x \in ExchangeOrder : x.matched \in Nat
    BY DEF ExchangeOrder
  <1>4. /\ orders \in [Decision -> Seq(Row)] /\ fills \in [Decision -> Seq(Fill)]
        /\ exchange \in [Decision -> ExchangeOrder]
    BY DEF TypeOK
  <1>5. ASSUME NEW d \in Decision
        PROVE  /\ \A i \in DOMAIN orders[d] : orders[d][i] \in Row
               /\ \A k \in DOMAIN fills[d] : fills[d][k] \in Fill
    BY <1>4
  <1> QED BY <1>1, <1>2, <1>3, <1>4, <1>5, RoundFields

\* A row a call inserts is silent, or the first that is not.
LEMMA CallRowSize ==
    ASSUME TypeInv, IdempotenceInv, RecordPlacement
    PROVE  /\ call.ref \in Decision /\ call.row \in Row
           /\ call.row.type # "LIFECYCLE"
           /\ \/ Silent(call.row)
              \/ ~Placed(call.ref) /\ Covers(0, call.ref)
  <1>1. call.pc = "recording" /\ call.ref \in Decision /\ call.row \in Row
    BY CallFields DEF RecordPlacement, TypeInv, TypeOK
  <1>2. \/ Silent(call.row)
        \/ Placement(call.row) /\ ~Placed(call.ref)
    BY <1>1 DEF IdempotenceInv, CallInv
  <1>3. ~Placed(call.ref) => Covers(0, call.ref)
    BY <1>1 DEF IdempotenceInv, PlacedInv, Covers, Silent
  <1> QED BY <1>1, <1>2, <1>3 DEF IdempotenceInv, CallInv

\* A row a round inserts is of paper mode and not smaller than any row before.
LEMMA RoundRowSize ==
    ASSUME TypeInv, IdempotenceInv, SizeInv, NEW r \in Decision, InsertLifecycleRow(r)
    PROVE  /\ r \in rec.todo /\ r \notin rec'.todo /\ rec.half \subseteq {r}
           /\ LifecycleRow(r).mode = "paper" /\ LifecycleRow(r).type = "LIFECYCLE"
           /\ LifecycleRow(r).matched = rec.cur[r].matched
           /\ rec.pc = "applying" /\ Listed(r)
           /\ rec.prev[r].matched <= rec.cur[r].matched
           /\ Covers(rec.cur[r].matched, r)
  <1>1. /\ r \in rec.todo /\ rec.half \subseteq {r} /\ rec.pc = "applying" /\ Listed(r)
        /\ rec' = [rec EXCEPT !.todo = @ \ {r}, !.half = {}]
    BY DEF InsertLifecycleRow, Current
  <1>2. r \notin rec'.todo
    BY <1>1, RoundFields DEF TypeInv
  <1>3. rec.prev[r].mode = "paper" /\ rec.prev[r].matched <= rec.cur[r].matched
    BY <1>1 DEF IdempotenceInv, RoundInv, SizeInv
  <1>4. Covers(rec.prev[r].matched, r)
    BY <1>1 DEF SizeInv
  <1>5. Covers(rec.cur[r].matched, r)
    BY <1>3, <1>4, SizesAreNat DEF Covers, TypeInv
  <1> QED BY <1>1, <1>2, <1>3, <1>5 DEF LifecycleRow

\* What covers the rows of an order covers them after a step, unless the round
\* inserts a larger row or the call the placement.
LEMMA CoversStep ==
    ASSUME TypeInv, IdempotenceInv, SizeInv, [Next]_vars,
           NEW d \in Decision, NEW size \in Nat, Covers(size, d),
           InsertLifecycleRow(d) => LifecycleRow(d).matched <= size,
           RecordPlacement /\ d = call.ref => Silent(call.row) \/ call.row.matched <= size
    PROVE  Covers(size, d)'
  <1>0. orders[d] \in Seq(Row)
    BY DEF TypeInv, TypeOK
  <1>1. ASSUME NEW row \in Row, row.matched <= size, orders'[d] = Append(orders[d], row)
        PROVE  Covers(size, d)'
    <2>1. \A i \in DOMAIN orders'[d] : \/ i \in DOMAIN orders[d] /\ orders'[d][i] = orders[d][i]
                                       \/ orders'[d][i] = row
      BY <1>0, <1>1, AppendFacts
    <2> QED BY <1>1, <2>1 DEF Covers
  <1>2. CASE orders'[d] = orders[d]
    BY <1>2 DEF Covers
  <1>3. CASE /\ RecordPlacement /\ d = call.ref /\ call.row \in Row
             /\ orders'[d] = Append(orders[d], call.row)
    <2>1. call.row.matched <= size
      BY <1>3 DEF Silent
    <2> QED BY <1>1, <1>3, <2>1
  <1> QED BY <1>1, <1>2, <1>3, OrdersStep

LEMMA LatestCoversStep ==
    ASSUME TypeInv, IdempotenceInv, SizeInv, [Next]_vars, NEW d \in Decision,
           IsOpen(Latest(d, "paper"))'
    PROVE  Covers(Latest(d, "paper").matched, d)'
  <1>0. /\ TypeOK /\ orders[d] \in Seq(Row)
        /\ IsOpen(Latest(d, "paper")) => /\ Covers(Latest(d, "paper").matched, d)
                                         /\ Latest(d, "paper").matched \in Nat
    <2>1. Latest(d, "paper") \in Row \cup {NoRow}
      BY LatestType DEF TypeInv
    <2>2. \A x \in Row \cup {NoRow} : x.matched \in Nat
      BY DEF Row, NoRow
    <2> QED BY <2>1, <2>2 DEF TypeInv, TypeOK, SizeInv
  <1>1. CASE orders'[d] = orders[d]
    BY <1>0, <1>1 DEF Latest, Covers
  <1>2. CASE /\ RecordPlacement /\ d = call.ref /\ call.row \in Row
             /\ orders'[d] = Append(orders[d], call.row)
    <2>1. Latest(d, "paper")' = IF call.row.mode = "paper" THEN call.row
                                                          ELSE Latest(d, "paper")
      BY <1>0, <1>2, LastInAppend DEF Latest
    <2>2. ~InsertLifecycleRow(d)
      BY <1>2 DEF RecordPlacement, InsertLifecycleRow, Idle
    <2>3. call.row.matched \in Nat
      BY <1>2 DEF Row
    <2>4. CASE Silent(call.row)
      <3>1. Latest(d, "paper")' = Latest(d, "paper") /\ IsOpen(Latest(d, "paper"))
        BY <2>1, <2>4 DEF IsOpen, Silent
      <3>2. Covers(Latest(d, "paper").matched, d) /\ Latest(d, "paper").matched \in Nat
        BY <1>0, <3>1
      <3>3. PICK size \in Nat : size = Latest(d, "paper").matched
        BY <3>2
      <3>4. Covers(size, d)'
        BY <2>2, <2>4, <3>2, <3>3, CoversStep
      <3> QED BY <3>1, <3>3, <3>4 DEF Covers
    <2>5. CASE ~Silent(call.row)
      <3>1. Latest(d, "paper")' = call.row
        <4>1. call.row.mode = "paper"
          BY <1>2, <2>5, CallFields
          DEF IdempotenceInv, CallInv, RecordPlacement, Placement
        <4> QED BY <2>1, <4>1
      <3>2. Covers(call.row.matched, d)
        BY <1>0, <1>2, <2>3, <2>5, CallRowSize, SizesAreNat DEF Covers
      <3>3. PICK size \in Nat : size = call.row.matched
        BY <2>3
      <3>4. Covers(size, d)'
        BY <2>2, <2>3, <3>2, <3>3, CoversStep
      <3> QED BY <3>1, <3>3, <3>4 DEF Covers
    <2> QED BY <2>4, <2>5
  <1>3. CASE /\ InsertLifecycleRow(d) /\ LifecycleRow(d) \in Row
             /\ orders'[d] = Append(orders[d], LifecycleRow(d))
    <2>1. /\ LifecycleRow(d).mode = "paper"
          /\ LifecycleRow(d).matched = rec.cur[d].matched
          /\ Covers(rec.cur[d].matched, d) /\ rec.cur[d].matched \in Nat
      BY <1>0, <1>3, RoundRowSize, SizesAreNat
    <2>2. Latest(d, "paper")' = LifecycleRow(d)
      BY <1>0, <1>3, <2>1, LastInAppend DEF Latest
    <2>3. PICK size \in Nat : size = rec.cur[d].matched
      BY <2>1
    <2>4. ~RecordPlacement
      BY <1>3 DEF RecordPlacement, InsertLifecycleRow, Idle
    <2>5. Covers(size, d)'
      BY <1>3, <2>1, <2>3, <2>4, CoversStep
    <2> QED BY <2>1, <2>2, <2>3, <2>5 DEF Covers
  <1> QED BY <1>1, <1>2, <1>3, OrdersStep

LEMMA SizeInvStep ==
    ASSUME TruthInv, IdempotenceInv, SizeInv, [Next]_vars
    PROVE  SizeInv'
  <1>0. /\ TypeInv /\ TypeOK /\ RoundInv /\ PlacedInv /\ rec.todo \subseteq Decision
    BY RoundFields DEF TruthInv, TypeInv, IdempotenceInv
  <1>1. \A d \in Decision : IsOpen(Latest(d, "paper"))' => Covers(Latest(d, "paper").matched, d)'
    BY <1>0, LatestCoversStep
  <1>2. ASSUME NEW r \in rec.todo, r \in rec'.todo
        PROVE  \A i \in DOMAIN orders'[r] : orders'[r][i].matched <= rec.prev[r].matched
    <2>1. r \in Decision /\ ~InsertLifecycleRow(r) /\ Placed(r)
      BY <1>0, <1>2, RoundRowSize, FetchedIsPlaced
    <2>2. PICK size \in Nat : size = rec.prev[r].matched
      BY <1>0, <2>1, SizesAreNat
    <2>3. Covers(size, r)
      BY <2>2 DEF SizeInv
    <2>4. Covers(size, r)'
      BY <1>0, <2>1, <2>3, CoversStep, CallRowSize
    <2>5. \A i \in DOMAIN orders'[r] : orders'[r][i].matched <= size
      BY <2>4 DEF Covers
    <2> QED BY <2>2, <2>5
  <1> SUFFICES ASSUME NEW r \in rec'.todo
               PROVE  /\ \A i \in DOMAIN orders'[r] : orders'[r][i].matched <= rec'.prev[r].matched
                      /\ rec'.pc = "applying" /\ rec'.cur[r].status # "NONE"
                            => rec'.prev[r].matched <= rec'.cur[r].matched
    BY <1>1 DEF SizeInv, Covers, Listed
  <1>3. CASE r \in rec.todo /\ rec'.prev = rec.prev /\ rec'.cur = rec.cur /\ rec'.pc = rec.pc
    BY <1>2, <1>3 DEF SizeInv, Listed
  <1>4. CASE /\ FetchOpenOrders /\ mode = "paper" /\ rec'.pc = "listing"
             /\ rec'.todo = OpenOrders("paper") /\ rec'.half = {}
             /\ \A d \in rec'.todo : rec'.prev[d] = Latest(d, "paper")
    <2>1. orders' = orders /\ r \in Decision /\ IsOpen(Latest(r, "paper"))
      BY <1>4 DEF FetchOpenOrders, OpenOrders
    <2> QED BY <1>4, <2>1 DEF SizeInv, Covers
  <1>5. CASE /\ ListCurrentOrders /\ rec.pc = "listing" /\ rec'.pc = "applying"
             /\ rec'.todo = rec.todo /\ rec'.half = rec.half /\ rec'.prev = rec.prev
             /\ \A d \in rec.todo :
                   rec'.cur[d] = IF exchange[d].listed THEN ViewOf(exchange[d])
                                                       ELSE NotListed
    <2>1. r \in Decision /\ r \in rec.todo
      BY <1>0, <1>5
    <2>2. PICK i \in DOMAIN orders[r] : orders[r][i] = rec.prev[r]
      BY <1>0, <2>1 DEF RoundInv
    <2>3. rec.prev[r].matched <= exchange[r].matched
      BY <2>1, <2>2 DEF TruthInv, RowsTruthful, RowTruthful
    <2>4. rec'.cur[r] = IF exchange[r].listed THEN ViewOf(exchange[r]) ELSE NotListed
      BY <1>5, <2>1
    <2>5. rec'.cur[r].status # "NONE" => rec.prev[r].matched <= rec'.cur[r].matched
      BY <2>3, <2>4 DEF ViewOf, NotListed
    <2> QED BY <1>2, <1>5, <2>1, <2>5
  <1> QED BY <1>3, <1>4, <1>5, RoundStep, <1>0

\* The matched size of every row a round can read is covered for good.
LEMMA InitSize == Init => SizeInv
  <1> SUFFICES ASSUME Init PROVE SizeInv
    OBVIOUS
  <1>1. \A d \in Decision : Latest(d, "paper") = NoRow
    BY DEF Init, Latest, LastIn, InMode
  <1> QED BY <1>1 DEF Init, SizeInv, NoRound, IsOpen, NoRow

-------------------------------------------------------------------------------
(* The intervals the fills cover *)

\* While a round works on an order no fill of it reaches beyond the listing, and
\* the fill it inserted without its row yet is in the table.
RoundFillsInv ==
    /\ \A r \in rec.todo : rec.pc = "applying" /\ Listed(r) =>
          \A k \in DOMAIN fills[r] : fills[r][k].cumulative <= rec.cur[r].matched
    /\ \A r \in rec.half : \E k \in DOMAIN fills[r] : fills[r][k] = RoundFill(r)

\* Some row has caught up with the fill, or no row has passed its start.
Recorded(d, fill) == \E i \in DOMAIN orders[d] : fill.cumulative <= orders[d][i].matched
Unrecorded(d, fill) == \A i \in DOMAIN orders[d] : orders[d][i].matched <= Before(fill)
RecordedInv ==
    \A d \in Decision : \A k \in DOMAIN fills[d] :
        Recorded(d, fills[d][k]) \/ Unrecorded(d, fills[d][k])

FillsInv ==
    /\ RoundFillsInv /\ RecordedInv
    /\ FillsTruthful /\ FillsRepeatFromTheSameStart /\ RisesHaveFills

\* What the inductive invariants above say together.
BookInv == TruthInv /\ IdempotenceInv /\ SizeInv

\* The fill of a round starts where the row it read ends.
LEMMA RoundFillStart ==
    ASSUME TypeOK, NEW r \in Decision
    PROVE  Before(RoundFill(r)) = rec.prev[r].matched
  BY SizesAreNat DEF Before, RoundFill, MatchedDelta

LEMMA FillsTruthfulStep ==
    ASSUME BookInv, FillsInv, [Next]_vars
    PROVE  FillsTruthful'
  <1>0. /\ TypeInv /\ TypeOK /\ RoundInv /\ FillsTruthful /\ TypeOK'
        /\ \A d \in Decision : fills[d] \in Seq(Fill)
        /\ \A d \in Decision : Forward(exchange[d], exchange'[d])
    BY TypeInductive, ExchangeMovesForward
    DEF BookInv, TruthInv, TypeInv, TypeOK, IdempotenceInv, FillsInv
  <1>1. \A d \in Decision : /\ exchange[d].matched \in Nat /\ exchange'[d].matched \in Nat
                            /\ exchange[d].matched <= exchange'[d].matched
    BY <1>0, SizesAreNat DEF Forward, TypeOK, ExchangeOrder
  <1> SUFFICES ASSUME NEW d \in Decision, NEW k \in DOMAIN fills'[d]
               PROVE  /\ fills'[d][k].cumulative <= exchange'[d].matched
                      /\ \E i \in DOMAIN orders'[d] :
                            orders'[d][i].matched = Before(fills'[d][k])
    BY DEF FillsTruthful, Before
  <1>2. ASSUME k \in DOMAIN fills[d], fills'[d][k] = fills[d][k]
        PROVE  /\ fills'[d][k].cumulative <= exchange'[d].matched
               /\ \E i \in DOMAIN orders'[d] :
                     orders'[d][i].matched = Before(fills'[d][k])
    <2>1. /\ fills[d][k].cumulative \in Nat
          /\ fills[d][k].cumulative <= exchange[d].matched
          /\ \E i \in DOMAIN orders[d] : orders[d][i].matched = Before(fills[d][k])
      BY <1>0, <1>2, SizesAreNat DEF FillsTruthful
    <2>2. fills[d][k].cumulative <= exchange'[d].matched
      BY <1>1, <2>1
    <2> QED BY <1>0, <1>2, <2>1, <2>2, TablesGrow
  <1>3. ASSUME InsertFill(d), fills'[d][k] = RoundFill(d)
        PROVE  /\ fills'[d][k].cumulative <= exchange'[d].matched
               /\ \E i \in DOMAIN orders'[d] :
                     orders'[d][i].matched = Before(fills'[d][k])
    <2>1. exchange' = exchange /\ orders' = orders /\ d \in rec.todo
      BY <1>3 DEF InsertFill, Current
    <2>2. rec.cur[d].matched <= exchange[d].matched
      BY DEF BookInv, TruthInv, ViewsTruthful, Seen
    <2>3. \E i \in DOMAIN orders[d] : orders[d][i] = rec.prev[d]
      BY <1>0, <2>1 DEF RoundInv
    <2>4. Before(fills'[d][k]) = rec.prev[d].matched
      BY <1>0, <1>3, RoundFillStart
    <2>5. fills'[d][k].cumulative = rec.cur[d].matched
      BY <1>3 DEF RoundFill
    <2> QED BY <2>1, <2>2, <2>3, <2>4, <2>5
  <1>4. CASE fills'[d] = fills[d]
    BY <1>2, <1>4
  <1>5. CASE /\ InsertFill(d) /\ RoundFill(d) \in Fill
             /\ fills'[d] = Append(fills[d], RoundFill(d))
    BY <1>0, <1>2, <1>3, <1>5, AppendFacts
  <1> QED BY <1>0, <1>4, <1>5, FillsStep

LEMMA RoundFillsStep ==
    ASSUME BookInv, FillsInv, [Next]_vars
    PROVE  RoundFillsInv'
  <1>0. /\ TypeInv /\ TypeOK /\ RoundInv /\ FillsTruthful /\ RoundFillsInv
        /\ rec.todo \subseteq Decision /\ rec.half \subseteq Decision
        /\ \A d \in Decision : fills[d] \in Seq(Fill)
    BY RoundFields DEF BookInv, TruthInv, TypeInv, TypeOK, IdempotenceInv, FillsInv
  <1>1. ASSUME NEW r \in rec.todo, rec.pc = "applying", Listed(r),
               NEW k \in DOMAIN fills'[r]
        PROVE  fills'[r][k].cumulative <= rec.cur[r].matched
    <2>0. rec.cur[r].matched \in Nat
      BY <1>0, SizesAreNat
    <2>1. k \in DOMAIN fills[r] => fills[r][k].cumulative <= rec.cur[r].matched
      BY <1>0, <1>1 DEF RoundFillsInv
    <2>2. CASE fills'[r] = fills[r]
      BY <2>1, <2>2
    <2>3. CASE RoundFill(r) \in Fill /\ fills'[r] = Append(fills[r], RoundFill(r))
      <3>1. \/ k \in DOMAIN fills[r] /\ fills'[r][k] = fills[r][k]
            \/ fills'[r][k] = RoundFill(r)
        BY <1>0, <2>3, AppendFacts
      <3>2. RoundFill(r).cumulative = rec.cur[r].matched
        BY DEF RoundFill
      <3> QED BY <2>0, <2>1, <3>1, <3>2
    <2> QED BY <1>0, <2>2, <2>3, FillsStep
  <1>2. ASSUME NEW r \in rec.half
        PROVE  \E k \in DOMAIN fills'[r] : fills'[r][k] = RoundFill(r)
    BY <1>0, TablesGrow DEF RoundFillsInv
  <1>3. CASE rec' = rec
    <2>1. \A r : Listed(r)' = Listed(r) /\ RoundFill(r)' = RoundFill(r)
      BY <1>3 DEF Listed, RoundFill, MatchedDelta
    <2> QED BY <1>1, <1>2, <1>3, <2>1 DEF RoundFillsInv
  <1>4. CASE rec'.todo = {} /\ rec'.half = {}
    BY <1>4 DEF RoundFillsInv
  <1>5. CASE rec'.pc = "listing" /\ rec'.half = {}
    BY <1>5 DEF RoundFillsInv
  <1>6. CASE /\ ListCurrentOrders /\ rec.pc = "listing" /\ rec'.pc = "applying"
             /\ rec'.todo = rec.todo /\ rec'.half = rec.half /\ rec'.prev = rec.prev
             /\ \A d \in rec.todo :
                   rec'.cur[d] = IF exchange[d].listed THEN ViewOf(exchange[d])
                                                       ELSE NotListed
    <2>1. rec'.half = {} /\ fills' = fills
      BY <1>0, <1>6 DEF RoundInv, ListCurrentOrders
    <2>2. ASSUME NEW r \in rec'.todo, rec'.cur[r].status # "NONE",
                 NEW k \in DOMAIN fills'[r]
          PROVE  fills'[r][k].cumulative <= rec'.cur[r].matched
      <3>1. fills[r][k].cumulative <= exchange[r].matched
        BY <1>0, <1>6, <2>1, <2>2 DEF FillsTruthful
      <3>2. rec'.cur[r].matched = exchange[r].matched
        <4>1. rec'.cur[r] = IF exchange[r].listed THEN ViewOf(exchange[r]) ELSE NotListed
          BY <1>6, <2>2
        <4> QED BY <2>2, <4>1 DEF ViewOf, NotListed
      <3> QED BY <2>1, <3>1, <3>2
    <2> QED BY <2>1, <2>2 DEF RoundFillsInv, Listed
  <1>7. ASSUME NEW r \in rec.todo,
               rec.pc = "applying", rec.half \subseteq {r},
               rec'.pc = rec.pc, rec'.prev = rec.prev, rec'.cur = rec.cur,
               \/ PassOver(r) /\ rec'.todo = rec.todo \ {r} /\ rec'.half = rec.half
               \/ InsertFill(r) /\ rec'.todo = rec.todo /\ rec'.half = {r}
               \/ InsertLifecycleRow(r) /\ rec'.todo = rec.todo \ {r} /\ rec'.half = {}
        PROVE  RoundFillsInv'
    <2>1. \A x : Listed(x)' = Listed(x) /\ RoundFill(x)' = RoundFill(x)
      BY <1>7 DEF Listed, RoundFill, MatchedDelta
    <2>2. rec'.todo \subseteq rec.todo
      BY <1>7
    <2>3. ASSUME NEW x \in rec'.half
          PROVE  \E k \in DOMAIN fills'[x] : fills'[x][k] = RoundFill(x)
      <3>1. CASE InsertFill(r) /\ x = r
        <4>1. RoundFill(r) \in Fill /\ fills' = [fills EXCEPT ![r] = Append(@, RoundFill(r))]
          BY <1>0, <3>1, RoundFields, ConstantsAssumption
          DEF InsertFill, MatchedDelta, Fill, RoundFill
        <4>2. r \in Decision /\ fills \in [Decision -> Seq(Fill)]
          BY <1>0 DEF TypeOK
        <4>3. fills'[r] = Append(fills[r], RoundFill(r))
          BY <4>1, <4>2
        <4>4. /\ Len(fills[r]) + 1 \in DOMAIN fills'[r]
              /\ fills'[r][Len(fills[r]) + 1] = RoundFill(r)
          BY <1>0, <4>1, <4>2, <4>3, AppendFacts
        <4> QED BY <3>1, <4>4
      <3>2. CASE x \in rec.half
        BY <1>2, <3>2
      <3> QED BY <1>7, <3>1, <3>2
    <2> QED BY <1>1, <1>7, <2>1, <2>2, <2>3 DEF RoundFillsInv
  <1> QED BY <1>0, <1>3, <1>4, <1>5, <1>6, <1>7, RoundStep

LEMMA RecordedStep ==
    ASSUME BookInv, FillsInv, [Next]_vars
    PROVE  RecordedInv'
  <1>0. /\ TypeInv /\ TypeOK /\ RoundInv /\ PlacedInv /\ RecordedInv /\ FillsTruthful
        /\ RoundFillsInv /\ SizeInv /\ IdempotenceInv
        /\ \A d \in Decision : fills[d] \in Seq(Fill) /\ orders[d] \in Seq(Row)
    BY DEF BookInv, TruthInv, TypeInv, TypeOK, IdempotenceInv, FillsInv
  <1> SUFFICES ASSUME NEW d \in Decision, NEW k \in DOMAIN fills'[d]
               PROVE  \/ \E i \in DOMAIN orders'[d] :
                            fills'[d][k].cumulative <= orders'[d][i].matched
                      \/ \A i \in DOMAIN orders'[d] :
                            orders'[d][i].matched <= Before(fills'[d][k])
    BY DEF RecordedInv, Recorded, Unrecorded, Before
  <1>1. ASSUME NEW f \in Fill, Unrecorded(d, f), orders'[d] = orders[d]
        PROVE  \A i \in DOMAIN orders'[d] : orders'[d][i].matched <= Before(f)
    BY <1>1 DEF Unrecorded
  <1>2. ASSUME NEW f, Recorded(d, f)
        PROVE  \E i \in DOMAIN orders'[d] : f.cumulative <= orders'[d][i].matched
    BY <1>0, <1>2, TablesGrow DEF Recorded
  <1>3. ASSUME k \in DOMAIN fills[d], fills'[d][k] = fills[d][k]
        PROVE  \/ \E i \in DOMAIN orders'[d] :
                     fills'[d][k].cumulative <= orders'[d][i].matched
               \/ \A i \in DOMAIN orders'[d] :
                     orders'[d][i].matched <= Before(fills'[d][k])
    <2>1. fills[d][k] \in Fill /\ (Recorded(d, fills[d][k]) \/ Unrecorded(d, fills[d][k]))
      BY <1>0, <1>3 DEF RecordedInv
    <2>2. CASE orders'[d] = orders[d]
      BY <1>1, <1>2, <1>3, <2>1, <2>2
    <2>3. CASE RecordPlacement /\ d = call.ref /\ orders'[d] = Append(orders[d], call.row)
      <3>1. Placed(d)
        BY <1>0, <1>3 DEF PlacedInv
      <3>2. call.row \in Row /\ call.row.matched = 0
        BY <1>0, <2>3, <3>1, CallRowSize DEF Silent
      <3>3. 0 <= Before(fills[d][k]) /\ Before(fills[d][k]) \in Int
        BY <1>0, <1>3, SizesAreNat DEF FillsTruthful
      <3>4. \A i \in DOMAIN orders'[d] :
               (i \in DOMAIN orders[d] /\ orders'[d][i] = orders[d][i])
               \/ orders'[d][i] = call.row
        BY <1>0, <2>3, <3>2, AppendFacts
      <3>5. Unrecorded(d, fills[d][k]) =>
               \A i \in DOMAIN orders'[d] : orders'[d][i].matched <= Before(fills[d][k])
        BY <3>2, <3>3, <3>4 DEF Unrecorded
      <3> QED BY <1>2, <1>3, <2>1, <3>5
    <2>4. CASE /\ InsertLifecycleRow(d) /\ LifecycleRow(d) \in Row
               /\ orders'[d] = Append(orders[d], LifecycleRow(d))
      <3>1. fills[d][k].cumulative <= rec.cur[d].matched
        BY <1>0, <1>3, <2>4, RoundRowSize DEF RoundFillsInv
      <3>2. /\ Len(orders[d]) + 1 \in DOMAIN orders'[d]
            /\ orders'[d][Len(orders[d]) + 1] = LifecycleRow(d)
        BY <1>0, <2>4, AppendFacts
      <3>3. LifecycleRow(d).matched = rec.cur[d].matched
        BY DEF LifecycleRow
      <3> QED BY <1>3, <3>1, <3>2, <3>3
    <2> QED BY <1>0, <2>2, <2>3, <2>4, OrdersStep
  <1>4. ASSUME InsertFill(d), fills'[d][k] = RoundFill(d)
        PROVE  \A i \in DOMAIN orders'[d] :
                  orders'[d][i].matched <= Before(fills'[d][k])
    <2>1. orders' = orders /\ d \in rec.todo
      BY <1>4 DEF InsertFill, Current
    <2>2. Covers(rec.prev[d].matched, d)
      BY <1>0, <2>1 DEF SizeInv
    <2>3. Before(fills'[d][k]) = rec.prev[d].matched
      BY <1>0, <1>4, RoundFillStart
    <2> QED BY <2>1, <2>2, <2>3 DEF Covers
  <1>5. CASE fills'[d] = fills[d]
    BY <1>3, <1>5
  <1>6. CASE /\ InsertFill(d) /\ RoundFill(d) \in Fill
             /\ fills'[d] = Append(fills[d], RoundFill(d))
    BY <1>0, <1>3, <1>4, <1>6, AppendFacts
  <1> QED BY <1>0, <1>5, <1>6, FillsStep

LEMMA FillsRepeatStep ==
    ASSUME BookInv, FillsInv, [Next]_vars
    PROVE  FillsRepeatFromTheSameStart'
  <1>0. /\ TypeInv /\ TypeOK /\ RoundInv /\ RecordedInv /\ FillsTruthful
        /\ RoundFillsInv /\ SizeInv /\ FillsRepeatFromTheSameStart
        /\ \A d \in Decision : fills[d] \in Seq(Fill) /\ orders[d] \in Seq(Row)
    BY DEF BookInv, TruthInv, TypeInv, TypeOK, IdempotenceInv, FillsInv
  <1> DEFINE Repeats(f, g) == \/ Before(f) >= g.cumulative
                              \/ Before(f) = Before(g) /\ f.cumulative >= g.cumulative
  <1> SUFFICES ASSUME NEW d \in Decision, NEW j \in DOMAIN fills'[d], NEW k \in 1 .. j - 1
               PROVE  Repeats(fills'[d][j], fills'[d][k])
    BY DEF FillsRepeatFromTheSameStart, Before
  <1>1. ASSUME NEW m \in DOMAIN fills[d], NEW l \in 1 .. m - 1
        PROVE  Repeats(fills[d][m], fills[d][l])
    BY <1>0 DEF FillsRepeatFromTheSameStart
  <1>2. CASE fills'[d] = fills[d]
    BY <1>1, <1>2
  <1>3. ASSUME InsertFill(d), NEW l \in DOMAIN fills[d]
        PROVE  Repeats(RoundFill(d), fills[d][l])
    <2>1. d \in rec.todo /\ rec.pc = "applying" /\ Listed(d)
      BY <1>3 DEF InsertFill, Current
    <2>2. /\ Before(RoundFill(d)) = rec.prev[d].matched
          /\ RoundFill(d).cumulative = rec.cur[d].matched
      BY <1>0, RoundFillStart DEF RoundFill
    <2>3. fills[d][l].cumulative <= rec.cur[d].matched
      BY <1>0, <1>3, <2>1 DEF RoundFillsInv
    <2>4. Covers(rec.prev[d].matched, d)
      BY <1>0, <2>1 DEF SizeInv
    <2>5. PICK i \in DOMAIN orders[d] : orders[d][i] = rec.prev[d]
      BY <1>0, <2>1 DEF RoundInv
    <2>6. PICK b \in DOMAIN orders[d] : orders[d][b].matched = Before(fills[d][l])
      BY <1>0, <1>3 DEF FillsTruthful
    <2>7. /\ rec.prev[d].matched \in Nat /\ rec.cur[d].matched \in Nat
          /\ fills[d][l].cumulative \in Nat /\ Before(fills[d][l]) \in Int
          /\ \A x \in DOMAIN orders[d] : orders[d][x].matched \in Nat
      BY <1>0, <1>3, SizesAreNat
    <2>8. CASE Recorded(d, fills[d][l])
      BY <2>2, <2>4, <2>7, <2>8 DEF Recorded, Covers
    <2>9. CASE Unrecorded(d, fills[d][l])
      <3>1. rec.prev[d].matched <= Before(fills[d][l])
        BY <2>5, <2>9 DEF Unrecorded
      <3>2. Before(fills[d][l]) <= rec.prev[d].matched
        BY <2>4, <2>6 DEF Covers
      <3> QED BY <2>2, <2>3, <2>7, <3>1, <3>2
    <2> QED BY <1>0, <1>3, <2>8, <2>9 DEF RecordedInv
  <1>4. CASE /\ InsertFill(d) /\ RoundFill(d) \in Fill
             /\ fills'[d] = Append(fills[d], RoundFill(d))
    <2>0. /\ Len(fills[d]) \in Nat /\ DOMAIN fills[d] = 1 .. Len(fills[d])
          /\ DOMAIN fills'[d] = 1 .. Len(fills[d]) + 1
          /\ \A l \in DOMAIN fills[d] : fills'[d][l] = fills[d][l]
          /\ fills'[d][Len(fills[d]) + 1] = RoundFill(d)
      BY <1>0, <1>4, AppendFacts
    <2>1. k \in DOMAIN fills[d] /\ (j \in DOMAIN fills[d] \/ j = Len(fills[d]) + 1)
      BY <2>0
    <2> HIDE DEF Repeats
    <2> QED BY <1>1, <1>3, <1>4, <2>0, <2>1
  <1> QED BY <1>0, <1>2, <1>4, FillsStep

\* The largest of a set of numbers.
LEMMA MaxIs ==
    ASSUME NEW S \in SUBSET Nat, NEW m \in S, \A y \in S : y <= m
    PROVE  Max(S) = m
  <1>1. \A x \in S : (\A y \in S : x >= y) => x = m
    OBVIOUS
  <1>2. \A y \in S : m >= y
    OBVIOUS
  <1> QED BY <1>1, <1>2 DEF Max

LEMMA RisesStep ==
    ASSUME BookInv, FillsInv, [Next]_vars
    PROVE  RisesHaveFills'
  <1>0. /\ TypeInv /\ TypeOK /\ RoundInv /\ IdempotenceInv /\ SizeInv
        /\ RoundFillsInv /\ RisesHaveFills
        /\ \A d \in Decision : orders[d] \in Seq(Row)
    BY DEF BookInv, TruthInv, TypeInv, TypeOK, IdempotenceInv, FillsInv
  <1> SUFFICES ASSUME NEW d \in Decision, NEW i \in 2 .. Len(orders'[d]),
                      NEW top, top = Max({orders'[d][j].matched : j \in 1 .. i - 1}),
                      orders'[d][i].type = "LIFECYCLE", orders'[d][i].matched > top
               PROVE  \E k \in DOMAIN fills'[d] :
                         fills'[d][k] = [delta |-> orders'[d][i].matched - top,
                                         cumulative |-> orders'[d][i].matched]
    BY DEF RisesHaveFills
  <1>1. ASSUME i \in 2 .. Len(orders[d]),
               \A j \in 1 .. Len(orders[d]) : orders'[d][j] = orders[d][j]
        PROVE  \E k \in DOMAIN fills'[d] :
                  fills'[d][k] = [delta |-> orders'[d][i].matched - top,
                                  cumulative |-> orders'[d][i].matched]
    <2>1. i \in 1 .. Len(orders[d]) /\ \A j \in 1 .. i - 1 : j \in 1 .. Len(orders[d])
      BY <1>0, <1>1
    <2>2. {orders'[d][j].matched : j \in 1 .. i - 1} = {orders[d][j].matched : j \in 1 .. i - 1}
      BY <1>1, <2>1
    <2>3. \E k \in DOMAIN fills[d] :
             fills[d][k] = [delta |-> orders[d][i].matched - top,
                            cumulative |-> orders[d][i].matched]
      BY <1>0, <1>1, <2>1, <2>2 DEF RisesHaveFills
    <2> QED BY <1>0, <1>1, <2>1, <2>3, TablesGrow
  <1>2. ASSUME NEW row \in Row, orders'[d] = Append(orders[d], row)
        PROVE  \/ i \in 2 .. Len(orders[d])
                  /\ \A j \in 1 .. Len(orders[d]) : orders'[d][j] = orders[d][j]
               \/ /\ i = Len(orders[d]) + 1 /\ orders'[d][i] = row
                  /\ \A j \in 1 .. i - 1 : orders'[d][j] = orders[d][j]
                  /\ 1 .. i - 1 = DOMAIN orders[d]
    BY <1>0, <1>2, AppendFacts
  <1>3. CASE orders'[d] = orders[d]
    BY <1>1, <1>3
  <1>4. CASE /\ RecordPlacement /\ d = call.ref /\ call.row \in Row
             /\ orders'[d] = Append(orders[d], call.row)
    <2>1. call.row.type # "LIFECYCLE"
      BY <1>0, <1>4, CallRowSize
    <2> QED BY <1>1, <1>2, <1>4, <2>1
  <1>5. CASE /\ InsertLifecycleRow(d) /\ LifecycleRow(d) \in Row
             /\ orders'[d] = Append(orders[d], LifecycleRow(d))
             /\ i = Len(orders[d]) + 1 /\ orders'[d][i] = LifecycleRow(d)
             /\ \A j \in 1 .. i - 1 : orders'[d][j] = orders[d][j]
             /\ 1 .. i - 1 = DOMAIN orders[d]
    <2>1. /\ d \in rec.todo /\ LifecycleRow(d).matched = rec.cur[d].matched
          /\ fills' = fills
      BY <1>0, <1>5, RoundRowSize DEF InsertLifecycleRow
    <2> DEFINE S == {orders'[d][j].matched : j \in 1 .. i - 1}
    <2>2. S = {orders[d][j].matched : j \in DOMAIN orders[d]}
      BY <1>5
    <2>3. \A j \in DOMAIN orders[d] : orders[d][j].matched \in Nat
                                      /\ orders[d][j].matched <= rec.prev[d].matched
      BY <1>0, <2>1, SizesAreNat DEF SizeInv, Covers
    <2>4. \E j \in DOMAIN orders[d] : orders[d][j] = rec.prev[d]
      BY <1>0, <2>1 DEF RoundInv
    <2>5. S \in SUBSET Nat /\ rec.prev[d].matched \in S /\ \A y \in S : y <= rec.prev[d].matched
      BY <2>2, <2>3, <2>4
    <2> HIDE DEF S
    <2>6. Max(S) = rec.prev[d].matched
      BY <2>5, MaxIs
    <2>7. top = rec.prev[d].matched
      BY <2>6 DEF S
    <2>8. MatchedDelta(d) = rec.cur[d].matched - top /\ MatchedDelta(d) > 0
      <3>1. rec.cur[d].matched \in Nat /\ rec.prev[d].matched \in Nat
        BY <1>0, SizesAreNat
      <3>2. rec.cur[d].matched > rec.prev[d].matched
        BY <1>5, <2>1, <2>7
      <3> QED BY <2>7, <3>1, <3>2 DEF MatchedDelta
    <2>9. d \in rec.half
      BY <1>5, <2>8 DEF InsertLifecycleRow, FillDone
    <2>10. \E k \in DOMAIN fills[d] : fills[d][k] = RoundFill(d)
      BY <1>0, <2>9 DEF RoundFillsInv
    <2> QED BY <1>5, <2>1, <2>8, <2>10 DEF RoundFill
  <1> QED BY <1>0, <1>1, <1>2, <1>3, <1>4, <1>5, OrdersStep

LEMMA BookInductive == BookInv /\ [Next]_vars => BookInv'
  BY TruthInductive, IdempotenceInductive, SizeInvStep DEF BookInv, TruthInv

LEMMA InitBook == Init => BookInv
  BY InitTruth, InitIdempotence, InitSize DEF BookInv

LEMMA FillsInductive == BookInv /\ FillsInv /\ [Next]_vars => FillsInv'
  BY FillsTruthfulStep, RoundFillsStep, RecordedStep, FillsRepeatStep, RisesStep
  DEF FillsInv

LEMMA InitFills == Init => FillsInv
  <1> SUFFICES ASSUME Init PROVE FillsInv
    OBVIOUS
  <1>1. /\ \A d \in Decision : DOMAIN fills[d] = {} /\ Len(orders[d]) = 0
        /\ rec.todo = {} /\ rec.half = {}
    BY DEF Init, NoRound
  <1> QED BY <1>1 DEF FillsInv, RoundFillsInv, RecordedInv, FillsTruthful,
                      FillsRepeatFromTheSameStart, RisesHaveFills

\* FillsTruthful is an invariant: a fill starts at a size a row recorded and ends
\* at a size the exchange reached, whatever failed between the two inserts.
THEOREM FillsAreTruthful == Spec => []FillsTruthful
  <1>1. FillsInv => FillsTruthful
    BY DEF FillsInv
  <1> QED BY InitBook, BookInductive, InitFills, FillsInductive, <1>1, PTL DEF Spec

\* FillsRepeatFromTheSameStart is an invariant: two fills of an order are disjoint,
\* or the later repeats the earlier one from the same start and reaches as far.
THEOREM FillsRepeatHolds == Spec => []FillsRepeatFromTheSameStart
  <1>1. FillsInv => FillsRepeatFromTheSameStart
    BY DEF FillsInv
  <1> QED BY InitBook, BookInductive, InitFills, FillsInductive, <1>1, PTL DEF Spec

\* RisesHaveFills is an invariant: no rise of the matched size in `orders` is
\* without its fill in `fills`, however many rounds were cut short before it.
THEOREM NoRiseWithoutFill == Spec => []RisesHaveFills
  <1>1. FillsInv => RisesHaveFills
    BY DEF FillsInv
  <1> QED BY InitBook, BookInductive, InitFills, FillsInductive, <1>1, PTL DEF Spec

-------------------------------------------------------------------------------
(* Decisions that nobody hands over twice *)

\* Without a repeat the row of a call is the first row of its order, so all rows
\* are of one mode and the row a round read is the last one until it adds its own.
OnceInv ==
    retries = 0 =>
        /\ call.pc # "idle" => call.ref \in handed /\ orders[call.ref] = <<>>
        /\ \A d \in Decision : orders[d] # <<>> => d \in handed
        /\ \A d \in Decision : \A i, j \in DOMAIN orders[d] :
              orders[d][i].mode = orders[d][j].mode
        /\ \A r \in rec.todo : orders[r][Len(orders[r])] = rec.prev[r]

\* A repeat is counted for good, and so is a failure.
LEMMA CountersGrow ==
    ASSUME TypeOK, [Next]_vars
    PROVE  /\ retries' = 0 => retries = 0 /\ \A d \in Decision : ~RetryDecision(d)
           /\ faults' = 0 => faults = 0
  <1>0. retries \in Nat /\ faults \in Nat
    BY ConstantsAssumption DEF TypeOK
  <1>1. retries' = retries \/ retries' = retries + 1
    BY DEF Next, vars, CallStep, ReconcileStep, ExchangeStep, OnDecisionAllow,
           RetryDecision, AcceptOrder, RefuseOrder, ReceiveReport, PlaceOrdersRaises,
           RecordPlacement, RecordPlacementFails, FetchOpenOrders, ListCurrentOrders,
           PassOver, InsertFill, InsertLifecycleRow, FinishRound, RoundRaises,
           MatchOrder, CloseOrder, ForgetOrder, Restart
  <1>2. faults' = faults \/ faults' = faults + 1
    BY DEF Next, vars, CallStep, ReconcileStep, ExchangeStep, OnDecisionAllow,
           RetryDecision, AcceptOrder, RefuseOrder, ReceiveReport, PlaceOrdersRaises,
           RecordPlacement, RecordPlacementFails, FetchOpenOrders, ListCurrentOrders,
           PassOver, InsertFill, InsertLifecycleRow, FinishRound, RoundRaises,
           MatchOrder, CloseOrder, ForgetOrder, Restart, Fails
  <1>3. \A d \in Decision : RetryDecision(d) => retries' = retries + 1
    BY DEF RetryDecision
  <1> QED BY <1>0, <1>1, <1>2, <1>3

\* The rows of an order after a step.
LEMMA LastRowStep ==
    ASSUME TypeInv, NEW d \in Decision, NEW row \in Row,
           orders'[d] = Append(orders[d], row)
    PROVE  /\ orders'[d] # <<>> /\ Len(orders'[d]) = Len(orders[d]) + 1
           /\ orders'[d][Len(orders'[d])] = row
           /\ \A i \in DOMAIN orders'[d] : \/ i \in DOMAIN orders[d]
                                              /\ orders'[d][i] = orders[d][i]
                                           \/ orders'[d][i] = row
           /\ orders[d] = <<>> => orders'[d][1] = row
           /\ orders[d] # <<>> => /\ 1 \in DOMAIN orders[d]
                                  /\ orders'[d][1] = orders[d][1]
  <1>1. orders[d] \in Seq(Row)
    BY DEF TypeInv, TypeOK
  <1>2. /\ Len(orders[d]) \in Nat /\ Len(orders'[d]) = Len(orders[d]) + 1
        /\ DOMAIN orders[d] = 1 .. Len(orders[d])
        /\ DOMAIN orders'[d] = 1 .. Len(orders[d]) + 1
        /\ \A i \in DOMAIN orders[d] : orders'[d][i] = orders[d][i]
        /\ orders'[d][Len(orders[d]) + 1] = row
    BY <1>1, AppendFacts
  <1>3. orders[d] # <<>> => Len(orders[d]) # 0
    BY <1>1
  <1>4. orders[d] = <<>> => Len(orders[d]) = 0
    OBVIOUS
  <1>5. orders'[d] # <<>>
    BY <1>2
  <1> QED BY <1>2, <1>3, <1>4, <1>5

\* The last row of paper mode is the last row when all rows are of one mode.
LEMMA LatestOfOneMode ==
    ASSUME TypeInv, NEW d \in Decision, IsOpen(Latest(d, "paper")),
           \A i, j \in DOMAIN orders[d] : orders[d][i].mode = orders[d][j].mode
    PROVE  Latest(d, "paper") = orders[d][Len(orders[d])] /\ orders[d] # <<>>
  <1>1. orders[d] \in Seq(Row)
    BY DEF TypeInv, TypeOK
  <1>2. PICK i \in DOMAIN orders[d] :
           orders[d][i] = Latest(d, "paper") /\ orders[d][i].mode = "paper"
    BY FetchedHasRow
  <1>3. InMode(orders[d], "paper") = DOMAIN orders[d]
    BY <1>2 DEF InMode
  <1>4. /\ DOMAIN orders[d] = 1 .. Len(orders[d]) /\ Len(orders[d]) \in Nat
        /\ Len(orders[d]) \in DOMAIN orders[d]
    BY <1>1, <1>2
  <1> DEFINE n == Len(orders[d])
  <1>5. \A x \in DOMAIN orders[d] : (\A j \in DOMAIN orders[d] : j <= x) => x = n
    BY <1>4
  <1>6. n \in DOMAIN orders[d] /\ \A j \in DOMAIN orders[d] : j <= n
    BY <1>4
  <1>7. (CHOOSE x \in DOMAIN orders[d] : \A j \in DOMAIN orders[d] : j <= x) = n
    BY <1>5, <1>6
  <1>8. Latest(d, "paper") = orders[d][n]
    BY <1>3, <1>6, <1>7 DEF Latest, LastIn
  <1> QED BY <1>6, <1>8

LEMMA OnceStep ==
    ASSUME BookInv, OnceInv, [Next]_vars
    PROVE  OnceInv'
  <1> SUFFICES ASSUME retries' = 0 PROVE OnceInv'
    BY DEF OnceInv
  <1>0. /\ TypeInv /\ TypeOK /\ RoundInv /\ IdempotenceInv /\ SizeInv
        /\ rec.todo \subseteq Decision /\ retries = 0
        /\ \A d \in Decision : ~RetryDecision(d)
        /\ handed \subseteq Decision
        /\ \A d \in Decision : orders[d] \in Seq(Row)
    BY RoundFields, CountersGrow DEF BookInv, TruthInv, TypeInv, TypeOK, IdempotenceInv
  <1>a. /\ call.pc # "idle" => call.ref \in handed /\ orders[call.ref] = <<>>
        /\ \A d \in Decision : orders[d] # <<>> => d \in handed
        /\ \A d \in Decision : \A i, j \in DOMAIN orders[d] :
              orders[d][i].mode = orders[d][j].mode
        /\ \A r \in rec.todo : orders[r][Len(orders[r])] = rec.prev[r]
    BY <1>0 DEF OnceInv
  <1>b. \A r \in rec.todo : orders[r] # <<>>
    BY <1>0 DEF RoundInv
  <1>c. handed \subseteq handed'
    BY DEF Next, vars, CallStep, ReconcileStep, ExchangeStep, OnDecisionAllow,
           RetryDecision, AcceptOrder, RefuseOrder, ReceiveReport, PlaceOrdersRaises,
           RecordPlacement, RecordPlacementFails, FetchOpenOrders, ListCurrentOrders,
           PassOver, InsertFill, InsertLifecycleRow, FinishRound, RoundRaises,
           MatchOrder, CloseOrder, ForgetOrder, Restart
  <1>d. RecordPlacement => call.ref \in handed /\ orders[call.ref] = <<>>
    BY <1>a DEF RecordPlacement
  <1>1. call'.pc # "idle" => call'.ref \in handed' /\ orders'[call'.ref] = <<>>
    <2>1. CASE call'.pc = "idle"
      BY <2>1
    <2>2. CASE call.pc # "idle" /\ call'.ref = call.ref /\ ~RecordPlacement
      <3>1. PICK c \in Decision : c = call.ref
        BY <1>0, <1>a, <2>2
      <3>2. ~InsertLifecycleRow(c)
        BY <1>a, <1>b, <2>2, <3>1 DEF InsertLifecycleRow, Current
      <3>3. orders'[c] = orders[c]
        BY <1>0, <2>2, <3>2, OrdersStep
      <3> QED BY <1>a, <1>c, <2>2, <3>1, <3>3
    <2>3. ASSUME NEW d \in Decision, OnDecisionAllow(d), call'.pc # "idle"
          PROVE  call'.ref \in handed' /\ orders'[call'.ref] = <<>>
      <3>1. call'.ref = d /\ d \in handed' /\ orders' = orders /\ d \notin handed
        BY <2>3 DEF OnDecisionAllow, StartCall, Idle
      <3> QED BY <1>a, <3>1
    <2>4. \/ (call' = call /\ ~RecordPlacement) \/ call' = Idle
          \/ \E d \in Decision : OnDecisionAllow(d)
          \/ AcceptOrder \/ RefuseOrder \/ ReceiveReport \/ PlaceOrdersRaises
      BY <1>0 DEF Next, vars, CallStep, ReconcileStep, ExchangeStep,
             RecordPlacement, RecordPlacementFails, FetchOpenOrders, Idle,
             ListCurrentOrders, PassOver, InsertFill, InsertLifecycleRow, FinishRound,
             RoundRaises, MatchOrder, CloseOrder, ForgetOrder, Restart
    <2>5. CASE AcceptOrder \/ RefuseOrder \/ ReceiveReport \/ PlaceOrdersRaises
      <3>1. call.pc \in {"placing", "replying"}
        BY <2>5 DEF AcceptOrder, RefuseOrder, ReceiveReport, PlaceOrdersRaises
      <3>2. AcceptOrder => call'.ref = call.ref
        BY DEF AcceptOrder
      <3>3. RefuseOrder \/ ReceiveReport \/ PlaceOrdersRaises => call'.ref = call.ref
        BY DEF RefuseOrder, ReceiveReport, PlaceOrdersRaises
      <3>4. ~RecordPlacement
        BY <3>1 DEF RecordPlacement
      <3> QED BY <2>2, <2>5, <3>1, <3>2, <3>3, <3>4
    <2>6. CASE call' = Idle
      BY <2>6 DEF Idle
    <2>7. CASE call' = call /\ ~RecordPlacement
      BY <2>1, <2>2, <2>7
    <2> QED BY <2>1, <2>3, <2>4, <2>5, <2>6, <2>7
  <1>2. ASSUME NEW d \in Decision, orders'[d] # <<>>
        PROVE  d \in handed'
    BY <1>0, <1>2, <1>a, <1>b, <1>c, <1>d, OrdersStep DEF InsertLifecycleRow, Current
  <1>3. ASSUME NEW d \in Decision, NEW i \in DOMAIN orders'[d], NEW j \in DOMAIN orders'[d]
        PROVE  orders'[d][i].mode = orders'[d][j].mode
    <2>1. CASE orders'[d] = orders[d]
      BY <1>3, <1>a, <2>1
    <2>2. CASE RecordPlacement /\ d = call.ref /\ call.row \in Row
               /\ orders'[d] = Append(orders[d], call.row)
      <3>1. DOMAIN orders[d] = {}
        BY <1>d, <2>2
      <3>2. orders'[d][i] = call.row /\ orders'[d][j] = call.row
        BY <1>0, <1>3, <2>2, <3>1, LastRowStep
      <3> QED BY <3>2
    <2>3. CASE InsertLifecycleRow(d) /\ LifecycleRow(d) \in Row
               /\ orders'[d] = Append(orders[d], LifecycleRow(d))
      <3>1. /\ LifecycleRow(d).mode = "paper" /\ rec.prev[d].mode = "paper"
            /\ \E x \in DOMAIN orders[d] : orders[d][x] = rec.prev[d]
        BY <1>0, <2>3, RoundRowSize DEF RoundInv
      <3>2. \A x \in DOMAIN orders[d] : orders[d][x].mode = "paper"
        BY <1>a, <3>1
      <3>3. /\ \/ i \in DOMAIN orders[d] /\ orders'[d][i] = orders[d][i]
               \/ orders'[d][i] = LifecycleRow(d)
            /\ \/ j \in DOMAIN orders[d] /\ orders'[d][j] = orders[d][j]
               \/ orders'[d][j] = LifecycleRow(d)
        BY <1>0, <1>3, <2>3, LastRowStep
      <3> QED BY <3>1, <3>2, <3>3
    <2> QED BY <1>0, <2>1, <2>2, <2>3, OrdersStep
  <1>4. ASSUME NEW r \in rec'.todo
        PROVE  orders'[r][Len(orders'[r])] = rec'.prev[r]
    <2>1. CASE r \in rec.todo /\ rec'.prev = rec.prev
      <3>1. ~(RecordPlacement /\ r = call.ref)
        BY <1>b, <1>d, <2>1
      <3>2. ~InsertLifecycleRow(r)
        BY <1>0, <1>4, <2>1, RoundRowSize
      <3>3. orders'[r] = orders[r]
        BY <1>0, <2>1, <3>1, <3>2, OrdersStep
      <3> QED BY <1>a, <2>1, <3>3
    <2>2. CASE /\ FetchOpenOrders /\ rec'.todo = OpenOrders("paper")
               /\ \A d \in rec'.todo : rec'.prev[d] = Latest(d, "paper")
      <3>1. orders' = orders /\ r \in Decision /\ IsOpen(Latest(r, "paper"))
        BY <2>2 DEF FetchOpenOrders, OpenOrders
      <3> QED BY <1>0, <1>a, <2>2, <3>1, LatestOfOneMode
    <2> QED BY <1>0, <2>1, <2>2, RoundStep
  <1> QED BY <1>1, <1>2, <1>3, <1>4 DEF OnceInv

LEMMA InitOnce == Init => OnceInv
  BY DEF Init, OnceInv, Idle, NoRound

-------------------------------------------------------------------------------
(* The fills add up *)

\* As long as nothing fails or is repeated, the fill whose row is missing is the
\* last one of its order.
HalfInv ==
    faults = 0 /\ retries = 0 =>
        \A d \in rec.half : fills[d] # <<>> /\ fills[d][Len(fills[d])] = RoundFill(d)

AddInv == OnceInv /\ HalfInv /\ FillsAddUp

\* Without a failure a fill that waits for its row waits until the row is inserted.
LEMMA HalfStep ==
    ASSUME BookInv, [Next]_vars, faults' = 0, NEW d \in Decision
    PROVE  /\ d \in rec.half => \/ InsertLifecycleRow(d)
                                \/ /\ d \in rec'.half /\ fills'[d] = fills[d]
                                   /\ RoundFill(d)' = RoundFill(d)
           /\ d \in rec'.half => d \in rec.half \/ InsertFill(d)
           /\ InsertFill(d) => /\ d \in rec'.half /\ d \notin rec.half
                               /\ RoundFill(d)' = RoundFill(d)
  <1>0. /\ TypeInv /\ TypeOK /\ RoundInv /\ rec.half \subseteq rec.todo
        /\ faults = 0 /\ faults \in Nat
    BY CountersGrow, ConstantsAssumption
    DEF BookInv, TruthInv, TypeInv, TypeOK, IdempotenceInv, RoundInv
  <1>1. \A r : InsertFill(r) \/ PassOver(r) => RoundFill(d)' = RoundFill(d)
    <2>1. rec = [pc |-> rec.pc, todo |-> rec.todo, half |-> rec.half,
                 prev |-> rec.prev, cur |-> rec.cur]
      BY <1>0, RoundFields
    <2>2. \A r : InsertFill(r) \/ PassOver(r) => rec'.prev = rec.prev /\ rec'.cur = rec.cur
      BY <2>1 DEF InsertFill, PassOver
    <2> QED BY <2>2 DEF RoundFill, MatchedDelta
  <1>2. InsertFill(d) => d \in rec'.half /\ d \notin rec.half
    <2>1. rec = [pc |-> rec.pc, todo |-> rec.todo, half |-> rec.half,
                 prev |-> rec.prev, cur |-> rec.cur]
      BY <1>0, RoundFields
    <2> QED BY <2>1 DEF InsertFill
  <1>3. d \in rec'.half => d \in rec.half \/ InsertFill(d)
    <2>1. rec' = rec => rec'.half = rec.half
      OBVIOUS
    <2> QED BY <1>0, <2>1, RoundStep
  <1>4. ASSUME d \in rec.half, ~InsertLifecycleRow(d)
        PROVE  d \in rec'.half /\ fills'[d] = fills[d] /\ RoundFill(d)' = RoundFill(d)
    <2>0. /\ rec.pc = "applying" /\ d \in rec.todo
          /\ Listed(d) /\ Parsed(d) /\ MatchedDelta(d) > 0
      BY <1>0, <1>4 DEF RoundInv
    <2>1. fills'[d] = fills[d]
      BY <1>0, <1>2, <1>4, FillsStep
    <2>2. CASE rec' = rec
      BY <1>4, <2>1, <2>2 DEF RoundFill, MatchedDelta
    <2>3. ASSUME NEW r \in Decision, PassOver(r) \/ InsertFill(r) \/ InsertLifecycleRow(r)
          PROVE  FALSE
      <3>1. d = r
        BY <1>4, <2>3 DEF PassOver, InsertFill, InsertLifecycleRow, Current
      <3>2. ~InsertFill(d)
        BY <1>2, <1>4
      <3>3. ~PassOver(d)
        <4>1. MatchedDelta(d) \in Int
          BY <1>0, SizesAreNat DEF MatchedDelta
        <4> QED BY <2>0, <4>1 DEF PassOver
      <3> QED BY <1>4, <2>3, <3>1, <3>2, <3>3
    <2>4. \A kind : ~Fails(kind)
      BY <1>0 DEF Fails
    <2>5. ~RoundRaises
      <3>1. \A r \in rec.todo : Current(r) => r = d
        BY <1>4 DEF Current
      <3> QED BY <2>0, <2>4, <3>1 DEF RoundRaises
    <2>6. ~FetchOpenOrders /\ ~ListCurrentOrders /\ ~FinishRound /\ ~Restart
      BY <2>0, <2>4 DEF FetchOpenOrders, ListCurrentOrders, FinishRound, Restart
    <2>7. \/ rec' = rec \/ FetchOpenOrders \/ ListCurrentOrders \/ FinishRound
          \/ RoundRaises \/ Restart
          \/ \E r \in Decision : PassOver(r) \/ InsertFill(r) \/ InsertLifecycleRow(r)
      BY DEF Next, vars, CallStep, ReconcileStep, ExchangeStep, OnDecisionAllow,
             RetryDecision, AcceptOrder, RefuseOrder, ReceiveReport, PlaceOrdersRaises,
             RecordPlacement, RecordPlacementFails, MatchOrder, CloseOrder, ForgetOrder
    <2> QED BY <2>2, <2>3, <2>5, <2>6, <2>7
  <1> QED BY <1>1, <1>2, <1>3, <1>4

LEMMA HalfInvStep ==
    ASSUME BookInv, AddInv, [Next]_vars
    PROVE  HalfInv'
  <1> SUFFICES ASSUME faults' = 0, retries' = 0, NEW d \in rec'.half
               PROVE  fills'[d] # <<>> /\ fills'[d][Len(fills'[d])] = RoundFill(d)'
    BY DEF HalfInv
  <1>0. /\ TypeInv /\ TypeOK /\ RoundInv /\ faults = 0 /\ retries = 0
        /\ \A c \in Decision : fills[c] \in Seq(Fill)
    BY CountersGrow DEF BookInv, TruthInv, TypeInv, TypeOK, IdempotenceInv
  <1>1. d \in Decision
    <2>1. TypeOK'
      BY <1>0, TypeInductive DEF TypeInv
    <2>2. rec'.half \subseteq Decision
      BY <2>1 DEF TypeOK, Round
    <2> QED BY <2>2
  <1>2. CASE InsertFill(d)
    <2>1. RoundFill(d) \in Fill /\ fills'[d] = Append(fills[d], RoundFill(d))
      <3>1. RoundFill(d) \in Fill
        BY <1>0, <1>1, <1>2, RoundFields, ConstantsAssumption
        DEF InsertFill, MatchedDelta, Fill, RoundFill
      <3>2. fills \in [Decision -> Seq(Fill)]
        BY <1>0 DEF TypeOK
      <3> QED BY <1>1, <1>2, <3>1, <3>2 DEF InsertFill, RoundFill
    <2>2. RoundFill(d)' = RoundFill(d)
      BY <1>1, <1>2, HalfStep
    <2>3. /\ Len(fills[d]) \in Nat /\ Len(fills'[d]) = Len(fills[d]) + 1
          /\ fills'[d][Len(fills[d]) + 1] = RoundFill(d)
      BY <1>0, <1>1, <2>1, AppendFacts
    <2>4. fills'[d] # <<>>
      BY <2>3
    <2> QED BY <2>2, <2>3, <2>4
  <1>3. CASE d \in rec.half /\ ~InsertLifecycleRow(d)
    <2>1. fills'[d] = fills[d] /\ RoundFill(d)' = RoundFill(d)
      BY <1>1, <1>3, HalfStep
    <2> QED BY <1>0, <1>3, <2>1 DEF AddInv, HalfInv
  <1>4. ~InsertLifecycleRow(d)
    <2>1. rec = [pc |-> rec.pc, todo |-> rec.todo, half |-> rec.half,
                 prev |-> rec.prev, cur |-> rec.cur]
      BY <1>0, RoundFields
    <2> QED BY <2>1 DEF InsertLifecycleRow
  <1> QED BY <1>1, <1>2, <1>3, <1>4, HalfStep

\* The size at which fill k of an order ends; fill 0 is the placement.
Reached(d, k) == IF k = 0 THEN orders[d][1].matched ELSE fills[d][k].cumulative
AddsUp(d) ==
    /\ \A k \in DOMAIN fills[d] : Before(fills[d][k]) = Reached(d, k - 1)
    /\ d \notin rec.half => Book(d).matched = Reached(d, Len(fills[d]))

LEMMA FillsAddUpIsAddsUp ==
    FillsAddUp <=> (faults = 0 /\ retries = 0 =>
                       \A d \in Decision : orders[d] # <<>> => AddsUp(d))
  BY DEF FillsAddUp, AddsUp, Reached

LEMMA FillsAddUpStep ==
    ASSUME BookInv, AddInv, [Next]_vars
    PROVE  FillsAddUp'
  <1>0. /\ TypeInv /\ TypeOK /\ RoundInv /\ PlacedInv /\ IdempotenceInv /\ SizeInv
        /\ OnceInv /\ HalfInv /\ FillsAddUp
        /\ \A d \in Decision : fills[d] \in Seq(Fill) /\ orders[d] \in Seq(Row)
    BY DEF BookInv, TruthInv, TypeInv, TypeOK, IdempotenceInv, AddInv
  <1> SUFFICES ASSUME faults' = 0, retries' = 0, NEW d \in Decision, orders'[d] # <<>>
               PROVE  /\ \A k \in DOMAIN fills'[d] : Before(fills'[d][k]) = Reached(d, k - 1)'
                      /\ d \notin rec'.half =>
                            Book(d)'.matched = IF Len(fills'[d]) = 0
                                               THEN orders'[d][1].matched
                                               ELSE fills'[d][Len(fills'[d])].cumulative
    BY DEF FillsAddUp, Reached, Before
  <1>1. faults = 0 /\ retries = 0
    BY <1>0, CountersGrow
  <1>2. CASE orders[d] = <<>>
    <2>1. d \notin rec.todo
      BY <1>0, <1>2 DEF RoundInv
    <2>2. ~InsertLifecycleRow(d) /\ ~InsertFill(d)
      BY <2>1 DEF InsertLifecycleRow, InsertFill, Current
    <2>3. call.row \in Row /\ orders'[d] = Append(orders[d], call.row)
      BY <1>0, <1>2, <2>2, OrdersStep
    <2>4. fills'[d] = <<>>
      <3>1. fills'[d] = fills[d]
        BY <1>0, <2>2, FillsStep
      <3> QED BY <1>0, <1>2, <3>1 DEF PlacedInv, Placed
    <2>5. Len(orders'[d]) = 1
      BY <1>0, <1>2, <2>3, LastRowStep
    <2>6. Book(d)'.matched = orders'[d][1].matched
      BY <2>5 DEF Book, ViewOf
    <2> QED BY <2>4, <2>6
  <1>3. CASE orders[d] # <<>>
    <2>1. ~(RecordPlacement /\ d = call.ref)
      BY <1>0, <1>1, <1>3 DEF OnceInv, RecordPlacement
    <2>2. \/ orders'[d] = orders[d]
          \/ /\ InsertLifecycleRow(d) /\ LifecycleRow(d) \in Row
             /\ orders'[d] = Append(orders[d], LifecycleRow(d))
      BY <1>0, <2>1, OrdersStep
    <2>3. orders'[d][1] = orders[d][1]
      BY <1>0, <1>3, <2>2, LastRowStep
    <2>4. AddsUp(d)
      BY <1>0, <1>1, <1>3 DEF FillsAddUp, AddsUp, Reached
    <2>5. CASE fills'[d] = fills[d] /\ orders'[d] = orders[d]
      <3>1. d \notin rec'.half => d \notin rec.half
        <4>1. InsertLifecycleRow(d) => orders'[d] # orders[d]
          <5>1. InsertLifecycleRow(d) =>
                   LifecycleRow(d) \in Row /\ orders'[d] = Append(orders[d], LifecycleRow(d))
            <6>1. InsertLifecycleRow(d) => LifecycleRow(d) \in Row
              BY <1>0, RoundFields DEF InsertLifecycleRow, LifecycleRow, Parsed, Row
            <6>2. orders \in [Decision -> Seq(Row)]
              BY <1>0 DEF TypeOK
            <6> QED BY <6>1, <6>2 DEF InsertLifecycleRow
          <5>2. Len(orders[d]) \in Nat
            BY <1>0
          <5> QED BY <1>0, <5>1, <5>2, AppendFacts
        <4> QED BY <2>5, <4>1, HalfStep
      <3>2. \A k : Reached(d, k)' = Reached(d, k)
        BY <2>5 DEF Reached
      <3>3. Book(d)' = Book(d)
        BY <2>5 DEF Book
      <3> QED BY <2>4, <2>5, <3>1, <3>2, <3>3 DEF AddsUp, Reached
    <2>6. CASE /\ InsertFill(d) /\ RoundFill(d) \in Fill
               /\ fills'[d] = Append(fills[d], RoundFill(d))
      <3>1. d \in rec.todo /\ d \notin rec.half /\ d \in rec'.half /\ orders' = orders
        BY <2>6, HalfStep DEF InsertFill, Current
      <3>2. /\ Len(fills[d]) \in Nat /\ DOMAIN fills[d] = 1 .. Len(fills[d])
            /\ DOMAIN fills'[d] = 1 .. Len(fills[d]) + 1
            /\ \A k \in DOMAIN fills[d] : fills'[d][k] = fills[d][k]
            /\ fills'[d][Len(fills[d]) + 1] = RoundFill(d)
        BY <1>0, <2>6, AppendFacts
      <3>3. \A k \in 0 .. Len(fills[d]) : Reached(d, k)' = Reached(d, k)
        BY <3>1, <3>2 DEF Reached
      <3>4. Before(RoundFill(d)) = Reached(d, Len(fills[d]))
        <4>1. orders[d][Len(orders[d])] = rec.prev[d]
          BY <1>0, <1>1, <3>1 DEF OnceInv
        <4>2. Book(d).matched = rec.prev[d].matched
          BY <1>3, <4>1 DEF Book, ViewOf
        <4> QED BY <1>0, <2>4, <3>1, <4>2, RoundFillStart DEF AddsUp
      <3>5. ASSUME NEW k \in DOMAIN fills'[d]
            PROVE  Before(fills'[d][k]) = Reached(d, k - 1)
        <4>1. CASE k \in DOMAIN fills[d]
          BY <2>4, <3>2, <4>1 DEF AddsUp
        <4>2. CASE k = Len(fills[d]) + 1
          BY <3>2, <3>4, <4>2
        <4> QED BY <3>2, <4>1, <4>2
      <3>6. \A k \in DOMAIN fills'[d] : k - 1 \in 0 .. Len(fills[d])
        BY <3>2
      <3> QED BY <3>1, <3>3, <3>5, <3>6
    <2>7. CASE /\ InsertLifecycleRow(d) /\ LifecycleRow(d) \in Row
               /\ orders'[d] = Append(orders[d], LifecycleRow(d))
      <3>1. /\ fills' = fills /\ d \in rec.todo /\ rec.half \subseteq {d}
            /\ rec.pc = "applying" /\ Listed(d)
            /\ MatchedDelta(d) > 0 => d \in rec.half
        BY <2>7 DEF InsertLifecycleRow, Current, FillDone
      <3>2. \A k : Reached(d, k)' = Reached(d, k)
        BY <2>3, <3>1 DEF Reached
      <3>3. Book(d)'.matched = rec.cur[d].matched
        <4>1. orders'[d][Len(orders'[d])] = LifecycleRow(d)
          BY <1>0, <2>7, LastRowStep
        <4>2. LifecycleRow(d).matched = rec.cur[d].matched
          BY DEF LifecycleRow
        <4> QED BY <4>1, <4>2 DEF Book, ViewOf
      <3>4. CASE d \in rec.half
        <4>1. fills[d] # <<>> /\ fills[d][Len(fills[d])].cumulative = rec.cur[d].matched
          <5>1. fills[d] # <<>> /\ fills[d][Len(fills[d])] = RoundFill(d)
            BY <1>0, <1>1, <3>4 DEF HalfInv
          <5>2. RoundFill(d).cumulative = rec.cur[d].matched
            BY DEF RoundFill
          <5> QED BY <5>1, <5>2
        <4>2. Len(fills[d]) # 0
          BY <1>0, <4>1
        <4> QED BY <2>4, <3>1, <3>2, <3>3, <4>1, <4>2 DEF AddsUp
      <3>5. CASE d \notin rec.half
        <4>1. rec.cur[d].matched \in Nat /\ rec.prev[d].matched \in Nat
          BY <1>0, SizesAreNat
        <4>2. rec.prev[d].matched <= rec.cur[d].matched
          BY <1>0, <3>1 DEF SizeInv
        <4>3. rec.cur[d].matched = rec.prev[d].matched
          BY <3>1, <3>5, <4>1, <4>2 DEF MatchedDelta
        <4>4. orders[d][Len(orders[d])] = rec.prev[d]
          BY <1>0, <1>1, <3>1 DEF OnceInv
        <4>5. Book(d).matched = rec.prev[d].matched
          BY <1>3, <4>4 DEF Book, ViewOf
        <4> QED BY <2>3, <2>4, <3>1, <3>2, <3>3, <3>5, <4>3, <4>5 DEF AddsUp, Reached
      <3> QED BY <3>4, <3>5
    <2>8. InsertFill(d) => orders'[d] = orders[d]
      BY DEF InsertFill
    <2> QED BY <1>0, <2>2, <2>5, <2>6, <2>7, <2>8, FillsStep
  <1> QED BY <1>2, <1>3

LEMMA AddInductive == BookInv /\ AddInv /\ [Next]_vars => AddInv'
  BY OnceStep, HalfInvStep, FillsAddUpStep DEF AddInv

LEMMA InitAdd == Init => AddInv
  BY InitOnce DEF Init, AddInv, HalfInv, FillsAddUp, NoRound

\* FillsAddUp is an invariant: as long as nothing failed or was repeated, the fills
\* lead without a gap from the size of the first row to that of the last.
THEOREM FillsAddUpHolds == Spec => []FillsAddUp
  <1>1. AddInv => FillsAddUp
    BY DEF AddInv
  <1> QED BY InitBook, BookInductive, InitAdd, AddInductive, <1>1, PTL DEF Spec

-------------------------------------------------------------------------------
(* OrderLifecycle implements OrderAudit *)

Market == [d \in Decision |-> ViewOf(exchange[d])]
Ledger == [d \in Decision |-> Book(d)]

\* A row of paper mode, in the table or about to be, is never PENDING: that status
\* is only a dry run's.
PendingInv ==
    /\ \A d \in Decision : \A i \in DOMAIN orders[d] :
          orders[d][i].mode = "paper" => orders[d][i].status # "PENDING"
    /\ call.pc = "recording" /\ call.row.mode = "paper" => call.row.status # "PENDING"

\* What the refinement needs of the state, with no repeats allowed.
RefinementInv == BookInv /\ OnceInv /\ PendingInv /\ retries = 0

\* A row the reconciler inserts has a status that both the exchange and the
\* OrderStatus enum know.
LEMMA LifecycleStatus ==
    ASSUME TypeOK, NEW r \in Decision, InsertLifecycleRow(r)
    PROVE  LifecycleRow(r).status \in {"EXECUTABLE"} \cup ExchangeClosing
  <1>1. rec.cur[r] \in View
    BY RoundFields
  <1>2. rec.cur[r].status # "NONE"
    BY DEF InsertLifecycleRow, Listed
  <1> QED BY <1>1, <1>2 DEF LifecycleRow, View

LEMMA PendingStep ==
    ASSUME BookInv, PendingInv, [Next]_vars
    PROVE  PendingInv'
  <1>0. /\ TypeInv /\ TypeOK /\ ReportParsed /\ CallInv
        /\ \A d \in Decision : orders[d] \in Seq(Row)
    BY DEF BookInv, TruthInv, TypeInv, TypeOK, IdempotenceInv
  <1>1. ASSUME NEW d \in Decision, NEW i \in DOMAIN orders'[d],
               orders'[d][i].mode = "paper"
        PROVE  orders'[d][i].status # "PENDING"
    <2>1. CASE orders'[d] = orders[d]
      BY <1>1, <2>1 DEF PendingInv
    <2>2. CASE RecordPlacement /\ call.row \in Row /\ orders'[d] = Append(orders[d], call.row)
      <3>1. (i \in DOMAIN orders[d] /\ orders'[d][i] = orders[d][i]) \/ orders'[d][i] = call.row
        BY <1>0, <1>1, <2>2, LastRowStep
      <3> QED BY <1>1, <2>2, <3>1 DEF PendingInv, RecordPlacement
    <2>3. CASE InsertLifecycleRow(d) /\ LifecycleRow(d) \in Row
               /\ orders'[d] = Append(orders[d], LifecycleRow(d))
      <3>1. (i \in DOMAIN orders[d] /\ orders'[d][i] = orders[d][i])
            \/ orders'[d][i] = LifecycleRow(d)
        BY <1>0, <1>1, <2>3, LastRowStep
      <3>2. LifecycleRow(d).status # "PENDING"
        BY <1>0, <2>3, LifecycleStatus, ConstantsAssumption
      <3> QED BY <1>1, <3>1, <3>2 DEF PendingInv
    <2> QED BY <1>0, <2>1, <2>2, <2>3, OrdersStep
  <1>2. call'.pc = "recording" /\ call'.row.mode = "paper" => call'.row.status # "PENDING"
    <2>1. CASE call' = call
      BY <2>1 DEF PendingInv
    <2>2. CASE call' = Idle
      BY <2>2 DEF Idle
    <2>3. ASSUME NEW d \in Decision, StartCall(d)
          PROVE  call'.pc = "recording" => call'.row.mode # "paper"
      BY <2>3 DEF StartCall, Idle, DryRunRow
    <2>4. CASE AcceptOrder \/ RefuseOrder
      <3>1. AcceptOrder => call'.pc = "replying"
        BY DEF AcceptOrder
      <3>2. RefuseOrder => call'.pc = "replying"
        BY DEF RefuseOrder
      <3> QED BY <2>4, <3>1, <3>2
    <2>5. CASE ReceiveReport
      <3>1. call.pc = "replying" /\ call.success \in BOOLEAN
            /\ call'.row = PlacedRow(call.success, call.view)
        BY <1>0, <2>5, CallFields DEF ReceiveReport, TypeOK
      <3>2. call.success => call.view.status # "PENDING"
        BY <1>0, <3>1 DEF ReportParsed
      <3> QED BY <3>1, <3>2 DEF PlacedRow, ReportedStatus
    <2>6. CASE PlaceOrdersRaises
      BY <2>6 DEF PlaceOrdersRaises, ErrorRow
    <2>7. \/ call' = call \/ call' = Idle
          \/ \E d \in Decision : StartCall(d)
          \/ AcceptOrder \/ RefuseOrder \/ ReceiveReport \/ PlaceOrdersRaises
      BY DEF Next, vars, CallStep, ReconcileStep, ExchangeStep, OnDecisionAllow,
             RetryDecision, RecordPlacement, RecordPlacementFails, FetchOpenOrders,
             ListCurrentOrders, PassOver, InsertFill, InsertLifecycleRow, FinishRound,
             RoundRaises, MatchOrder, CloseOrder, ForgetOrder, Restart
    <2> QED BY <2>1, <2>2, <2>3, <2>4, <2>5, <2>6, <2>7
  <1> QED BY <1>1, <1>2 DEF PendingInv

\* What an order shows is a state of the abstract market.
LEMMA ViewIsMarketState ==
    ASSUME NEW x \in ExchangeOrder
    PROVE  ViewOf(x) \in Audit!MarketState
  BY DEF ExchangeOrder, ViewOf, Audit!MarketState

\* An order of the exchange that moves on is a Trade, or shows no difference.
LEMMA TradeStep ==
    ASSUME TypeOK, NEW d \in Decision, NEW x \in ExchangeOrder,
           Forward(exchange[d], x), x.status # "NONE",
           exchange[d].status \notin ExchangeClosing,
           exchange' = [exchange EXCEPT ![d] = x], orders' = orders
    PROVE  Audit!Trade(d)
  <1>0. exchange \in [Decision -> ExchangeOrder] /\ exchange[d] \in ExchangeOrder
    BY DEF TypeOK
  <1>1. /\ Market[d] = ViewOf(exchange[d])
        /\ Market' = [Market EXCEPT ![d] = ViewOf(x)]
    BY <1>0 DEF Market
  <1>2. Ledger' = Ledger
    BY DEF Ledger, Book
  <1>3. /\ ViewOf(x) \in Audit!MarketState /\ ViewOf(x).status # "NONE"
        /\ ViewOf(x).matched >= ViewOf(exchange[d]).matched
        /\ ViewOf(exchange[d]).status \notin ExchangeClosing
    BY <1>0, ViewIsMarketState DEF ViewOf, Forward, ExchangeOrder
  <1> QED BY <1>1, <1>2, <1>3 DEF Audit!Trade, Market, Ledger

\* The exchange's side of every step is a Trade or a stutter.
LEMMA MarketStep ==
    ASSUME TypeOK, [Next]_vars
    PROVE  \/ orders' = orders /\ \E d \in Decision : Audit!Trade(d)
           \/ Market' = Market
  <1> USE ConstantsAssumption
  <1>0. exchange \in [Decision -> ExchangeOrder]
        /\ \A d \in Decision : exchange[d] \in ExchangeOrder
    BY DEF TypeOK
  <1>1. ASSUME AcceptOrder
        PROVE  orders' = orders /\ \E d \in Decision : Audit!Trade(d)
    <2>1. call.ref \in Decision /\ call.size \in 1 .. MaxStake
      BY <1>1, CallFields DEF TypeOK, AcceptOrder
    <2> DEFINE x(m) == [status |-> IF m = call.size THEN "EXECUTION_COMPLETE" ELSE "EXECUTABLE",
                        matched |-> m, size |-> call.size, listed |-> TRUE]
    <2>2. PICK m \in IF ImmediateMatch THEN 0 .. call.size ELSE {0} :
             exchange' = [exchange EXCEPT ![call.ref] = x(m)]
      BY <1>1 DEF AcceptOrder
    <2>3. x(m) \in ExchangeOrder /\ x(m).status # "NONE" /\ Forward(NotPlaced, x(m))
      BY <2>1, <2>2 DEF ExchangeOrder, Forward, NotPlaced
    <2>4. exchange[call.ref] = NotPlaced /\ orders' = orders
          /\ NotPlaced.status \notin ExchangeClosing
      BY <1>1 DEF AcceptOrder, NotPlaced
    <2> HIDE DEF x
    <2> QED BY <2>1, <2>2, <2>3, <2>4, TradeStep
  <1>2. ASSUME NEW d \in Decision, MatchOrder(d)
        PROVE  orders' = orders /\ Audit!Trade(d)
    <2> DEFINE x(m) == [exchange[d] EXCEPT
                          !.matched = m,
                          !.status = IF m = exchange[d].size
                                     THEN "EXECUTION_COMPLETE" ELSE "EXECUTABLE"]
    <2>1. PICK m \in exchange[d].matched + 1 .. exchange[d].size :
             exchange' = [exchange EXCEPT ![d] = x(m)]
      BY <1>2 DEF MatchOrder
    <2>2. /\ exchange[d].status = "EXECUTABLE" /\ exchange[d] \in ExchangeOrder
          /\ orders' = orders /\ exchange[d].status \notin ExchangeClosing
      BY <1>0, <1>2 DEF MatchOrder
    <2>3. /\ x(m).matched = m /\ x(m).status \in {"EXECUTION_COMPLETE", "EXECUTABLE"}
          /\ exchange[d].size \in 0 .. MaxStake /\ exchange[d].matched \in 0 .. MaxStake
      BY <2>2 DEF ExchangeOrder
    <2>4. m \in 0 .. MaxStake /\ exchange[d].matched <= m
      BY <2>1, <2>3
    <2>5. x(m) \in ExchangeOrder
      BY <2>2, <2>4 DEF ExchangeOrder
    <2>6. x(m).status # "NONE" /\ Forward(exchange[d], x(m))
      BY <2>2, <2>3, <2>4 DEF Forward
    <2> HIDE DEF x
    <2> QED BY <2>1, <2>2, <2>5, <2>6, TradeStep
  <1>3. ASSUME NEW d \in Decision, CloseOrder(d)
        PROVE  orders' = orders /\ Audit!Trade(d)
    <2> DEFINE x(s) == [exchange[d] EXCEPT !.status = s]
    <2>1. PICK s \in ExchangeClosing : exchange' = [exchange EXCEPT ![d] = x(s)]
      BY <1>3 DEF CloseOrder
    <2>2. /\ exchange[d].status = "EXECUTABLE" /\ exchange[d] \in ExchangeOrder
          /\ orders' = orders /\ exchange[d].status \notin ExchangeClosing
      BY <1>0, <1>3 DEF CloseOrder
    <2>3. x(s) \in ExchangeOrder /\ x(s).status # "NONE" /\ Forward(exchange[d], x(s))
      BY <2>1, <2>2 DEF Forward, ExchangeOrder
    <2> HIDE DEF x
    <2> QED BY <2>1, <2>2, <2>3, TradeStep
  <1>4. ASSUME NEW d \in Decision, ForgetOrder(d)
        PROVE  Market' = Market
    <2>1. exchange' = [exchange EXCEPT ![d] = [exchange[d] EXCEPT !.listed = FALSE]]
      BY <1>4 DEF ForgetOrder
    <2>2. exchange[d] \in ExchangeOrder
      BY <1>0
    <2>3. ViewOf([exchange[d] EXCEPT !.listed = FALSE]) = ViewOf(exchange[d])
      BY <2>2 DEF ViewOf, ExchangeOrder
    <2>4. \A e \in Decision : ViewOf(exchange'[e]) = ViewOf(exchange[e])
      BY <1>0, <2>1, <2>3
    <2> QED BY <2>4 DEF Market
  <1>5. CASE exchange' = exchange
    BY <1>5 DEF Market
  <1>6. \/ exchange' = exchange \/ AcceptOrder
        \/ \E d \in Decision : MatchOrder(d) \/ CloseOrder(d) \/ ForgetOrder(d)
    BY DEF Next, vars, CallStep, ReconcileStep, ExchangeStep, OnDecisionAllow,
           RetryDecision, RefuseOrder, ReceiveReport, PlaceOrdersRaises,
           RecordPlacement, RecordPlacementFails, FetchOpenOrders, ListCurrentOrders,
           PassOver, InsertFill, InsertLifecycleRow, FinishRound, RoundRaises, Restart
  <1> QED BY <1>1, <1>2, <1>3, <1>4, <1>5, <1>6

\* A row that is inserted becomes the book of its order.
LEMMA LedgerStep ==
    ASSUME TypeInv, NEW d \in Decision, NEW row \in Row,
           orders' = [orders EXCEPT ![d] = Append(@, row)]
    PROVE  Ledger' = [Ledger EXCEPT ![d] = ViewOf(row)]
  <1>0. orders \in [Decision -> Seq(Row)]
    BY DEF TypeInv, TypeOK
  <1>1. orders'[d] = Append(orders[d], row)
    BY <1>0
  <1>2. orders'[d] # <<>> /\ orders'[d][Len(orders'[d])] = row
    BY <1>1, LastRowStep
  <1>3. Book(d)' = ViewOf(row)
    BY <1>2 DEF Book
  <1>4. \A e \in Decision : e # d => Book(e)' = Book(e)
    BY <1>0 DEF Book
  <1>5. Ledger' = [e \in Decision |-> Book(e)']
    BY DEF Ledger
  <1> QED BY <1>3, <1>4, <1>5 DEF Ledger

\* The row of a call opens the book of its order.
LEMMA OpenStep ==
    ASSUME RefinementInv, RecordPlacement
    PROVE  Audit!Open(call.ref) /\ call.ref \in Decision
  <1>0. /\ TypeInv /\ TypeOK /\ CallInv /\ call.pc = "recording" /\ CallTruthful
        /\ call.ref \in Decision /\ call.row \in Row
        /\ orders[call.ref] = <<>> /\ orders \in [Decision -> Seq(Row)]
        /\ exchange[call.ref] \in ExchangeOrder
    BY CallFields
    DEF RefinementInv, BookInv, TruthInv, TypeInv, TypeOK, IdempotenceInv, OnceInv,
        RecordPlacement
  <1>a. PICK d \in Decision : d = call.ref
    BY <1>0
  <1>b. PICK b : b = ViewOf(call.row)
    OBVIOUS
  <1>1. /\ b.status = call.row.status /\ b.matched = call.row.matched
        /\ b = [status |-> call.row.status, matched |-> call.row.matched]
    BY <1>b DEF ViewOf
  <1>2. RowTruthful(call.row, exchange[d])
    BY <1>0, <1>a DEF CallTruthful
  <1>3. call.row.status \in {"PENDING", "ERROR"} => call.row.matched = 0
    BY <1>0 DEF CallInv, Placement, Silent, RefinementInv, PendingInv
  <1>4. call.row.status \in {"PENDING", "ERROR", "EXECUTABLE"} \cup ParsedClosing
    BY <1>0 DEF Row, OrderStatus
  <1>5. call.row.status \in ParsedClosing =>
           call.row.status \in ExchangeClosing /\ b = ViewOf(exchange[d])
    BY <1>0, <1>1, <1>2, <1>a DEF RowTruthful, ExchangeOrder, ParsedClosing, ViewOf
  <1>6. call.row.status = "EXECUTABLE" =>
           exchange[d].status # "NONE" /\ call.row.matched <= exchange[d].matched
    BY <1>2 DEF RowTruthful
  <1>7. b \in Audit!BookState
    BY <1>0, <1>1, <1>4, <1>5 DEF Row, Audit!BookState
  <1>8. /\ Ledger[d] = NotListed /\ Market' = Market
        /\ Market[d] = ViewOf(exchange[d])
    BY <1>0, <1>a DEF Ledger, Book, Market, RecordPlacement
  <1>9. Ledger' = [Ledger EXCEPT ![d] = b]
    <2>1. orders' = [orders EXCEPT ![d] = Append(@, call.row)]
      BY <1>a DEF RecordPlacement
    <2> QED BY <1>0, <1>b, <2>1, LedgerStep
  <1>10. \/ b = Audit!Refused
         \/ b = [status |-> "PENDING", matched |-> 0]
         \/ b.status = "EXECUTABLE" /\ Market[d].status # "NONE"
                                    /\ b.matched <= Market[d].matched
         \/ b.status \in ExchangeClosing /\ b = Market[d]
    BY <1>1, <1>3, <1>4, <1>5, <1>6, <1>8 DEF Audit!Refused, ViewOf
  <1>11. Ledger[d].status = "NONE"
    BY <1>8 DEF NotListed
  <1> QED BY <1>0, <1>7, <1>8, <1>9, <1>10, <1>11, <1>a DEF Audit!Open, Market, Ledger

\* The row of a round lets the book of its order follow the exchange.
LEMMA FollowStep ==
    ASSUME RefinementInv, NEW d \in Decision, InsertLifecycleRow(d)
    PROVE  Audit!Follow(d)
  <1>0. /\ TypeInv /\ TypeOK /\ RoundInv /\ IdempotenceInv /\ SizeInv /\ ViewsTruthful
        /\ orders \in [Decision -> Seq(Row)] /\ exchange[d] \in ExchangeOrder
    BY DEF RefinementInv, BookInv, TruthInv, TypeInv, TypeOK, IdempotenceInv
  <1>a. PICK b : b = ViewOf(LifecycleRow(d))
    OBVIOUS
  <1>1. /\ b.status = rec.cur[d].status /\ b.matched = rec.cur[d].matched
        /\ b = [status |-> rec.cur[d].status, matched |-> rec.cur[d].matched]
    BY <1>a DEF ViewOf, LifecycleRow
  <1>2. /\ d \in rec.todo /\ rec.prev[d].matched <= rec.cur[d].matched
        /\ rec.prev[d].mode = "paper" /\ IsOpen(rec.prev[d])
        /\ \E i \in DOMAIN orders[d] : orders[d][i] = rec.prev[d]
    BY <1>0, RoundRowSize DEF RoundInv
  <1>3. rec.prev[d].status = "EXECUTABLE"
    BY <1>2 DEF RefinementInv, PendingInv, IsOpen
  <1>4. orders[d] # <<>> /\ orders[d][Len(orders[d])] = rec.prev[d]
    BY <1>2 DEF RefinementInv, OnceInv
  <1>5. Ledger[d].status = "EXECUTABLE" /\ Ledger[d].matched = rec.prev[d].matched
    BY <1>3, <1>4 DEF Ledger, Book, ViewOf
  <1>6. Seen(rec.cur[d], exchange[d])
    BY <1>0 DEF ViewsTruthful
  <1>7. b.status \in {"EXECUTABLE"} \cup ExchangeClosing
    BY <1>0, <1>1, LifecycleStatus DEF LifecycleRow
  <1>8. Market[d] = ViewOf(exchange[d]) /\ Market' = Market
    BY DEF Market, InsertLifecycleRow
  <1>9. b.status \in ExchangeClosing => b = Market[d]
    BY <1>1, <1>6, <1>8 DEF Seen, ViewOf
  <1>10. b.matched <= Market[d].matched
    BY <1>1, <1>6, <1>8 DEF Seen, ViewOf
  <1>11. b \in Audit!BookState
    <2>1. rec.cur[d].matched \in 0 .. MaxStake
      BY <1>0, RoundFields
    <2> QED BY <1>1, <1>7, <2>1 DEF Audit!BookState
  <1>12. Ledger' = [Ledger EXCEPT ![d] = b]
    <2>1. LifecycleRow(d) \in Row
      BY <1>0, RoundFields DEF InsertLifecycleRow, LifecycleRow, Parsed, Row
    <2>2. orders' = [orders EXCEPT ![d] = Append(@, LifecycleRow(d))]
      BY DEF InsertLifecycleRow
    <2> QED BY <1>0, <1>a, <2>1, <2>2, LedgerStep
  <1>13. b.matched >= Ledger[d].matched
    <2>1. rec.prev[d].matched \in Nat /\ rec.cur[d].matched \in Nat
      BY <1>0, SizesAreNat
    <2> QED BY <1>1, <1>2, <1>5, <2>1
  <1> QED BY <1>5, <1>7, <1>8, <1>9, <1>10, <1>11, <1>12, <1>13
          DEF Audit!Follow, Market, Ledger

\* Every step of OrderLifecycle is a step of OrderAudit or a stutter.
LEMMA AuditStep ==
    ASSUME RefinementInv, [Next]_vars
    PROVE  [Audit!Next]_(Audit!vars)
  <1>0. TypeInv /\ TypeOK
    BY DEF RefinementInv, BookInv, TruthInv, TypeInv
  <1>1. CASE orders' = orders
    <2>1. Ledger' = Ledger
      BY <1>1 DEF Ledger, Book
    <2>2. CASE Market' = Market
      BY <2>1, <2>2 DEF Audit!vars, Market, Ledger
    <2>3. CASE \E d \in Decision : Audit!Trade(d)
      BY <2>3 DEF Audit!Next
    <2> QED BY <1>0, <2>2, <2>3, MarketStep
  <1>2. CASE RecordPlacement
    BY <1>2, OpenStep DEF Audit!Next
  <1>3. CASE \E r \in Decision : InsertLifecycleRow(r)
    BY <1>3, FollowStep DEF Audit!Next
  <1>4. \/ orders' = orders \/ RecordPlacement
        \/ \E r \in Decision : InsertLifecycleRow(r)
    BY DEF Next, vars, CallStep, ReconcileStep, ExchangeStep, OnDecisionAllow,
           RetryDecision, AcceptOrder, RefuseOrder, ReceiveReport, PlaceOrdersRaises,
           RecordPlacementFails, FetchOpenOrders, ListCurrentOrders, PassOver,
           InsertFill, FinishRound, RoundRaises, MatchOrder, CloseOrder,
           ForgetOrder, Restart
  <1> QED BY <1>1, <1>2, <1>3, <1>4

LEMMA AuditInit == Init => Audit!Init
  <1> SUFFICES ASSUME Init PROVE Audit!Init
    OBVIOUS
  <1>1. \A d \in Decision : ViewOf(exchange[d]) = Audit!Unknown /\ Book(d) = Audit!Unknown
    BY DEF Init, NotPlaced, ViewOf, Book, NotListed, Audit!Unknown
  <1> QED BY <1>1 DEF Audit!Init

LEMMA RefinementInductive ==
    MaxRetries = 0 => (RefinementInv /\ [Next]_vars => RefinementInv')
  <1> SUFFICES ASSUME MaxRetries = 0, RefinementInv, [Next]_vars PROVE RefinementInv'
    OBVIOUS
  <1>1. BookInv'
    BY BookInductive DEF RefinementInv
  <1>2. retries' = 0
    BY <1>1 DEF BookInv, TruthInv, TypeInv, TypeOK
  <1> QED BY <1>1, <1>2, OnceStep, PendingStep DEF RefinementInv

LEMMA InitRefinement == Init => RefinementInv
  BY InitBook, InitOnce DEF Init, RefinementInv, PendingInv, Idle

\* The detailed specification implements the abstract one when nobody repeats a
\* call by hand: through every failure and restart the last row of an order follows
\* the exchange from behind, never shrinks and is never written again once closed.
THEOREM ImplementsAudit ==
    ASSUME MaxRetries = 0
    PROVE  Spec => BookFollowsMarket
  <1>1. RefinementInv /\ [Next]_vars => RefinementInv'
    BY RefinementInductive
  <1>2. RefinementInv /\ [Next]_vars => [Audit!Next]_(Audit!vars)
    BY AuditStep
  <1> QED BY InitRefinement, AuditInit, <1>1, <1>2, PTL DEF Spec, BookFollowsMarket, Audit!Spec
===============================================================================
