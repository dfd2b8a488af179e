------------------------ MODULE DecisionPipeline_proofs ------------------------
(***************************************************************************)
(* Theorems about DecisionPipeline for every set of markets and events,    *)
(* every trading window and cap, and every number of restarts, operator    *)
(* commands and failures.                                                  *)
(***************************************************************************)
EXTENDS DecisionPipeline, FiniteSetTheorems, TLAPS

-------------------------------------------------------------------------------
(* The number of ALLOW rows *)

\* The ALLOW rows of an event are finitely many.
LEMMA AllowRowsFinite ==
    ASSUME decisions \in Seq(Market), NEW e
    PROVE  IsFiniteSet(AllowRows(e)) /\ AllowCount(e) \in Nat
  <1>1. DOMAIN decisions = 1 .. Len(decisions) /\ Len(decisions) \in Nat
    OBVIOUS
  <1>2. IsFiniteSet(1 .. Len(decisions))
    BY <1>1, FS_Interval
  <1>3. IsFiniteSet(AllowRows(e))
    BY <1>1, <1>2, FS_Subset DEF AllowRows
  <1> QED BY <1>3, FS_CardinalityType DEF AllowCount

\* An ALLOW row of market m adds one to the count of its event and leaves the
\* count of every other event as it was.
LEMMA AllowCountAppend ==
    ASSUME decisions \in Seq(Market), NEW m \in Market,
           decisions' = Append(decisions, m), NEW e
    PROVE  AllowCount(e)' = IF EventOf[m] = e THEN AllowCount(e) + 1 ELSE AllowCount(e)
  <1> DEFINE n == Len(decisions)
  <1>1. /\ n \in Nat /\ DOMAIN decisions = 1 .. n /\ DOMAIN decisions' = 1 .. n + 1
        /\ \A i \in 1 .. n : decisions'[i] = decisions[i]
        /\ decisions'[n + 1] = m
    OBVIOUS
  <1> HIDE DEF n
  <1>2. n + 1 \notin AllowRows(e)
    BY <1>1 DEF AllowRows
  <1>3. CASE EventOf[m] = e
    <2>1. AllowRows(e)' = AllowRows(e) \cup {n + 1}
      BY <1>1, <1>3 DEF AllowRows
    <2>2. Cardinality(AllowRows(e) \cup {n + 1}) = Cardinality(AllowRows(e)) + 1
      BY <1>2, AllowRowsFinite, FS_AddElement
    <2> QED BY <1>3, <2>1, <2>2 DEF AllowCount
  <1>4. CASE EventOf[m] # e
    <2>1. AllowRows(e)' = AllowRows(e)
      BY <1>1, <1>4 DEF AllowRows
    <2> QED BY <1>4, <2>1 DEF AllowCount
  <1> QED BY <1>3, <1>4

-------------------------------------------------------------------------------
(* Types, the cap and the orders *)

\* The count an evaluation carries to its verdict is still the count of the table.
CountFresh ==
    cycle.pc = "decide" => cycle.count = AllowCount(EventOf[cycle.market])

\* The inductive strengthening of the cap: types and cap need each other, since
\* the count read is typed by the cap.
CapInv == TypeOK /\ PositionCap /\ CountFresh

LEMMA NoCycleType == NoCycle \in Cycle
  BY ConstantsAssumption DEF NoCycle, Cycle

LEMMA OnToNextType == ASSUME TypeOK PROVE OnToNext \in Cycle /\ OnToNext.pc = "next"
  <1>1. cycle \in Cycle
    BY DEF TypeOK
  <1>2. 0 \in 0 .. MaxPositions
    BY ConstantsAssumption
  <1>3. OnToNext \in Cycle
    BY <1>1, <1>2 DEF OnToNext, Cycle
  <1>4. OnToNext.pc = "next"
    BY <1>1 DEF OnToNext, Cycle
  <1> QED BY <1>3, <1>4

\* Nothing but an ALLOW verdict adds a row, and only the evaluation in flight
\* can: so the count it read is fresh when it decides.
LEMMA CapInductive == CapInv /\ [Next]_vars => CapInv'
  <1> USE ConstantsAssumption
  <1> SUFFICES ASSUME CapInv, [Next]_vars PROVE CapInv'
    OBVIOUS
  <1>0. TypeOK /\ PositionCap /\ CountFresh /\ cycle \in Cycle
    BY DEF CapInv, TypeOK
  <1>a. ASSUME decisions' = decisions PROVE PositionCap' /\ \A e : AllowCount(e)' = AllowCount(e)
    BY <1>0, <1>a DEF PositionCap, AllowCount, AllowRows
  <1>1. CASE StartCycle
    <2>1. [m \in Market |-> IF m \in Eligible THEN MinutesToStart(m) ELSE 0] \in [Market -> Int]
      BY <1>0 DEF MinutesToStart, TypeOK
    <2>2. cycle' \in Cycle /\ cycle'.pc = "listing"
      BY <1>1, <2>1, NoCycleType DEF StartCycle, NoCycle, Cycle, Eligible
    <2> QED BY <1>0, <1>a, <1>1, <2>2 DEF CapInv, TypeOK, CountFresh, StartCycle, world
  <1>2. CASE ListBooks
    BY <1>0, <1>a, <1>2 DEF CapInv, TypeOK, CountFresh, ListBooks, world, Cycle
  <1>3. ASSUME NEW m \in Market, NextMarket(m) PROVE CapInv'
    BY <1>0, <1>a, <1>3 DEF CapInv, TypeOK, CountFresh, NextMarket, world, Cycle
  <1>4. ASSUME NEW m \in Market, SkipMarket(m) PROVE CapInv'
    <2>1. mishaps' \in 0 .. MaxMishaps
      BY <1>0, <1>4 DEF TypeOK, SkipMarket
    <2>2. cycle' \in Cycle /\ cycle'.pc = "next"
      BY <1>0, <1>4 DEF SkipMarket, Cycle
    <2> QED BY <1>0, <1>a, <1>4, <2>1, <2>2 DEF CapInv, TypeOK, CountFresh, SkipMarket, world
  <1>5. CASE FinishCycle
    BY <1>0, <1>a, <1>5, NoCycleType
    DEF CapInv, TypeOK, CountFresh, FinishCycle, NoCycle, world
  <1>6. CASE CycleRaises
    BY <1>0, <1>a, <1>6, NoCycleType
    DEF CapInv, TypeOK, CountFresh, CycleRaises, AfterRaise, NoCycle, world
  <1>7. CASE ReadConfig
    BY <1>0, <1>a, <1>7 DEF CapInv, TypeOK, CountFresh, ReadConfig, KillAsRead, world, Cycle
  <1>8. CASE Infer
    BY <1>0, <1>a, <1>8 DEF CapInv, TypeOK, CountFresh, Infer, world, Cycle
  <1>9. CASE CountAllows
    <2>1. cycle.market \in Market /\ decisions \in Seq(Market)
      BY <1>0, <1>9 DEF CountAllows, TypeOK
    <2>2. AllowCount(EventOf[cycle.market]) \in 0 .. MaxPositions
      BY <1>0, <2>1, AllowRowsFinite DEF PositionCap
    <2> HIDE DEF CountFresh
    <2>3. cycle' \in Cycle /\ cycle'.pc = "decide" /\ cycle'.market = cycle.market
          /\ cycle'.count = AllowCount(EventOf[cycle.market])
      BY <1>0, <1>9, <2>2 DEF CountAllows, Cycle
    <2>4. CountFresh'
      BY <1>a, <1>9, <2>3 DEF CountAllows, CountFresh
    <2> QED BY <1>0, <1>a, <1>9, <2>1, <2>3, <2>4 DEF CapInv, TypeOK, CountAllows, world
  <1>10. CASE InsertDecision
    <2>1. cycle.market \in Market /\ decisions \in Seq(Market)
      BY <1>0, <1>10 DEF InsertDecision, TypeOK
    <2>3. decisions' \in Seq(Market)
      BY <1>10, <2>1 DEF InsertDecision, RowsAfter
    <2>4. PositionCap'
      <3>1. CASE Verdict = "ALLOW"
        <4>1. AllowCount(EventOf[cycle.market]) < MaxPositions
          BY <1>0, <1>10, <3>1 DEF Verdict, PositionOpen, CountFresh, InsertDecision
        <4>2. decisions' = Append(decisions, cycle.market)
          BY <1>10, <3>1 DEF InsertDecision, RowsAfter
        <4> SUFFICES ASSUME NEW e \in Event PROVE AllowCount(e)' <= MaxPositions
          BY DEF PositionCap
        <4>3. AllowCount(e) \in Nat /\ AllowCount(e) <= MaxPositions
          BY <1>0, <2>1, AllowRowsFinite DEF PositionCap
        <4>4. AllowCount(e)' = IF EventOf[cycle.market] = e THEN AllowCount(e) + 1
                                                            ELSE AllowCount(e)
          BY <2>1, <4>2, AllowCountAppend
        <4>5. CASE EventOf[cycle.market] = e
          <5>1. AllowCount(e) < MaxPositions
            BY <4>1, <4>5
          <5> QED BY <4>3, <4>4, <4>5, <5>1
        <4>6. CASE EventOf[cycle.market] # e
          BY <4>3, <4>4, <4>6
        <4> QED BY <4>5, <4>6
      <3>2. CASE Verdict # "ALLOW"
        BY <1>a, <1>10, <3>2 DEF InsertDecision, RowsAfter
      <3> QED BY <3>1, <3>2
    <2>5. cycle' \in Cycle /\ cycle'.pc \in {"sizing", "next"}
          /\ (cycle'.pc = "sizing" => cycle'.market = cycle.market)
      BY <1>0, <1>10, OnToNextType DEF InsertDecision, Cycle
    <2> QED BY <1>0, <1>10, <2>1, <2>3, <2>4, <2>5
            DEF CapInv, TypeOK, CountFresh, InsertDecision, world
  <1>11. CASE SkipOrder
    BY <1>0, <1>a, <1>11, OnToNextType DEF CapInv, TypeOK, CountFresh, SkipOrder, world
  <1>12. CASE SizeOrder
    BY <1>0, <1>a, <1>12 DEF CapInv, TypeOK, CountFresh, SizeOrder, world, Cycle
  <1>13. CASE SendOrder
    <2>1. sent' \in Seq([decision : Nat, at : 0 .. Horizon])
      BY <1>0, <1>13 DEF SendOrder, TypeOK
    <2>2. leaked' \in Nat
      BY <1>0, <1>13 DEF SendOrder, TypeOK
    <2> QED BY <1>0, <1>a, <1>13, <2>1, <2>2, OnToNextType
            DEF CapInv, TypeOK, CountFresh, SendOrder, world
  <1>14. CASE Tick
    BY <1>0, <1>a, <1>14 DEF CapInv, TypeOK, CountFresh, Tick
  <1>15. CASE OperatorSetsKill
    BY <1>0, <1>a, <1>15 DEF CapInv, TypeOK, CountFresh, OperatorSetsKill, SetKill
  <1>16. CASE Restart
    BY <1>0, <1>a, <1>16, NoCycleType DEF CapInv, TypeOK, CountFresh, Restart, SetKill, NoCycle
  <1>17. CASE UNCHANGED vars
    BY <1>0, <1>a, <1>17 DEF CapInv, TypeOK, CountFresh, vars
  <1> QED BY <1>1, <1>2, <1>3, <1>4, <1>5, <1>6, <1>7, <1>8, <1>9, <1>10, <1>11,
             <1>12, <1>13, <1>14, <1>15, <1>16, <1>17 DEF Next, PollStep

LEMMA InitCap == Init => CapInv
  <1> USE ConstantsAssumption
  <1> SUFFICES ASSUME Init PROVE CapInv
    OBVIOUS
  <1>1. TypeOK
    BY NoCycleType DEF Init, TypeOK, NoCycle
  <1>2. ASSUME NEW e \in Event PROVE AllowCount(e) <= MaxPositions
    <2>1. AllowRows(e) = {}
      BY DEF Init, AllowRows
    <2> QED BY <2>1, FS_EmptySet DEF AllowCount
  <1>3. CountFresh
    BY DEF Init, CountFresh, NoCycle
  <1> QED BY <1>1, <1>2, <1>3 DEF CapInv, PositionCap

LEMMA CapAlways == Spec => []CapInv
  <1> QED BY InitCap, CapInductive, PTL DEF Spec

\* Every variable of the poll task, the tables and the histories keeps its type
\* through every step of DecisionEngine.evaluate and on_decision_allow.
THEOREM PipelineTypeCorrect == Spec => []TypeOK
  <1>1. CapInv => TypeOK
    BY DEF CapInv
  <1> QED BY <1>1, CapAlways, PTL

\* services/decision_engine.py counts the ALLOW rows of an event, decides and
\* inserts in separate steps without a lock; because one task runs them in
\* order, the cap holds whatever raises or restarts in between.
THEOREM PositionCapHolds == Spec => []PositionCap
  <1>1. CapInv => PositionCap
    BY DEF CapInv
  <1> QED BY <1>1, CapAlways, PTL

-------------------------------------------------------------------------------
(* The kill switch *)

\* The evaluation in flight has read the switch and found it down.
PastTheSwitch ==
    cycle.pc \in {"infer", "count", "decide", "sizing", "placing"} /\ ~cycle.kill

\* The strengthening: while the switch is up nothing has leaked yet if an
\* evaluation is past it, and only such an evaluation is sized or sent.
KillInv ==
    /\ config => IF PastTheSwitch THEN leaked = 0 ELSE leaked <= 1
    /\ cycle.pc \in {"sizing", "placing"} => ~cycle.kill

LEMMA KillInductive == TypeOK /\ KillInv /\ [Next]_vars => KillInv'
  <1> USE DEF KillInv, PastTheSwitch, world
  <1> SUFFICES ASSUME TypeOK, KillInv, [Next]_vars PROVE KillInv'
    OBVIOUS
  <1>0. cycle \in Cycle /\ leaked \in Nat /\ config \in BOOLEAN
    BY DEF TypeOK
  <1>1. CASE StartCycle
    BY <1>0, <1>1 DEF StartCycle, NoCycle
  <1>2. CASE ListBooks
    BY <1>0, <1>2 DEF ListBooks, Cycle
  <1>3. ASSUME NEW m \in Market, NextMarket(m) PROVE KillInv'
    BY <1>0, <1>3 DEF NextMarket, Cycle
  <1>4. ASSUME NEW m \in Market, SkipMarket(m) PROVE KillInv'
    BY <1>0, <1>4 DEF SkipMarket, Cycle
  <1>5. CASE FinishCycle
    BY <1>0, <1>5 DEF FinishCycle, NoCycle
  <1>6. CASE CycleRaises
    BY <1>0, <1>6 DEF CycleRaises, AfterRaise, NoCycle
  <1>7. CASE ReadConfig
    BY <1>0, <1>7 DEF ReadConfig, KillAsRead, Cycle
  <1>8. CASE Infer
    BY <1>0, <1>8 DEF Infer, Cycle
  <1>9. CASE CountAllows
    BY <1>0, <1>9 DEF CountAllows, Cycle
  <1>10. CASE InsertDecision
    <2>1. Verdict = "ALLOW" => ~cycle.kill
      BY DEF Verdict
    <2>2. Verdict # "ALLOW" => cycle'.pc = "next"
      BY <1>10, OnToNextType DEF InsertDecision
    <2>3. Verdict = "ALLOW" => cycle'.pc = "sizing" /\ cycle'.kill = cycle.kill
      BY <1>0, <1>10 DEF InsertDecision, Cycle
    <2> QED BY <1>0, <1>10, <2>1, <2>2, <2>3 DEF InsertDecision
  <1>11. CASE SkipOrder
    BY <1>0, <1>11, OnToNextType DEF SkipOrder
  <1>12. CASE SizeOrder
    BY <1>0, <1>12 DEF SizeOrder, Cycle
  <1>13. CASE SendOrder
    BY <1>0, <1>13, OnToNextType DEF SendOrder
  <1>14. CASE Tick
    BY <1>0, <1>14 DEF Tick
  <1>15. CASE OperatorSetsKill
    BY <1>0, <1>15 DEF OperatorSetsKill, SetKill
  <1>16. CASE Restart
    BY <1>0, <1>16 DEF Restart, SetKill, NoCycle
  <1>17. CASE UNCHANGED vars
    BY <1>17 DEF vars
  <1> QED BY <1>1, <1>2, <1>3, <1>4, <1>5, <1>6, <1>7, <1>8, <1>9, <1>10, <1>11,
             <1>12, <1>13, <1>14, <1>15, <1>16, <1>17 DEF Next, PollStep

\* DecisionEngine.evaluate reads the switch before it awaits the probabilities
\* and nothing reads it again before place_orders: however many markets a cycle
\* has, at most the one evaluation that had read it gets through.
THEOREM KillSwitchLeaksAtMostOne == Spec => []KillLeaksAtMostOne
  <1>1. Init => KillInv
    BY DEF Init, KillInv, PastTheSwitch, NoCycle
  <1>2. TypeOK /\ KillInv => KillLeaksAtMostOne
    BY DEF KillInv, KillLeaksAtMostOne, TypeOK
  <1> QED BY <1>1, <1>2, KillInductive, PipelineTypeCorrect, PTL DEF Spec

-------------------------------------------------------------------------------
(* An order only after its decision, and one only *)

\* The strengthening: the decision being sized or sent is the newest row, and
\* no order sent so far belongs to it.
OrderInv ==
    /\ OneOrderPerDecision
    /\ cycle.pc \in {"sizing", "placing"} =>
          /\ Len(decisions) > 0
          /\ \A i \in DOMAIN sent : sent[i].decision < Len(decisions)

\* A step that touches neither table nor history, and enters no evaluation,
\* keeps the strengthening.
LEMMA OrderKept ==
    ASSUME OrderInv, UNCHANGED <<decisions, sent>>,
           cycle'.pc \in {"sizing", "placing"} => cycle.pc \in {"sizing", "placing"}
    PROVE  OrderInv'
  BY DEF OrderInv, OneOrderPerDecision

LEMMA InsertKeepsOrders == ASSUME TypeOK, OrderInv, InsertDecision PROVE OrderInv'
  <1>1. cycle \in Cycle /\ cycle.market \in Market /\ decisions \in Seq(Market)
    BY DEF InsertDecision, TypeOK
  <1>2. CASE Verdict = "ALLOW"
    <2>1. decisions' = Append(decisions, cycle.market) /\ sent' = sent
      BY <1>2 DEF InsertDecision, RowsAfter
    <2>2. /\ DOMAIN decisions = 1 .. Len(decisions) /\ Len(decisions) \in Nat
          /\ DOMAIN decisions' = 1 .. Len(decisions) + 1
          /\ Len(decisions') = Len(decisions) + 1
      BY <1>1, <2>1
    <2> QED BY <2>1, <2>2 DEF OrderInv, OneOrderPerDecision
  <1>3. CASE Verdict # "ALLOW"
    BY <1>3, OnToNextType, OrderKept DEF InsertDecision, RowsAfter
  <1> QED BY <1>2, <1>3

LEMMA SendKeepsOrders == ASSUME TypeOK, OrderInv, SendOrder PROVE OrderInv'
  <1> DEFINE o == [decision |-> Len(decisions), at |-> now]
             n == Len(sent)
  <1>1. sent \in Seq([decision : Nat, at : 0 .. Horizon]) /\ decisions \in Seq(Market)
    BY DEF TypeOK
  <1>2. sent' = Append(sent, o) /\ decisions' = decisions /\ cycle' = OnToNext
    BY DEF SendOrder
  <1>3. o \in [decision : Nat, at : 0 .. Horizon] /\ o.decision = Len(decisions)
    BY <1>1 DEF TypeOK
  <1> HIDE DEF o
  <1>4. /\ n \in Nat /\ DOMAIN sent = 1 .. n /\ DOMAIN sent' = 1 .. n + 1
        /\ \A i \in 1 .. n : sent'[i] = sent[i]
        /\ sent'[n + 1] = o
    BY <1>1, <1>2, <1>3
  <1>5. Len(decisions) \in DOMAIN decisions
        /\ \A i \in 1 .. n : sent[i].decision # Len(decisions)
    <2>1. Len(decisions) > 0 /\ \A i \in 1 .. n : sent[i].decision < Len(decisions)
      BY <1>4 DEF OrderInv, SendOrder
    <2> QED BY <1>1, <1>4, <2>1
  <1> HIDE DEF n
  <1>6. \A i \in 1 .. n + 1 : i \in 1 .. n \/ i = n + 1
    BY <1>4
  <1>7. \A i \in DOMAIN sent' : sent'[i].decision \in DOMAIN decisions
    BY <1>3, <1>4, <1>5, <1>6 DEF OrderInv, OneOrderPerDecision
  <1>8. ASSUME NEW i \in DOMAIN sent', NEW j \in DOMAIN sent',
               sent'[i].decision = sent'[j].decision
        PROVE  i = j
    <2>1. CASE i \in 1 .. n /\ j \in 1 .. n
      BY <1>4, <1>8, <2>1 DEF OrderInv, OneOrderPerDecision
    <2>2. CASE i = n + 1 /\ j \in 1 .. n
      BY <1>3, <1>4, <1>5, <1>8, <2>2
    <2>3. CASE i \in 1 .. n /\ j = n + 1
      BY <1>3, <1>4, <1>5, <1>8, <2>3
    <2> QED BY <1>4, <1>6, <2>1, <2>2, <2>3
  <1>9. cycle'.pc = "next"
    BY <1>2, OnToNextType
  <1> QED BY <1>2, <1>7, <1>8, <1>9 DEF OrderInv, OneOrderPerDecision

LEMMA OrderInductive == TypeOK /\ OrderInv /\ [Next]_vars => OrderInv'
  <1> USE DEF world
  <1> SUFFICES ASSUME TypeOK, OrderInv, [Next]_vars PROVE OrderInv'
    OBVIOUS
  <1>0. cycle \in Cycle
    BY DEF TypeOK
  <1>1. CASE StartCycle
    BY <1>1, OrderKept DEF StartCycle, NoCycle
  <1>2. CASE ListBooks
    BY <1>0, <1>2, OrderKept DEF ListBooks, Cycle
  <1>3. ASSUME NEW m \in Market, NextMarket(m) PROVE OrderInv'
    BY <1>0, <1>3, OrderKept DEF NextMarket, Cycle
  <1>4. ASSUME NEW m \in Market, SkipMarket(m) PROVE OrderInv'
    BY <1>0, <1>4, OrderKept DEF SkipMarket, Cycle
  <1>5. CASE FinishCycle
    BY <1>5, OrderKept DEF FinishCycle, NoCycle
  <1>6. CASE CycleRaises
    BY <1>6, OrderKept DEF CycleRaises, AfterRaise, NoCycle
  <1>7. CASE ReadConfig
    BY <1>0, <1>7, OrderKept DEF ReadConfig, Cycle
  <1>8. CASE Infer
    BY <1>0, <1>8, OrderKept DEF Infer, Cycle
  <1>9. CASE CountAllows
    BY <1>0, <1>9, OrderKept DEF CountAllows, Cycle
  <1>10. CASE InsertDecision
    BY <1>10, InsertKeepsOrders
  <1>11. CASE SkipOrder
    BY <1>11, OnToNextType, OrderKept DEF SkipOrder
  <1>12. CASE SizeOrder
    BY <1>0, <1>12, OrderKept DEF SizeOrder, Cycle
  <1>13. CASE SendOrder
    BY <1>13, SendKeepsOrders
  <1>14. CASE Tick
    BY <1>14, OrderKept DEF Tick
  <1>15. CASE OperatorSetsKill
    BY <1>15, OrderKept DEF OperatorSetsKill
  <1>16. CASE Restart
    BY <1>16, OrderKept DEF Restart, NoCycle
  <1>17. CASE UNCHANGED vars
    BY <1>17, OrderKept DEF vars
  <1> QED BY <1>1, <1>2, <1>3, <1>4, <1>5, <1>6, <1>7, <1>8, <1>9, <1>10, <1>11,
             <1>12, <1>13, <1>14, <1>15, <1>16, <1>17 DEF Next, PollStep

\* The decision row is in the table before place_orders is called and no row
\* gets a second order, so the cap on ALLOW rows is a cap on the orders sent.
THEOREM OneOrderPerDecisionHolds == Spec => []OneOrderPerDecision
  <1>1. Init => OrderInv
    BY DEF Init, OrderInv, OneOrderPerDecision, NoCycle
  <1>2. OrderInv => OneOrderPerDecision
    BY DEF OrderInv
  <1> QED BY <1>1, <1>2, OrderInductive, PipelineTypeCorrect, PTL DEF Spec

-------------------------------------------------------------------------------
(* No order before its window *)

\* The strengthening: what a listing said of a market still to be evaluated, or
\* being evaluated, is no less than what is left until kick-off, and the decision
\* being sized or sent is for a market whose listing was within the window.
WindowInv ==
    /\ NotBeforeWindow
    /\ \A m \in Market :
          m \in cycle.batch \/ m = cycle.market => StartOf[m] - now <= cycle.quotes[m]
    /\ cycle.pc \in {"sizing", "placing"} =>
          /\ decisions[Len(decisions)] = cycle.market
          /\ cycle.quotes[cycle.market] <= WindowStart

\* A step that sends nothing, takes up no market and enters no evaluation keeps
\* the strengthening; the clock may move on.
LEMMA WindowKept ==
    ASSUME TypeOK, WindowInv, UNCHANGED <<decisions, sent>>,
           now' \in Nat, now <= now',
           \/ cycle'.quotes = cycle.quotes
           \/ (cycle'.batch = {} /\ cycle'.market = NoMarket),
           cycle'.batch \subseteq cycle.batch,
           cycle'.market \in cycle.batch \cup {cycle.market, NoMarket},
           cycle'.pc \in {"sizing", "placing"} =>
              /\ cycle.pc \in {"sizing", "placing"}
              /\ cycle'.market = cycle.market /\ cycle'.quotes = cycle.quotes
    PROVE  WindowInv'
  <1>1. NotBeforeWindow'
    BY DEF WindowInv, NotBeforeWindow
  <1>2. ASSUME NEW m \in Market, m \in cycle'.batch \/ m = cycle'.market
        PROVE  StartOf[m] - now' <= cycle'.quotes[m]
    <2>1. m # NoMarket
      BY ConstantsAssumption
    <2>2. cycle'.quotes = cycle.quotes /\ (m \in cycle.batch \/ m = cycle.market)
      BY <1>2, <2>1
    <2>3. StartOf[m] - now <= cycle.quotes[m]
      BY <2>2 DEF WindowInv
    <2>4. StartOf[m] \in Nat /\ now \in Nat /\ cycle.quotes[m] \in Int
      BY ConstantsAssumption DEF TypeOK, Cycle
    <2> QED BY <2>2, <2>3, <2>4
  <1>3. cycle'.pc \in {"sizing", "placing"} =>
          /\ decisions'[Len(decisions')] = cycle'.market
          /\ cycle'.quotes[cycle'.market] <= WindowStart
    BY DEF WindowInv
  <1> QED BY <1>1, <1>2, <1>3 DEF WindowInv

LEMMA StartKeepsWindow == ASSUME TypeOK, WindowInv, StartCycle PROVE WindowInv'
  <1> DEFINE q == [m \in Market |-> IF m \in Eligible THEN MinutesToStart(m) ELSE 0]
  <1>1. /\ cycle'.pc = "listing" /\ cycle'.batch = Eligible
        /\ cycle'.market = NoMarket /\ cycle'.quotes = q
    BY DEF StartCycle, NoCycle
  <1>2. now' = now /\ sent' = sent /\ decisions' = decisions
    BY DEF StartCycle, world
  <1>3. NotBeforeWindow'
    BY <1>2 DEF WindowInv, NotBeforeWindow
  <1>4. ASSUME NEW m \in Market, m \in cycle'.batch \/ m = cycle'.market
        PROVE  StartOf[m] - now' <= cycle'.quotes[m]
    <2>1. m \in Eligible
      BY <1>1, <1>4, ConstantsAssumption
    <2>2. q[m] = StartOf[m] - now
      BY <2>1 DEF MinutesToStart
    <2>3. StartOf[m] \in Nat /\ now \in Nat
      BY ConstantsAssumption DEF TypeOK
    <2> QED BY <1>1, <1>2, <2>2, <2>3
  <1> QED BY <1>1, <1>3, <1>4 DEF WindowInv

LEMMA InsertKeepsWindow ==
    ASSUME TypeOK, OneOrderPerDecision, WindowInv, InsertDecision PROVE WindowInv'
  <1>1. cycle \in Cycle /\ cycle.market \in Market /\ decisions \in Seq(Market) /\ now \in Nat
    BY DEF InsertDecision, TypeOK
  <1>2. CASE Verdict = "ALLOW"
    <2>1. decisions' = Append(decisions, cycle.market) /\ sent' = sent /\ now' = now
      BY <1>2 DEF InsertDecision, RowsAfter, world
    <2>2. /\ DOMAIN decisions = 1 .. Len(decisions)
          /\ \A i \in DOMAIN decisions : decisions'[i] = decisions[i]
          /\ decisions'[Len(decisions')] = cycle.market
      BY <1>1, <2>1
    <2>3. /\ cycle'.batch = cycle.batch /\ cycle'.market = cycle.market
          /\ cycle'.quotes = cycle.quotes
      BY <1>1, <1>2 DEF InsertDecision, Cycle
    <2>4. cycle.quotes[cycle.market] <= WindowStart
      BY <1>2 DEF Verdict, InWindow
    <2>5. NotBeforeWindow'
      BY <2>1, <2>2 DEF WindowInv, NotBeforeWindow, OneOrderPerDecision
    <2> QED BY <2>1, <2>2, <2>3, <2>4, <2>5 DEF WindowInv
  <1>3. CASE Verdict # "ALLOW"
    <2>1. decisions' = decisions /\ sent' = sent /\ now' = now /\ cycle' = OnToNext
      BY <1>3 DEF InsertDecision, RowsAfter, world
    <2>2. /\ OnToNext.pc = "next" /\ OnToNext.market = NoMarket
          /\ OnToNext.batch = cycle.batch /\ OnToNext.quotes = cycle.quotes
      BY <1>1 DEF OnToNext, Cycle
    <2> QED BY <1>1, <2>1, <2>2, WindowKept
  <1> QED BY <1>2, <1>3

LEMMA SendKeepsWindow == ASSUME TypeOK, WindowInv, SendOrder PROVE WindowInv'
  <1> DEFINE o == [decision |-> Len(decisions), at |-> now]
             n == Len(sent)
  <1>1. sent \in Seq([decision : Nat, at : 0 .. Horizon]) /\ decisions \in Seq(Market)
        /\ now \in 0 .. Horizon /\ cycle \in Cycle /\ cycle.market \in Market
    BY DEF TypeOK, SendOrder
  <1>2. sent' = Append(sent, o) /\ decisions' = decisions /\ cycle' = OnToNext /\ now' = now
    BY DEF SendOrder, world
  <1>3. StartOf[decisions[o.decision]] - o.at <= WindowStart
    <2>1. /\ decisions[Len(decisions)] = cycle.market
          /\ cycle.quotes[cycle.market] <= WindowStart
          /\ StartOf[cycle.market] - now <= cycle.quotes[cycle.market]
      BY <1>1 DEF WindowInv, SendOrder
    <2>2. /\ StartOf[cycle.market] \in Nat /\ now \in Nat /\ WindowStart \in Nat
          /\ cycle.quotes[cycle.market] \in Int
      BY <1>1, ConstantsAssumption DEF Cycle
    <2> QED BY <2>1, <2>2
  <1>4. o \in [decision : Nat, at : 0 .. Horizon]
    BY <1>1
  <1> HIDE DEF o
  <1>5. /\ DOMAIN sent = 1 .. n /\ DOMAIN sent' = 1 .. n + 1 /\ n \in Nat
        /\ \A i \in 1 .. n : sent'[i] = sent[i]
        /\ sent'[n + 1] = o
    BY <1>1, <1>2, <1>4
  <1> HIDE DEF n
  <1>6. NotBeforeWindow'
    <2> SUFFICES ASSUME NEW i \in DOMAIN sent'
                 PROVE  StartOf[decisions'[sent'[i].decision]] - sent'[i].at <= WindowStart
      BY DEF NotBeforeWindow
    <2>1. CASE i \in 1 .. n
      BY <1>2, <1>5, <2>1 DEF WindowInv, NotBeforeWindow
    <2>2. CASE i = n + 1
      BY <1>2, <1>3, <1>5, <2>2
    <2> QED BY <1>5, <2>1, <2>2
  <1>7. /\ cycle'.pc = "next" /\ cycle'.market = NoMarket
        /\ cycle'.batch = cycle.batch /\ cycle'.quotes = cycle.quotes
    BY <1>1, <1>2 DEF OnToNext, Cycle
  <1> QED BY <1>2, <1>6, <1>7, ConstantsAssumption DEF WindowInv

LEMMA WindowInductive ==
    TypeOK /\ OneOrderPerDecision /\ WindowInv /\ [Next]_vars => WindowInv'
  <1> USE DEF world
  <1> SUFFICES ASSUME TypeOK, OneOrderPerDecision, WindowInv, [Next]_vars PROVE WindowInv'
    OBVIOUS
  <1>0. cycle \in Cycle /\ now \in Nat
    BY DEF TypeOK
  <1>a. /\ OnToNext.pc = "next" /\ OnToNext.market = NoMarket
        /\ OnToNext.batch = cycle.batch /\ OnToNext.quotes = cycle.quotes
    BY <1>0 DEF OnToNext, Cycle
  <1>1. CASE StartCycle
    BY <1>1, StartKeepsWindow
  <1>2. CASE ListBooks
    BY <1>0, <1>2, WindowKept DEF ListBooks, Cycle
  <1>3. ASSUME NEW m \in Market, NextMarket(m) PROVE WindowInv'
    <2>1. cycle'.pc = "config" /\ cycle'.quotes = cycle.quotes
          /\ cycle'.batch \subseteq cycle.batch /\ cycle'.market = m /\ m \in cycle.batch
      BY <1>0, <1>3 DEF NextMarket, Cycle
    <2>2. UNCHANGED <<decisions, sent, now>>
      BY <1>3 DEF NextMarket
    <2> QED BY <1>0, <2>1, <2>2, WindowKept
  <1>4. ASSUME NEW m \in Market, SkipMarket(m) PROVE WindowInv'
    <2>1. cycle'.pc = "next" /\ cycle'.quotes = cycle.quotes
          /\ cycle'.batch \subseteq cycle.batch /\ cycle'.market = cycle.market
      BY <1>0, <1>4 DEF SkipMarket, Cycle
    <2>2. UNCHANGED <<decisions, sent, now>>
      BY <1>4 DEF SkipMarket
    <2> QED BY <1>0, <2>1, <2>2, WindowKept
  <1>5. CASE FinishCycle
    BY <1>0, <1>5, WindowKept DEF FinishCycle, NoCycle
  <1>6. CASE CycleRaises
    BY <1>0, <1>6, WindowKept DEF CycleRaises, AfterRaise, NoCycle
  <1>7. CASE ReadConfig
    BY <1>0, <1>7, WindowKept DEF ReadConfig, Cycle
  <1>8. CASE Infer
    BY <1>0, <1>8, WindowKept DEF Infer, Cycle
  <1>9. CASE CountAllows
    BY <1>0, <1>9, WindowKept DEF CountAllows, Cycle
  <1>10. CASE InsertDecision
    BY <1>10, InsertKeepsWindow
  <1>11. CASE SkipOrder
    BY <1>0, <1>a, <1>11, WindowKept DEF SkipOrder
  <1>12. CASE SizeOrder
    BY <1>0, <1>12, WindowKept DEF SizeOrder, Cycle
  <1>13. CASE SendOrder
    BY <1>13, SendKeepsWindow
  <1>14. CASE Tick
    BY <1>0, <1>14, WindowKept DEF Tick
  <1>15. CASE OperatorSetsKill
    BY <1>0, <1>15, WindowKept DEF OperatorSetsKill
  <1>16. CASE Restart
    BY <1>0, <1>16, WindowKept DEF Restart, NoCycle
  <1>17. CASE UNCHANGED vars
    BY <1>0, <1>17, WindowKept DEF vars
  <1> QED BY <1>1, <1>2, <1>3, <1>4, <1>5, <1>6, <1>7, <1>8, <1>9, <1>10, <1>11,
             <1>12, <1>13, <1>14, <1>15, <1>16, <1>17 DEF Next, PollStep

\* list_market_book takes its clock before the request and nothing looks at the
\* clock again before place_orders: an order may leave late, but however long the
\* awaits and the other markets of the cycle take, never before the window opens.
THEOREM NotBeforeWindowHolds == Spec => []NotBeforeWindow
  <1>1. Init => WindowInv
    <2> SUFFICES ASSUME Init PROVE WindowInv
      OBVIOUS
    <2>1. cycle.pc = "idle" /\ cycle.batch = {} /\ cycle.market = NoMarket /\ DOMAIN sent = {}
      BY DEF Init, NoCycle
    <2> QED BY <2>1, ConstantsAssumption DEF WindowInv, NotBeforeWindow
  <1>2. WindowInv => NotBeforeWindow
    BY DEF WindowInv
  <1> QED BY <1>1, <1>2, WindowInductive, PipelineTypeCorrect, OneOrderPerDecisionHolds, PTL
          DEF Spec
===============================================================================
