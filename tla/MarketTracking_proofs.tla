------------------------- MODULE MarketTracking_proofs -------------------------
(***************************************************************************)
(* Theorems about MarketTracking for every set of markets and runners,     *)
(* every window and catalogue, and every number of restarts and failures.  *)
(***************************************************************************)
EXTENDS MarketTracking, TLAPS

-------------------------------------------------------------------------------
(* Types *)

LEMMA NoDiscoveryType == NoDiscovery \in Discovery
  BY DEF NoDiscovery, Discovery, Time, None

LEMMA NoPollType == NoPoll \in Poll /\ NoPoll.pc = "idle"
  BY DEF NoPoll, Poll

LEMMA LoadedType ==
    ASSUME TypeOK, NEW c \in Component, NEW m \in Market
    PROVE  Loaded(c, m) \in SUBSET Runner
  BY DEF TypeOK, Loaded

\* Every step of the two tasks, the exchange and the process keeps the types.
LEMMA TypeInductive == TypeOK /\ [Next]_vars => TypeOK'
  <1> USE ConstantsAssumption, NoDiscoveryType, NoPollType
      DEF TypeOK, world, caches
  <1> SUFFICES ASSUME TypeOK, [Next]_vars PROVE TypeOK'
    OBVIOUS
  <1>1. CASE ListCatalogue
    <2> DEFINE F == [m \in Market |-> IF now <= kickOff[m] /\ kickOff[m] <= now + Ahead
                                      THEN kickOff[m] ELSE None]
    <2>1. F \in [Market -> Time]
      BY DEF Time
    <2>2. disc' = [NoDiscovery EXCEPT !.pc = "storing", !.found = F]
      BY <1>1 DEF ListCatalogue
    <2> HIDE DEF F
    <2>3. disc' \in Discovery
      BY <2>1, <2>2 DEF Discovery
    <2> QED BY <1>1, <2>3 DEF ListCatalogue
  <1>2. ASSUME NEW m \in Market, SkipTracked(m) PROVE TypeOK'
    <2>1. disc' \in Discovery
      BY <1>2 DEF SkipTracked, Discovery, Time
    <2> QED BY <1>2, <2>1 DEF SkipTracked
  <1>3. ASSUME NEW m \in Market, InsertMarket(m) PROVE TypeOK'
    <2>1. disc' \in Discovery
      BY <1>3 DEF InsertMarket, Discovery
    <2> QED BY <1>3, <2>1 DEF InsertMarket, TrackedMeanwhile
  <1>4. ASSUME NEW r \in Runner, InsertRunner(r) PROVE TypeOK'
    <2>1. disc.market \in Market /\ disc.found[disc.market] \in Time
      BY <1>4 DEF InsertRunner, Discovery
    <2>2. runners' \in [Market -> SUBSET Runner]
      BY <1>4, <2>1 DEF InsertRunner
    <2>3. tracked' \in [Market -> Time] /\ disc' \in Discovery
      <3>1. CASE disc.left = {r}
        <4> DEFINE F == [disc.found EXCEPT ![disc.market] = None]
        <4>1. tracked' = [tracked EXCEPT ![disc.market] = disc.found[disc.market]]
          BY <1>4, <3>1 DEF InsertRunner
        <4>2. tracked' \in [Market -> Time]
          BY <2>1, <4>1
        <4>3. None \in Time /\ disc.found \in [Market -> Time]
          BY DEF Discovery, Time
        <4>4. F \in [Market -> Time]
          BY <2>1, <4>3
        <4>5. disc' = [disc EXCEPT !.found = F, !.market = NoMarket, !.left = {}]
          BY <1>4, <3>1 DEF InsertRunner, Discovery
        <4> HIDE DEF F
        <4>6. disc' \in Discovery
          BY <4>4, <4>5 DEF Discovery
        <4> QED BY <4>2, <4>6
      <3>2. CASE disc.left # {r}
        BY <1>4, <3>2 DEF InsertRunner, Discovery
      <3> QED BY <3>1, <3>2
    <2> QED BY <1>4, <2>2, <2>3 DEF InsertRunner
  <1>5. CASE FinishDiscovery
    BY <1>5 DEF FinishDiscovery
  <1>6. CASE DiscoveryRaises
    <2>1. mishaps' \in 0 .. MaxMishaps
      BY <1>6 DEF DiscoveryRaises
    <2> QED BY <1>6, <2>1 DEF DiscoveryRaises
  <1>7. CASE StartPoll
    <2>1. tracked' \in [Market -> Time]
      BY <1>7 DEF StartPoll, Time
    <2>2. poll' \in Poll /\ poll'.pc # "evaluating"
      BY <1>7 DEF StartPoll, Eligible, NoPoll, Poll
    <2> QED BY <1>7, <2>1, <2>2 DEF StartPoll
  <1>8. CASE ListBooks
    BY <1>8 DEF ListBooks, Poll
  <1>9. ASSUME NEW m \in Market, BuildFeatures(m) PROVE TypeOK'
    <2>1. known' \in [Component -> [Market -> SUBSET Runner]]
      BY <1>9, LoadedType DEF BuildFeatures, Component
    <2>2. external' \subseteq Market /\ extRows' \in [Market -> Nat]
      BY <1>9 DEF BuildFeatures, ExternalCached
    <2>3. poll' \in Poll /\ poll'.market \in Market
      BY <1>9 DEF BuildFeatures, Poll
    <2> QED BY <1>9, <2>1, <2>2, <2>3 DEF BuildFeatures
  <1>10. ASSUME NEW m \in Market, BuildFeaturesRaises(m) PROVE TypeOK'
    <2>1. known' \in [Component -> [Market -> SUBSET Runner]]
      BY <1>10, LoadedType DEF BuildFeaturesRaises, Component
    <2>2. mishaps' \in 0 .. MaxMishaps
      BY <1>10 DEF BuildFeaturesRaises
    <2> QED BY <1>10, <2>1, <2>2 DEF BuildFeaturesRaises, AfterRaise
  <1>11. CASE Evaluate
    <2>1. poll.market \in Market
      BY <1>11 DEF Evaluate
    <2>2. known' \in [Component -> [Market -> SUBSET Runner]]
      BY <1>11, <2>1, LoadedType DEF Evaluate, Component
    <2>3. decided' \subseteq Market
      BY <1>11, <2>1 DEF Evaluate
    <2>4. poll' \in Poll /\ poll'.pc = "next"
      BY <1>11 DEF Evaluate, Poll
    <2> QED BY <1>11, <2>2, <2>3, <2>4 DEF Evaluate
  <1>12. CASE FinishPoll
    BY <1>12 DEF FinishPoll
  <1>13. CASE PollRaises
    <2>1. mishaps' \in 0 .. MaxMishaps
      BY <1>13 DEF PollRaises
    <2> QED BY <1>13, <2>1 DEF PollRaises, AfterRaise
  <1>14. CASE Tick
    <2>1. now' \in 0 .. Horizon
      BY <1>14 DEF Tick
    <2> QED BY <1>14, <2>1 DEF Tick
  <1>15. ASSUME NEW m \in Market, Reschedule(m) PROVE TypeOK'
    <2>1. kickOff' \in [Market -> Nat] /\ moves' \in 0 .. MaxMoves
      BY <1>15 DEF Reschedule
    <2> QED BY <1>15, <2>1 DEF Reschedule
  <1>16. CASE Restart
    <2>1. restarts' \in 0 .. MaxRestarts
      BY <1>16 DEF Restart
    <2>2. tracked' \in [Market -> Time] /\ known' \in [Component -> [Market -> SUBSET Runner]]
      BY <1>16 DEF Restart, Time
    <2> QED BY <1>16, <2>1, <2>2 DEF Restart
  <1>17. CASE UNCHANGED vars
    BY <1>17 DEF vars
  <1> QED BY <1>1, <1>2, <1>3, <1>4, <1>5, <1>6, <1>7, <1>8, <1>9, <1>10, <1>11,
             <1>12, <1>13, <1>14, <1>15, <1>16, <1>17
          DEF Next, DiscoveryStep, PollStep

\* Every variable of the two tasks, the tables and the caches keeps its type.
THEOREM TrackingTypeCorrect == Spec => []TypeOK
  <1>1. Init => TypeOK
    BY ConstantsAssumption, NoDiscoveryType, NoPollType DEF Init, TypeOK, Time, None
  <1> QED BY <1>1, TypeInductive, PTL DEF Spec

-------------------------------------------------------------------------------
(* What is tracked is stored *)

\* Tracking begins after the last insert, and the inserts still to be made are
\* those of `left`: what makes TrackedIsStored inductive.
StoreInv ==
    /\ TrackedIsStored
    /\ disc.market # NoMarket =>
          /\ disc.market \in markets /\ disc.left # {}
          /\ Runner \ disc.left \subseteq runners[disc.market]

LEMMA StoreInductive == TypeOK /\ StoreInv /\ [Next]_vars => StoreInv'
  <1> USE ConstantsAssumption DEF StoreInv, TrackedIsStored, world, caches
  <1> SUFFICES ASSUME TypeOK, StoreInv, [Next]_vars PROVE StoreInv'
    OBVIOUS
  <1>1. CASE ListCatalogue
    <2>1. disc'.market = NoMarket
      BY <1>1 DEF ListCatalogue, NoDiscovery
    <2> QED BY <1>1, <2>1 DEF ListCatalogue
  <1>2. ASSUME NEW m \in Market, SkipTracked(m) PROVE StoreInv'
    <2>1. disc'.market = NoMarket
      BY <1>2 DEF SkipTracked, TypeOK, Discovery
    <2> QED BY <1>2, <2>1 DEF SkipTracked
  <1>3. ASSUME NEW m \in Market, InsertMarket(m) PROVE StoreInv'
    <2>1. disc'.market = m /\ disc'.left = Runner
      BY <1>3 DEF InsertMarket, TypeOK, Discovery
    <2> QED BY <1>3, <2>1 DEF InsertMarket, TrackedMeanwhile
  <1>4. ASSUME NEW r \in Runner, InsertRunner(r) PROVE StoreInv'
    <2> DEFINE m == disc.market
    <2>1. m \in Market /\ m \in markets /\ m # NoMarket
      BY <1>4 DEF InsertRunner, TypeOK, Discovery
    <2>2. /\ runners' = [runners EXCEPT ![m] = @ \cup {r}]
          /\ runners'[m] = runners[m] \cup {r}
          /\ \A n \in Market : n # m => runners'[n] = runners[n]
          /\ runners[m] \subseteq Runner
          /\ markets' = markets
      BY <1>4, <2>1 DEF InsertRunner, TypeOK
    <2>3. CASE disc.left = {r}
      <3>1. runners'[m] = Runner
        BY <2>1, <2>2, <2>3
      <3>2. disc'.market = NoMarket
        BY <1>4, <2>3 DEF InsertRunner, TypeOK, Discovery
      <3>3. \A n \in Market : n # m => tracked'[n] = tracked[n]
        BY <1>4, <2>3 DEF InsertRunner, TypeOK
      <3> QED BY <2>1, <2>2, <3>1, <3>2, <3>3
    <2>4. CASE disc.left # {r}
      <3>1. disc'.market = m /\ disc'.left = disc.left \ {r} /\ tracked' = tracked
        BY <1>4, <2>4 DEF InsertRunner, TypeOK, Discovery
      <3>2. disc'.left # {} /\ Runner \ disc'.left \subseteq runners'[m]
        BY <1>4, <2>1, <2>2, <2>4, <3>1 DEF InsertRunner
      <3>3. \A n \in Market : tracked[n] # None => runners'[n] = Runner
        BY <1>4, <2>1, <2>2
      <3> QED BY <2>1, <2>2, <3>1, <3>2, <3>3
    <2> QED BY <2>3, <2>4
  <1>5. CASE FinishDiscovery \/ DiscoveryRaises
    <2>1. disc'.market = NoMarket
      BY <1>5 DEF FinishDiscovery, DiscoveryRaises, NoDiscovery
    <2> QED BY <1>5, <2>1 DEF FinishDiscovery, DiscoveryRaises
  <1>6. CASE StartPoll
    <2>1. \A m \in Market : tracked'[m] # None => tracked[m] # None
      BY <1>6 DEF StartPoll
    <2> QED BY <1>6, <2>1 DEF StartPoll
  <1>7. CASE ListBooks \/ Evaluate \/ FinishPoll \/ PollRaises
    BY <1>7 DEF ListBooks, Evaluate, FinishPoll, PollRaises
  <1>8. ASSUME NEW m \in Market, BuildFeatures(m) \/ BuildFeaturesRaises(m)
        PROVE  StoreInv'
    BY <1>8 DEF BuildFeatures, BuildFeaturesRaises
  <1>9. CASE Tick \/ \E m \in Market : Reschedule(m)
    BY <1>9 DEF Tick, Reschedule
  <1>10. CASE Restart
    <2>1. disc'.market = NoMarket /\ \A m \in Market : tracked'[m] = None
      BY <1>10 DEF Restart, NoDiscovery
    <2> QED BY <2>1
  <1>11. CASE UNCHANGED vars
    BY <1>11 DEF vars
  <1> QED BY <1>1, <1>2, <1>3, <1>4, <1>5, <1>6, <1>7, <1>8, <1>9, <1>10, <1>11
          DEF Next, DiscoveryStep, PollStep

LEMMA StoreInvariant == Spec => [](TypeOK /\ StoreInv)
  <1>1. Init => StoreInv
    BY DEF Init, StoreInv, TrackedIsStored, NoDiscovery
  <1> QED BY <1>1, StoreInductive, TrackingTypeCorrect, PTL DEF Spec

\* However the inserts fail and whatever the poll task does meanwhile, a market
\* that is tracked has its row and the rows of all of its runners.
THEOREM TrackedIsStoredHolds == Spec => []TrackedIsStored
  <1>1. StoreInv => TrackedIsStored
    BY DEF StoreInv
  <1> QED BY <1>1, StoreInvariant, PTL

-------------------------------------------------------------------------------
(* What is cached is complete *)

Stored(m) == m \in markets /\ runners[m] = Runner

\* A market in the poll task's hands was tracked once, so it is stored still.
CacheInv ==
    /\ CachesAreComplete
    /\ \A m \in poll.batch : Stored(m)
    /\ poll.market # NoMarket => Stored(poll.market)

\* Rows are never deleted.
LEMMA StoredStays ==
    ASSUME TypeOK, [Next]_vars, NEW m \in Market, Stored(m) PROVE Stored(m)'
  <1> USE DEF Stored, world, caches
  <1>1. ASSUME NEW r \in Runner, InsertRunner(r) PROVE Stored(m)'
    BY <1>1 DEF InsertRunner, TypeOK
  <1>2. ASSUME NEW n \in Market, InsertMarket(n) PROVE Stored(m)'
    BY <1>2 DEF InsertMarket
  <1>3. CASE markets' = markets /\ runners' = runners
    BY <1>3
  <1>4. CASE DiscoveryStep
    BY <1>1, <1>2, <1>3, <1>4
       DEF DiscoveryStep, ListCatalogue, FinishDiscovery, DiscoveryRaises, SkipTracked
  <1>5. CASE PollStep
    BY <1>3, <1>5
       DEF PollStep, StartPoll, ListBooks, Evaluate, FinishPoll, PollRaises,
           BuildFeatures, BuildFeaturesRaises
  <1>6. CASE Tick \/ (\E n \in Market : Reschedule(n)) \/ Restart \/ UNCHANGED vars
    BY <1>3, <1>6 DEF Tick, Reschedule, Restart, vars
  <1> QED BY <1>4, <1>5, <1>6 DEF Next

\* Asking for the runners of a stored market answers with all of them.
LEMMA LoadedIsComplete ==
    ASSUME CachesAreComplete, NEW c \in Component, NEW m \in Market, Stored(m)
    PROVE  Loaded(c, m) = Runner
  BY DEF CachesAreComplete, Loaded, Stored

LEMMA CacheInductive ==
    TypeOK /\ TrackedIsStored /\ CacheInv /\ [Next]_vars => CacheInv'
  <1> USE ConstantsAssumption DEF CacheInv, world, caches
  <1> SUFFICES ASSUME TypeOK, TrackedIsStored, CacheInv, [Next]_vars PROVE CacheInv'
    OBVIOUS
  <1>1. \A m \in Market : Stored(m) => Stored(m)'
    BY StoredStays
  <1>2. poll.batch \subseteq Market /\ poll.market \in Market \cup {NoMarket}
    BY DEF TypeOK, Poll
  <1>3. ASSUME known' = known, poll'.batch \subseteq poll.batch,
               poll'.market \in {poll.market, NoMarket}
        PROVE  CacheInv'
    BY <1>1, <1>2, <1>3 DEF CachesAreComplete
  <1>4. CASE DiscoveryStep
    <2>1. known' = known /\ poll' = poll
      BY <1>4 DEF DiscoveryStep, ListCatalogue, FinishDiscovery, DiscoveryRaises,
                  SkipTracked, InsertMarket, InsertRunner
    <2> QED BY <1>3, <2>1
  <1>5. CASE StartPoll
    <2>1. known' = known /\ poll'.market = NoMarket /\ poll'.batch \subseteq Eligible
      BY <1>5 DEF StartPoll, NoPoll
    <2>2. \A m \in Eligible : m \in Market /\ Stored(m)
      BY DEF Eligible, TrackedIsStored, Stored
    <2> QED BY <1>1, <2>1, <2>2 DEF CachesAreComplete
  <1>6. CASE ListBooks \/ FinishPoll \/ PollRaises
    BY <1>3, <1>6 DEF ListBooks, FinishPoll, PollRaises, AfterRaise, NoPoll, TypeOK, Poll
  <1>7. ASSUME NEW m \in Market, BuildFeatures(m) PROVE CacheInv'
    <2>1. Stored(m) /\ Loaded("features", m) = Runner
      BY <1>7, LoadedIsComplete DEF BuildFeatures, Component
    <2>2. CachesAreComplete'
      BY <1>7, <2>1 DEF BuildFeatures, CachesAreComplete, TypeOK, Component
    <2>3. poll'.batch \subseteq poll.batch /\ poll'.market = m
      BY <1>7 DEF BuildFeatures, TypeOK, Poll
    <2> QED BY <1>1, <1>2, <2>1, <2>2, <2>3
  <1>8. ASSUME NEW m \in Market, BuildFeaturesRaises(m) PROVE CacheInv'
    <2>1. Loaded("features", m) = Runner
      BY <1>8, LoadedIsComplete DEF BuildFeaturesRaises, Component
    <2>2. CachesAreComplete'
      BY <1>8, <2>1 DEF BuildFeaturesRaises, CachesAreComplete, TypeOK, Component
    <2>3. poll'.batch = {} /\ poll'.market = NoMarket
      BY <1>8 DEF BuildFeaturesRaises, AfterRaise, NoPoll
    <2> QED BY <2>2, <2>3
  <1>9. CASE Evaluate
    <2> DEFINE m == poll.market
    <2>1. m \in Market /\ Stored(m)
      BY <1>9 DEF Evaluate, TypeOK
    <2>2. Loaded("decision", m) = Runner
      BY <2>1, LoadedIsComplete DEF Component
    <2>3. CachesAreComplete'
      BY <1>9, <2>1, <2>2 DEF Evaluate, CachesAreComplete, TypeOK, Component
    <2>4. poll'.batch = poll.batch /\ poll'.market = NoMarket
      BY <1>9 DEF Evaluate, TypeOK, Poll
    <2> QED BY <1>1, <1>2, <2>3, <2>4
  <1>10. CASE Tick \/ \E m \in Market : Reschedule(m)
    BY <1>3, <1>10 DEF Tick, Reschedule
  <1>11. CASE Restart
    BY <1>11 DEF Restart, NoPoll, CachesAreComplete
  <1>12. CASE UNCHANGED vars
    BY <1>3, <1>12 DEF vars
  <1> QED BY <1>4, <1>5, <1>6, <1>7, <1>8, <1>9, <1>10, <1>11, <1>12
          DEF Next, PollStep

\* No component ever keeps part of a market's runners for the life of the process.
THEOREM CachesAreCompleteHolds == Spec => []CachesAreComplete
  <1>1. Init => CacheInv
    BY DEF Init, CacheInv, CachesAreComplete, NoPoll
  <1>2. CacheInv => CachesAreComplete
    BY DEF CacheInv
  <1> QED BY <1>1, <1>2, CacheInductive, TrackingTypeCorrect, TrackedIsStoredHolds, PTL
          DEF Spec

-------------------------------------------------------------------------------
(* External features are stored once *)

\* A row of this process is known to it.
ExternalInv ==
    \A m \in Market : extRows[m] <= restarts + (IF m \in external THEN 1 ELSE 0)

LEMMA ExternalInductive == TypeOK /\ ExternalInv /\ [Next]_vars => ExternalInv'
  <1> USE DEF ExternalInv, world, caches
  <1> SUFFICES ASSUME TypeOK, ExternalInv, [Next]_vars PROVE ExternalInv'
    OBVIOUS
  <1>1. CASE UNCHANGED <<external, extRows, restarts>>
    BY <1>1
  <1>2. ASSUME NEW m \in Market, BuildFeatures(m) PROVE ExternalInv'
    <2>1. CASE m \in external \/ Loaded("features", m) = {}
      BY <1>1, <1>2, <2>1 DEF BuildFeatures
    <2>2. CASE ~(m \in external \/ Loaded("features", m) = {})
      BY <1>2, <2>2 DEF BuildFeatures, ExternalCached, TypeOK
    <2> QED BY <2>1, <2>2
  <1>3. CASE Restart
    <2>1. restarts \in Nat /\ \A m \in Market : extRows[m] \in Nat
      BY ConstantsAssumption DEF TypeOK
    <2>2. restarts' = restarts + 1 /\ external' = {} /\ extRows' = extRows
      BY <1>3 DEF Restart
    <2> QED BY <2>1, <2>2
  <1>4. CASE DiscoveryStep
    BY <1>1, <1>4 DEF DiscoveryStep, ListCatalogue, FinishDiscovery, DiscoveryRaises,
                      SkipTracked, InsertMarket, InsertRunner
  <1>5. CASE PollStep
    BY <1>1, <1>2, <1>5 DEF PollStep, StartPoll, ListBooks, Evaluate, FinishPoll,
                            PollRaises, BuildFeaturesRaises
  <1>6. CASE Tick \/ (\E m \in Market : Reschedule(m)) \/ UNCHANGED vars
    BY <1>1, <1>6 DEF Tick, Reschedule, vars
  <1> QED BY <1>3, <1>4, <1>5, <1>6 DEF Next

\* A process inserts the external features of a market at most once.
THEOREM ExternalOncePerProcessHolds == Spec => []ExternalOncePerProcess
  <1>1. Init => ExternalInv
    <2> SUFFICES ASSUME Init, NEW m \in Market
                 PROVE  extRows[m] <= restarts + (IF m \in external THEN 1 ELSE 0)
      BY DEF ExternalInv
    <2>1. extRows[m] = 0 /\ restarts = 0 /\ m \notin external
      BY DEF Init
    <2> QED BY <2>1
  <1>2. TypeOK /\ ExternalInv => ExternalOncePerProcess
    <2> SUFFICES ASSUME TypeOK, ExternalInv, NEW m \in Market
                 PROVE  extRows[m] <= 1 + restarts
      BY DEF ExternalOncePerProcess
    <2>1. extRows[m] \in Nat /\ restarts \in Nat
      BY ConstantsAssumption DEF TypeOK
    <2>2. extRows[m] <= restarts + (IF m \in external THEN 1 ELSE 0)
      BY DEF ExternalInv
    <2> QED BY <2>1, <2>2
  <1> QED BY <1>1, <1>2, ExternalInductive, TrackingTypeCorrect, PTL DEF Spec
===============================================================================
