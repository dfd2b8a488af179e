------------------------ MODULE TaskScheduling_proofs ------------------------
(***************************************************************************)
(* Theorems about TaskScheduling for every pool, any number of health      *)
(* requests and any length of a poll cycle.                                *)
(***************************************************************************)
EXTENDS TaskScheduling, FiniteSetTheorems, TLAPS

\* The awaits a task can be at.
Awaits(t) ==
    CASE t = "discovery" -> {"unborn", "asleep", "done", "catalogue", "markets"}
      [] t = "reconcile" -> {"unborn", "asleep", "done", "open_orders", "current_orders"}
      [] t = "keepalive" -> {"unborn", "asleep", "done", "session"}
      [] t = "poll"      -> LoopStage
      [] t = "main"      -> MainStage
      [] OTHER           -> {"idle", "query"}

\* A task waits for one connection more than it holds, so only the poll task ever
\* waits while it holds some.
WaitInv ==
    /\ at \in [Task -> Stage]
    /\ wants \in [Task -> Stage \cup {Nothing}]
    /\ cancelled \subseteq Loop
    /\ \A t \in Task : /\ at[t] \in Awaits(t)
                       /\ wants[t] # Nothing => /\ wants[t] \in Awaits(t)
                                                /\ Held(wants[t]) = Held(at[t]) + 1

LEMMA TaskKinds ==
    /\ \A r \in Request : r \notin Loop /\ r # "main"
    /\ \A t \in Task : t \in Loop \/ t \in Request \/ t = "main"
    /\ Loop \subseteq Task /\ Request \subseteq Task /\ "main" \in Task
  BY ConstantsAssumption DEF Task

LEMMA HeldBounds ==
    /\ \A s : Held(s) \in 0 .. 3
    /\ \A t \in Task : t # "poll" => \A s \in Awaits(t) : Held(s) \in 0 .. 1
  <1>1. \A s : Held(s) \in 0 .. 3
    BY DEF Held
  <1>2. ASSUME NEW t \in Task, t # "poll", NEW s \in Awaits(t) PROVE Held(s) \in 0 .. 1
    BY <1>2, TaskKinds DEF Awaits, Held, MainStage
  <1> QED BY <1>1, <1>2

LEMMA NothingIsNoStage == Nothing \notin Stage
  BY DEF Nothing, Stage, LoopStage, MainStage

LEMMA AwaitsAreStages == \A t \in Task : Awaits(t) \subseteq Stage
  BY TaskKinds DEF Awaits, Stage, LoopStage, MainStage

LEMMA PathStays ==
    ASSUME NEW t \in Task, NEW move \in Path(t)
    PROVE  move[2] \in Awaits(t) /\ Held(move[2]) <= Held(move[1]) + 1
  <1>1. CASE t = "discovery"
    BY <1>1 DEF Path, Awaits, Held, DiscoveryPath
  <1>2. CASE t = "reconcile"
    BY <1>2 DEF Path, Awaits, Held, ReconcilePath
  <1>3. CASE t = "keepalive"
    BY <1>3 DEF Path, Awaits, Held, KeepAlivePath
  <1>4. CASE t = "poll"
    BY <1>4 DEF Path, Awaits, Held, PollPath, LoopStage
  <1>5. CASE t = "main"
    BY <1>5 DEF Path, Awaits, Held, BootPath, MainStage
  <1>6. CASE t \in Request
    BY <1>6, TaskKinds DEF Path, Awaits, Held, HealthPath, Loop
  <1> QED BY <1>1, <1>2, <1>3, <1>4, <1>5, <1>6, TaskKinds DEF Loop

LEMMA InitWait == Init => WaitInv
  <1> SUFFICES ASSUME Init PROVE WaitInv
    OBVIOUS
  <1>1. at \in [Task -> Stage] /\ wants \in [Task -> Stage \cup {Nothing}]
    BY DEF Init, Stage, LoopStage, MainStage
  <1>2. ASSUME NEW t \in Task PROVE at[t] \in Awaits(t)
    BY TaskKinds DEF Init, Awaits, Loop, LoopStage, MainStage
  <1>3. ASSUME NEW t \in Task, wants[t] # Nothing
        PROVE  wants[t] \in Awaits(t) /\ Held(wants[t]) = Held(at[t]) + 1
    <2>1. t = "main" /\ at[t] = "start" /\ wants[t] = "config"
      BY <1>3, TaskKinds DEF Init
    <2> QED BY <2>1 DEF Awaits, MainStage, Held
  <1> QED BY <1>1, <1>2, <1>3 DEF Init, WaitInv

\* A step that moves one task to one of its awaits, waiting for nothing.
LEMMA MoveKeepsWait ==
    ASSUME WaitInv, NEW t \in Task, NEW s \in Awaits(t),
           at' = [at EXCEPT ![t] = s],
           wants' = [wants EXCEPT ![t] = Nothing],
           cancelled' \subseteq Loop
    PROVE  WaitInv'
  BY AwaitsAreStages DEF WaitInv

LEMMA WaitInductive == WaitInv /\ [Next]_vars => WaitInv'
  <1> SUFFICES ASSUME WaitInv, [Next]_vars PROVE WaitInv'
    OBVIOUS
  <1>1. ASSUME NEW t \in Task, Step(t) PROVE WaitInv'
    <2>1. PICK move \in Path(t) : move[1] = at[t] /\ GoTo(t, move[2])
      BY <1>1 DEF Step
    <2>2. wants[t] = Nothing /\ cancelled' = cancelled
      BY <1>1 DEF Step, Running
    <2> DEFINE s == move[2]
    <2>3. s \in Awaits(t) /\ s \in Stage
      BY PathStays, AwaitsAreStages
    <2> HIDE DEF s
    <2>4. CASE Held(s) > Held(at[t])
      <3>1. at' = at /\ wants' = [wants EXCEPT ![t] = s]
        BY <2>1, <2>4 DEF GoTo, s
      <3>2. Held(s) = Held(at[t]) + 1
        BY <2>1, <2>4, PathStays, HeldBounds DEF s
      <3> QED BY <2>2, <2>3, <3>1, <3>2 DEF WaitInv
    <2>5. CASE ~(Held(s) > Held(at[t]))
      <3>1. at' = [at EXCEPT ![t] = s] /\ wants' = wants
        BY <2>1, <2>5 DEF GoTo, s
      <3>2. wants' = [wants EXCEPT ![t] = Nothing]
        BY <2>2, <3>1 DEF WaitInv
      <3> QED BY <2>2, <2>3, <3>1, <3>2, MoveKeepsWait DEF WaitInv
    <2> QED BY <2>4, <2>5
  <1>2. ASSUME NEW t \in Task, Acquire(t) PROVE WaitInv'
    <2>1. wants[t] \in Awaits(t) /\ cancelled' \subseteq Loop
      BY <1>2 DEF Acquire, WaitInv
    <2> QED BY <1>2, <2>1, MoveKeepsWait DEF Acquire
  <1>3. ASSUME NEW t \in Task, Raise(t) PROVE WaitInv'
    <2> DEFINE s == IF t \in Loop THEN "asleep" ELSE "idle"
    <2>1. s \in Awaits(t)
      <3>1. CASE t \in Loop
        BY <3>1 DEF Loop, Awaits, LoopStage
      <3>2. CASE t \in Request
        BY <3>2, TaskKinds DEF Loop, Awaits
      <3> QED BY <1>3, <3>1, <3>2 DEF Raise
    <2>2. at' = [at EXCEPT ![t] = s] /\ wants' = [wants EXCEPT ![t] = Nothing]
      BY <1>3 DEF Raise, LeaveTo
    <2>3. cancelled' \subseteq Loop
      BY <1>3 DEF Raise, WaitInv
    <2> HIDE DEF s
    <2> QED BY <2>1, <2>2, <2>3, MoveKeepsWait
  <1>4. ASSUME NEW t \in Task, Unwind(t) PROVE WaitInv'
    <2>1. t \in Loop
      BY <1>4 DEF Unwind, WaitInv
    <2>2. "done" \in Awaits(t)
      BY <2>1 DEF Loop, Awaits, LoopStage
    <2>3. cancelled' \subseteq Loop
      BY <1>4 DEF Unwind, WaitInv
    <2> QED BY <1>4, <2>2, <2>3, MoveKeepsWait DEF Unwind, LeaveTo, StageAfterCancel
  <1>5. ASSUME NEW r \in Request, Arrive(r) PROVE WaitInv'
    <2>1. r \in Task /\ at[r] = "idle"
      BY <1>5, TaskKinds DEF Arrive, Busy, WaitInv, Awaits, Loop, Nowhere
    <2>2. "query" \in Awaits(r) /\ Held("query") = Held("idle") + 1 /\ "query" \in Stage
      BY TaskKinds DEF Awaits, Loop, Held, Stage
    <2> QED BY <1>5, <2>1, <2>2 DEF Arrive, WaitInv
  <1>6. CASE StartLoops
    <2>1. /\ at' = [t \in Task |-> IF t \in Loop THEN "asleep" ELSE at[t]]
          /\ wants' = wants /\ cancelled' = cancelled
      BY <1>6 DEF StartLoops
    <2>2. \A t \in Loop : "asleep" \in Awaits(t) /\ Held("asleep") = 0 /\ Held(at[t]) = 0
      BY <1>6 DEF StartLoops, Loop, Awaits, LoopStage, Held
    <2>3. "asleep" \in Stage
      BY DEF Stage, LoopStage
    <2> QED BY <2>1, <2>2, <2>3 DEF WaitInv
  <1>7. ASSUME NEW s \in MainStage, MainGoesTo(s), Held(s) <= Held(at["main"]),
               cancelled' \subseteq Loop
        PROVE  WaitInv'
    <2>1. "main" \in Task /\ Awaits("main") = MainStage
      BY TaskKinds DEF Awaits
    <2>2. s \in Stage
      BY DEF Stage
    <2> QED BY <1>7, <2>1, <2>2, HeldBounds DEF MainGoesTo, WaitInv
  <1>8. CASE Shutdown
    <2>1. cancelled' \subseteq Loop
      BY <1>8 DEF Shutdown, Gathered
    <2> QED BY <1>7, <1>8, <2>1, HeldBounds DEF Shutdown, MainStage, Held
  <1>9. CASE MainStep
    <2>1. cancelled' \subseteq Loop
      BY <1>9 DEF MainStep, SchedulerEnds, HealthCleanedUp, LoggedOut, PoolClosed, WaitInv
    <2> QED BY <1>7, <1>9, <2>1
            DEF MainStep, SchedulerEnds, HealthCleanedUp, LoggedOut, PoolClosed, MainStage, Held
  <1>10. CASE MainRaises
    <2>1. "main" \in Task /\ "failed" \in Awaits("main")
      BY TaskKinds DEF Awaits, MainStage
    <2>2. cancelled' \subseteq Loop
      BY <1>10 DEF MainRaises, WaitInv
    <2> QED BY <1>10, <2>1, <2>2, MoveKeepsWait DEF MainRaises, LeaveTo
  <1>11. CASE UNCHANGED vars
    BY <1>11 DEF vars, WaitInv
  <1> QED BY <1>1, <1>2, <1>3, <1>4, <1>5, <1>6, <1>8, <1>9, <1>10, <1>11 DEF Next

LEMMA WaitAlways == Spec => []WaitInv
  BY InitWait, WaitInductive, PTL DEF Spec

LEMMA NoCircleNow == ASSUME WaitInv, PoolSize >= 3 PROVE NoCircularWait
  <1> SUFFICES ASSUME ~(Free > 0),
                      \A t \in Task : Held(at[t]) > 0 => wants[t] # Nothing
               PROVE  FALSE
    BY HeldBounds DEF NoCircularWait
  <1>1. ASSUME NEW t \in Task, t # "poll" PROVE Held(at[t]) = 0
    <2> SUFFICES ASSUME Held(at[t]) # 0 PROVE FALSE
      OBVIOUS
    <2>1. Held(at[t]) \in 0 .. 1 /\ Held(at[t]) > 0
      BY <1>1, HeldBounds DEF WaitInv
    <2>2. wants[t] # Nothing
      BY <2>1
    <2>3. Held(wants[t]) \in 0 .. 1 /\ Held(wants[t]) = Held(at[t]) + 1
      BY <1>1, <2>2, HeldBounds DEF WaitInv
    <2> QED BY <2>1, <2>3
  <1>2. Held(at["poll"]) \in 0 .. 2
    <2>1. "poll" \in Task
      BY TaskKinds DEF Loop
    <2>2. Held(at["poll"]) \in 0 .. 3 /\ Held(wants["poll"]) \in 0 .. 3
      BY HeldBounds
    <2> QED BY <2>1, <2>2 DEF WaitInv
  <1>3. Querying = {}
    <2> SUFFICES ASSUME NEW r \in Request, at[r] = "query" PROVE FALSE
      BY DEF Querying
    <2>1. r \in Task /\ r # "poll"
      BY TaskKinds DEF Loop
    <2> QED BY <1>1, <2>1 DEF Held
  <1>4. Cardinality(Querying) = 0
    BY <1>3, FS_EmptySet
  <1>5. /\ Held(at["discovery"]) = 0 /\ Held(at["keepalive"]) = 0
        /\ Held(at["reconcile"]) = 0 /\ Held(at["main"]) = 0
    BY <1>1, TaskKinds DEF Loop
  <1> QED BY <1>2, <1>4, <1>5, ConstantsAssumption DEF Free

\* With a pool of three connections or more (the code has ten) no number of health
\* requests can make the tasks wait for each other in a circle.
THEOREM NoCircularWaitHolds ==
    ASSUME PoolSize >= 3 PROVE Spec => []NoCircularWait
  <1>1. WaitInv => NoCircularWait
    BY NoCircleNow
  <1> QED BY <1>1, WaitAlways, PTL

-------------------------------------------------------------------------------
(* Types, and the count of connections *)

LEMMA QueryingIsFinite == IsFiniteSet(Querying) /\ Cardinality(Querying) \in Nat
  <1>1. IsFiniteSet(Querying)
    BY ConstantsAssumption, FS_Subset DEF Querying
  <1> QED BY <1>1, FS_CardinalityType

LEMMA FreeIsInt == Free \in Int /\ Free <= PoolSize
  BY QueryingIsFinite, HeldBounds, ConstantsAssumption DEF Free

\* What a move takes from the pool is what the task holds more after it.
LEMMA MoveCounts ==
    ASSUME WaitInv, NEW t \in Task, NEW s \in Awaits(t), at' = [at EXCEPT ![t] = s]
    PROVE  Free' = Free + Held(at[t]) - Held(s)
  <1>0. Cardinality(Querying) \in Nat /\ IsFiniteSet(Querying)
    BY QueryingIsFinite
  <1>1. CASE t \in Request
    <2>1. at[t] \in {"idle", "query"} /\ s \in {"idle", "query"}
      BY <1>1, TaskKinds DEF WaitInv, Awaits, Loop
    <2>2. \A x \in Loop \cup {"main"} : at'[x] = at[x]
      BY <1>1, TaskKinds DEF WaitInv
    <2>3. Querying' = IF s = "query" THEN Querying \cup {t} ELSE Querying \ {t}
      BY <1>1, TaskKinds DEF Querying, WaitInv
    <2>4. t \in Querying <=> at[t] = "query"
      BY <1>1 DEF Querying
    <2>5. Cardinality(Querying') = Cardinality(Querying) + Held(s) - Held(at[t])
      <3>1. CASE s = "query" /\ at[t] = "idle"
        BY <1>0, <2>3, <2>4, <3>1, FS_AddElement DEF Held
      <3>2. CASE s = "idle" /\ at[t] = "query"
        <4>1. Querying' = Querying \ {t} /\ t \in Querying
          BY <2>3, <2>4, <3>2
        <4>2. Cardinality(Querying \ {t}) = Cardinality(Querying) - 1
          BY <1>0, <4>1, FS_RemoveElement
        <4>3. Held(s) = 0 /\ Held(at[t]) = 1
          BY <3>2 DEF Held
        <4> QED BY <1>0, <4>1, <4>2, <4>3
      <3>3. CASE s = at[t]
        <4>1. Querying' = Querying
          BY <2>1, <2>3, <2>4, <3>3
        <4> QED BY <1>0, <3>3, <4>1, HeldBounds
      <3> QED BY <2>1, <3>1, <3>2, <3>3
    <2> QED BY <1>0, <2>2, <2>5, HeldBounds, ConstantsAssumption DEF Free, Loop
  <1>2. CASE t \in Loop \cup {"main"}
    <2>1. Querying' = Querying
      BY <1>2, TaskKinds DEF Querying, WaitInv
    <2>2. /\ at'[t] = s
          /\ \A x \in (Loop \cup {"main"}) \ {t} : at'[x] = at[x]
      BY TaskKinds DEF WaitInv
    <2> QED BY <1>0, <1>2, <2>1, <2>2, HeldBounds, ConstantsAssumption DEF Free, Loop
  <1> QED BY <1>1, <1>2, TaskKinds

\* No move overdraws the pool, and the cycle counts its bundles down.
Solvent == Free \in Nat /\ bundles \in 0 .. MaxBundles

LEMMA MoveIsSolvent ==
    ASSUME WaitInv, Solvent, NEW t \in Task, NEW s \in Awaits(t),
           at' = [at EXCEPT ![t] = s],
           Held(s) <= Held(at[t]) \/ (Free > 0 /\ Held(s) = Held(at[t]) + 1)
    PROVE  Free' \in Nat
  <1>1. Free' = Free + Held(at[t]) - Held(s)
    BY MoveCounts
  <1>2. Free \in Nat /\ Held(s) \in 0 .. 3 /\ Held(at[t]) \in 0 .. 3
    BY HeldBounds DEF Solvent
  <1> QED BY <1>1, <1>2

LEMMA SolventInductive ==
    ASSUME WaitInv, Solvent, [Next]_vars PROVE Solvent'
  <1>1. ASSUME UNCHANGED at PROVE Free' \in Nat
    BY <1>1 DEF Free, Querying, Solvent
  <1>2. ASSUME NEW t \in Task, Step(t) PROVE Solvent'
    <2>1. PICK move \in Path(t) : GoTo(t, move[2]) /\ CountBundles(t, move[2])
      BY <1>2 DEF Step
    <2>2. bundles' \in 0 .. MaxBundles
      BY <2>1, ConstantsAssumption DEF Solvent, CountBundles, BundlesLeft
    <2> DEFINE s == move[2]
    <2>3. s \in Awaits(t) /\ GoTo(t, s)
      BY <2>1, PathStays
    <2> HIDE DEF s
    <2>4. CASE Held(s) > Held(at[t])
      BY <1>1, <2>2, <2>3, <2>4 DEF GoTo, Solvent
    <2>5. CASE ~(Held(s) > Held(at[t]))
      <3>1. at' = [at EXCEPT ![t] = s] /\ Held(s) <= Held(at[t])
        BY <2>3, <2>5, HeldBounds DEF GoTo
      <3> QED BY <2>2, <2>3, <3>1, MoveIsSolvent DEF Solvent
    <2> QED BY <2>4, <2>5
  <1>3. ASSUME NEW t \in Task, Acquire(t) PROVE Solvent'
    <2>1. /\ wants[t] \in Awaits(t) /\ Held(wants[t]) = Held(at[t]) + 1
          /\ at' = [at EXCEPT ![t] = wants[t]]
          /\ Free > 0 /\ bundles' = bundles
      BY <1>3 DEF Acquire, ConnectionFree, WaitInv
    <2> QED BY <2>1, MoveIsSolvent DEF Solvent
  <1>4. ASSUME NEW t \in Task, NEW s \in Awaits(t), Held(s) = 0, LeaveTo(t, s)
        PROVE  Solvent'
    <2>1. at' = [at EXCEPT ![t] = s] /\ Held(s) <= Held(at[t])
      BY <1>4, HeldBounds DEF LeaveTo
    <2>2. bundles' \in 0 .. MaxBundles
      BY <1>4, ConstantsAssumption DEF LeaveTo, Solvent
    <2> QED BY <2>1, <2>2, MoveIsSolvent DEF Solvent
  <1>5. ASSUME NEW t \in Task, Raise(t) PROVE Solvent'
    <2>1. CASE t \in Loop
      <3>1. "asleep" \in Awaits(t) /\ Held("asleep") = 0 /\ LeaveTo(t, "asleep")
        BY <1>5, <2>1 DEF Raise, Loop, Awaits, LoopStage, Held
      <3> QED BY <1>4, <3>1
    <2>2. CASE t \in Request
      <3>1. "idle" \in Awaits(t) /\ Held("idle") = 0 /\ LeaveTo(t, "idle")
        BY <1>5, <2>2, TaskKinds DEF Raise, Loop, Awaits, Held
      <3> QED BY <1>4, <3>1
    <2> QED BY <1>5, <2>1, <2>2 DEF Raise
  <1>6. ASSUME NEW t \in Task, Unwind(t) PROVE Solvent'
    <2>1. "done" \in Awaits(t) /\ Held("done") = 0 /\ LeaveTo(t, "done")
      BY <1>6 DEF Unwind, WaitInv, Loop, Awaits, LoopStage, Held, StageAfterCancel
    <2> QED BY <1>4, <2>1
  <1>7. ASSUME NEW r \in Request, Arrive(r) PROVE Solvent'
    BY <1>1, <1>7 DEF Arrive, Solvent
  <1>8. CASE StartLoops
    <2>1. at' = [t \in Task |-> IF t \in Loop THEN "asleep" ELSE at[t]]
      BY <1>8 DEF StartLoops
    <2>2. \A t \in Loop : Held(at'[t]) = Held(at[t])
      BY <1>8, <2>1, TaskKinds DEF StartLoops, Held
    <2>3. at'["main"] = at["main"] /\ \A r \in Request : at'[r] = at[r]
      BY <2>1, TaskKinds DEF Loop
    <2>5. Querying' = Querying
      BY <2>3 DEF Querying
    <2>4. Free' = Free
      BY <2>2, <2>3, <2>5 DEF Free, Loop
    <2> QED BY <1>8, <2>4 DEF StartLoops, Solvent
  <1>9. ASSUME NEW s \in MainStage, Held(s) = 0, MainGoesTo(s) PROVE Solvent'
    <2>1. "main" \in Task /\ s \in Awaits("main")
      BY TaskKinds DEF Awaits
    <2>2. at' = [at EXCEPT !["main"] = s] /\ Held(s) <= Held(at["main"]) /\ bundles' = bundles
      BY <1>9, HeldBounds DEF MainGoesTo
    <2> QED BY <2>1, <2>2, MoveIsSolvent DEF Solvent
  <1>10. CASE Shutdown \/ MainStep
    BY <1>9, <1>10 DEF Shutdown, MainStep, SchedulerEnds, HealthCleanedUp, LoggedOut,
                       PoolClosed, MainStage, Held
  <1>11. CASE MainRaises
    <2>1. "main" \in Task /\ "failed" \in Awaits("main") /\ Held("failed") = 0
      BY TaskKinds DEF Awaits, MainStage, Held
    <2> QED BY <1>4, <1>11, <2>1 DEF MainRaises
  <1>12. CASE UNCHANGED vars
    BY <1>1, <1>12 DEF vars, Solvent
  <1> QED BY <1>2, <1>3, <1>5, <1>6, <1>7, <1>8, <1>10, <1>11, <1>12 DEF Next

\* Types; and the tasks never hold more connections than the pool has.
THEOREM SchedulingTypeCorrect == Spec => []TypeOK
  <1>1. Init => Solvent
    <2> SUFFICES ASSUME Init PROVE Solvent
      OBVIOUS
    <2>1. Querying = {}
      BY TaskKinds DEF Init, Querying
    <2>2. Cardinality(Querying) = 0
      BY <2>1, FS_EmptySet
    <2>3. \A t \in Loop \cup {"main"} : Held(at[t]) = 0
      BY TaskKinds DEF Init, Held
    <2> QED BY <2>2, <2>3, ConstantsAssumption DEF Init, Solvent, Free, Loop
  <1>2. WaitInv /\ Solvent => TypeOK
    BY FreeIsInt, ConstantsAssumption DEF WaitInv, Solvent, TypeOK
  <1> QED BY <1>1, <1>2, WaitAlways, SolventInductive, PTL DEF Spec

-------------------------------------------------------------------------------
(* The end of the process *)

Ending == {"stopping", "cleanup", "logout", "closing", "stopped"}
Quiet == {"logout", "closing", "stopped"}

\* A loop that has not begun or is done does not come back, from the shutdown on
\* every other one is cancelled, and from the logout on no request is answered.
EndInv ==
    /\ \A t \in Loop : at[t] \in {"unborn", "done"} => wants[t] = Nothing
    /\ at["main"] \in Ending =>
         \A t \in Loop : at[t] \in {"unborn", "done"} \/ t \in cancelled
    /\ at["main"] \in Quiet => \A r \in Request : ~Busy(r)

\* A loop that may still move is neither done nor unborn.
LEMMA PathsBegin ==
    ASSUME NEW t \in Loop, NEW move \in Path(t)
    PROVE  move[1] \notin {"unborn", "done"} /\ move[2] \notin {"unborn", "done"}
  BY DEF Loop, Path, DiscoveryPath, ReconcilePath, KeepAlivePath, PollPath

LEMMA EndInductive ==
    ASSUME WaitInv, EndInv, [Next]_vars PROVE EndInv'
  <1>0. /\ \A t \in Loop : t \in Task /\ t # "main" /\ t \notin Request
        /\ \A r \in Request : r \in Task /\ r # "main" /\ r \notin Loop
        /\ "main" \in Task /\ "main" \notin Loop
        /\ DOMAIN at = Task /\ DOMAIN wants = Task
    BY TaskKinds DEF WaitInv, Loop
  <1>1. ASSUME NEW t \in Loop, t \notin cancelled, at[t] \notin {"unborn", "done"},
               at'[t] \notin {"unborn", "done"},
               \A x \in Task \ {t} : at'[x] = at[x] /\ wants'[x] = wants[x],
               cancelled' = cancelled
        PROVE  EndInv'
    BY <1>0, <1>1 DEF EndInv, Busy
  <1>2. ASSUME NEW t \in Request, at["main"] \notin Quiet,
               \A x \in Task \ {t} : at'[x] = at[x] /\ wants'[x] = wants[x],
               cancelled' = cancelled
        PROVE  EndInv'
    BY <1>0, <1>2 DEF EndInv
  <1>3. ASSUME at'["main"] \notin Ending,
               \A x \in Task \ {"main"} : at'[x] = at[x] /\ wants'[x] = wants[x]
        PROVE  EndInv'
    BY <1>0, <1>3 DEF EndInv, Quiet, Ending
  <1>4. ASSUME NEW t \in Task, Step(t) PROVE EndInv'
    <2>1. PICK move \in Path(t) : move[1] = at[t] /\ GoTo(t, move[2])
      BY <1>4 DEF Step
    <2>2. t \notin cancelled /\ wants[t] = Nothing /\ cancelled' = cancelled
      BY <1>4 DEF Step, Running
    <2>3. /\ \A x \in Task \ {t} : at'[x] = at[x] /\ wants'[x] = wants[x]
          /\ at'[t] \in {at[t], move[2]}
      BY <1>0, <2>1 DEF GoTo
    <2>4. CASE t \in Loop
      BY <1>1, <2>1, <2>2, <2>3, <2>4, PathsBegin
    <2>5. CASE t \in Request
      <3>1. at[t] = "query"
        BY <2>1, <2>5, TaskKinds DEF Path, HealthPath, Loop
      <3> QED BY <1>2, <2>2, <2>3, <2>5, <3>1 DEF EndInv, Busy, Nowhere
    <2>6. CASE t = "main"
      <3>1. /\ at["main"] \in {"config", "login", "model"}
            /\ move[2] \in {"login", "model", "serving"}
        BY <2>1, <2>6 DEF Path, BootPath
      <3> QED BY <1>3, <2>3, <2>6, <3>1 DEF Ending
    <2> QED BY <2>4, <2>5, <2>6, TaskKinds
  <1>5. ASSUME NEW t \in Task, Acquire(t) PROVE EndInv'
    <2>1. /\ t \notin cancelled /\ wants[t] # Nothing /\ cancelled' = cancelled
          /\ \A x \in Task \ {t} : at'[x] = at[x] /\ wants'[x] = wants[x]
          /\ at'[t] = wants[t]
      BY <1>0, <1>5 DEF Acquire
    <2>2. Held(wants[t]) > 0 /\ wants[t] \in Awaits(t)
      BY <2>1, HeldBounds DEF WaitInv
    <2>3. CASE t \in Loop
      <3>1. wants[t] \notin {"unborn", "done"}
        BY <2>2 DEF Held
      <3> QED BY <1>1, <2>1, <2>3, <3>1 DEF EndInv
    <2>4. CASE t \in Request
      BY <1>2, <2>1, <2>4 DEF EndInv, Busy
    <2>5. CASE t = "main"
      <3>1. wants["main"] \notin Ending
        BY <2>2, <2>5 DEF Held, Ending
      <3> QED BY <1>3, <2>1, <2>5, <3>1
    <2> QED BY <2>3, <2>4, <2>5, TaskKinds
  <1>6. ASSUME NEW t \in Task, Raise(t) PROVE EndInv'
    <2>1. /\ t \notin cancelled /\ Busy(t) /\ cancelled' = cancelled
          /\ \A x \in Task \ {t} : at'[x] = at[x] /\ wants'[x] = wants[x]
          /\ t \in Loop => at'[t] = "asleep"
      BY <1>0, <1>6 DEF Raise, LeaveTo
    <2>2. CASE t \in Loop
      BY <1>1, <2>1, <2>2 DEF EndInv, Busy, Nowhere
    <2>3. CASE t \in Request
      BY <1>2, <2>1, <2>3 DEF EndInv
    <2> QED BY <1>6, <2>2, <2>3 DEF Raise
  <1>7. ASSUME NEW t \in Task, Unwind(t) PROVE EndInv'
    <2>1. t \in Loop /\ cancelled' = cancelled \ {t}
      BY <1>7 DEF Unwind, WaitInv
    <2>2. /\ at'[t] = "done" /\ wants'[t] = Nothing
          /\ \A x \in Task \ {t} : at'[x] = at[x] /\ wants'[x] = wants[x]
      BY <1>0, <1>7 DEF Unwind, LeaveTo, StageAfterCancel
    <2> QED BY <1>0, <2>1, <2>2 DEF EndInv, Busy
  <1>8. ASSUME NEW r \in Request, Arrive(r) PROVE EndInv'
    <2>1. at["main"] \notin Quiet
      BY <1>8 DEF Arrive, Quiet
    <2> QED BY <1>0, <1>2, <1>8, <2>1 DEF Arrive
  <1>9. CASE StartLoops
    <2>1. /\ at'["main"] = "serving"
          /\ \A t \in Loop : at'[t] = "asleep"
      BY <1>0, <1>9 DEF StartLoops
    <2> QED BY <2>1 DEF EndInv, Ending, Quiet
  <1>10. CASE Shutdown
    <2>1. /\ at'["main"] = "stopping" /\ wants' = wants
          /\ \A x \in Task \ {"main"} : at'[x] = at[x]
      BY <1>0, <1>10 DEF Shutdown, MainGoesTo
    <2>2. \A t \in Loop : at'[t] = "unborn" \/ t \in cancelled'
      BY <1>0, <1>10, <2>1 DEF Shutdown, Gathered
    <2> QED BY <1>0, <2>1, <2>2 DEF EndInv, Quiet
  <1>11. CASE MainStep
    <2>1. /\ at["main"] \in Ending /\ cancelled' = cancelled /\ wants' = wants
          /\ \A x \in Task \ {"main"} : at'[x] = at[x]
          /\ \/ at'["main"] \notin Quiet
             \/ at["main"] \in Quiet
             \/ \A r \in Request : ~Busy(r)
      BY <1>0, <1>11 DEF MainStep, SchedulerEnds, HealthCleanedUp, LoggedOut, PoolClosed,
                         MainGoesTo, Ending, Quiet
    <2> QED BY <1>0, <2>1 DEF EndInv, Busy
  <1>12. CASE MainRaises
    <2>1. at'["main"] = "failed" /\ \A x \in Task \ {"main"} : at'[x] = at[x] /\ wants'[x] = wants[x]
      BY <1>0, <1>12 DEF MainRaises, LeaveTo
    <2> QED BY <1>3, <2>1 DEF Ending
  <1>13. CASE UNCHANGED vars
    BY <1>13 DEF vars, EndInv, Busy
  <1> QED BY <1>4, <1>5, <1>6, <1>7, <1>8, <1>9, <1>10, <1>11, <1>12, <1>13 DEF Next

\* When main logs out and closes the pool, no loop goes on and no health request
\* is being answered, at whatever await the signal found them.
THEOREM QuietAtTheEndHolds == Spec => []QuietAtTheEnd
  <1>1. Init => EndInv
    BY TaskKinds DEF Init, EndInv, Ending, Quiet, Loop
  <1>2. EndInv => QuietAtTheEnd
    BY DEF EndInv, QuietAtTheEnd, Ending, Quiet
  <1> QED BY <1>1, <1>2, WaitAlways, EndInductive, PTL DEF Spec
===============================================================================
