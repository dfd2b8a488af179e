---------------------------- MODULE TaskScheduling ----------------------------
(***************************************************************************)
(* The tasks of the process and the connections they share.                *)
(*                                                                         *)
(* main.py boots, starts the health endpoint and the four loops of the     *)
(* scheduler, waits for a signal and shuts down.  All of them but the      *)
(* keep-alive loop take connections of one pool (db/pool.py), and the poll *)
(* loop takes more while it holds some: the cycle's own, the one of the    *)
(* component its callback is in, and the one of the inference provider.    *)
(* `async with` gives a connection back on every way out of its block, so  *)
(* how many a task holds follows from where it is.                         *)
(***************************************************************************)
EXTENDS Integers, FiniteSets

CONSTANTS
    Request,     \* health requests that can be in flight together
    PoolSize,    \* max_size of the pool
    MaxBundles   \* bound on the bundles of a poll cycle

Loop == {"discovery", "poll", "keepalive", "reconcile"}
Task == Loop \cup Request \cup {"main"}

ASSUME ConstantsAssumption ==
    /\ IsFiniteSet(Request)
    /\ Request \cap (Loop \cup {"main"}) = {}
    /\ PoolSize \in Nat
    /\ MaxBundles \in Nat

VARIABLES
    at,        \* the await each task is at
    wants,     \* the await a task goes on to once the pool gives it a connection
    cancelled, \* loops that CancelledError is on its way to
    bundles    \* bundles the poll cycle has not reached yet

vars == <<at, wants, cancelled, bundles>>

-------------------------------------------------------------------------------
(* The awaits of each task, in their order, and the connections held there *)

Nowhere == {"unborn", "asleep", "done", "idle"}

\* run_discovery, reconcile_open_orders, keep_alive and health_handler.
DiscoveryPath == {<<"asleep", "catalogue">>, <<"catalogue", "markets">>, <<"markets", "asleep">>}
ReconcilePath == {<<"asleep", "open_orders">>, <<"open_orders", "current_orders">>,
                  <<"open_orders", "asleep">>, <<"current_orders", "asleep">>}
KeepAlivePath == {<<"asleep", "session">>, <<"session", "asleep">>}
HealthPath == {<<"query", "idle">>}

\* run_poll_cycle and, from a stored snapshot to the next turn of its loop, the
\* callback: external features unless cached, vectors, evaluate with inference if
\* there is a model, and the order of an ALLOW decision.
PollPath ==
    {<<"asleep", "books">>, <<"books", "turn">>, <<"turn", "asleep">>,
     <<"turn", "snapshots">>, <<"snapshots", "external">>, <<"external", "looked_up">>,
     <<"snapshots", "vectors">>, <<"looked_up", "vectors">>, <<"vectors", "built">>,
     <<"built", "turn">>, <<"built", "evaluate">>, <<"evaluate", "turn">>,
     <<"evaluate", "infer">>, <<"infer", "decide">>, <<"evaluate", "decide">>,
     <<"decide", "decided">>, <<"decided", "turn">>, <<"decided", "order">>,
     <<"order", "turn">>}

\* main up to the wait for a signal.
BootPath == {<<"config", "login">>, <<"login", "model">>, <<"model", "serving">>}

Path(t) ==
    CASE t = "discovery" -> DiscoveryPath
      [] t = "reconcile" -> ReconcilePath
      [] t = "keepalive" -> KeepAlivePath
      [] t = "poll"      -> PollPath
      [] t = "main"      -> BootPath
      [] OTHER           -> HealthPath

HeldTwiceByReconcile(s) ==                                             \* mutant
    CASE s = "infer" -> 3
      [] s \in {"external", "vectors", "evaluate", "decide", "order", "current_orders"} -> 2
      [] s \in {"turn", "snapshots", "looked_up", "built", "decided", "markets",
                "open_orders", "query", "config", "model"} -> 1
      [] OTHER -> 0
Held(s) ==
    CASE s = "infer" -> 3
      [] s \in {"external", "vectors", "evaluate", "decide", "order"} -> 2
      [] s \in {"turn", "snapshots", "looked_up", "built", "decided", "markets",
                "open_orders", "current_orders", "query", "config", "model"} -> 1
      [] OTHER -> 0

LoopStage == {"unborn", "asleep", "done", "catalogue", "markets", "open_orders",
              "current_orders", "session", "books", "turn", "snapshots", "external",
              "looked_up", "vectors", "built", "evaluate", "infer", "decide",
              "decided", "order"}
MainStage == {"start", "config", "login", "model", "serving", "stopping", "cleanup",
              "logout", "closing", "stopped", "failed"}
Stage == LoopStage \cup MainStage \cup {"idle", "query"}

Nothing == "nothing"
Querying == {r \in Request : at[r] = "query"}
Free == PoolSize - (Held(at["discovery"]) + Held(at["poll"]) + Held(at["keepalive"])
                    + Held(at["reconcile"]) + Held(at["main"]) + Cardinality(Querying))

TypeOK ==
    /\ at \in [Task -> Stage]
    /\ wants \in [Task -> Stage \cup {Nothing}]
    /\ cancelled \subseteq Loop
    /\ bundles \in 0 .. MaxBundles
    /\ Free \in 0 .. PoolSize

Init ==
    /\ at = [t \in Task |-> IF t = "main" THEN "start"
                            ELSE IF t \in Loop THEN "unborn" ELSE "idle"]
    /\ wants = [t \in Task |-> IF t = "main" THEN "config" ELSE Nothing]
    /\ cancelled = {}
    /\ bundles = 0

-------------------------------------------------------------------------------
(* Tasks that run *)

Running(t) == t \notin cancelled /\ wants[t] = Nothing

\* The task's await is over and it goes on to s, or to the wait for a connection.
GoTo(t, s) ==
    IF Held(s) > Held(at[t])
    THEN wants' = [wants EXCEPT ![t] = s] /\ UNCHANGED at
    ELSE at' = [at EXCEPT ![t] = s] /\ UNCHANGED wants

\* One more bundle of the cycle is taken up.
BundlesNotCounted == bundles                                           \* mutant
BundlesLeft == bundles - 1

\* The number of bundles is that of the listing; the cycle ends after the last.
CountBundles(t, s) ==
    CASE t = "poll" /\ at[t] = "books" -> bundles' \in 0 .. MaxBundles
      [] s = "snapshots" -> bundles > 0 /\ bundles' = BundlesLeft
      [] t = "poll" /\ s = "asleep" -> bundles = 0 /\ bundles' = 0
      [] OTHER -> UNCHANGED bundles

Step(t) ==
    /\ Running(t)
    /\ \E move \in Path(t) :
         /\ move[1] = at[t]
         /\ GoTo(t, move[2])
         /\ CountBundles(t, move[2])
    /\ UNCHANGED cancelled

OpensAnother == TRUE                                                   \* mutant
ConnectionFree == Free > 0

\* pool.acquire returns.
Acquire(t) ==
    /\ wants[t] # Nothing
    /\ t \notin cancelled
    /\ ConnectionFree
    /\ at' = [at EXCEPT ![t] = wants[t]]
    /\ wants' = [wants EXCEPT ![t] = Nothing]
    /\ UNCHANGED <<cancelled, bundles>>

\* Every connection is given back on the way out.
LeaveTo(t, s) ==
    /\ at' = [at EXCEPT ![t] = s]
    /\ wants' = [wants EXCEPT ![t] = Nothing]
    /\ bundles' = IF t = "poll" THEN 0 ELSE bundles

Busy(t) == at[t] \notin Nowhere \/ wants[t] # Nothing

\* An exception, also of acquire: the loop logs it and sleeps, the handler
\* answers 503.
Raise(t) ==
    /\ t \in Loop \cup Request
    /\ t \notin cancelled
    /\ Busy(t)
    /\ LeaveTo(t, IF t \in Loop THEN "asleep" ELSE "idle")
    /\ UNCHANGED cancelled

\* CancelledError is not an Exception: no loop catches it.
StageAfterCancelCaught == "asleep"                                     \* mutant
StageAfterCancel == "done"

Unwind(t) ==
    /\ t \in cancelled
    /\ LeaveTo(t, StageAfterCancel)
    /\ cancelled' = cancelled \ {t}

\* The endpoint listens from the end of the boot to the cleanup of its runner.
Arrive(r) ==
    /\ at["main"] \in {"serving", "stopping"}
    /\ ~Busy(r)
    /\ wants' = [wants EXCEPT ![r] = "query"]
    /\ UNCHANGED <<at, cancelled, bundles>>

-------------------------------------------------------------------------------
(* main and Scheduler.run *)

MainGoesTo(s) ==
    /\ at' = [at EXCEPT !["main"] = s]
    /\ UNCHANGED <<wants, bundles>>

\* Scheduler.run creates its tasks.
StartLoops ==
    /\ at["main"] = "serving"
    /\ \A t \in Loop : at[t] = "unborn"
    /\ at' = [t \in Task |-> IF t \in Loop THEN "asleep" ELSE at[t]]
    /\ UNCHANGED <<wants, cancelled, bundles>>

AllButReconcile == {t \in Loop \ {"reconcile"} : at[t] # "unborn"}     \* mutant
\* Cancelling gather cancels each task it waits for.
Gathered == {t \in Loop : at[t] # "unborn"}

\* A signal: stop, then cancel the scheduler's task, which may not have begun.
Shutdown ==
    /\ at["main"] = "serving"
    /\ MainGoesTo("stopping")
    /\ cancelled' = Gathered

\* gather ends with its first cancelled task; the others may still be unwinding.
SchedulerEnds ==
    /\ at["main"] = "stopping"
    /\ \/ \E t \in Loop : at[t] = "done"
       \/ \A t \in Loop : at[t] = "unborn"
    /\ MainGoesTo("cleanup")
    /\ UNCHANGED cancelled

\* health_runner.cleanup waits for the requests in flight.
HealthCleanedUp ==
    /\ at["main"] = "cleanup"
    /\ \A r \in Request : ~Busy(r)
    /\ MainGoesTo("logout")
    /\ UNCHANGED cancelled

LoggedOut ==
    /\ at["main"] = "logout"
    /\ MainGoesTo("closing")
    /\ UNCHANGED cancelled

\* pool.close waits for every connection.
PoolClosed ==
    /\ at["main"] = "closing"
    /\ Free = PoolSize
    /\ MainGoesTo("stopped")
    /\ UNCHANGED cancelled

\* A failing boot or logout ends the process.
MainRaises ==
    /\ at["main"] \in {"start", "config", "login", "model", "logout"}
    /\ LeaveTo("main", "failed")
    /\ UNCHANGED cancelled

MainStep == SchedulerEnds \/ HealthCleanedUp \/ LoggedOut \/ PoolClosed

Next ==
    \/ \E t \in Task : Step(t) \/ Acquire(t) \/ Raise(t) \/ Unwind(t)
    \/ \E r \in Request : Arrive(r)
    \/ StartLoops \/ Shutdown \/ MainStep \/ MainRaises

Spec == Init /\ [][Next]_vars

\* The event loop resumes every task whose await is over.  A connection given back
\* wakes the task that has waited longest, so a task for which one becomes free
\* again and again gets one.  No signal, request or exception need ever come.
FairSpec ==
    /\ Spec
    /\ \A t \in Task : WF_vars(Step(t) \/ Unwind(t)) /\ SF_vars(Acquire(t))
    /\ WF_vars(MainStep)

-------------------------------------------------------------------------------
(* Properties *)

\* With three connections or more, nested acquisition never ends in a circle: when
\* a task waits for a connection, one is free or held by a task that does not wait.
NoCircularWait ==
    (\E t \in Task : wants[t] # Nothing) =>
        \/ Free > 0
        \/ \E t \in Task : Held(at[t]) > 0 /\ wants[t] = Nothing

\* Once main logs out and closes the pool no loop goes on and no request is being
\* answered: each loop is done or has nothing ahead of it but to give back what it
\* holds, so the session and the pool outlive their users.
QuietAtTheEnd ==
    at["main"] \in {"logout", "closing", "stopped"} =>
        /\ \A t \in Loop : at[t] \in {"unborn", "done"} \/ t \in cancelled
        /\ \A r \in Request : ~Busy(r)

\* Every turn of a loop and every health request comes to an end, whatever the
\* others hold meanwhile and however many bundles the poll cycle has.
EveryTurnEnds == \A t \in Loop \cup Request : Busy(t) ~> ~Busy(t)

\* A signal ends the process, from whatever await its tasks are at.
ShutdownEnds == at["main"] = "stopping" ~> at["main"] \in {"stopped", "failed"}
===============================================================================
