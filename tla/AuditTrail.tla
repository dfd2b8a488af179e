------------------------------ MODULE AuditTrail ------------------------------
(***************************************************************************)
(* The rows that explain an order, and who cites whom.                     *)
(*                                                                         *)
(* A poll cycle stores snapshots, external features (once per market and   *)
(* process), feature vectors, an inference, a decision and an order.  Each *)
(* insert commits by itself and its await is a place where another task    *)
(* runs, the insert raises or the process dies.  But for the market of a   *)
(* runner, no column that cites a row is a foreign key: the references are *)
(* only as good as the order of the inserts and the caches of the          *)
(* services.  A training run, in a process of its own, writes an artifact  *)
(* and then its row.                                                       *)
(*                                                                         *)
(* A row's identifier is its place in its table; 0 stands for NULL.        *)
(***************************************************************************)
EXTENDS Integers, Sequences, FiniteSets

CONSTANTS
    Market,
    RunnerCount,    \* runners of a market, in the order of its book
    MaxBoots,       \* bound on the processes one after another
    MaxCycles,      \* bound on the bundles of all poll cycles
    MaxTrainings,   \* bound on training runs
    MaxFaults       \* bound on exceptions

Runner == 1 .. RunnerCount

ASSUME ConstantsAssumption ==
    /\ Market # {}
    /\ RunnerCount \in Nat \ {0}
    /\ MaxBoots \in Nat /\ MaxCycles \in Nat /\ MaxTrainings \in Nat /\ MaxFaults \in Nat

VARIABLES
    markets,     \* table markets
    runners,     \* table runners, by market
    configs,     \* number of rows of config_snapshots
    snapshots,   \* table market_snapshots
    externals,   \* table external_feature_snapshots
    vectors,     \* table feature_vectors
    versions,    \* table model_versions: the training run of each row
    inferences,  \* table model_inferences
    decisions,   \* table decisions
    orders,      \* table orders: the decision of each PLACED row
    artifacts,   \* training runs whose artifact is written
    training,    \* the training run whose row is not inserted yet, or 0
    trainings,   \* training runs begun
    process,     \* the trading process
    discovery,   \* its discovery loop
    cycle,       \* its poll loop
    cycles, faults

tables == <<markets, runners, configs, snapshots, externals, vectors, versions,
            inferences, decisions, orders>>
trainer == <<artifacts, training, trainings>>
vars == <<tables, trainer, process, discovery, cycle, cycles, faults>>

\* A snapshot carries the bundle it came with, a decision the model the process had
\* loaded (model_version).  An external row is its market.
Snapshot == [market : Market, runner : Runner, bundle : 1 .. MaxCycles]
Vector == [market : Market, runner : Runner, set : {"A0", "A1", "A2"},
           snapshot : Nat, external : Nat]
Inference == [version : Nat, market : Market, vectors : Seq(Nat)]
Decision == [market : Market, snapshot : Nat, vectors : Seq(Nat), config : Nat,
             model : Nat, inference : Nat, allowed : BOOLEAN]

Down == [up |-> FALSE, loaded |-> 0, tracked |-> {},
         external |-> [m \in Market |-> 0]]
Resting == [at |-> "idle", market |-> CHOOSE m \in Market : TRUE,
            snapshots |-> <<>>, external |-> 0, vectors |-> <<>>, config |-> 0,
            inference |-> 0]
Searching == [at |-> "idle", market |-> Resting.market]

TypeOK ==
    /\ markets \subseteq Market
    /\ runners \in [Market -> SUBSET Runner]
    /\ configs \in 0 .. MaxBoots
    /\ snapshots \in Seq(Snapshot) /\ externals \in Seq(Market)
    /\ vectors \in Seq(Vector) /\ versions \in Seq(1 .. MaxTrainings)
    /\ inferences \in Seq(Inference) /\ decisions \in Seq(Decision)
    /\ orders \in Seq(Nat)
    /\ artifacts \subseteq 1 .. MaxTrainings
    /\ training \in 0 .. MaxTrainings /\ trainings \in 0 .. MaxTrainings
    /\ process.up \in BOOLEAN /\ process.loaded \in 0 .. Len(versions)
    /\ process.tracked \subseteq Market
    /\ process.external \in [Market -> 0 .. Len(externals)]
    /\ discovery.at \in {"idle", "runners"} /\ discovery.market \in Market
    /\ cycle.at \in {"idle", "snapshots", "external", "cache", "vectors", "evaluate",
                     "infer", "decide", "order"}
    /\ cycles \in 0 .. MaxCycles /\ faults \in 0 .. MaxFaults

Init ==
    /\ markets = {} /\ runners = [m \in Market |-> {}]
    /\ configs = 0
    /\ snapshots = <<>> /\ externals = <<>> /\ vectors = <<>> /\ versions = <<>>
    /\ inferences = <<>> /\ decisions = <<>> /\ orders = <<>>
    /\ artifacts = {} /\ training = 0 /\ trainings = 0
    /\ process = Down /\ discovery = Searching /\ cycle = Resting
    /\ cycles = 0 /\ faults = 0

-------------------------------------------------------------------------------
(* training/train.py *)

\* The artifact first: its name has the second in it, and no two runs share one.
DumpArtifact ==
    /\ training = 0
    /\ trainings < MaxTrainings
    /\ trainings' = trainings + 1
    /\ training' = trainings'
    /\ artifacts' = artifacts \cup {training'}
    /\ UNCHANGED <<tables, process, discovery, cycle, cycles, faults>>

InsertVersion ==
    /\ training # 0
    /\ versions' = Append(versions, training)
    /\ training' = 0
    /\ UNCHANGED <<markets, runners, configs, snapshots, externals, vectors, inferences,
                   decisions, orders, artifacts, trainings,
                   process, discovery, cycle, cycles, faults>>

\* No DATABASE_URL, no database, or the run is killed: an artifact without a row.
TrainingFails ==
    /\ training # 0
    /\ training' = 0
    /\ UNCHANGED <<tables, artifacts, trainings, process, discovery, cycle, cycles, faults>>

-------------------------------------------------------------------------------
(* main.py and ModelInferenceProvider.initialize *)

PastNewest == Len(versions) + 1                                        \* mutant
\* ORDER BY created_ts DESC LIMIT 1: only the newest row is looked at.
Newest == Len(versions)

\* The newest version's artifact may not be where this process looks.
Boot ==
    /\ ~process.up
    /\ configs < MaxBoots
    /\ configs' = configs + 1
    /\ \E v \in {0, Newest} : process' = [Down EXCEPT !.up = TRUE, !.loaded = v]
    /\ UNCHANGED <<markets, runners, snapshots, externals, vectors, versions, inferences,
                   decisions, orders, trainer, discovery, cycle, cycles, faults>>

\* The process ends at any await; what is in memory is lost.
Die ==
    /\ process.up
    /\ process' = Down /\ discovery' = Searching /\ cycle' = Resting
    /\ UNCHANGED <<tables, trainer, cycles, faults>>

-------------------------------------------------------------------------------
(* MarketCollector.run_discovery *)

TrackedAtOnce(m) == {m}                                                \* mutant
TrackedSoFar(m) == {}

\* insert_market: a market of an earlier process keeps its row.
DiscoverMarket(m) ==
    /\ process.up /\ discovery.at = "idle"
    /\ m \notin process.tracked
    /\ markets' = markets \cup {m}
    /\ discovery' = [at |-> "runners", market |-> m]
    /\ process' = [process EXCEPT !.tracked = @ \cup TrackedSoFar(m)]
    /\ UNCHANGED <<runners, configs, snapshots, externals, vectors, versions, inferences,
                   decisions, orders, trainer, cycle, cycles, faults>>

\* insert_runners, one after the other; the market is tracked after the last.
DiscoverRunner ==
    /\ discovery.at = "runners"
    /\ LET m == discovery.market
           missing == Runner \ runners[m]
       IN IF missing # {}
          THEN /\ \E r \in missing :
                    /\ \A k \in missing : r <= k
                    /\ runners' = [runners EXCEPT ![m] = @ \cup {r}]
               /\ UNCHANGED <<process, discovery>>
          ELSE /\ process' = [process EXCEPT !.tracked = @ \cup {m}]
               /\ discovery' = Searching
               /\ UNCHANGED runners
    /\ UNCHANGED <<markets, configs, snapshots, externals, vectors, versions, inferences,
                   decisions, orders, trainer, cycle, cycles, faults>>

-------------------------------------------------------------------------------
(* MarketCollector.run_poll_cycle: one bundle *)

TakeBundle(m) ==
    /\ process.up /\ cycle.at = "idle"
    /\ m \in process.tracked
    /\ cycles < MaxCycles
    /\ cycles' = cycles + 1
    /\ cycle' = [Resting EXCEPT !.at = "snapshots", !.market = m]
    /\ UNCHANGED <<tables, trainer, process, discovery, faults>>

\* insert_market_snapshots, one runner after the other.
InsertSnapshot ==
    /\ cycle.at = "snapshots"
    /\ LET r == Len(cycle.snapshots) + 1
       IN /\ snapshots' = Append(snapshots,
                                 [market |-> cycle.market, runner |-> r, bundle |-> cycles])
          /\ cycle' = [cycle EXCEPT !.snapshots = Append(@, Len(snapshots')),
                                    !.at = IF r = RunnerCount THEN "external" ELSE @]
    /\ UNCHANGED <<markets, runners, configs, externals, vectors, versions, inferences,
                   decisions, orders, trainer, process, discovery, cycles, faults>>

-------------------------------------------------------------------------------
(* FeatureBuilder.on_market_snapshot *)

CachedForAny(m) ==                                                     \* mutant
    IF \E k \in Market : process.external[k] # 0
    THEN process.external[CHOOSE k \in Market : process.external[k] # 0] ELSE 0
CachedExternal(m) == process.external[m]

\* Once per market and process; a market without runners has none this time.  What
\* the services cache of the runners is in MarketTracking.
TakeExternal ==
    /\ cycle.at = "external"
    /\ LET m == cycle.market
           id == CachedExternal(m)
       IN \/ /\ id # 0 \/ runners[m] = {}
             /\ cycle' = [cycle EXCEPT !.at = "vectors", !.external = id]
             /\ UNCHANGED externals
          \/ /\ id = 0 /\ runners[m] # {}
             /\ externals' = Append(externals, m)
             /\ cycle' = [cycle EXCEPT !.at = "cache", !.external = Len(externals')]
    /\ UNCHANGED <<markets, runners, configs, snapshots, vectors, versions, inferences,
                   decisions, orders, trainer, process, discovery, cycles, faults>>

\* The connection is given back before the identifier is cached.
CacheExternal ==
    /\ cycle.at = "cache"
    /\ process' = [process EXCEPT !.external[cycle.market] = cycle.external]
    /\ cycle' = [cycle EXCEPT !.at = "vectors"]
    /\ UNCHANGED <<tables, trainer, discovery, cycles, faults>>

Sets == IF cycle.external # 0 THEN <<"A0", "A1", "A2">> ELSE <<"A0">>

SnapshotOfMarket(r) ==                                                 \* mutant
    CHOOSE i \in DOMAIN snapshots :
        snapshots[i].market = cycle.market /\ snapshots[i].runner = r
SnapshotOf(r) == cycle.snapshots[r]

\* insert_feature_vector: each runner's sets in turn, with the runner's snapshot.
InsertVector ==
    /\ cycle.at = "vectors"
    /\ LET n == Len(cycle.vectors)
           r == (n \div Len(Sets)) + 1
           s == Sets[(n % Len(Sets)) + 1]
       IN /\ vectors' = Append(vectors,
                [market |-> cycle.market, runner |-> r, set |-> s,
                 snapshot |-> SnapshotOf(r),
                 external |-> IF s = "A0" THEN 0 ELSE cycle.external])
          /\ cycle' = [cycle EXCEPT !.vectors = Append(@, Len(vectors')),
                                    !.at = IF n + 1 >= RunnerCount * Len(Sets)
                                           THEN "evaluate" ELSE @]
    /\ UNCHANGED <<markets, runners, configs, snapshots, externals, versions, inferences,
                   decisions, orders, trainer, process, discovery, cycles, faults>>

-------------------------------------------------------------------------------
(* DecisionEngine.evaluate and ModelInferenceProvider.get_probabilities *)

\* No decision for a market without runners.
ReadConfig ==
    /\ cycle.at = "evaluate"
    /\ cycle' = IF runners[cycle.market] = {} THEN Resting
                ELSE [cycle EXCEPT !.at = "infer", !.config = configs]
    /\ UNCHANGED <<tables, trainer, process, discovery, cycles, faults>>

HasA2 == \E i \in DOMAIN cycle.vectors : vectors[cycle.vectors[i]].set = "A2"

\* The market's own probabilities without a model or an A2 vector.
Infer ==
    /\ cycle.at = "infer"
    /\ IF process.loaded # 0 /\ HasA2
       THEN /\ inferences' = Append(inferences,
                  [version |-> process.loaded, market |-> cycle.market,
                   vectors |-> cycle.vectors])
            /\ cycle' = [cycle EXCEPT !.at = "decide", !.inference = Len(inferences')]
       ELSE /\ cycle' = [cycle EXCEPT !.at = "decide"]
            /\ UNCHANGED inferences
    /\ UNCHANGED <<markets, runners, configs, snapshots, externals, vectors, versions,
                   decisions, orders, trainer, process, discovery, cycles, faults>>

FallbackMayWin == BOOLEAN                                              \* mutant
\* FallbackNeverAllows of EdgeAndStake.
Verdicts == IF cycle.inference = 0 THEN {FALSE} ELSE BOOLEAN

InsertDecision ==
    /\ cycle.at = "decide"
    /\ \E allowed \in Verdicts :
         /\ decisions' = Append(decisions,
               [market |-> cycle.market, snapshot |-> cycle.snapshots[1],
                vectors |-> cycle.vectors, config |-> cycle.config,
                model |-> process.loaded, inference |-> cycle.inference,
                allowed |-> allowed])
         /\ cycle' = IF allowed THEN [cycle EXCEPT !.at = "order"] ELSE Resting
    /\ UNCHANGED <<markets, runners, configs, snapshots, externals, vectors, versions,
                   inferences, orders, trainer, process, discovery, cycles, faults>>

-------------------------------------------------------------------------------
(* ExecutionEngine.on_decision_allow *)

\* The order is at the exchange before its row is written (OrderLifecycle).
InsertOrder ==
    /\ cycle.at = "order"
    /\ orders' = Append(orders, Len(decisions))
    /\ cycle' = Resting
    /\ UNCHANGED <<markets, runners, configs, snapshots, externals, vectors, versions,
                   inferences, decisions, trainer, process, discovery, cycles, faults>>

\* No quote or no stake.
SkipOrder ==
    /\ cycle.at = "order"
    /\ cycle' = Resting
    /\ UNCHANGED <<tables, trainer, process, discovery, cycles, faults>>

\* An exception at any await of a loop: its turn ends, caches and rows stay.
Raise ==
    /\ faults < MaxFaults
    /\ faults' = faults + 1
    /\ \/ cycle.at # "idle" /\ cycle' = Resting /\ UNCHANGED discovery
       \/ discovery.at # "idle" /\ discovery' = Searching /\ UNCHANGED cycle
    /\ UNCHANGED <<tables, trainer, process, cycles>>

Next ==
    \/ DumpArtifact \/ InsertVersion \/ TrainingFails
    \/ Boot \/ Die \/ Raise
    \/ \E m \in Market : DiscoverMarket(m) \/ TakeBundle(m)
    \/ DiscoverRunner
    \/ InsertSnapshot \/ TakeExternal \/ CacheExternal \/ InsertVector
    \/ ReadConfig \/ Infer \/ InsertDecision \/ InsertOrder \/ SkipOrder

Spec == Init /\ [][Next]_vars

-------------------------------------------------------------------------------
(* Properties *)

\* Every reference is to a row that exists, of the same market and, from a vector
\* to a snapshot, of the same runner; a version's artifact is written.
VectorResolves(v) ==
    /\ v.snapshot \in DOMAIN snapshots
    /\ snapshots[v.snapshot].market = v.market /\ snapshots[v.snapshot].runner = v.runner
    /\ v.set # "A0" => /\ v.external \in DOMAIN externals
                       /\ externals[v.external] = v.market
VectorsResolve(row) ==
    \A i \in DOMAIN row.vectors : /\ row.vectors[i] \in DOMAIN vectors
                                  /\ vectors[row.vectors[i]].market = row.market
ReferencesResolve ==
    /\ \A i \in DOMAIN vectors : VectorResolves(vectors[i])
    /\ \A i \in DOMAIN versions : versions[i] \in artifacts
    /\ \A i \in DOMAIN inferences : /\ inferences[i].version \in DOMAIN versions
                                    /\ VectorsResolve(inferences[i])
    /\ \A i \in DOMAIN decisions :
         /\ decisions[i].config \in 1 .. configs
         /\ decisions[i].snapshot \in DOMAIN snapshots
         /\ snapshots[decisions[i].snapshot].market = decisions[i].market
         /\ decisions[i].inference \in 0 .. Len(inferences)
         /\ VectorsResolve(decisions[i])
    /\ \A i \in DOMAIN orders : orders[i] \in DOMAIN decisions

\* A decision rests on one bundle: it cites a vector of every runner, and none of
\* them was built from another bundle's snapshots, whatever failed before.
OneBundlePerDecision ==
    \A i \in DOMAIN decisions :
        LET d == decisions[i]
            cited == {vectors[d.vectors[k]] : k \in DOMAIN d.vectors}
        IN /\ \A v \in cited : snapshots[v.snapshot].bundle = snapshots[d.snapshot].bundle
           /\ \A r \in Runner : \E v \in cited : v.runner = r

\* A decision names a model exactly when its probabilities are that model's: with
\* a model loaded the fallback is never taken in its name.
NamedModelDecided ==
    \A i \in DOMAIN decisions :
        LET d == decisions[i]
        IN IF d.inference = 0 THEN d.model = 0
           ELSE /\ inferences[d.inference].version = d.model
                /\ inferences[d.inference].market = d.market
                /\ inferences[d.inference].vectors = d.vectors

\* From an order one gets to the artifact that decided it and to the external
\* features it was given, through rows of the database alone.
OrdersAreTraceable ==
    \A i \in DOMAIN orders :
        LET d == decisions[orders[i]]
        IN /\ d.allowed
           /\ d.inference # 0
           /\ versions[inferences[d.inference].version] \in artifacts
           /\ \E k \in DOMAIN d.vectors :
                vectors[d.vectors[k]].set = "A2" /\ vectors[d.vectors[k]].external # 0
===============================================================================
