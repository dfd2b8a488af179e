--------------------------- MODULE AuditTrail_proofs ---------------------------
(***************************************************************************)
(* Theorems about AuditTrail for every set of markets, every number of     *)
(* runners and every bound: what a row of the audit trail cites exists and *)
(* belongs to the same bundle, whatever was cut short before it.           *)
(***************************************************************************)
EXTENDS AuditTrail, TLAPS

-------------------------------------------------------------------------------
(* Tables that only grow *)

\* Table t is table s, perhaps with rows added at its end.
GrowsTo(s, t) ==
    /\ Len(s) \in Nat /\ Len(t) \in Nat /\ Len(s) <= Len(t)
    /\ DOMAIN s = 1 .. Len(s) /\ DOMAIN t = 1 .. Len(t)
    /\ \A i \in DOMAIN s : i \in DOMAIN t /\ t[i] = s[i]

LEMMA AppendGrows ==
    ASSUME NEW S, NEW s \in Seq(S), NEW e
    PROVE  /\ GrowsTo(s, s) /\ GrowsTo(s, Append(s, e))
           /\ Len(Append(s, e)) = Len(s) + 1
           /\ Append(s, e)[Len(s) + 1] = e
           /\ \A i \in DOMAIN Append(s, e) : \/ i \in DOMAIN s /\ Append(s, e)[i] = s[i]
                                             \/ i = Len(s) + 1 /\ Append(s, e)[i] = e
  <1>1. s \in Seq(S \cup {e})
    OBVIOUS
  <1>2. /\ Len(s) \in Nat /\ Len(Append(s, e)) = Len(s) + 1
        /\ DOMAIN s = 1 .. Len(s) /\ DOMAIN Append(s, e) = 1 .. Len(s) + 1
        /\ \A i \in DOMAIN s : Append(s, e)[i] = s[i]
        /\ Append(s, e)[Len(s) + 1] = e
    BY <1>1, SMT
  <1> QED BY <1>2 DEF GrowsTo

\* A row of the right type keeps a table in its type.
LEMMA AppendTyped ==
    ASSUME NEW S, NEW s \in Seq(S), NEW e \in S
    PROVE  /\ Append(s, e) \in Seq(S) /\ Len(s) \in Nat
           /\ Len(Append(s, e)) = Len(s) + 1 /\ Len(Append(s, e)) \in Nat
  OBVIOUS

LEMMA TableGrows ==
    ASSUME NEW S, NEW s \in Seq(S), NEW t, t = s \/ \E e : t = Append(s, e)
    PROVE  GrowsTo(s, t)
  <1>1. CASE t = s
    BY <1>1, AppendGrows
  <1>2. ASSUME NEW e, t = Append(s, e) PROVE GrowsTo(s, t)
    BY <1>2, AppendGrows
  <1> QED BY <1>1, <1>2

\* The state of the process and its two loops.
Process == [up : BOOLEAN, loaded : Nat, tracked : SUBSET Market,
            external : [Market -> Nat]]
Discovery == [at : {"idle", "runners"}, market : Market]
Stage == {"idle", "snapshots", "external", "cache", "vectors", "evaluate",
          "infer", "decide", "order"}
Cycle == [at : Stage, market : Market, snapshots : Seq(Nat), external : Nat,
          vectors : Seq(Nat), config : Nat, inference : Nat]

TypeInv == TypeOK /\ process \in Process /\ discovery \in Discovery /\ cycle \in Cycle

\* No step changes or removes a row, an artifact or a runner.
LEMMA TablesGrow ==
    ASSUME TypeInv, [Next]_vars
    PROVE  /\ GrowsTo(snapshots, snapshots') /\ GrowsTo(externals, externals')
           /\ GrowsTo(vectors, vectors') /\ GrowsTo(versions, versions')
           /\ GrowsTo(inferences, inferences') /\ GrowsTo(decisions, decisions')
           /\ GrowsTo(orders, orders')
           /\ configs <= configs' /\ configs' \in Int /\ artifacts \subseteq artifacts'
  <1>0. /\ snapshots \in Seq(Snapshot) /\ externals \in Seq(Market)
        /\ vectors \in Seq(Vector) /\ versions \in Seq(1 .. MaxTrainings)
        /\ inferences \in Seq(Inference) /\ decisions \in Seq(Decision)
        /\ orders \in Seq(Nat) /\ configs \in Nat
    BY ConstantsAssumption DEF TypeInv, TypeOK
  <1>1. /\ snapshots' = snapshots \/ \E e : snapshots' = Append(snapshots, e)
        /\ externals' = externals \/ \E e : externals' = Append(externals, e)
        /\ vectors' = vectors \/ \E e : vectors' = Append(vectors, e)
        /\ versions' = versions \/ \E e : versions' = Append(versions, e)
        /\ inferences' = inferences \/ \E e : inferences' = Append(inferences, e)
        /\ decisions' = decisions \/ \E e : decisions' = Append(decisions, e)
        /\ orders' = orders \/ \E e : orders' = Append(orders, e)
        /\ configs' = configs \/ configs' = configs + 1
        /\ artifacts \subseteq artifacts'
    BY DEF Next, vars, tables, trainer, DumpArtifact, InsertVersion, TrainingFails, Boot,
           Die, Raise, DiscoverMarket, TakeBundle, DiscoverRunner, InsertSnapshot,
           TakeExternal, CacheExternal, InsertVector, ReadConfig, Infer, InsertDecision,
           InsertOrder, SkipOrder
  <1>2. GrowsTo(snapshots, snapshots') /\ GrowsTo(externals, externals')
    BY <1>0, <1>1, TableGrows
  <1>3. GrowsTo(vectors, vectors') /\ GrowsTo(versions, versions')
    BY <1>0, <1>1, TableGrows
  <1>4. GrowsTo(inferences, inferences') /\ GrowsTo(decisions, decisions')
    BY <1>0, <1>1, TableGrows
  <1>5. GrowsTo(orders, orders')
    BY <1>0, <1>1, TableGrows
  <1>6. configs <= configs' /\ configs' \in Int
    <2>1. configs' = configs \/ configs' = configs + 1
      BY <1>1
    <2> QED BY <1>0, <2>1
  <1> QED BY <1>1, <1>2, <1>3, <1>4, <1>5, <1>6

-------------------------------------------------------------------------------
(* What the process and its poll cycle hold *)

\* The process has written its configuration, tracks markets with all their runners
\* and caches an external row of the market itself; a training run that goes on
\* has written its artifact.
ProcessInv ==
    /\ process.up => configs >= 1
    /\ \A m \in process.tracked : runners[m] = Runner
    /\ \A m \in Market : process.external[m] # 0 => externals[process.external[m]] = m
    /\ training # 0 => training \in artifacts

Late == {"evaluate", "infer", "decide", "order"}

\* How far the cycle has got: which of its parts are complete.
StageInv ==
    /\ cycle.at # "idle" => /\ process.up /\ cycles \in 1 .. MaxCycles
                            /\ cycle.market \in process.tracked
    /\ cycle.at = "snapshots" => Len(cycle.snapshots) < RunnerCount
    /\ cycle.at \notin {"idle", "snapshots"} => Len(cycle.snapshots) = RunnerCount
    /\ cycle.at \in {"snapshots", "external", "cache"} => cycle.vectors = <<>>
    /\ cycle.at = "vectors" => Len(cycle.vectors) < 3 * RunnerCount
    /\ cycle.at \in Late => Len(cycle.vectors) = 3 * RunnerCount
    /\ cycle.at \in {"cache", "vectors"} \cup Late =>
          cycle.external \in DOMAIN externals /\ externals[cycle.external] = cycle.market
    /\ cycle.at \in {"infer", "decide", "order"} => cycle.config \in 1 .. configs
    /\ cycle.at \notin {"decide", "order"} => cycle.inference = 0
    /\ cycle.at = "decide" =>
          IF cycle.inference = 0 THEN process.loaded = 0
          ELSE /\ cycle.inference \in DOMAIN inferences
               /\ inferences[cycle.inference] =
                     [version |-> process.loaded, market |-> cycle.market,
                      vectors |-> cycle.vectors]
    /\ cycle.at = "order" => Len(decisions) >= 1 /\ decisions[Len(decisions)].allowed

\* The k-th vector of a cycle is of runner RunnerOf(k) and of set SetOf(k).
RunnerOf(k) == ((k - 1) \div 3) + 1
SetOf(k) == <<"A0", "A1", "A2">>[((k - 1) % 3) + 1]

\* The cycle holds the snapshots of its own bundle and the vectors built from them.
HeldInv ==
    /\ \A r \in DOMAIN cycle.snapshots :
          /\ cycle.snapshots[r] \in DOMAIN snapshots
          /\ snapshots[cycle.snapshots[r]] =
                [market |-> cycle.market, runner |-> r, bundle |-> cycles]
    /\ \A k \in DOMAIN cycle.vectors :
          /\ cycle.vectors[k] \in DOMAIN vectors
          /\ vectors[cycle.vectors[k]].market = cycle.market
          /\ vectors[cycle.vectors[k]].runner = RunnerOf(k)
          /\ vectors[cycle.vectors[k]].snapshot = cycle.snapshots[RunnerOf(k)]
          /\ vectors[cycle.vectors[k]].set = SetOf(k)

CycleInv == ProcessInv /\ StageInv /\ HeldInv

\* Three by three: the runner and the set of the next vector.
LEMMA TurnArithmetic ==
    ASSUME NEW n \in Nat, NEW c \in Nat, n < 3 * c
    PROVE  /\ (n \div 3) + 1 \in 1 .. c
           /\ (n % 3) + 1 \in {1, 2, 3}
  BY SMT

\* With an external row in hand every runner gets its three vectors in turn.
LEMMA VectorTurn ==
    ASSUME TypeInv, CycleInv, cycle.at = "vectors"
    PROVE  LET n == Len(cycle.vectors)
               r == RunnerOf(n + 1)
           IN  /\ n \in Nat /\ n < 3 * RunnerCount
               /\ Len(Sets) = 3
               /\ (n \div Len(Sets)) + 1 = r /\ Sets[(n % Len(Sets)) + 1] = SetOf(n + 1)
               /\ r \in Runner /\ r \in DOMAIN cycle.snapshots
               /\ cycle.snapshots[r] \in DOMAIN snapshots /\ cycle.snapshots[r] \in Nat
               /\ SetOf(n + 1) \in {"A0", "A1", "A2"}
  <1> DEFINE n == Len(cycle.vectors)
             r == RunnerOf(n + 1)
  <1>0. /\ cycle.snapshots \in Seq(Nat) /\ cycle.vectors \in Seq(Nat) /\ cycle.external \in Nat
        /\ snapshots \in Seq(Snapshot) /\ externals \in Seq(Market)
        /\ RunnerCount \in Nat \ {0}
    BY ConstantsAssumption DEF TypeInv, TypeOK, Cycle
  <1>1. n \in Nat /\ n < 3 * RunnerCount
    BY <1>0 DEF CycleInv, StageInv
  <1>2. cycle.external # 0
    BY <1>0 DEF CycleInv, StageInv
  <1>3. Sets = <<"A0", "A1", "A2">>
    BY <1>2 DEF Sets
  <1>4. Len(Sets) = 3
    BY <1>3
  <1>5. (n + 1) - 1 = n
    BY <1>1
  <1>6. r = (n \div 3) + 1 /\ SetOf(n + 1) = <<"A0", "A1", "A2">>[(n % 3) + 1]
    BY <1>5 DEF RunnerOf, SetOf
  <1>7. r \in Runner
    BY <1>0, <1>1, <1>6, TurnArithmetic DEF Runner
  <1>8. Len(cycle.snapshots) = RunnerCount
    BY DEF CycleInv, StageInv
  <1>9. DOMAIN cycle.snapshots = Runner
    BY <1>0, <1>8 DEF Runner
  <1>10. cycle.snapshots[r] \in DOMAIN snapshots /\ cycle.snapshots[r] \in Nat
    <2>1. \A q \in DOMAIN cycle.snapshots :
             cycle.snapshots[q] \in DOMAIN snapshots /\ cycle.snapshots[q] \in Nat
      <3>1. \A q \in DOMAIN cycle.snapshots : cycle.snapshots[q] \in Nat
        BY <1>0
      <3> QED BY <3>1 DEF CycleInv, HeldInv
    <2> HIDE DEF r
    <2> QED BY <1>7, <1>9, <2>1
  <1>11. SetOf(n + 1) \in {"A0", "A1", "A2"}
    <2>1. (n % 3) + 1 \in {1, 2, 3}
      BY <1>0, <1>1, TurnArithmetic
    <2>2. \A i \in {1, 2, 3} : <<"A0", "A1", "A2">>[i] \in {"A0", "A1", "A2"}
      OBVIOUS
    <2> QED BY <1>6, <2>1, <2>2
  <1> QED BY <1>1, <1>3, <1>4, <1>6, <1>7, <1>9, <1>10, <1>11

-------------------------------------------------------------------------------
(* Type correctness *)

LEMMA RestingType == Resting \in Cycle /\ Searching \in Discovery
  BY ConstantsAssumption DEF Resting, Searching, Cycle, Discovery, Stage

LEMMA TrainerType ==
    ASSUME TypeInv, DumpArtifact \/ InsertVersion \/ TrainingFails
    PROVE  TypeInv'
  <1>0. TypeOK /\ training \in 0 .. MaxTrainings /\ versions \in Seq(1 .. MaxTrainings)
        /\ MaxTrainings \in Nat /\ trainings \in 0 .. MaxTrainings
        /\ process.loaded \in 0 .. Len(versions)
    BY ConstantsAssumption DEF TypeInv, TypeOK
  <1>b. ASSUME UNCHANGED <<tables, process, discovery, cycle, cycles, faults>>,
               artifacts' \subseteq 1 .. MaxTrainings,
               training' \in 0 .. MaxTrainings, trainings' \in 0 .. MaxTrainings
        PROVE  TypeInv'
    BY <1>b DEF TypeInv, TypeOK, tables
  <1>1. CASE DumpArtifact
    <2>1. trainings + 1 \in 1 .. MaxTrainings /\ trainings + 1 \in 0 .. MaxTrainings
      BY <1>0, <1>1 DEF DumpArtifact
    <2>2. artifacts' \subseteq 1 .. MaxTrainings
      BY <1>0, <1>1, <2>1 DEF DumpArtifact, TypeOK
    <2> QED BY <1>1, <1>b, <2>1, <2>2 DEF DumpArtifact
  <1>2. CASE InsertVersion
    <2>1. training \in 1 .. MaxTrainings
      BY <1>0, <1>2 DEF InsertVersion
    <2>2. versions' \in Seq(1 .. MaxTrainings) /\ Len(versions') = Len(versions) + 1
          /\ Len(versions) \in Nat
      BY <1>0, <1>2, <2>1 DEF InsertVersion
    <2>3. process.loaded \in 0 .. Len(versions')
      BY <1>0, <2>2
    <2>4. training' \in 0 .. MaxTrainings
      BY <1>0, <1>2 DEF InsertVersion
    <2>5. UNCHANGED <<markets, runners, configs, snapshots, externals, vectors, inferences,
                      decisions, orders, artifacts, trainings,
                      process, discovery, cycle, cycles, faults>>
      BY <1>2 DEF InsertVersion
    <2> QED BY <2>2, <2>3, <2>4, <2>5 DEF TypeInv, TypeOK
  <1>3. CASE TrainingFails
    <2>1. 0 \in 0 .. MaxTrainings /\ artifacts \subseteq 1 .. MaxTrainings
      BY <1>0 DEF TypeOK
    <2> QED BY <1>0, <1>3, <1>b, <2>1 DEF TrainingFails
  <1> QED BY <1>1, <1>2, <1>3

LEMMA ProcessType ==
    ASSUME TypeInv, Boot \/ Die \/ Raise
    PROVE  TypeInv'
  <1>a. /\ TypeOK /\ configs \in 0 .. MaxBoots /\ MaxBoots \in Nat
        /\ faults \in 0 .. MaxFaults /\ MaxFaults \in Nat
        /\ versions \in Seq(1 .. MaxTrainings) /\ externals \in Seq(Market)
    BY ConstantsAssumption DEF TypeInv, TypeOK
  <1>0. /\ TypeOK /\ configs \in 0 .. MaxBoots /\ MaxBoots \in Nat
        /\ faults \in 0 .. MaxFaults /\ MaxFaults \in Nat
        /\ Len(versions) \in Nat /\ Len(externals) \in Nat
    BY <1>a
  <1>1. Down.external \in [Market -> 0 .. Len(externals)] /\ Down \in Process
    BY <1>0 DEF Down, Process
  <1>2. CASE Boot
    <2>1. PICK v \in {0, Newest} : process' = [Down EXCEPT !.up = TRUE, !.loaded = v]
      BY <1>2 DEF Boot
    <2>2. v \in 0 .. Len(versions)
      BY <1>0 DEF Newest
    <2>3. process' = [up |-> TRUE, loaded |-> v, tracked |-> {},
                      external |-> [m \in Market |-> 0]]
      BY <2>1 DEF Down
    <2>4. /\ process' \in Process /\ process'.up \in BOOLEAN
          /\ process'.loaded \in 0 .. Len(versions) /\ process'.tracked \subseteq Market
          /\ process'.external \in [Market -> 0 .. Len(externals)]
      BY <1>0, <2>2, <2>3 DEF Process
    <2>5. /\ configs' \in 0 .. MaxBoots
          /\ UNCHANGED <<markets, runners, snapshots, externals, vectors, versions, inferences,
                         decisions, orders, trainer, discovery, cycle, cycles, faults>>
      BY <1>0, <1>2 DEF Boot
    <2> QED BY <1>0, <2>4, <2>5 DEF TypeInv, TypeOK, trainer
  <1>3. CASE Die
    <2>1. /\ process' \in Process /\ process'.up \in BOOLEAN
          /\ process'.loaded \in 0 .. Len(versions) /\ process'.tracked \subseteq Market
          /\ process'.external \in [Market -> 0 .. Len(externals)]
      BY <1>0, <1>1, <1>3 DEF Down, Die
    <2>2. /\ discovery' \in Discovery /\ discovery'.at \in {"idle", "runners"}
          /\ discovery'.market \in Market
          /\ cycle' \in Cycle /\ cycle'.at \in Stage
      BY <1>3, RestingType DEF Die, Discovery, Cycle
    <2> QED BY <1>0, <1>3, <2>1, <2>2 DEF Die, TypeInv, TypeOK, tables, trainer, Stage
  <1>4. CASE Raise
    <2>1. discovery' \in Discovery /\ cycle' \in Cycle
      BY <1>4, RestingType DEF Raise, TypeInv
    <2>2. /\ discovery'.at \in {"idle", "runners"} /\ discovery'.market \in Market
          /\ cycle'.at \in Stage
      BY <2>1 DEF Discovery, Cycle
    <2>3. faults' \in 0 .. MaxFaults
      BY <1>0, <1>4 DEF Raise
    <2> QED BY <1>0, <1>4, <2>1, <2>2, <2>3 DEF Raise, TypeInv, TypeOK, tables, trainer, Stage
  <1> QED BY <1>2, <1>3, <1>4

LEMMA DiscoveryType ==
    ASSUME TypeInv, DiscoverRunner \/ \E m \in Market : DiscoverMarket(m)
    PROVE  TypeInv'
  <1>0. TypeOK /\ process \in Process /\ discovery \in Discovery
        /\ runners \in [Market -> SUBSET Runner] /\ discovery.market \in Market
    BY DEF TypeInv, TypeOK
  <1>1. ASSUME NEW m \in Market, DiscoverMarket(m) PROVE TypeInv'
    <2>1. /\ process' \in Process /\ process'.up = process.up
          /\ process'.loaded = process.loaded /\ process'.tracked \subseteq Market
          /\ process'.external = process.external
      BY <1>0, <1>1 DEF DiscoverMarket, TrackedSoFar, Process
    <2>2. discovery' \in Discovery /\ discovery'.at \in {"idle", "runners"}
          /\ discovery'.market \in Market
      BY <1>1 DEF DiscoverMarket, Discovery
    <2>3. markets' \subseteq Market
      BY <1>0, <1>1 DEF DiscoverMarket, TypeOK
    <2> QED BY <1>0, <1>1, <2>1, <2>2, <2>3 DEF DiscoverMarket, TypeInv, TypeOK, trainer
  <1>2. CASE DiscoverRunner
    <2>1. runners' \in [Market -> SUBSET Runner]
      BY <1>0, <1>2 DEF DiscoverRunner
    <2>2. /\ process' \in Process /\ process'.up = process.up
          /\ process'.loaded = process.loaded /\ process'.tracked \subseteq Market
          /\ process'.external = process.external
      BY <1>0, <1>2 DEF DiscoverRunner, Process
    <2>3. discovery' \in Discovery
      BY <1>0, <1>2, RestingType DEF DiscoverRunner
    <2>4. discovery'.at \in {"idle", "runners"} /\ discovery'.market \in Market
      BY <2>3 DEF Discovery
    <2> QED BY <1>0, <1>2, <2>1, <2>2, <2>3, <2>4 DEF DiscoverRunner, TypeInv, TypeOK, trainer
  <1> QED BY <1>1, <1>2

LEMMA BundleType ==
    ASSUME TypeInv, CycleInv,
           InsertSnapshot \/ ReadConfig \/ SkipOrder \/ CacheExternal \/ InsertOrder
           \/ \E m \in Market : TakeBundle(m)
    PROVE  TypeInv'
  <1>0. /\ TypeOK /\ process \in Process /\ cycle \in Cycle /\ cycle.at \in Stage
        /\ cycle.snapshots \in Seq(Nat) /\ cycle.market \in Market
        /\ snapshots \in Seq(Snapshot) /\ Len(snapshots) \in Nat
        /\ cycles \in 0 .. MaxCycles /\ MaxCycles \in Nat /\ RunnerCount \in Nat \ {0}
    <2>1. /\ TypeOK /\ snapshots \in Seq(Snapshot) /\ cycle \in Cycle /\ process \in Process
          /\ cycles \in 0 .. MaxCycles
      BY DEF TypeInv, TypeOK
    <2>2. Len(snapshots) \in Nat
      BY <2>1
    <2>3. /\ cycle.at \in Stage /\ cycle.snapshots \in Seq(Nat) /\ cycle.market \in Market
      BY <2>1 DEF Cycle
    <2> QED BY <2>1, <2>2, <2>3, ConstantsAssumption
  <1>1. ASSUME NEW m \in Market, TakeBundle(m) PROVE TypeInv'
    <2>1. cycle' \in Cycle
      BY <1>1, RestingType DEF TakeBundle, Cycle, Stage
    <2>2. cycle'.at \in Stage
      BY <2>1 DEF Cycle
    <2>3. cycles' \in 0 .. MaxCycles
      <3>1. cycles < MaxCycles /\ cycles' = cycles + 1
        BY <1>1 DEF TakeBundle
      <3> QED BY <1>0, <3>1
    <2> QED BY <1>0, <1>1, <2>1, <2>2, <2>3
            DEF TakeBundle, TypeInv, TypeOK, tables, trainer, Stage
  <1>2. CASE InsertSnapshot
    <2> DEFINE r == Len(cycle.snapshots) + 1
               row == [market |-> cycle.market, runner |-> r, bundle |-> cycles]
    <2>1. Len(cycle.snapshots) \in Nat /\ Len(cycle.snapshots) < RunnerCount
          /\ cycles \in 1 .. MaxCycles
      BY <1>0, <1>2 DEF InsertSnapshot, CycleInv, StageInv
    <2>2. row \in Snapshot
      BY <1>0, <2>1 DEF Snapshot, Runner
    <2>3. snapshots' = Append(snapshots, row)
      BY <1>2 DEF InsertSnapshot
    <2> HIDE DEF row
    <2>4. snapshots' \in Seq(Snapshot) /\ Len(snapshots') \in Nat
      BY <1>0, <2>2, <2>3
    <2>5. Append(cycle.snapshots, Len(snapshots')) \in Seq(Nat)
      BY <1>0, <2>4
    <2>6. cycle' \in Cycle
      BY <1>0, <1>2, <2>5 DEF InsertSnapshot, Cycle, Stage
    <2>7. cycle'.at \in Stage
      BY <2>6 DEF Cycle
    <2> QED BY <1>0, <1>2, <2>4, <2>6, <2>7 DEF InsertSnapshot, TypeInv, TypeOK, trainer, Stage
  <1>3. CASE ReadConfig
    <2>1. configs \in Nat
      BY <1>0, ConstantsAssumption DEF TypeOK
    <2>2. cycle' \in Cycle
      BY <1>0, <1>3, <2>1, RestingType DEF ReadConfig, Cycle, Stage
    <2>3. cycle'.at \in Stage
      BY <2>2 DEF Cycle
    <2> QED BY <1>0, <1>3, <2>2, <2>3 DEF ReadConfig, TypeInv, TypeOK, tables, trainer, Stage
  <1>4. CASE SkipOrder
    <2>1. cycle' \in Cycle /\ cycle'.at \in Stage
      BY <1>4, RestingType DEF SkipOrder, Cycle
    <2> QED BY <1>0, <1>4, <2>1 DEF SkipOrder, TypeInv, TypeOK, tables, trainer, Stage
  <1>5. CASE InsertOrder
    <2>1. cycle' \in Cycle /\ cycle'.at \in Stage
      BY <1>5, RestingType DEF InsertOrder, Cycle
    <2>2. orders \in Seq(Nat) /\ decisions \in Seq(Decision)
      BY <1>0 DEF TypeOK
    <2>3. orders' \in Seq(Nat)
      BY <1>5, <2>2 DEF InsertOrder
    <2> QED BY <1>0, <1>5, <2>1, <2>3 DEF InsertOrder, TypeInv, TypeOK, trainer, Stage
  <1>6. CASE CacheExternal
    <2>1. externals \in Seq(Market) /\ cycle.external \in DOMAIN externals
      BY <1>0, <1>6 DEF TypeOK, CacheExternal, CycleInv, StageInv
    <2>2. cycle.external \in 0 .. Len(externals) /\ cycle.external \in Nat
          /\ process.external \in [Market -> 0 .. Len(externals)]
          /\ process.external \in [Market -> Nat]
      <3>1. cycle.external \in 0 .. Len(externals) /\ cycle.external \in Nat
        BY <2>1
      <3> QED BY <1>0, <3>1 DEF TypeOK, Process
    <2>3. process' = [process EXCEPT !.external[cycle.market] = cycle.external]
      BY <1>6 DEF CacheExternal
    <2>4. process' \in Process /\ process'.external \in [Market -> 0 .. Len(externals)]
      BY <1>0, <2>2, <2>3 DEF Process
    <2>5. /\ process'.up = process.up /\ process'.loaded = process.loaded
          /\ process'.tracked = process.tracked
      BY <1>0, <2>3 DEF Process
    <2>6. cycle' \in Cycle
      BY <1>0, <1>6 DEF CacheExternal, Cycle, Stage
    <2>7. cycle'.at \in Stage
      BY <2>6 DEF Cycle
    <2> QED BY <1>0, <1>6, <2>4, <2>5, <2>6, <2>7
            DEF CacheExternal, TypeInv, TypeOK, tables, trainer, Stage
  <1> QED BY <1>1, <1>2, <1>3, <1>4, <1>5, <1>6

LEMMA EvidenceType ==
    ASSUME TypeInv, CycleInv, TakeExternal \/ InsertVector \/ Infer \/ InsertDecision
    PROVE  TypeInv'
  <1>0. /\ TypeOK /\ process \in Process /\ cycle \in Cycle /\ cycle.at \in Stage
        /\ cycle.snapshots \in Seq(Nat) /\ cycle.vectors \in Seq(Nat)
        /\ cycle.market \in Market /\ cycle.external \in Nat /\ cycle.config \in Nat
        /\ cycle.inference \in Nat /\ process.loaded \in Nat
        /\ externals \in Seq(Market) /\ vectors \in Seq(Vector)
        /\ inferences \in Seq(Inference) /\ decisions \in Seq(Decision)
    BY DEF TypeInv, TypeOK, Cycle, Process
  <1>1. CASE TakeExternal
    <2>1. /\ process.external \in [Market -> 0 .. Len(externals)]
          /\ process.external \in [Market -> Nat] /\ Len(externals) \in Nat
      <3>1. process.external \in [Market -> 0 .. Len(externals)]
        BY <1>0 DEF TypeOK
      <3>2. process.external \in [Market -> Nat]
        BY <1>0 DEF Process
      <3>3. Len(externals) \in Nat
        BY <1>0
      <3> QED BY <3>1, <3>2, <3>3
    <2>2. externals' \in Seq(Market) /\ Len(externals) <= Len(externals') /\ Len(externals') \in Nat
      <3>1. externals' = externals \/ externals' = Append(externals, cycle.market)
        BY <1>1 DEF TakeExternal
      <3>2. CASE externals' = externals
        BY <1>0, <2>1, <3>2
      <3>3. CASE externals' = Append(externals, cycle.market)
        <4>1. externals' \in Seq(Market) /\ Len(externals') = Len(externals) + 1
          BY <1>0, <3>3, AppendTyped
        <4> QED BY <2>1, <4>1
      <3> QED BY <3>1, <3>2, <3>3
    <2>3. process.external \in [Market -> 0 .. Len(externals')]
      BY <2>1, <2>2
    <2>4. cycle' \in Cycle
      <3>1. \/ cycle' = [cycle EXCEPT !.at = "vectors",
                                     !.external = process.external[cycle.market]]
            \/ cycle' = [cycle EXCEPT !.at = "cache", !.external = Len(externals')]
        BY <1>1 DEF TakeExternal, CachedExternal
      <3>2. process.external[cycle.market] \in Nat
        BY <1>0, <2>1
      <3> QED BY <1>0, <2>2, <3>1, <3>2 DEF Cycle, Stage
    <2>5. cycle'.at \in Stage
      BY <2>4 DEF Cycle
    <2> QED BY <1>0, <1>1, <2>2, <2>3, <2>4, <2>5
            DEF TakeExternal, TypeInv, TypeOK, trainer, Stage
  <1>2. CASE InsertVector
    <2> DEFINE n == Len(cycle.vectors)
               r == RunnerOf(n + 1)
               row == [market |-> cycle.market, runner |-> r, set |-> SetOf(n + 1),
                       snapshot |-> cycle.snapshots[r],
                       external |-> IF SetOf(n + 1) = "A0" THEN 0 ELSE cycle.external]
    <2>1. cycle.at = "vectors"
      BY <1>2 DEF InsertVector
    <2>2. /\ r \in Runner /\ SetOf(n + 1) \in {"A0", "A1", "A2"}
          /\ cycle.snapshots[r] \in Nat
      BY <2>1, VectorTurn
    <2>3. row \in Vector
      BY <1>0, <2>2 DEF Vector
    <2>4. vectors' = Append(vectors, row)
      BY <1>2, <2>1, VectorTurn DEF InsertVector, SnapshotOf
    <2> HIDE DEF row
    <2>5. vectors' \in Seq(Vector) /\ Len(vectors') \in Nat
      BY <1>0, <2>3, <2>4
    <2>6. Append(cycle.vectors, Len(vectors')) \in Seq(Nat)
      BY <1>0, <2>5
    <2>7. cycle' \in Cycle
      BY <1>0, <1>2, <2>6 DEF InsertVector, Cycle, Stage
    <2>8. cycle'.at \in Stage
      BY <2>7 DEF Cycle
    <2> QED BY <1>0, <1>2, <2>5, <2>7, <2>8 DEF InsertVector, TypeInv, TypeOK, trainer, Stage
  <1>3. CASE Infer
    <2> DEFINE row == [version |-> process.loaded, market |-> cycle.market,
                       vectors |-> cycle.vectors]
    <2>1. row \in Inference
      BY <1>0 DEF Inference
    <2>2. inferences' = inferences \/ inferences' = Append(inferences, row)
      BY <1>3 DEF Infer
    <2> HIDE DEF row
    <2>3. inferences' \in Seq(Inference) /\ Len(inferences') \in Nat
      BY <1>0, <2>1, <2>2, AppendTyped
    <2>4. cycle' \in Cycle
      BY <1>0, <1>3, <2>3 DEF Infer, Cycle, Stage
    <2>5. cycle'.at \in Stage
      BY <2>4 DEF Cycle
    <2> QED BY <1>0, <1>3, <2>3, <2>4, <2>5 DEF Infer, TypeInv, TypeOK, trainer, Stage
  <1>4. CASE InsertDecision
    <2> DEFINE row(allowed) ==
                 [market |-> cycle.market, snapshot |-> cycle.snapshots[1],
                  vectors |-> cycle.vectors, config |-> cycle.config,
                  model |-> process.loaded, inference |-> cycle.inference,
                  allowed |-> allowed]
    <2>1. PICK allowed \in Verdicts :
             /\ decisions' = Append(decisions, row(allowed))
             /\ cycle' = IF allowed THEN [cycle EXCEPT !.at = "order"] ELSE Resting
      BY <1>4 DEF InsertDecision
    <2>2. allowed \in BOOLEAN
      BY <2>1 DEF Verdicts
    <2>3. cycle.snapshots[1] \in Nat
      <3>1. Len(cycle.snapshots) = RunnerCount
        BY <1>4 DEF InsertDecision, CycleInv, StageInv
      <3> QED BY <1>0, <3>1, ConstantsAssumption
    <2>4. row(allowed) \in Decision
      BY <1>0, <2>2, <2>3 DEF Decision
    <2> HIDE DEF row
    <2>5. decisions' \in Seq(Decision)
      BY <1>0, <2>1, <2>4
    <2>6. cycle' \in Cycle
      BY <1>0, <2>1, <2>2, RestingType DEF Cycle, Stage
    <2>7. cycle'.at \in Stage
      BY <2>6 DEF Cycle
    <2> QED BY <1>0, <1>4, <2>5, <2>6, <2>7 DEF InsertDecision, TypeInv, TypeOK, trainer, Stage
  <1> QED BY <1>1, <1>2, <1>3, <1>4

LEMMA TypeStep ==
    ASSUME TypeInv, CycleInv, [Next]_vars
    PROVE  TypeInv'
  <1>1. CASE UNCHANGED vars
    BY <1>1 DEF vars, tables, trainer, TypeInv, TypeOK
  <1> QED BY <1>1, TrainerType, ProcessType, DiscoveryType, BundleType, EvidenceType DEF Next

-------------------------------------------------------------------------------
(* What the process and its poll cycle hold stays what it is *)

\* What a step does to the process, and that runners are only added.
LEMMA ProcessMoves ==
    ASSUME TypeInv, [Next]_vars
    PROVE  /\ \/ process' = process
              \/ process' = Down
              \/ Boot /\ process'.up /\ process'.tracked = {} /\ configs' = configs + 1
                      /\ process'.external = Down.external
              \/ /\ process'.up = process.up /\ process'.external = process.external
                 /\ \E m \in Market : /\ process'.tracked = process.tracked \cup {m}
                                      /\ runners[m] = Runner
              \/ /\ process'.up = process.up /\ process'.tracked = process.tracked
                 /\ cycle.at = "cache"
                 /\ process'.external = [process.external EXCEPT ![cycle.market] = cycle.external]
           /\ \A m \in Market : runners[m] = Runner => runners'[m] = Runner
  <1>0. /\ process \in Process /\ runners \in [Market -> SUBSET Runner]
        /\ discovery.market \in Market
        /\ process = [up |-> process.up, loaded |-> process.loaded,
                      tracked |-> process.tracked, external |-> process.external]
    BY DEF TypeInv, TypeOK, Process
  <1>1. CASE DiscoverRunner
    <2>1. CASE Runner \ runners[discovery.market] # {}
      <3>1. /\ process' = process
            /\ \E r \in Runner : runners' = [runners EXCEPT ![discovery.market] = @ \cup {r}]
        BY <1>1, <2>1 DEF DiscoverRunner
      <3> QED BY <1>0, <3>1
    <2>2. CASE Runner \ runners[discovery.market] = {}
      <3>1. /\ process' = [process EXCEPT !.tracked = @ \cup {discovery.market}]
            /\ runners' = runners
        BY <1>1, <2>2 DEF DiscoverRunner
      <3>2. runners[discovery.market] = Runner
        BY <1>0, <2>2
      <3> QED BY <1>0, <3>1, <3>2
    <2> QED BY <2>1, <2>2
  <1>2. CASE Boot
    BY <1>2 DEF Boot, Down
  <1>3. CASE CacheExternal
    BY <1>0, <1>3 DEF CacheExternal, tables
  <1>4. ASSUME NEW m \in Market, DiscoverMarket(m)
        PROVE  process' = process /\ runners' = runners
    BY <1>0, <1>4 DEF DiscoverMarket, TrackedSoFar
  <1>5. \/ process' = process /\ runners' = runners
        \/ process' = Down /\ runners' = runners
        \/ DiscoverRunner \/ Boot \/ CacheExternal
        \/ \E m \in Market : DiscoverMarket(m)
    BY DEF Next, vars, tables, trainer, DumpArtifact, InsertVersion, TrainingFails, Die,
           Raise, TakeBundle, InsertSnapshot, TakeExternal, InsertVector, ReadConfig,
           Infer, InsertDecision, InsertOrder, SkipOrder
  <1> QED BY <1>1, <1>2, <1>3, <1>4, <1>5

LEMMA ProcessStep ==
    ASSUME TypeInv, CycleInv, [Next]_vars
    PROVE  ProcessInv'
  <1>0. /\ TypeOK /\ process \in Process /\ ProcessInv /\ StageInv
        /\ configs \in Nat /\ configs' \in Nat /\ configs <= configs'
        /\ process.external \in [Market -> 0 .. Len(externals)]
        /\ process.tracked \subseteq Market /\ cycle.market \in Market
        /\ GrowsTo(externals, externals')
    <2>1. /\ TypeOK /\ process \in Process /\ ProcessInv /\ StageInv
          /\ process.external \in [Market -> 0 .. Len(externals)]
          /\ process.tracked \subseteq Market /\ cycle.market \in Market
      BY DEF TypeInv, TypeOK, CycleInv, Cycle
    <2>2. GrowsTo(externals, externals') /\ configs <= configs'
      BY TablesGrow
    <2>3. configs \in Nat
      BY ConstantsAssumption DEF TypeInv, TypeOK
    <2>4. configs' \in Nat
      <3>1. configs' \in Int /\ configs <= configs'
        BY TablesGrow
      <3> QED BY <2>3, <3>1
    <2> QED BY <2>1, <2>2, <2>3, <2>4
  <1>1. ASSUME NEW m \in Market, NEW x \in Nat, x \in DOMAIN externals, externals[x] = m
        PROVE  externals'[x] = m
    BY <1>0, <1>1 DEF GrowsTo
  <1>2. \A m \in Market : process.external[m] # 0 => externals'[process.external[m]] = m
    <2> SUFFICES ASSUME NEW m \in Market, process.external[m] # 0
                 PROVE  externals'[process.external[m]] = m
      OBVIOUS
    <2>1. Len(externals) \in Nat /\ DOMAIN externals = 1 .. Len(externals)
      BY <1>0 DEF GrowsTo
    <2>2. process.external[m] \in 0 .. Len(externals)
      BY <1>0
    <2>3. process.external[m] \in DOMAIN externals /\ process.external[m] \in Nat
      BY <2>1, <2>2
    <2> QED BY <1>0, <1>1, <2>3 DEF ProcessInv
  <1>3. training' # 0 => training' \in artifacts'
    <2>1. \/ training' = training \/ training' = 0
          \/ training' \in artifacts'
      BY DEF Next, vars, tables, trainer, DumpArtifact, InsertVersion, TrainingFails, Boot,
             Die, Raise, DiscoverMarket, TakeBundle, DiscoverRunner, InsertSnapshot,
             TakeExternal, CacheExternal, InsertVector, ReadConfig, Infer,
             InsertDecision, InsertOrder, SkipOrder
    <2> QED BY <1>0, <2>1, TablesGrow DEF ProcessInv
  <1>4. \A m \in Market : Down.external[m] = 0
    BY DEF Down
  <1>5. CASE process' = process
    BY <1>0, <1>2, <1>3, <1>5, ProcessMoves DEF ProcessInv
  <1>6. CASE process' = Down
    <2>1. ~Down.up /\ Down.tracked = {}
      BY DEF Down
    <2> QED BY <1>3, <1>4, <1>6, <2>1 DEF ProcessInv
  <1>7. CASE /\ process'.up /\ process'.tracked = {} /\ configs' = configs + 1
             /\ process'.external = Down.external
    <2>1. configs' >= 1
      BY <1>0, <1>7
    <2> QED BY <1>3, <1>4, <1>7, <2>1 DEF ProcessInv
  <1>8. ASSUME NEW m \in Market, process'.up = process.up, process'.external = process.external,
               process'.tracked = process.tracked \cup {m}, runners[m] = Runner
        PROVE  ProcessInv'
    <2>1. \A k \in process'.tracked : runners'[k] = Runner
      BY <1>0, <1>8, ProcessMoves DEF ProcessInv
    <2>2. process'.up => configs' >= 1
      BY <1>0, <1>8 DEF ProcessInv
    <2> QED BY <1>2, <1>3, <1>8, <2>1, <2>2 DEF ProcessInv
  <1>9. CASE /\ process'.up = process.up /\ process'.tracked = process.tracked
             /\ cycle.at = "cache"
             /\ process'.external = [process.external EXCEPT ![cycle.market] = cycle.external]
    <2>1. cycle.external \in DOMAIN externals /\ externals[cycle.external] = cycle.market
      BY <1>0, <1>9 DEF StageInv
    <2>2. externals'[cycle.external] = cycle.market
      BY <1>0, <2>1 DEF GrowsTo
    <2>3. \A m \in Market : process'.external[m] # 0 => externals'[process'.external[m]] = m
      BY <1>0, <1>2, <1>9, <2>2
    <2>4. \A k \in process'.tracked : runners'[k] = Runner
      BY <1>0, <1>9, ProcessMoves DEF ProcessInv
    <2>5. process'.up => configs' >= 1
      BY <1>0, <1>9 DEF ProcessInv
    <2> QED BY <1>3, <2>3, <2>4, <2>5 DEF ProcessInv
  <1> QED BY <1>5, <1>6, <1>7, <1>8, <1>9, ProcessMoves

-------------------------------------------------------------------------------
(* How far the cycle has got *)

\* A cycle that rests holds nothing.
LEMMA RestingHolds ==
    ASSUME TypeInv', cycle' = Resting
    PROVE  StageInv' /\ HeldInv'
  <1>1. /\ cycle'.at = "idle" /\ cycle'.snapshots = <<>> /\ cycle'.vectors = <<>>
        /\ cycle'.inference = 0
    BY DEF Resting
  <1> QED BY <1>1 DEF StageInv, HeldInv, Late

\* The rows a cycle holds stay what they are.
LEMMA HeldKept ==
    ASSUME TypeInv, CycleInv, [Next]_vars, cycles' = cycles,
           cycle'.market = cycle.market, cycle'.snapshots = cycle.snapshots,
           cycle'.vectors = cycle.vectors
    PROVE  HeldInv'
  <1>0. GrowsTo(snapshots, snapshots') /\ GrowsTo(vectors, vectors')
    BY TablesGrow
  <1>1. ASSUME NEW r \in DOMAIN cycle.snapshots
        PROVE  /\ cycle.snapshots[r] \in DOMAIN snapshots'
               /\ snapshots'[cycle.snapshots[r]] =
                     [market |-> cycle.market, runner |-> r, bundle |-> cycles]
    BY <1>0 DEF CycleInv, HeldInv, GrowsTo
  <1>2. ASSUME NEW k \in DOMAIN cycle.vectors
        PROVE  /\ cycle.vectors[k] \in DOMAIN vectors'
               /\ vectors'[cycle.vectors[k]].market = cycle.market
               /\ vectors'[cycle.vectors[k]].runner = RunnerOf(k)
               /\ vectors'[cycle.vectors[k]].snapshot = cycle.snapshots[RunnerOf(k)]
               /\ vectors'[cycle.vectors[k]].set = SetOf(k)
    <2>1. cycle.vectors[k] \in DOMAIN vectors
      BY DEF CycleInv, HeldInv
    <2>2. /\ cycle.vectors[k] \in DOMAIN vectors'
          /\ vectors'[cycle.vectors[k]] = vectors[cycle.vectors[k]]
      BY <1>0, <2>1 DEF GrowsTo
    <2> QED BY <2>2 DEF CycleInv, HeldInv
  <1> QED BY <1>1, <1>2 DEF HeldInv

\* What the other tasks do leaves a cycle that is under way as it was.
LEMMA CycleKept ==
    ASSUME TypeInv, CycleInv, [Next]_vars, cycle' = cycle, cycles' = cycles,
           decisions' = decisions,
           cycle.at = "idle" \/ /\ process'.up = process.up /\ process'.loaded = process.loaded
                                /\ process.tracked \subseteq process'.tracked
    PROVE  StageInv' /\ HeldInv'
  <1>0. /\ GrowsTo(externals, externals') /\ GrowsTo(inferences, inferences')
        /\ configs <= configs' /\ configs' \in Int
    BY TablesGrow
  <1>1. configs \in Int
    BY ConstantsAssumption DEF TypeInv, TypeOK
  <1>2. StageInv'
    <2>1. cycle.external \in DOMAIN externals /\ externals[cycle.external] = cycle.market
          => cycle.external \in DOMAIN externals' /\ externals'[cycle.external] = cycle.market
      BY <1>0 DEF GrowsTo
    <2>2. cycle.config \in 1 .. configs => cycle.config \in 1 .. configs'
      BY <1>0, <1>1
    <2>3. cycle.inference \in DOMAIN inferences =>
             /\ cycle.inference \in DOMAIN inferences'
             /\ inferences'[cycle.inference] = inferences[cycle.inference]
      BY <1>0 DEF GrowsTo
    <2>4. cycle.at = "idle" \/ /\ process'.up = process.up /\ process'.loaded = process.loaded
                               /\ process.tracked \subseteq process'.tracked
      OBVIOUS
    <2> QED BY <2>1, <2>2, <2>3, <2>4 DEF CycleInv, StageInv, Late
  <1>3. HeldInv'
    BY HeldKept
  <1> QED BY <1>2, <1>3

LEMMA TakeBundleStep ==
    ASSUME TypeInv, CycleInv, NEW m \in Market, TakeBundle(m)
    PROVE  StageInv' /\ HeldInv'
  <1>1. /\ cycle'.at = "snapshots" /\ cycle'.market = m /\ cycle'.snapshots = <<>>
        /\ cycle'.vectors = <<>> /\ cycle'.inference = 0
    BY DEF TakeBundle, Resting
  <1>2. process'.up /\ m \in process'.tracked
    BY DEF TakeBundle
  <1>3. cycles' \in 1 .. MaxCycles
    <2>1. cycles \in 0 .. MaxCycles /\ MaxCycles \in Nat
      BY ConstantsAssumption DEF TypeInv, TypeOK
    <2>2. cycles < MaxCycles /\ cycles' = cycles + 1
      BY DEF TakeBundle
    <2> QED BY <2>1, <2>2
  <1>4. Len(cycle'.snapshots) < RunnerCount
    BY <1>1, ConstantsAssumption
  <1> QED BY <1>1, <1>2, <1>3, <1>4 DEF StageInv, HeldInv, Late

LEMMA InsertSnapshotStep ==
    ASSUME TypeInv, CycleInv, InsertSnapshot
    PROVE  StageInv' /\ HeldInv'
  <1> DEFINE r == Len(cycle.snapshots) + 1
             row == [market |-> cycle.market, runner |-> r, bundle |-> cycles]
             next == IF r = RunnerCount THEN "external" ELSE "snapshots"
  <1>0. /\ cycle \in Cycle /\ cycle.snapshots \in Seq(Nat) /\ snapshots \in Seq(Snapshot)
        /\ StageInv /\ HeldInv /\ cycle.at = "snapshots" /\ RunnerCount \in Nat \ {0}
    BY ConstantsAssumption DEF TypeInv, TypeOK, Cycle, CycleInv, InsertSnapshot
  <1>1. /\ Len(cycle.snapshots) \in Nat /\ r <= RunnerCount /\ cycle.vectors = <<>>
        /\ cycle.inference = 0
    BY <1>0 DEF StageInv
  <1>2. /\ snapshots' = Append(snapshots, row)
        /\ cycle' = [cycle EXCEPT !.snapshots = Append(cycle.snapshots, Len(snapshots')),
                                  !.at = next]
        /\ process' = process /\ cycles' = cycles
    BY <1>0 DEF InsertSnapshot
  <1>3. /\ cycle'.at = next /\ cycle'.market = cycle.market /\ cycle'.vectors = <<>>
        /\ cycle'.snapshots = Append(cycle.snapshots, Len(snapshots')) /\ cycle'.inference = 0
    BY <1>0, <1>1, <1>2 DEF Cycle
  <1>4. Len(cycle'.snapshots) = r
    <2>1. Len(snapshots') \in Nat
      BY <1>0, <1>2, AppendGrows DEF GrowsTo
    <2> QED BY <1>0, <1>3, AppendGrows
  <1>5. StageInv'
    <2>1. next = "external" => Len(cycle'.snapshots) = RunnerCount
      BY <1>4
    <2>2. next = "snapshots" => Len(cycle'.snapshots) < RunnerCount
      BY <1>0, <1>1, <1>4
    <2>3. next \in {"snapshots", "external"}
      OBVIOUS
    <2> HIDE DEF next
    <2> QED BY <1>0, <1>2, <1>3, <2>1, <2>2, <2>3 DEF StageInv, Late
  <1>6. ASSUME NEW q \in DOMAIN cycle'.snapshots
        PROVE  /\ cycle'.snapshots[q] \in DOMAIN snapshots'
               /\ snapshots'[cycle'.snapshots[q]] =
                     [market |-> cycle.market, runner |-> q, bundle |-> cycles]
    <2>1. \/ q \in DOMAIN cycle.snapshots /\ cycle'.snapshots[q] = cycle.snapshots[q]
          \/ q = r /\ cycle'.snapshots[q] = Len(snapshots')
      BY <1>0, <1>3, AppendGrows
    <2>2. CASE q \in DOMAIN cycle.snapshots /\ cycle'.snapshots[q] = cycle.snapshots[q]
      <3>1. /\ cycle.snapshots[q] \in DOMAIN snapshots
            /\ snapshots[cycle.snapshots[q]] =
                  [market |-> cycle.market, runner |-> q, bundle |-> cycles]
        BY <1>0, <2>2 DEF HeldInv
      <3>2. GrowsTo(snapshots, snapshots')
        BY <1>0, <1>2, AppendGrows
      <3> QED BY <2>2, <3>1, <3>2 DEF GrowsTo
    <2>3. CASE q = r /\ cycle'.snapshots[q] = Len(snapshots')
      <3> HIDE DEF row
      <3>1. Len(snapshots') = Len(snapshots) + 1 /\ snapshots'[Len(snapshots) + 1] = row
        BY <1>0, <1>2, AppendGrows
      <3>2. Len(snapshots') \in DOMAIN snapshots'
        <4>1. GrowsTo(snapshots, snapshots')
          BY <1>0, <1>2, AppendGrows
        <4> QED BY <3>1, <4>1 DEF GrowsTo
      <3> QED BY <2>3, <3>1, <3>2 DEF row
    <2> QED BY <2>1, <2>2, <2>3
  <1>7. HeldInv'
    BY <1>2, <1>3, <1>6 DEF HeldInv
  <1> QED BY <1>5, <1>7

\* A tracked market has its runners, so it gets an external row, new or cached.
LEMMA TakeExternalStep ==
    ASSUME TypeInv, CycleInv, TakeExternal
    PROVE  StageInv' /\ HeldInv'
  <1> DEFINE m == cycle.market
             id == process.external[m]
  <1>0. /\ cycle \in Cycle /\ m \in Market /\ externals \in Seq(Market)
        /\ StageInv /\ ProcessInv /\ cycle.at = "external" /\ RunnerCount \in Nat \ {0}
        /\ process.external \in [Market -> 0 .. Len(externals)]
    BY ConstantsAssumption DEF TypeInv, TypeOK, Cycle, CycleInv, TakeExternal
  <1>1. runners[m] # {}
    <2>1. 1 \in Runner
      BY <1>0 DEF Runner
    <2> QED BY <1>0, <2>1 DEF StageInv, ProcessInv
  <1>2. /\ process' = process /\ cycles' = cycles
        /\ \/ /\ id # 0 /\ externals' = externals
              /\ cycle' = [cycle EXCEPT !.at = "vectors", !.external = id]
           \/ /\ externals' = Append(externals, m)
              /\ cycle' = [cycle EXCEPT !.at = "cache", !.external = Len(externals')]
    BY <1>1 DEF TakeExternal, CachedExternal
  <1>3. /\ cycle'.market = m /\ cycle'.snapshots = cycle.snapshots
        /\ cycle'.vectors = cycle.vectors /\ cycle'.inference = cycle.inference
        /\ cycle'.at \in {"vectors", "cache"}
    BY <1>0, <1>2 DEF Cycle
  <1>4. HeldInv'
    BY <1>2, <1>3, HeldKept DEF Next
  <1>5. cycle'.external \in DOMAIN externals' /\ externals'[cycle'.external] = m
    <2>1. CASE /\ id # 0 /\ externals' = externals
               /\ cycle' = [cycle EXCEPT !.at = "vectors", !.external = id]
      <3>1. cycle'.external = id
        BY <1>0, <2>1 DEF Cycle
      <3>2. id \in 0 .. Len(externals) /\ externals[id] = m
        BY <1>0, <2>1 DEF ProcessInv
      <3>3. id \in DOMAIN externals
        BY <1>0, <2>1, <3>2
      <3> QED BY <2>1, <3>1, <3>2, <3>3
    <2>2. CASE /\ externals' = Append(externals, m)
               /\ cycle' = [cycle EXCEPT !.at = "cache", !.external = Len(externals')]
      <3>1. cycle'.external = Len(externals')
        BY <1>0, <2>2 DEF Cycle
      <3>2. Len(externals') = Len(externals) + 1 /\ externals'[Len(externals) + 1] = m
        BY <1>0, <2>2, AppendGrows
      <3>3. Len(externals') \in DOMAIN externals'
        <4>1. GrowsTo(externals, externals')
          BY <1>0, <2>2, AppendGrows
        <4> QED BY <3>2, <4>1 DEF GrowsTo
      <3> QED BY <3>1, <3>2, <3>3
    <2> QED BY <1>2, <2>1, <2>2
  <1>6. cycle.vectors = <<>> /\ Len(cycle.vectors) < 3 * RunnerCount
    BY <1>0 DEF StageInv
  <1>7. process'.up /\ cycles' \in 1 .. MaxCycles /\ m \in process'.tracked
        /\ Len(cycle.snapshots) = RunnerCount /\ cycle.inference = 0
    BY <1>0, <1>2 DEF StageInv
  <1> QED BY <1>3, <1>4, <1>5, <1>6, <1>7 DEF StageInv, Late

LEMMA CacheExternalStep ==
    ASSUME TypeInv, CycleInv, CacheExternal
    PROVE  StageInv' /\ HeldInv'
  <1>0. cycle \in Cycle /\ process \in Process /\ StageInv /\ cycle.at = "cache"
        /\ RunnerCount \in Nat \ {0}
    BY ConstantsAssumption DEF TypeInv, CycleInv, CacheExternal
  <1>1. /\ cycle'.at = "vectors" /\ cycle'.market = cycle.market
        /\ cycle'.snapshots = cycle.snapshots /\ cycle'.vectors = cycle.vectors
        /\ cycle'.external = cycle.external /\ cycle'.inference = cycle.inference
        /\ process'.up = process.up /\ process'.tracked = process.tracked
        /\ cycles' = cycles /\ externals' = externals
    BY <1>0 DEF CacheExternal, Cycle, Process, tables
  <1>2. HeldInv'
    BY <1>1, HeldKept DEF Next
  <1>3. cycle.vectors = <<>> /\ Len(cycle.vectors) < 3 * RunnerCount
    BY <1>0 DEF StageInv
  <1> QED BY <1>0, <1>1, <1>2, <1>3 DEF StageInv, Late

\* The vector is the next runner's next set, of the snapshot the cycle holds.
LEMMA InsertVectorStep ==
    ASSUME TypeInv, CycleInv, InsertVector
    PROVE  StageInv' /\ HeldInv'
  <1> DEFINE n == Len(cycle.vectors)
             r == RunnerOf(n + 1)
             row == [market |-> cycle.market, runner |-> r, set |-> SetOf(n + 1),
                     snapshot |-> cycle.snapshots[r],
                     external |-> IF SetOf(n + 1) = "A0" THEN 0 ELSE cycle.external]
             next == IF n + 1 >= 3 * RunnerCount THEN "evaluate" ELSE "vectors"
  <1>0. /\ cycle \in Cycle /\ cycle.vectors \in Seq(Nat) /\ vectors \in Seq(Vector)
        /\ StageInv /\ HeldInv /\ cycle.at = "vectors" /\ RunnerCount \in Nat \ {0}
    BY ConstantsAssumption DEF TypeInv, TypeOK, Cycle, CycleInv, InsertVector
  <1>1. n \in Nat /\ n < 3 * RunnerCount /\ cycle.inference = 0
    BY <1>0, VectorTurn DEF StageInv
  <1>2. /\ vectors' = Append(vectors, row) /\ process' = process /\ cycles' = cycles
        /\ externals' = externals /\ snapshots' = snapshots
    BY <1>0, VectorTurn DEF InsertVector, SnapshotOf
  <1>3. cycle' = [cycle EXCEPT !.vectors = Append(cycle.vectors, Len(vectors')), !.at = next]
    <2>1. cycle' = [cycle EXCEPT !.vectors = Append(@, Len(vectors')),
                                 !.at = IF n + 1 >= RunnerCount * Len(Sets)
                                        THEN "evaluate" ELSE @]
      BY DEF InsertVector
    <2>2. RunnerCount * Len(Sets) = 3 * RunnerCount
      <3>1. Len(Sets) = 3
        BY <1>0, VectorTurn
      <3> QED BY <1>0, <3>1
    <2> QED BY <1>0, <2>1, <2>2
  <1>4. /\ cycle'.at = next /\ cycle'.market = cycle.market /\ cycle'.inference = cycle.inference
        /\ cycle'.snapshots = cycle.snapshots /\ cycle'.external = cycle.external
        /\ cycle'.vectors = Append(cycle.vectors, Len(vectors'))
    BY <1>0, <1>3 DEF Cycle
  <1>5. Len(cycle'.vectors) = n + 1
    BY <1>0, <1>4, AppendGrows
  <1>6. StageInv'
    <2>1. next = "evaluate" => Len(cycle'.vectors) = 3 * RunnerCount
      BY <1>0, <1>1, <1>5
    <2>2. next = "vectors" => Len(cycle'.vectors) < 3 * RunnerCount
      BY <1>0, <1>1, <1>5
    <2>3. next \in {"evaluate", "vectors"}
      OBVIOUS
    <2> HIDE DEF next, n
    <2> QED BY <1>0, <1>1, <1>2, <1>4, <2>1, <2>2, <2>3 DEF StageInv, Late
  <1> DEFINE Fits(k, id) == /\ id \in DOMAIN vectors'
                            /\ vectors'[id].market = cycle.market
                            /\ vectors'[id].runner = RunnerOf(k)
                            /\ vectors'[id].snapshot = cycle.snapshots[RunnerOf(k)]
                            /\ vectors'[id].set = SetOf(k)
  <1>7. ASSUME NEW k \in DOMAIN cycle'.vectors
        PROVE  Fits(k, cycle'.vectors[k])
    <2>1. \/ k \in DOMAIN cycle.vectors /\ cycle'.vectors[k] = cycle.vectors[k]
          \/ k = n + 1 /\ cycle'.vectors[k] = Len(vectors')
      BY <1>0, <1>4, AppendGrows
    <2>2. CASE k \in DOMAIN cycle.vectors /\ cycle'.vectors[k] = cycle.vectors[k]
      <3>1. cycle.vectors[k] \in DOMAIN vectors
        BY <1>0, <2>2 DEF HeldInv
      <3>2. /\ cycle.vectors[k] \in DOMAIN vectors'
            /\ vectors'[cycle.vectors[k]] = vectors[cycle.vectors[k]]
        <4>1. GrowsTo(vectors, vectors')
          BY <1>0, <1>2, AppendGrows
        <4> QED BY <3>1, <4>1 DEF GrowsTo
      <3> QED BY <1>0, <2>2, <3>2 DEF HeldInv
    <2>3. CASE k = n + 1 /\ cycle'.vectors[k] = Len(vectors')
      <3>1. /\ row.market = cycle.market /\ row.runner = r /\ row.set = SetOf(n + 1)
            /\ row.snapshot = cycle.snapshots[r]
        OBVIOUS
      <3> HIDE DEF row
      <3>2. Len(vectors') = Len(vectors) + 1 /\ vectors'[Len(vectors) + 1] = row
        BY <1>0, <1>2, AppendGrows
      <3>3. Len(vectors') \in DOMAIN vectors'
        <4>1. GrowsTo(vectors, vectors')
          BY <1>0, <1>2, AppendGrows
        <4> QED BY <3>2, <4>1 DEF GrowsTo
      <3> QED BY <2>3, <3>1, <3>2, <3>3
    <2> QED BY <2>1, <2>2, <2>3
  <1>8. ASSUME NEW q \in DOMAIN cycle.snapshots
        PROVE  /\ cycle.snapshots[q] \in DOMAIN snapshots'
               /\ snapshots'[cycle.snapshots[q]] =
                     [market |-> cycle.market, runner |-> q, bundle |-> cycles]
    BY <1>0, <1>2 DEF HeldInv
  <1>9. HeldInv'
    BY <1>2, <1>4, <1>7, <1>8 DEF HeldInv
  <1> QED BY <1>6, <1>9

LEMMA ReadConfigStep ==
    ASSUME TypeInv, CycleInv, ReadConfig
    PROVE  StageInv' /\ HeldInv'
  <1>0. /\ cycle \in Cycle /\ StageInv /\ ProcessInv /\ cycle.at = "evaluate"
        /\ configs \in Nat
    BY ConstantsAssumption DEF TypeInv, TypeOK, CycleInv, ReadConfig
  <1>1. CASE cycle' = Resting
    <2>1. TypeInv'
      BY BundleType
    <2> QED BY <1>1, <2>1, RestingHolds
  <1>2. CASE cycle' = [cycle EXCEPT !.at = "infer", !.config = configs]
    <2>1. /\ cycle'.at = "infer" /\ cycle'.market = cycle.market /\ cycle'.config = configs
          /\ cycle'.snapshots = cycle.snapshots /\ cycle'.vectors = cycle.vectors
          /\ cycle'.external = cycle.external /\ cycle'.inference = cycle.inference
      BY <1>0, <1>2 DEF Cycle
    <2>2. /\ process' = process /\ cycles' = cycles /\ externals' = externals
          /\ configs' = configs
      BY DEF ReadConfig, tables
    <2>3. HeldInv'
      BY <2>1, <2>2, HeldKept DEF Next
    <2>4. configs \in 1 .. configs
      BY <1>0 DEF StageInv, ProcessInv
    <2> QED BY <1>0, <2>1, <2>2, <2>3, <2>4 DEF StageInv, Late
  <1> QED BY <1>1, <1>2 DEF ReadConfig

\* A cycle with its vectors complete has an A2 vector: its third.
LEMMA SomeA2 ==
    ASSUME TypeInv, CycleInv, cycle.at \in Late
    PROVE  3 \in DOMAIN cycle.vectors /\ vectors[cycle.vectors[3]].set = "A2" /\ HasA2
  <1>1. cycle.vectors \in Seq(Nat) /\ Len(cycle.vectors) = 3 * RunnerCount
        /\ RunnerCount \in Nat \ {0}
    BY ConstantsAssumption DEF TypeInv, Cycle, CycleInv, StageInv
  <1>2. 3 \in DOMAIN cycle.vectors
    BY <1>1
  <1>3. SetOf(3) = "A2"
    <2>1. ((3 - 1) % 3) + 1 = 3
      BY SMT
    <2> QED BY <2>1 DEF SetOf
  <1>4. vectors[cycle.vectors[3]].set = "A2"
    BY <1>2, <1>3 DEF CycleInv, HeldInv
  <1> QED BY <1>2, <1>4 DEF HasA2

LEMMA InferStep ==
    ASSUME TypeInv, CycleInv, Infer
    PROVE  StageInv' /\ HeldInv'
  <1> DEFINE row == [version |-> process.loaded, market |-> cycle.market,
                     vectors |-> cycle.vectors]
  <1>0. /\ cycle \in Cycle /\ StageInv /\ cycle.at = "infer" /\ inferences \in Seq(Inference)
    BY DEF TypeInv, TypeOK, CycleInv, Infer
  <1>1. HasA2
    BY <1>0, SomeA2 DEF Late
  <1>2. /\ process' = process /\ cycles' = cycles /\ externals' = externals
        /\ configs' = configs
        /\ \/ /\ process.loaded # 0 /\ inferences' = Append(inferences, row)
              /\ cycle' = [cycle EXCEPT !.at = "decide", !.inference = Len(inferences')]
           \/ /\ process.loaded = 0 /\ inferences' = inferences
              /\ cycle' = [cycle EXCEPT !.at = "decide"]
    BY <1>1 DEF Infer
  <1>3. /\ cycle'.at = "decide" /\ cycle'.market = cycle.market
        /\ cycle'.config = cycle.config
        /\ cycle'.snapshots = cycle.snapshots /\ cycle'.vectors = cycle.vectors
        /\ cycle'.external = cycle.external
    BY <1>0, <1>2 DEF Cycle
  <1>4. HeldInv'
    BY <1>2, <1>3, HeldKept DEF Next
  <1>5. IF cycle'.inference = 0 THEN process.loaded = 0
        ELSE /\ cycle'.inference \in DOMAIN inferences'
             /\ inferences'[cycle'.inference] = row
    <2>1. CASE /\ inferences' = Append(inferences, row)
               /\ cycle' = [cycle EXCEPT !.at = "decide", !.inference = Len(inferences')]
      <3>1. cycle'.inference = Len(inferences')
        BY <1>0, <2>1 DEF Cycle
      <3> HIDE DEF row
      <3>2. /\ Len(inferences') = Len(inferences) + 1
            /\ inferences'[Len(inferences) + 1] = row
            /\ GrowsTo(inferences, inferences')
        BY <1>0, <2>1, AppendGrows
      <3>3. Len(inferences') \in DOMAIN inferences' /\ Len(inferences') # 0
        BY <3>2 DEF GrowsTo
      <3> QED BY <3>1, <3>2, <3>3
    <2>2. CASE process.loaded = 0 /\ cycle' = [cycle EXCEPT !.at = "decide"]
      <3>1. cycle'.inference = 0
        BY <1>0, <2>2 DEF Cycle, StageInv
      <3> QED BY <2>2, <3>1
    <2> QED BY <1>2, <2>1, <2>2
  <1>6. /\ process'.up /\ cycles' \in 1 .. MaxCycles /\ cycle'.market \in process'.tracked
        /\ Len(cycle'.snapshots) = RunnerCount /\ Len(cycle'.vectors) = 3 * RunnerCount
        /\ cycle'.external \in DOMAIN externals'
        /\ externals'[cycle'.external] = cycle'.market
        /\ cycle'.config \in 1 .. configs'
    BY <1>0, <1>2, <1>3 DEF StageInv, Late
  <1> QED BY <1>2, <1>3, <1>4, <1>5, <1>6 DEF StageInv, Late

LEMMA InsertDecisionStep ==
    ASSUME TypeInv, CycleInv, InsertDecision
    PROVE  StageInv' /\ HeldInv'
  <1>0. /\ cycle \in Cycle /\ StageInv /\ cycle.at = "decide" /\ decisions \in Seq(Decision)
    BY DEF TypeInv, TypeOK, CycleInv, InsertDecision
  <1>1. PICK allowed \in BOOLEAN :
          /\ decisions' = Append(decisions,
               [market |-> cycle.market, snapshot |-> cycle.snapshots[1],
                vectors |-> cycle.vectors, config |-> cycle.config,
                model |-> process.loaded, inference |-> cycle.inference,
                allowed |-> allowed])
          /\ cycle' = IF allowed THEN [cycle EXCEPT !.at = "order"] ELSE Resting
    BY DEF InsertDecision, Verdicts
  <1>2. CASE ~allowed
    <2>1. TypeInv'
      BY EvidenceType
    <2> QED BY <1>1, <1>2, <2>1, RestingHolds
  <1>3. CASE allowed
    <2> DEFINE row == [market |-> cycle.market, snapshot |-> cycle.snapshots[1],
                       vectors |-> cycle.vectors, config |-> cycle.config,
                       model |-> process.loaded, inference |-> cycle.inference,
                       allowed |-> allowed]
    <2>1. /\ cycle'.at = "order" /\ cycle'.market = cycle.market
          /\ cycle'.config = cycle.config
          /\ cycle'.snapshots = cycle.snapshots /\ cycle'.vectors = cycle.vectors
          /\ cycle'.external = cycle.external
      BY <1>0, <1>1, <1>3 DEF Cycle
    <2>2. /\ process' = process /\ cycles' = cycles /\ externals' = externals
          /\ configs' = configs
      BY DEF InsertDecision
    <2>3. HeldInv'
      BY <2>1, <2>2, HeldKept DEF Next
    <2>4. Len(decisions') >= 1 /\ decisions'[Len(decisions')].allowed
      <3>1. row.allowed /\ decisions' = Append(decisions, row)
        BY <1>1, <1>3
      <3> HIDE DEF row
      <3>2. /\ Len(decisions') = Len(decisions) + 1
            /\ decisions'[Len(decisions) + 1] = row
            /\ GrowsTo(decisions, decisions')
        BY <1>0, <3>1, AppendGrows
      <3> QED BY <3>1, <3>2 DEF GrowsTo
    <2>5. /\ process'.up /\ cycles' \in 1 .. MaxCycles /\ cycle'.market \in process'.tracked
          /\ Len(cycle'.snapshots) = RunnerCount /\ Len(cycle'.vectors) = 3 * RunnerCount
          /\ cycle'.external \in DOMAIN externals'
          /\ externals'[cycle'.external] = cycle'.market
          /\ cycle'.config \in 1 .. configs'
      BY <1>0, <2>1, <2>2 DEF StageInv, Late
    <2> QED BY <2>1, <2>3, <2>4, <2>5 DEF StageInv, Late
  <1> QED BY <1>2, <1>3

LEMMA CycleStep ==
    ASSUME TypeInv, CycleInv, [Next]_vars
    PROVE  CycleInv'
  <1>0. TypeInv' /\ ProcessInv'
    BY TypeStep, ProcessStep
  <1>1. CASE cycle' = Resting
    BY <1>0, <1>1, RestingHolds DEF CycleInv
  <1>2. CASE /\ cycle' = cycle /\ cycles' = cycles /\ decisions' = decisions
             /\ \/ cycle.at = "idle"
                \/ /\ process'.up = process.up /\ process'.loaded = process.loaded
                   /\ process.tracked \subseteq process'.tracked
    BY <1>0, <1>2, CycleKept DEF CycleInv
  <1>3. CASE InsertSnapshot
    BY <1>0, <1>3, InsertSnapshotStep DEF CycleInv
  <1>4. CASE TakeExternal
    BY <1>0, <1>4, TakeExternalStep DEF CycleInv
  <1>5. CASE CacheExternal
    BY <1>0, <1>5, CacheExternalStep DEF CycleInv
  <1>6. CASE InsertVector
    BY <1>0, <1>6, InsertVectorStep DEF CycleInv
  <1>7. CASE ReadConfig
    BY <1>0, <1>7, ReadConfigStep DEF CycleInv
  <1>8. CASE Infer
    BY <1>0, <1>8, InferStep DEF CycleInv
  <1>9. CASE InsertDecision
    BY <1>0, <1>9, InsertDecisionStep DEF CycleInv
  <1>10. ASSUME NEW m \in Market, TakeBundle(m) PROVE CycleInv'
    BY <1>0, <1>10, TakeBundleStep DEF CycleInv
  <1>11. CASE DumpArtifact \/ InsertVersion \/ TrainingFails \/ Raise \/ UNCHANGED vars
    BY <1>1, <1>2, <1>11 DEF DumpArtifact, InsertVersion, TrainingFails, Raise, vars, tables
  <1>12. CASE DiscoverRunner \/ \E m \in Market : DiscoverMarket(m)
    <2>1. process \in Process
      BY DEF TypeInv
    <2>2. /\ cycle' = cycle /\ cycles' = cycles /\ decisions' = decisions
          /\ process'.up = process.up /\ process'.loaded = process.loaded
          /\ process.tracked \subseteq process'.tracked
      BY <1>12, <2>1 DEF DiscoverRunner, DiscoverMarket, Process
    <2> QED BY <1>2, <2>2
  <1>13. CASE Boot
    <2>1. cycle.at = "idle"
      BY <1>13 DEF Boot, CycleInv, StageInv
    <2> QED BY <1>2, <1>13, <2>1 DEF Boot
  <1>14. CASE Die \/ InsertOrder \/ SkipOrder
    BY <1>1, <1>14 DEF Die, InsertOrder, SkipOrder
  <1> QED BY <1>3, <1>4, <1>5, <1>6, <1>7, <1>8, <1>9, <1>10, <1>11, <1>12, <1>13, <1>14
          DEF Next

-------------------------------------------------------------------------------
(* What the rows cite *)

\* A decision cites a configuration, and vectors of its market and of the bundle of
\* its snapshot, one of every runner and an A2 among them; without an inference it
\* names no model and does not allow.
DecisionCites(row) ==
    /\ row.config \in 1 .. configs
    /\ row.snapshot \in DOMAIN snapshots /\ snapshots[row.snapshot].market = row.market
    /\ \A k \in DOMAIN row.vectors :
          /\ row.vectors[k] \in DOMAIN vectors
          /\ vectors[row.vectors[k]].market = row.market
          /\ vectors[row.vectors[k]].snapshot \in DOMAIN snapshots
          /\ snapshots[vectors[row.vectors[k]].snapshot].bundle
                = snapshots[row.snapshot].bundle
    /\ \A r \in Runner : \E k \in DOMAIN row.vectors : vectors[row.vectors[k]].runner = r
    /\ \E k \in DOMAIN row.vectors : vectors[row.vectors[k]].set = "A2"
    /\ IF row.inference = 0 THEN row.model = 0 /\ ~row.allowed
       ELSE /\ row.inference \in DOMAIN inferences
            /\ inferences[row.inference] =
                  [version |-> row.model, market |-> row.market, vectors |-> row.vectors]

InferenceCites(row) == row.version \in DOMAIN versions /\ VectorsResolve(row)

OrderCites(id) == id \in DOMAIN decisions /\ decisions[id].allowed

RowsInv ==
    /\ \A i \in DOMAIN vectors : VectorResolves(vectors[i])
    /\ \A i \in DOMAIN versions : versions[i] \in artifacts
    /\ \A i \in DOMAIN inferences : InferenceCites(inferences[i])
    /\ \A i \in DOMAIN decisions : DecisionCites(decisions[i])
    /\ \A i \in DOMAIN orders : OrderCites(orders[i])

AuditInv == TypeInv /\ CycleInv /\ RowsInv

\* What a row cites stays there, and stays what it is.
LEMMA CitesKept ==
    ASSUME TypeInv, [Next]_vars, NEW row
    PROVE  /\ VectorResolves(row) => VectorResolves(row)'
           /\ InferenceCites(row) => InferenceCites(row)'
           /\ DecisionCites(row) => DecisionCites(row)'
           /\ OrderCites(row) => OrderCites(row)'
  <1>0. /\ GrowsTo(snapshots, snapshots') /\ GrowsTo(externals, externals')
        /\ GrowsTo(vectors, vectors') /\ GrowsTo(versions, versions')
        /\ GrowsTo(inferences, inferences') /\ GrowsTo(decisions, decisions')
        /\ configs <= configs' /\ configs' \in Int
    BY TablesGrow
  <1>1. configs \in Int
    BY ConstantsAssumption DEF TypeInv, TypeOK
  <1>2. VectorResolves(row) => VectorResolves(row)'
    BY <1>0 DEF VectorResolves, GrowsTo
  <1>3. InferenceCites(row) => InferenceCites(row)'
    BY <1>0 DEF InferenceCites, VectorsResolve, GrowsTo
  <1>4. OrderCites(row) => OrderCites(row)'
    BY <1>0 DEF OrderCites, GrowsTo
  <1>5. ASSUME DecisionCites(row) PROVE DecisionCites(row)'
    <2>1. row.config \in 1 .. configs'
      BY <1>0, <1>1, <1>5 DEF DecisionCites
    <2>2. /\ row.snapshot \in DOMAIN snapshots'
          /\ snapshots'[row.snapshot] = snapshots[row.snapshot]
          /\ snapshots'[row.snapshot].market = row.market
      BY <1>0, <1>5 DEF DecisionCites, GrowsTo
    <2>3. ASSUME NEW k \in DOMAIN row.vectors
          PROVE  /\ row.vectors[k] \in DOMAIN vectors'
                 /\ vectors'[row.vectors[k]] = vectors[row.vectors[k]]
      BY <1>0, <1>5 DEF DecisionCites, GrowsTo
    <2>4. ASSUME NEW k \in DOMAIN row.vectors
          PROVE  /\ vectors'[row.vectors[k]].market = row.market
                 /\ vectors'[row.vectors[k]].snapshot \in DOMAIN snapshots'
                 /\ snapshots'[vectors'[row.vectors[k]].snapshot].bundle
                      = snapshots'[row.snapshot].bundle
      <3>1. /\ vectors[row.vectors[k]].market = row.market
            /\ vectors[row.vectors[k]].snapshot \in DOMAIN snapshots
            /\ snapshots[vectors[row.vectors[k]].snapshot].bundle
                 = snapshots[row.snapshot].bundle
        BY <1>5 DEF DecisionCites
      <3>2. /\ vectors[row.vectors[k]].snapshot \in DOMAIN snapshots'
            /\ snapshots'[vectors[row.vectors[k]].snapshot]
                 = snapshots[vectors[row.vectors[k]].snapshot]
        BY <1>0, <3>1 DEF GrowsTo
      <3> QED BY <2>2, <2>3, <3>1, <3>2
    <2>5. \A r \in Runner : \E k \in DOMAIN row.vectors : vectors'[row.vectors[k]].runner = r
      BY <1>5, <2>3 DEF DecisionCites
    <2>6. \E k \in DOMAIN row.vectors : vectors'[row.vectors[k]].set = "A2"
      BY <1>5, <2>3 DEF DecisionCites
    <2>7. row.inference \in DOMAIN inferences =>
             /\ row.inference \in DOMAIN inferences'
             /\ inferences'[row.inference] = inferences[row.inference]
      BY <1>0 DEF GrowsTo
    <2> QED BY <1>5, <2>1, <2>2, <2>3, <2>4, <2>5, <2>6, <2>7 DEF DecisionCites
  <1> QED BY <1>2, <1>3, <1>4, <1>5

\* The vector a cycle adds is of a snapshot and an external row of its market.
LEMMA NewVector ==
    ASSUME TypeInv, CycleInv, InsertVector
    PROVE  \E row : VectorResolves(row) /\ vectors' = Append(vectors, row)
  <1> DEFINE n == Len(cycle.vectors)
             r == RunnerOf(n + 1)
             row == [market |-> cycle.market, runner |-> r, set |-> SetOf(n + 1),
                     snapshot |-> cycle.snapshots[r],
                     external |-> IF SetOf(n + 1) = "A0" THEN 0 ELSE cycle.external]
  <1>0. cycle.at = "vectors"
    BY DEF InsertVector
  <1>1. vectors' = Append(vectors, row)
    BY <1>0, VectorTurn DEF InsertVector, SnapshotOf
  <1>2. r \in DOMAIN cycle.snapshots
    BY <1>0, VectorTurn
  <1>3. /\ cycle.snapshots[r] \in DOMAIN snapshots
        /\ snapshots[cycle.snapshots[r]] =
              [market |-> cycle.market, runner |-> r, bundle |-> cycles]
    <2> HIDE DEF r
    <2> QED BY <1>2 DEF CycleInv, HeldInv
  <1>4. cycle.external \in DOMAIN externals /\ externals[cycle.external] = cycle.market
    BY <1>0 DEF CycleInv, StageInv
  <1>5. VectorResolves(row)
    <2> HIDE DEF r, n
    <2> QED BY <1>3, <1>4 DEF VectorResolves
  <1> HIDE DEF row
  <1> QED BY <1>1, <1>5

\* The inference a cycle adds is a stored version's, on vectors of its market.
LEMMA NewInference ==
    ASSUME TypeInv, CycleInv, Infer
    PROVE  \/ inferences' = inferences
           \/ \E row : InferenceCites(row) /\ inferences' = Append(inferences, row)
  <1> DEFINE row == [version |-> process.loaded, market |-> cycle.market,
                     vectors |-> cycle.vectors]
  <1>0. versions \in Seq(1 .. MaxTrainings) /\ process.loaded \in 0 .. Len(versions)
    BY DEF TypeInv, TypeOK
  <1>1. CASE process.loaded # 0
    <2>1. process.loaded \in DOMAIN versions
      BY <1>0, <1>1
    <2>2. \A k \in DOMAIN cycle.vectors : /\ cycle.vectors[k] \in DOMAIN vectors
                                          /\ vectors[cycle.vectors[k]].market = cycle.market
      BY DEF CycleInv, HeldInv
    <2>3. InferenceCites(row)
      BY <2>1, <2>2 DEF InferenceCites, VectorsResolve
    <2>4. inferences' = inferences \/ inferences' = Append(inferences, row)
      BY DEF Infer
    <2> HIDE DEF row
    <2> QED BY <2>3, <2>4
  <1>2. CASE process.loaded = 0
    BY <1>2 DEF Infer
  <1> QED BY <1>1, <1>2

LEMMA RunnerArithmetic ==
    ASSUME NEW c \in Nat \ {0}
    PROVE  /\ \A k \in 1 .. 3 * c : RunnerOf(k) \in 1 .. c
           /\ \A r \in 1 .. c : \E k \in 1 .. 3 * c : RunnerOf(k) = r
  <1>1. ASSUME NEW k \in 1 .. 3 * c PROVE RunnerOf(k) \in 1 .. c
    <2>1. k - 1 \in Nat /\ k - 1 < 3 * c
      OBVIOUS
    <2> QED BY <2>1, TurnArithmetic DEF RunnerOf
  <1>2. ASSUME NEW r \in 1 .. c PROVE \E k \in 1 .. 3 * c : RunnerOf(k) = r
    <2>1. 3 * (r - 1) + 1 \in 1 .. 3 * c
      OBVIOUS
    <2>2. (3 * (r - 1) + 1) - 1 = 3 * (r - 1) /\ (3 * (r - 1)) \div 3 = r - 1
      BY SMT
    <2>3. RunnerOf(3 * (r - 1) + 1) = r
      BY <2>2 DEF RunnerOf
    <2> QED BY <2>1, <2>3
  <1> QED BY <1>1, <1>2

\* The decision a cycle adds rests on the cycle's own bundle.
LEMMA NewDecision ==
    ASSUME TypeInv, CycleInv, InsertDecision
    PROVE  \E row : DecisionCites(row) /\ decisions' = Append(decisions, row)
  <1>0. /\ StageInv /\ HeldInv /\ cycle.at = "decide" /\ RunnerCount \in Nat \ {0}
        /\ cycle.vectors \in Seq(Nat) /\ cycle.snapshots \in Seq(Nat)
    BY ConstantsAssumption DEF TypeInv, CycleInv, InsertDecision, Cycle
  <1>1. PICK allowed \in Verdicts :
           decisions' = Append(decisions,
               [market |-> cycle.market, snapshot |-> cycle.snapshots[1],
                vectors |-> cycle.vectors, config |-> cycle.config,
                model |-> process.loaded, inference |-> cycle.inference,
                allowed |-> allowed])
    BY DEF InsertDecision
  <1> DEFINE row == [market |-> cycle.market, snapshot |-> cycle.snapshots[1],
                     vectors |-> cycle.vectors, config |-> cycle.config,
                     model |-> process.loaded, inference |-> cycle.inference,
                     allowed |-> allowed]
  <1>2. cycle.config \in 1 .. configs
    BY <1>0 DEF StageInv
  <1>3. DOMAIN cycle.snapshots = 1 .. RunnerCount /\ DOMAIN cycle.vectors = 1 .. 3 * RunnerCount
    <2>1. Len(cycle.snapshots) = RunnerCount /\ Len(cycle.vectors) = 3 * RunnerCount
      BY <1>0 DEF StageInv, Late
    <2> QED BY <1>0, <2>1
  <1>4. \A r \in 1 .. RunnerCount :
           /\ cycle.snapshots[r] \in DOMAIN snapshots
           /\ snapshots[cycle.snapshots[r]].market = cycle.market
           /\ snapshots[cycle.snapshots[r]].bundle = cycles
    <2> HIDE DEF row
    <2> TAKE r \in 1 .. RunnerCount
    <2>1. /\ cycle.snapshots[r] \in DOMAIN snapshots
          /\ snapshots[cycle.snapshots[r]] =
                [market |-> cycle.market, runner |-> r, bundle |-> cycles]
      BY <1>0, <1>3 DEF HeldInv
    <2> QED BY <2>1
  <1>5. 1 \in 1 .. RunnerCount
    BY <1>0
  <1>6. ASSUME NEW k \in DOMAIN cycle.vectors
        PROVE  /\ cycle.vectors[k] \in DOMAIN vectors
               /\ vectors[cycle.vectors[k]].market = cycle.market
               /\ vectors[cycle.vectors[k]].runner = RunnerOf(k)
               /\ vectors[cycle.vectors[k]].snapshot \in DOMAIN snapshots
               /\ snapshots[vectors[cycle.vectors[k]].snapshot].bundle
                     = snapshots[cycle.snapshots[1]].bundle
    <2>1. RunnerOf(k) \in 1 .. RunnerCount
      BY <1>0, <1>3, RunnerArithmetic
    <2> QED BY <1>0, <1>4, <1>5, <2>1 DEF HeldInv
  <1>7. \A r \in Runner : \E k \in DOMAIN cycle.vectors : vectors[cycle.vectors[k]].runner = r
    <2> HIDE DEF row
    <2> TAKE r \in Runner
    <2>1. PICK k \in 1 .. 3 * RunnerCount : RunnerOf(k) = r
      BY <1>0, RunnerArithmetic DEF Runner
    <2>2. k \in DOMAIN cycle.vectors
      BY <1>3
    <2> QED BY <1>6, <2>1, <2>2
  <1>8. \E k \in DOMAIN cycle.vectors : vectors[cycle.vectors[k]].set = "A2"
    BY <1>0, SomeA2 DEF Late
  <1>9. IF cycle.inference = 0 THEN process.loaded = 0 /\ ~allowed
        ELSE /\ cycle.inference \in DOMAIN inferences
             /\ inferences[cycle.inference] =
                   [version |-> process.loaded, market |-> cycle.market,
                    vectors |-> cycle.vectors]
    BY <1>0, <1>1 DEF StageInv, Verdicts
  <1>10. DecisionCites(row)
    BY <1>2, <1>4, <1>5, <1>6, <1>7, <1>8, <1>9 DEF DecisionCites
  <1> HIDE DEF row
  <1> QED BY <1>1, <1>10 DEF row

\* Which step adds to which table.
LEMMA WhoInserts ==
    ASSUME [Next]_vars
    PROVE  /\ vectors' = vectors \/ InsertVector
           /\ inferences' = inferences \/ Infer
           /\ decisions' = decisions \/ InsertDecision
           /\ versions' = versions \/ InsertVersion
           /\ orders' = orders \/ InsertOrder
  BY DEF Next, vars, tables, trainer, DumpArtifact, InsertVersion, TrainingFails, Boot,
         Die, Raise, DiscoverMarket, TakeBundle, DiscoverRunner, InsertSnapshot,
         TakeExternal, CacheExternal, InsertVector, ReadConfig, Infer, InsertDecision,
         InsertOrder, SkipOrder

LEMMA RowsStep ==
    ASSUME AuditInv, [Next]_vars
    PROVE  RowsInv'
  <1>0. TypeInv /\ CycleInv /\ RowsInv
    BY DEF AuditInv
  <1>a. /\ vectors \in Seq(Vector) /\ versions \in Seq(1 .. MaxTrainings)
        /\ inferences \in Seq(Inference) /\ decisions \in Seq(Decision)
        /\ orders \in Seq(Nat)
    BY <1>0 DEF TypeInv, TypeOK
  <1>1. ASSUME NEW i \in DOMAIN vectors' PROVE VectorResolves(vectors[i])'
    <2>1. PICK row : row = vectors'[i]
      OBVIOUS
    <2>2. VectorResolves(row)
      <3>1. CASE vectors' = vectors
        BY <1>0, <2>1, <3>1 DEF RowsInv
      <3>2. CASE InsertVector
        <4>1. PICK new : VectorResolves(new) /\ vectors' = Append(vectors, new)
          BY <1>0, <3>2, NewVector
        <4>2. (i \in DOMAIN vectors /\ row = vectors[i]) \/ row = new
          BY <1>a, <2>1, <4>1, AppendGrows
        <4> QED BY <1>0, <4>1, <4>2 DEF RowsInv
      <3> QED BY <3>1, <3>2, WhoInserts
    <2>3. VectorResolves(row)'
      BY <1>0, <2>2, CitesKept
    <2> QED BY <2>1, <2>3 DEF VectorResolves
  <1>2. ASSUME NEW i \in DOMAIN versions' PROVE versions'[i] \in artifacts'
    <2>1. CASE versions' = versions
      BY <1>0, <2>1, TablesGrow DEF RowsInv
    <2>2. CASE InsertVersion
      <3>1. versions' = Append(versions, training) /\ training \in artifacts
        BY <1>0, <2>2 DEF InsertVersion, CycleInv, ProcessInv
      <3>2. (i \in DOMAIN versions /\ versions'[i] = versions[i]) \/ versions'[i] = training
        BY <1>a, <3>1, AppendGrows
      <3> QED BY <1>0, <3>1, <3>2, TablesGrow DEF RowsInv
    <2> QED BY <2>1, <2>2, WhoInserts
  <1>3. ASSUME NEW i \in DOMAIN inferences' PROVE InferenceCites(inferences[i])'
    <2>1. PICK row : row = inferences'[i]
      OBVIOUS
    <2>2. InferenceCites(row)
      <3>1. CASE inferences' = inferences
        BY <1>0, <2>1, <3>1 DEF RowsInv
      <3>2. ASSUME NEW new, InferenceCites(new), inferences' = Append(inferences, new)
            PROVE  InferenceCites(row)
        <4>1. (i \in DOMAIN inferences /\ row = inferences[i]) \/ row = new
          BY <1>a, <2>1, <3>2, AppendGrows
        <4> QED BY <1>0, <3>2, <4>1 DEF RowsInv
      <3> QED BY <1>0, <3>1, <3>2, WhoInserts, NewInference
    <2>3. InferenceCites(row)'
      BY <1>0, <2>2, CitesKept
    <2> QED BY <2>1, <2>3 DEF InferenceCites, VectorsResolve
  <1>4. ASSUME NEW i \in DOMAIN decisions' PROVE DecisionCites(decisions[i])'
    <2>1. PICK row : row = decisions'[i]
      OBVIOUS
    <2>2. DecisionCites(row)
      <3>1. CASE decisions' = decisions
        BY <1>0, <2>1, <3>1 DEF RowsInv
      <3>2. CASE InsertDecision
        <4>1. PICK new : DecisionCites(new) /\ decisions' = Append(decisions, new)
          BY <1>0, <3>2, NewDecision
        <4>2. (i \in DOMAIN decisions /\ row = decisions[i]) \/ row = new
          BY <1>a, <2>1, <4>1, AppendGrows
        <4> QED BY <1>0, <4>1, <4>2 DEF RowsInv
      <3> QED BY <3>1, <3>2, WhoInserts
    <2>3. DecisionCites(row)'
      BY <1>0, <2>2, CitesKept
    <2> QED BY <2>1, <2>3 DEF DecisionCites
  <1>5. ASSUME NEW i \in DOMAIN orders' PROVE OrderCites(orders[i])'
    <2>1. PICK id : id = orders'[i]
      OBVIOUS
    <2>2. OrderCites(id)
      <3>1. CASE orders' = orders
        BY <1>0, <2>1, <3>1 DEF RowsInv
      <3>2. CASE InsertOrder
        <4>1. Len(decisions) >= 1 /\ decisions[Len(decisions)].allowed
          BY <1>0, <3>2 DEF InsertOrder, CycleInv, StageInv
        <4>2. Len(decisions) \in DOMAIN decisions
          BY <1>a, <4>1
        <4>3. orders' = Append(orders, Len(decisions))
          BY <3>2 DEF InsertOrder
        <4>4. (i \in DOMAIN orders /\ id = orders[i]) \/ id = Len(decisions)
          BY <1>a, <2>1, <4>3, AppendGrows
        <4> QED BY <1>0, <4>1, <4>2, <4>4 DEF RowsInv, OrderCites
      <3> QED BY <3>1, <3>2, WhoInserts
    <2>3. OrderCites(id)'
      BY <1>0, <2>2, CitesKept
    <2> QED BY <2>1, <2>3 DEF OrderCites
  <1> QED BY <1>1, <1>2, <1>3, <1>4, <1>5 DEF RowsInv

LEMMA InitAudit == Init => AuditInv
  <1> SUFFICES ASSUME Init PROVE AuditInv
    OBVIOUS
  <1>1. /\ configs = 0 /\ snapshots = <<>> /\ externals = <<>> /\ vectors = <<>>
        /\ versions = <<>> /\ inferences = <<>> /\ decisions = <<>> /\ orders = <<>>
        /\ markets = {} /\ runners = [m \in Market |-> {}]
        /\ artifacts = {} /\ training = 0 /\ trainings = 0
        /\ process = Down /\ discovery = Searching /\ cycle = Resting
        /\ cycles = 0 /\ faults = 0
    BY DEF Init
  <1>2. /\ Down \in Process /\ ~Down.up /\ Down.loaded = 0 /\ Down.tracked = {}
        /\ Down.external = [m \in Market |-> 0]
    BY DEF Down, Process
  <1>3. /\ Resting.at = "idle" /\ Resting.snapshots = <<>> /\ Resting.vectors = <<>>
        /\ Resting.inference = 0
    BY DEF Resting
  <1>4. discovery \in Discovery /\ discovery.at = "idle" /\ discovery.market \in Market
    BY <1>1, ConstantsAssumption DEF Searching, Resting, Discovery
  <1>5. TypeOK
    <2>1. /\ snapshots \in Seq(Snapshot) /\ externals \in Seq(Market) /\ Len(externals) = 0
          /\ vectors \in Seq(Vector) /\ versions \in Seq(1 .. MaxTrainings)
          /\ Len(versions) = 0
          /\ inferences \in Seq(Inference) /\ decisions \in Seq(Decision)
          /\ orders \in Seq(Nat)
      BY <1>1
    <2>2. /\ process.up \in BOOLEAN /\ process.loaded \in 0 .. Len(versions)
          /\ process.tracked \subseteq Market
          /\ process.external \in [Market -> 0 .. Len(externals)]
      <3>1. 0 \in 0 .. Len(versions) /\ 0 \in 0 .. Len(externals)
        BY <2>1
      <3>2. Down.up \in BOOLEAN
        BY DEF Down
      <3> QED BY <1>1, <1>2, <3>1, <3>2
    <2>3. /\ configs \in 0 .. MaxBoots /\ training \in 0 .. MaxTrainings
          /\ trainings \in 0 .. MaxTrainings /\ cycles \in 0 .. MaxCycles
          /\ faults \in 0 .. MaxFaults
      BY <1>1, ConstantsAssumption
    <2> QED BY <1>1, <1>3, <1>4, <2>1, <2>2, <2>3 DEF TypeOK
  <1>6. TypeInv
    BY <1>1, <1>2, <1>4, <1>5, RestingType DEF TypeInv
  <1>7. CycleInv
    BY <1>1, <1>2, <1>3 DEF CycleInv, ProcessInv, StageInv, HeldInv, Late
  <1>8. RowsInv
    BY <1>1 DEF RowsInv
  <1> QED BY <1>6, <1>7, <1>8 DEF AuditInv

LEMMA AuditInvHolds == Spec => []AuditInv
  <1>1. AuditInv /\ [Next]_vars => AuditInv'
    BY TypeStep, CycleStep, RowsStep DEF AuditInv
  <1> QED BY <1>1, InitAudit, PTL DEF Spec

-------------------------------------------------------------------------------
(* Theorems *)

\* Every row, cache and local of the trading process keeps its type.
THEOREM TypeCorrect == Spec => []TypeOK
  <1>1. AuditInv => TypeOK
    BY DEF AuditInv, TypeInv
  <1> QED BY <1>1, AuditInvHolds, PTL

\* Without a foreign key, every reference of the audit trail is to a row that exists,
\* of the same market and runner, and every version's artifact is written: whatever
\* insert raised, and whenever the process died.
THEOREM ReferencesHold == Spec => []ReferencesResolve
  <1>1. ASSUME AuditInv PROVE ReferencesResolve
    <2>0. TypeInv /\ RowsInv
      BY <1>1 DEF AuditInv
    <2>1. decisions \in Seq(Decision) /\ inferences \in Seq(Inference)
      BY <2>0 DEF TypeInv, TypeOK
    <2>2. ASSUME NEW i \in DOMAIN decisions
          PROVE  /\ decisions[i].config \in 1 .. configs
                 /\ decisions[i].snapshot \in DOMAIN snapshots
                 /\ snapshots[decisions[i].snapshot].market = decisions[i].market
                 /\ decisions[i].inference \in 0 .. Len(inferences)
                 /\ VectorsResolve(decisions[i])
      <3>1. DecisionCites(decisions[i])
        BY <2>0 DEF RowsInv
      <3>2. decisions[i].inference = 0 \/ decisions[i].inference \in DOMAIN inferences
        BY <3>1 DEF DecisionCites
      <3>3. decisions[i].inference \in 0 .. Len(inferences)
        BY <2>1, <3>2
      <3> QED BY <3>1, <3>3 DEF DecisionCites, VectorsResolve
    <2> QED BY <2>0, <2>2 DEF RowsInv, InferenceCites, OrderCites, ReferencesResolve
  <1> QED BY <1>1, AuditInvHolds, PTL

\* A decision's vectors are of the bundle of its snapshot and one is of every runner:
\* nothing a cut-short cycle left behind gets into a later decision.
THEOREM OneBundleHolds == Spec => []OneBundlePerDecision
  <1>1. ASSUME AuditInv PROVE OneBundlePerDecision
    <2> SUFFICES ASSUME NEW i \in DOMAIN decisions
                 PROVE  LET d == decisions[i]
                            cited == {vectors[d.vectors[k]] : k \in DOMAIN d.vectors}
                        IN /\ \A v \in cited : snapshots[v.snapshot].bundle
                                                 = snapshots[d.snapshot].bundle
                           /\ \A r \in Runner : \E v \in cited : v.runner = r
      BY DEF OneBundlePerDecision
    <2>1. DecisionCites(decisions[i])
      BY <1>1 DEF AuditInv, RowsInv
    <2> QED BY <2>1 DEF DecisionCites
  <1> QED BY <1>1, AuditInvHolds, PTL

\* A decision names the model whose inference it cites, on the same market and
\* vectors, and none when the market's own probabilities were used.
THEOREM NamedModelHolds == Spec => []NamedModelDecided
  <1>1. ASSUME AuditInv PROVE NamedModelDecided
    <2> SUFFICES ASSUME NEW i \in DOMAIN decisions
                 PROVE  LET d == decisions[i]
                        IN IF d.inference = 0 THEN d.model = 0
                           ELSE /\ inferences[d.inference].version = d.model
                                /\ inferences[d.inference].market = d.market
                                /\ inferences[d.inference].vectors = d.vectors
      BY DEF NamedModelDecided
    <2>1. DecisionCites(decisions[i])
      BY <1>1 DEF AuditInv, RowsInv
    <2> QED BY <2>1 DEF DecisionCites
  <1> QED BY <1>1, AuditInvHolds, PTL

\* An order's decision allowed it on a model's inference, the model's artifact is
\* written, and one of the vectors has the external features it was given.
THEOREM OrdersTrace == Spec => []OrdersAreTraceable
  <1>1. ASSUME AuditInv PROVE OrdersAreTraceable
    <2>0. RowsInv /\ TypeInv
      BY <1>1 DEF AuditInv
    <2> SUFFICES ASSUME NEW i \in DOMAIN orders
                 PROVE  LET d == decisions[orders[i]]
                        IN /\ d.allowed
                           /\ d.inference # 0
                           /\ versions[inferences[d.inference].version] \in artifacts
                           /\ \E k \in DOMAIN d.vectors :
                                /\ vectors[d.vectors[k]].set = "A2"
                                /\ vectors[d.vectors[k]].external # 0
      BY DEF OrdersAreTraceable
    <2> DEFINE d == decisions[orders[i]]
    <2>1. orders[i] \in DOMAIN decisions /\ d.allowed
      BY <2>0 DEF RowsInv, OrderCites
    <2>2. DecisionCites(d)
      BY <2>0, <2>1 DEF RowsInv
    <2> HIDE DEF d
    <2>3. d.inference # 0 /\ d.inference \in DOMAIN inferences
      BY <2>1, <2>2 DEF DecisionCites
    <2>4. versions[inferences[d.inference].version] \in artifacts
      BY <2>0, <2>3 DEF RowsInv, InferenceCites
    <2>5. PICK k \in DOMAIN d.vectors : vectors[d.vectors[k]].set = "A2"
      BY <2>2 DEF DecisionCites
    <2>6. VectorResolves(vectors[d.vectors[k]])
      BY <2>0, <2>2 DEF RowsInv, DecisionCites
    <2>7. vectors[d.vectors[k]].external \in DOMAIN externals
      BY <2>5, <2>6 DEF VectorResolves
    <2>8. vectors[d.vectors[k]].external # 0
      <3>1. externals \in Seq(Market)
        BY <2>0 DEF TypeInv, TypeOK
      <3> QED BY <2>7, <3>1
    <2> QED BY <2>1, <2>3, <2>4, <2>5, <2>8 DEF d
  <1> QED BY <1>1, AuditInvHolds, PTL
===============================================================================
