--------------------------- MODULE DecisionPipeline ---------------------------
(***************************************************************************)
(* The poll task from a market in the trading window to an order sent.     *)
(*                                                                         *)
(* Scheduler._poll_loop runs MarketCollector.run_poll_cycle: list the      *)
(* books of the eligible markets, then for one market after the other run  *)
(* the callback of main.py: features, DecisionEngine.evaluate and, on      *)
(* ALLOW, ExecutionEngine.on_decision_allow.  Awaits separate the steps:   *)
(* the clock moves, an operator writes a config snapshot, or the process   *)
(* stops and boots again between any two of them.                          *)
(*                                                                         *)
(* The edge, liquidity and spread gates are one answer of the data.  The   *)
(* drawdown gate always passes: its caller passes 0.0.  Of the rows of     *)
(* `decisions` only those with outcome ALLOW are kept.                     *)
(* What the exchange and `orders` make of an order sent is OrderLifecycle. *)
(***************************************************************************)
EXTENDS Integers, Sequences, FiniteSets

CONSTANTS
    Market, Event,
    NoMarket,        \* stands for no market being evaluated
    EventOf,         \* the event of a market
    StartOf,         \* the minute a market's match kicks off
    WindowStart,     \* first minute before kick-off to trade in (T-120)
    WindowEnd,       \* last minute before kick-off to trade in (T-10)
    Horizon,         \* bound on the clock
    MaxPositions,    \* max_positions_per_event
    ConfiguredKill,  \* kill_switch.active of the YAML file read at boot
    MaxToggles,      \* bound on the operator's config snapshots
    MaxRestarts,     \* bound on restarts
    MaxMishaps       \* bound on evaluations that raise or are skipped

ASSUME ConstantsAssumption ==
    /\ NoMarket \notin Market
    /\ EventOf \in [Market -> Event]
    /\ StartOf \in [Market -> Nat]
    /\ WindowStart \in Nat /\ WindowEnd \in Nat /\ Horizon \in Nat
    /\ MaxPositions \in Nat
    /\ ConfiguredKill \in BOOLEAN
    /\ MaxToggles \in Nat /\ MaxRestarts \in Nat /\ MaxMishaps \in Nat

VARIABLES
    now,        \* the clock, in minutes
    config,     \* kill_switch_active of the newest row of config_snapshots
    wanted,     \* history: what the operator asked for last, the YAML file first
    cycle,      \* the poll cycle in flight
    decisions,  \* the markets of the ALLOW rows of table `decisions`
    sent,       \* history: the orders sent to the exchange
    leaked,     \* history: orders sent since the kill switch last went up
    toggles, restarts, mishaps

vars == <<now, config, wanted, cycle, decisions, sent, leaked,
          toggles, restarts, mishaps>>
world == <<now, config, wanted, toggles, restarts>>

NoCycle == [pc |-> "idle", batch |-> {}, quotes |-> [m \in Market |-> 0],
            market |-> NoMarket, kill |-> FALSE, signal |-> FALSE, count |-> 0]
Cycle == [pc : {"idle", "listing", "next", "config", "infer", "count", "decide",
                "sizing", "placing"},
          batch : SUBSET Market,         \* markets still to be evaluated
          quotes : [Market -> Int],      \* minutes_to_start in the listed books
          market : Market \cup {NoMarket},
          kill : BOOLEAN,                \* kill switch as evaluate read it
          signal : BOOLEAN,              \* edge, liquidity and spread gates pass
          count : 0 .. MaxPositions]     \* ALLOW rows of the event as read

TypeOK ==
    /\ now \in 0 .. Horizon
    /\ config \in BOOLEAN /\ wanted \in BOOLEAN
    /\ cycle \in Cycle
    /\ cycle.pc \notin {"idle", "listing", "next"} => cycle.market \in Market
    /\ decisions \in Seq(Market)
    /\ sent \in Seq([decision : Nat, at : 0 .. Horizon])
    /\ leaked \in Nat
    /\ toggles \in 0 .. MaxToggles /\ restarts \in 0 .. MaxRestarts
    /\ mishaps \in 0 .. MaxMishaps

MinutesToStart(m) == StartOf[m] - now
BeforeEnd(minutes) == WindowEnd <= minutes                              \* mutant
InWindow(minutes) == WindowEnd <= minutes /\ minutes <= WindowStart

AllowRows(e) == {i \in DOMAIN decisions : EventOf[decisions[i]] = e}
AllowCount(e) == Cardinality(AllowRows(e))

Init ==
    /\ now = 0
    /\ config = ConfiguredKill /\ wanted = ConfiguredKill
    /\ cycle = NoCycle
    /\ decisions = <<>> /\ sent = <<>>
    /\ leaked = 0
    /\ toggles = 0 /\ restarts = 0 /\ mishaps = 0

-------------------------------------------------------------------------------
(* MarketCollector.run_poll_cycle *)

Eligible == {m \in Market : InWindow(MinutesToStart(m))}

\* list_market_book reads the clock when it is called: minutes_to_start is that
\* of the request and stays with a bundle until its turn comes.
StartCycle ==
    /\ cycle.pc = "idle"
    /\ Eligible # {}
    /\ cycle' = [NoCycle EXCEPT !.pc = "listing", !.batch = Eligible,
                                !.quotes = [m \in Market |-> IF m \in Eligible
                                                             THEN MinutesToStart(m) ELSE 0]]
    /\ UNCHANGED <<world, decisions, sent, leaked, mishaps>>

\* The books arrive.
ListBooks ==
    /\ cycle.pc = "listing"
    /\ cycle' = [cycle EXCEPT !.pc = "next"]
    /\ UNCHANGED <<world, decisions, sent, leaked, mishaps>>

\* The callback returned: the cycle goes on with the next bundle.
OnToNext == [cycle EXCEPT !.pc = "next", !.market = NoMarket, !.kill = FALSE,
                          !.signal = FALSE, !.count = 0]

\* Snapshots are stored, feature vectors built and runners known: evaluate begins.
NextMarket(m) ==
    /\ cycle.pc = "next"
    /\ m \in cycle.batch
    /\ cycle' = [cycle EXCEPT !.pc = "config", !.batch = @ \ {m}, !.market = m]
    /\ UNCHANGED <<world, decisions, sent, leaked, mishaps>>

\* No feature vectors or no runners: the market is passed over this cycle.
SkipMarket(m) ==
    /\ cycle.pc = "next"
    /\ m \in cycle.batch
    /\ mishaps < MaxMishaps
    /\ mishaps' = mishaps + 1
    /\ cycle' = [cycle EXCEPT !.batch = @ \ {m}]
    /\ UNCHANGED <<world, decisions, sent, leaked>>

FinishCycle ==
    /\ cycle.pc = "next"
    /\ cycle.batch = {}
    /\ cycle' = NoCycle
    /\ UNCHANGED <<world, decisions, sent, leaked, mishaps>>

\* _poll_loop logs the exception, sleeps and goes on.
AfterRaise == NoCycle

\* An exception anywhere in the callback ends the whole cycle.
CycleRaises ==
    /\ cycle.pc # "idle"
    /\ mishaps < MaxMishaps
    /\ mishaps' = mishaps + 1
    /\ cycle' = AfterRaise
    /\ UNCHANGED <<world, decisions, sent, leaked>>

-------------------------------------------------------------------------------
(* DecisionEngine.evaluate *)

KillNotRead == cycle.kill                                               \* mutant
KillAsRead == config

ReadConfig ==
    /\ cycle.pc = "config"
    /\ cycle' = [cycle EXCEPT !.pc = "infer", !.kill = KillAsRead]
    /\ UNCHANGED <<world, decisions, sent, leaked, mishaps>>

\* get_probabilities is awaited; edge, liquidity and spread follow from the data.
Infer ==
    /\ cycle.pc = "infer"
    /\ \E s \in BOOLEAN : cycle' = [cycle EXCEPT !.pc = "count", !.signal = s]
    /\ UNCHANGED <<world, decisions, sent, leaked, mishaps>>

CountAllows ==
    /\ cycle.pc = "count"
    /\ cycle' = [cycle EXCEPT !.pc = "decide",
                              !.count = AllowCount(EventOf[cycle.market])]
    /\ UNCHANGED <<world, decisions, sent, leaked, mishaps>>

PositionOpenOffByOne == cycle.count <= MaxPositions                     \* mutant
PositionOpen == cycle.count < MaxPositions

\* The hard gate first, then every other gate, then ALLOW.
Verdict ==
    IF cycle.kill THEN "BLOCK_HARD"
    ELSE IF InWindow(cycle.quotes[cycle.market]) /\ cycle.signal /\ PositionOpen
         THEN "ALLOW" ELSE "BLOCK_SOFT"

RowsAfterForgotten(v) == decisions                                      \* mutant
RowsAfter(v) == IF v = "ALLOW" THEN Append(decisions, cycle.market) ELSE decisions

InsertDecision ==
    /\ cycle.pc = "decide"
    /\ decisions' = RowsAfter(Verdict)
    /\ cycle' = IF Verdict = "ALLOW" THEN [cycle EXCEPT !.pc = "sizing"] ELSE OnToNext
    /\ UNCHANGED <<world, sent, leaked, mishaps>>

-------------------------------------------------------------------------------
(* ExecutionEngine.on_decision_allow, up to the exchange *)

\* No order: no quote in the table, a Kelly stake below the minimum, a dry run,
\* or place_orders raises before the exchange has it and an ERROR row is written.
SkipOrder ==
    /\ cycle.pc \in {"sizing", "placing"}
    /\ cycle' = OnToNext
    /\ UNCHANGED <<world, decisions, sent, leaked, mishaps>>

SizeOrder ==
    /\ cycle.pc = "sizing"
    /\ cycle' = [cycle EXCEPT !.pc = "placing"]
    /\ UNCHANGED <<world, decisions, sent, leaked, mishaps>>

\* place_orders: neither the kill switch nor the clock is looked at again.
SendOrder ==
    /\ cycle.pc = "placing"
    /\ sent' = Append(sent, [decision |-> Len(decisions), at |-> now])
    /\ leaked' = IF config THEN leaked + 1 ELSE leaked
    /\ cycle' = OnToNext
    /\ UNCHANGED <<world, decisions, mishaps>>

-------------------------------------------------------------------------------
(* The clock, the operator and the process *)

Tick ==
    /\ now < Horizon
    /\ now' = now + 1
    /\ UNCHANGED <<config, wanted, cycle, decisions, sent, leaked,
                   toggles, restarts, mishaps>>

SetKill(active) ==
    /\ config' = active
    /\ leaked' = IF active /\ ~config THEN 0 ELSE leaked

\* An operator inserts a config snapshot.
OperatorSetsKill ==
    /\ toggles < MaxToggles
    /\ toggles' = toggles + 1
    /\ \E active \in BOOLEAN : SetKill(active) /\ wanted' = active
    /\ UNCHANGED <<now, cycle, decisions, sent, restarts, mishaps>>

\* The process stops at any await and boots again: main inserts a snapshot with
\* the YAML file's kill switch, which is the newest row from then on.
Restart ==
    /\ restarts < MaxRestarts
    /\ restarts' = restarts + 1
    /\ SetKill(ConfiguredKill)
    /\ cycle' = NoCycle
    /\ UNCHANGED <<now, wanted, decisions, sent, toggles, mishaps>>

PollStep ==
    \/ StartCycle \/ ListBooks \/ FinishCycle \/ CycleRaises
    \/ \E m \in Market : NextMarket(m) \/ SkipMarket(m)
    \/ ReadConfig \/ Infer \/ CountAllows \/ InsertDecision
    \/ SkipOrder \/ SizeOrder \/ SendOrder

Next == PollStep \/ Tick \/ OperatorSetsKill \/ Restart

Spec == Init /\ [][Next]_vars

-------------------------------------------------------------------------------
(* Properties *)

\* Whatever fails or restarts between the count and the insert, an event never
\* has more ALLOW rows than max_positions_per_event.
PositionCap == \A e \in Event : AllowCount(e) <= MaxPositions

\* After the kill switch goes up at most one order still leaves: the one whose
\* evaluation had read the switch before.
KillLeaksAtMostOne == config => leaked <= 1

\* Every order sent has its ALLOW row in the table already, and no two orders
\* have the same one, so the cap on ALLOW rows caps the orders of an event.
OneOrderPerDecision ==
    /\ \A i \in DOMAIN sent : sent[i].decision \in DOMAIN decisions
    /\ \A i, j \in DOMAIN sent : sent[i].decision = sent[j].decision => i = j

\* No order leaves before the window opens, though its test is that of a listing
\* made before awaits, other markets and a restart: time only runs towards kick-off.
NotBeforeWindow ==
    \A i \in DOMAIN sent :
        StartOf[decisions[sent[i].decision]] - sent[i].at <= WindowStart

-------------------------------------------------------------------------------
(* What the documents claim and some step of the code refutes *)

\* Risk controls: BLOCK_HARD suspends trading until manual intervention.
KillLastsUntilOperator == wanted => config
===============================================================================
