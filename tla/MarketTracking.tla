---------------------------- MODULE MarketTracking ----------------------------
(***************************************************************************)
(* From the exchange's catalogue to markets under evaluation.              *)
(*                                                                         *)
(* The discovery task stores a market and its runners row by row and then  *)
(* tracks it; the poll task takes the tracked markets in the trading       *)
(* window, drops those past it, and for each builds features and runs      *)
(* DecisionEngine.evaluate, both of which read the stored runners once and *)
(* cache them for the life of the process (services/market_collector.py,   *)
(* feature_builder.py, decision_engine.py).  Between any two awaits the    *)
(* other task runs, the exchange moves a kick-off, a statement fails or    *)
(* the process stops.                                                      *)
(*                                                                         *)
(* What evaluate decides and what becomes of it is DecisionPipeline.       *)
(***************************************************************************)
EXTENDS Integers

CONSTANTS
    Market, Runner,   \* every market has the same set of runners
    NoMarket,         \* stands for no market in hand
    FirstKickOff,     \* the minute each match is first scheduled for
    LastKickOff,      \* bound on rescheduled kick-offs
    MaxMoves,         \* bound on how often kick-offs are moved
    WindowStart,      \* first minute before kick-off to trade in
    WindowEnd,        \* last minute before kick-off to trade in
    Ahead,            \* hours_ahead of the catalogue request, in minutes
    Horizon,          \* bound on the clock
    MaxRestarts,      \* bound on restarts
    MaxMishaps        \* bound on exceptions of the two tasks

ASSUME ConstantsAssumption ==
    /\ NoMarket \notin Market
    /\ Runner # {}
    /\ FirstKickOff \in [Market -> Nat]
    /\ WindowStart \in Nat /\ WindowEnd \in Nat /\ Ahead \in Nat
    /\ LastKickOff \in Nat /\ MaxMoves \in Nat /\ Horizon \in Nat
    /\ MaxRestarts \in Nat /\ MaxMishaps \in Nat

VARIABLES
    now,       \* the clock, in minutes
    kickOff,   \* when each match is scheduled for, at the exchange
    markets,   \* table `markets`
    runners,   \* table `runners`: the rows of each market
    tracked,   \* _tracked_markets: the start time in the catalogue kept, or None
    disc,      \* the run_discovery call in flight
    poll,      \* the run_poll_cycle call in flight
    known,     \* _runner_meta_cache of FeatureBuilder and of DecisionEngine
    external,  \* markets in _ext_id_cache
    extRows,   \* history: rows inserted into external_feature_snapshots
    decided,   \* history: markets that evaluate decided on
    restarts, mishaps, moves

vars == <<now, kickOff, markets, runners, tracked, disc, poll, known, external,
          extRows, decided, restarts, mishaps, moves>>
world == <<now, kickOff, restarts, moves>>
caches == <<known, external, extRows, decided>>

None == -1
Time == Nat \cup {None}

NoDiscovery == [pc |-> "idle", found |-> [m \in Market |-> None],
                market |-> NoMarket, left |-> {}]
Discovery == [pc : {"idle", "storing"},
              found : [Market -> Time],        \* catalogues still to be handled
              market : Market \cup {NoMarket}, \* the one being stored
              left : SUBSET Runner]            \* its runners not yet inserted

NoPoll == [pc |-> "idle", batch |-> {}, market |-> NoMarket]
Poll == [pc : {"idle", "listing", "next", "evaluating"},
         batch : SUBSET Market, market : Market \cup {NoMarket}]

Component == {"features", "decision"}

TypeOK ==
    /\ now \in 0 .. Horizon
    /\ kickOff \in [Market -> Nat]
    /\ markets \subseteq Market
    /\ runners \in [Market -> SUBSET Runner]
    /\ tracked \in [Market -> Time]
    /\ disc \in Discovery
    /\ poll \in Poll
    /\ poll.pc = "evaluating" => poll.market \in Market
    /\ known \in [Component -> [Market -> SUBSET Runner]]
    /\ external \subseteq Market /\ decided \subseteq Market
    /\ extRows \in [Market -> Nat]
    /\ restarts \in 0 .. MaxRestarts /\ mishaps \in 0 .. MaxMishaps
    /\ moves \in 0 .. MaxMoves

InWindow(minutes) == WindowEnd <= minutes /\ minutes <= WindowStart

Init ==
    /\ now = 0
    /\ kickOff = FirstKickOff
    /\ markets = {} /\ runners = [m \in Market |-> {}]
    /\ tracked = [m \in Market |-> None]
    /\ disc = NoDiscovery /\ poll = NoPoll
    /\ known = [c \in Component |-> [m \in Market |-> {}]]
    /\ external = {} /\ extRows = [m \in Market |-> 0]
    /\ decided = {}
    /\ restarts = 0 /\ mishaps = 0 /\ moves = 0

-------------------------------------------------------------------------------
(* MarketCollector.run_discovery *)

\* The catalogues of the matches that start from now on within hours_ahead.
ListCatalogue ==
    /\ disc.pc = "idle"
    /\ LET listed == {m \in Market : now <= kickOff[m] /\ kickOff[m] <= now + Ahead}
       IN  /\ listed # {}
           /\ disc' = [NoDiscovery EXCEPT
                         !.pc = "storing",
                         !.found = [m \in Market |-> IF m \in listed THEN kickOff[m]
                                                                     ELSE None]]
    /\ UNCHANGED <<world, markets, runners, tracked, poll, caches, mishaps>>

\* The next catalogue of the answer: a market tracked already is passed over.
SkipTracked(m) ==
    /\ disc.pc = "storing" /\ disc.market = NoMarket
    /\ disc.found[m] # None
    /\ tracked[m] # None
    /\ disc' = [disc EXCEPT !.found[m] = None]
    /\ UNCHANGED <<world, markets, runners, tracked, poll, caches, mishaps>>

\* Before its runners are stored a market is not tracked.
TrackedTooEarly(m) == [tracked EXCEPT ![m] = disc.found[m]]            \* mutant
TrackedMeanwhile(m) == tracked

\* insert_market; ON CONFLICT DO NOTHING keeps a row that is there.
InsertMarket(m) ==
    /\ disc.pc = "storing" /\ disc.market = NoMarket
    /\ disc.found[m] # None
    /\ tracked[m] = None
    /\ markets' = markets \cup {m}
    /\ tracked' = TrackedMeanwhile(m)
    /\ disc' = [disc EXCEPT !.market = m, !.left = Runner]
    /\ UNCHANGED <<world, runners, poll, caches, mishaps>>

\* One statement of insert_runners; after the last one the market is tracked.
InsertRunner(r) ==
    /\ disc.market # NoMarket
    /\ r \in disc.left
    /\ LET m == disc.market
       IN  /\ runners' = [runners EXCEPT ![m] = @ \cup {r}]
           /\ IF disc.left = {r}
              THEN /\ tracked' = [tracked EXCEPT ![m] = disc.found[m]]
                   /\ disc' = [disc EXCEPT !.found[m] = None, !.market = NoMarket,
                                           !.left = {}]
              ELSE /\ disc' = [disc EXCEPT !.left = @ \ {r}]
                   /\ UNCHANGED tracked
    /\ UNCHANGED <<world, markets, poll, caches, mishaps>>

FinishDiscovery ==
    /\ disc.pc = "storing" /\ disc.market = NoMarket
    /\ \A m \in Market : disc.found[m] = None
    /\ disc' = NoDiscovery
    /\ UNCHANGED <<world, markets, runners, tracked, poll, caches, mishaps>>

\* A statement or the request fails: rows inserted stay, the loop goes on.
DiscoveryRaises ==
    /\ disc.pc = "storing"
    /\ mishaps < MaxMishaps
    /\ mishaps' = mishaps + 1
    /\ disc' = NoDiscovery
    /\ UNCHANGED <<world, markets, runners, tracked, poll, caches>>

-------------------------------------------------------------------------------
(* MarketCollector.run_poll_cycle and its callback *)

\* _poll_loop logs the exception, sleeps and starts a new cycle.
AfterRaiseStopped == [NoPoll EXCEPT !.pc = "stopped"]                  \* mutant
AfterRaise == NoPoll

\* By the start time kept at discovery, not by that of the exchange.
Eligible == {m \in Market : tracked[m] # None /\ InWindow(tracked[m] - now)}
ExpiredNone == {}                                                      \* mutant
Expired == {m \in Market : tracked[m] # None /\ tracked[m] - now < WindowEnd}

\* _get_eligible_markets also drops the markets past their window.
StartPoll ==
    /\ poll.pc = "idle"
    /\ Eligible \cup Expired # {}
    /\ tracked' = [m \in Market |-> IF m \in Expired THEN None ELSE tracked[m]]
    /\ poll' = IF Eligible = {} THEN NoPoll
               ELSE [NoPoll EXCEPT !.pc = "listing", !.batch = Eligible]
    /\ UNCHANGED <<world, markets, runners, disc, caches, mishaps>>

ListBooks ==
    /\ poll.pc = "listing"
    /\ poll' = [poll EXCEPT !.pc = "next"]
    /\ UNCHANGED <<world, markets, runners, tracked, disc, caches, mishaps>>

\* What component c knows of m's runners once it has asked: its cache, else the
\* table; an empty answer is not cached.
Loaded(c, m) == IF known[c][m] # {} THEN known[c][m] ELSE runners[m]

ExternalUncached(m) == external                                        \* mutant
ExternalCached(m) == external \cup {m}

\* FeatureBuilder.on_market_snapshot: the market's external features are computed
\* and stored once, and the vectors are built with them.
BuildFeatures(m) ==
    /\ poll.pc = "next"
    /\ m \in poll.batch
    /\ known' = IF m \in external THEN known
                ELSE [known EXCEPT !["features"][m] = Loaded("features", m)]
    /\ IF m \in external \/ Loaded("features", m) = {}
       THEN UNCHANGED <<external, extRows>>
       ELSE /\ external' = ExternalCached(m)
            /\ extRows' = [extRows EXCEPT ![m] = @ + 1]
    /\ poll' = [poll EXCEPT !.pc = "evaluating", !.batch = @ \ {m}, !.market = m]
    /\ UNCHANGED <<world, markets, runners, tracked, disc, decided, mishaps>>

\* The runners are loaded and cached, and then an insert fails.
BuildFeaturesRaises(m) ==
    /\ poll.pc = "next"
    /\ m \in poll.batch
    /\ m \notin external
    /\ mishaps < MaxMishaps
    /\ mishaps' = mishaps + 1
    /\ known' = [known EXCEPT !["features"][m] = Loaded("features", m)]
    /\ poll' = AfterRaise
    /\ UNCHANGED <<world, markets, runners, tracked, disc, external, extRows, decided>>

\* DecisionEngine.evaluate: without runners there is no decision.
Evaluate ==
    /\ poll.pc = "evaluating"
    /\ LET m == poll.market
       IN  /\ known' = [known EXCEPT !["decision"][m] = Loaded("decision", m)]
           /\ decided' = IF Loaded("decision", m) = {} THEN decided
                                                       ELSE decided \cup {m}
    /\ poll' = [poll EXCEPT !.pc = "next", !.market = NoMarket]
    /\ UNCHANGED <<world, markets, runners, tracked, disc, external, extRows, mishaps>>

FinishPoll ==
    /\ poll.pc = "next"
    /\ poll.batch = {}
    /\ poll' = NoPoll
    /\ UNCHANGED <<world, markets, runners, tracked, disc, caches, mishaps>>

PollRaises ==
    /\ poll.pc # "idle"
    /\ mishaps < MaxMishaps
    /\ mishaps' = mishaps + 1
    /\ poll' = AfterRaise
    /\ UNCHANGED <<world, markets, runners, tracked, disc, caches>>

-------------------------------------------------------------------------------
(* The clock, the exchange and the process *)

Tick ==
    /\ now < Horizon
    /\ now' = now + 1
    /\ UNCHANGED <<kickOff, markets, runners, tracked, disc, poll, caches, restarts, mishaps,
                   moves>>

\* A match is put off, or brought forward.
Reschedule(m) ==
    /\ moves < MaxMoves
    /\ moves' = moves + 1
    /\ \E t \in (now .. LastKickOff) \ {kickOff[m]} : kickOff' = [kickOff EXCEPT ![m] = t]
    /\ UNCHANGED <<now, markets, runners, tracked, disc, poll, caches, restarts, mishaps>>

\* The tables stay; tracked markets, caches and calls in flight are gone.
Restart ==
    /\ restarts < MaxRestarts
    /\ restarts' = restarts + 1
    /\ tracked' = [m \in Market |-> None]
    /\ disc' = NoDiscovery /\ poll' = NoPoll
    /\ known' = [c \in Component |-> [m \in Market |-> {}]]
    /\ external' = {}
    /\ UNCHANGED <<now, kickOff, markets, runners, extRows, decided, mishaps, moves>>

DiscoveryStep ==
    \/ ListCatalogue \/ FinishDiscovery \/ DiscoveryRaises
    \/ \E m \in Market : SkipTracked(m) \/ InsertMarket(m)
    \/ \E r \in Runner : InsertRunner(r)

PollStep ==
    \/ StartPoll \/ ListBooks \/ Evaluate \/ FinishPoll \/ PollRaises
    \/ \E m \in Market : BuildFeatures(m) \/ BuildFeaturesRaises(m)

Next ==
    \/ DiscoveryStep \/ PollStep
    \/ Tick \/ (\E m \in Market : Reschedule(m)) \/ Restart

Spec == Init /\ [][Next]_vars

\* Both loops outlive their exceptions; clock and exchange are free.
FairSpec == Spec /\ WF_vars(DiscoveryStep) /\ WF_vars(PollStep)

-------------------------------------------------------------------------------
(* Properties *)

\* A tracked market and all of its runners are stored, although they are stored
\* row by row, any statement may fail and the poll task looks on.
TrackedIsStored ==
    \A m \in Market : tracked[m] # None => m \in markets /\ runners[m] = Runner

\* No component ever caches part of a market's runners: a cache is never
\* refreshed, so what a poll sees too early it would see for ever.
CachesAreComplete ==
    \A c \in Component, m \in Market : known[c][m] \in {{}, Runner}

\* "Persists it once": a process inserts the external features of a market once,
\* however often it is polled, expires and is discovered again.
ExternalOncePerProcess == \A m \in Market : extRows[m] <= 1 + restarts

\* A match in the trading window is decided on, also when its kick-off was put
\* off while the collector kept the old one: the old time expires, and the match
\* is discovered again.  Not so a match brought forward while it is tracked: the
\* later time is kept until it expires, which may be after the kick-off.
KeptTooLate(m) == tracked[m] # None /\ tracked[m] > kickOff[m]
InWindowIsDecided ==
    \A m \in Market : InWindow(kickOff[m] - now)
                      ~> m \in decided \/ ~InWindow(kickOff[m] - now) \/ KeptTooLate(m)
===============================================================================
