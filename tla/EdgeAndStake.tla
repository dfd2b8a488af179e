----------------------------- MODULE EdgeAndStake -----------------------------
(***************************************************************************)
(* The arithmetic of a decision, from the quotes of a market to a stake.   *)
(*                                                                         *)
(* DecisionEngine.evaluate turns the back prices of the three outcomes     *)
(* into probabilities, compares them with those of the provider, takes the *)
(* outcome with the largest net edge and applies its gates;                *)
(* ExecutionEngine.on_decision_allow sizes the bet of an ALLOW decision.   *)
(*                                                                         *)
(* The code's floats are exact fractions here: prices and parameters are   *)
(* numerators over a denominator of their own, stakes are in pence.  The   *)
(* gates that look at nothing computed here are one answer of the data.    *)
(***************************************************************************)
EXTENDS Integers

CONSTANTS
    PricePer,          \* denominator of the prices
    Prices,            \* back prices an outcome may be quoted at
    Answers,           \* answers of predict_proba: numerators and their denominator
    Per,               \* denominator of the parameters below
    Commission,        \* commission_rate
    Threshold,         \* edge_threshold
    KellyMultiplier,   \* kelly_multiplier
    MaxStakeFraction,  \* max_stake_fraction
    MinStake,          \* min_stake, in pence
    Bankroll,          \* bankroll, in whole pence
    MaxPositions       \* max_positions_per_event

Runner == 1 .. 3       \* home, draw, away: in the order of sort_priority
NoPrice == 0

\* Probabilities of the outcomes, as numerators over one denominator.
Probs == [of : [Runner -> Nat], per : Nat \ {0}]

ASSUME ConstantsAssumption ==
    /\ PricePer \in Nat \ {0} /\ Prices \subseteq Nat \ {0}
    /\ Answers \subseteq Probs
    /\ Per \in Nat \ {0}
    /\ Commission \in 0 .. Per
    /\ Threshold \in Nat \ {0}
    /\ KellyMultiplier \in Nat /\ MaxStakeFraction \in Nat
    /\ MinStake \in Nat \ {0}
    /\ Bankroll \in Nat
    /\ MaxPositions \in Nat

VARIABLES
    pc,        \* where the market's callback is
    quotes,    \* the back prices of its snapshot
    probs,     \* what the provider answered
    own,       \* history: whether the answer is the model's own
    allows,    \* ALLOW rows of the event
    chosen,    \* the selected runner of the decision in hand
    order,     \* history: the stake of the last order sent for it, or none
    staked     \* history: the stakes of all orders of the event

vars == <<pc, quotes, probs, own, allows, chosen, order, staked>>

NoOrder == -1           \* None; a stake of nothing is still an order

-------------------------------------------------------------------------------
(* services/edge.py *)

Scale(q, r) == IF q[r] = NoPrice THEN 1 ELSE q[r]

\* 1 / odds of an outcome, times the product of all scales: 0 without a price.
Raw(q, r) ==
    IF q[r] = NoPrice THEN 0
    ELSE CASE r = 1 -> Scale(q, 2) * Scale(q, 3)
           [] r = 2 -> Scale(q, 1) * Scale(q, 3)
           [] r = 3 -> Scale(q, 1) * Scale(q, 2)

RawTotal(q) == Raw(q, 1) + Raw(q, 2) + Raw(q, 3)

\* compute_market_probs: normalised to one, or 0 for each if nothing is quoted.
MarketProbs(q) ==
    [of |-> [r \in Runner |-> Raw(q, r)],
     per |-> IF RawTotal(q) = 0 THEN 1 ELSE RawTotal(q)]

\* compute_net_edge, times all three denominators.
EdgeNet(p, q, r) ==
    LET market == MarketProbs(q)
    IN p.of[r] * (Per - Commission) * market.per - Per * market.of[r] * p.per

\* The first runner whose net edge is the largest.
Selected(p, q) ==
    CHOOSE r \in Runner : \A k \in Runner :
        \/ EdgeNet(p, q, k) < EdgeNet(p, q, r)
        \/ EdgeNet(p, q, k) = EdgeNet(p, q, r) /\ r <= k

-------------------------------------------------------------------------------
(* services/gates.py *)

EdgeGate(p, q, r) == EdgeNet(p, q, r) >= Threshold * p.per * MarketProbs(q).per

MissingIsDeep(q, r) == TRUE                                            \* mutant
\* check_liquidity and check_spread: an outcome without a price has no size.
HasSize(q, r) == q[r] # NoPrice

OffByOne == allows <= MaxPositions                                     \* mutant
PositionGate == allows < MaxPositions

-------------------------------------------------------------------------------
(* services/sizer.py *)

\* raw_stake is Kelly / KellyOver, in the unit 1/Per of a penny, as are cap and
\* minimum: none of the three need be a whole number of pence.
GrossKelly(p, q, r) == Bankroll * KellyMultiplier * p.of[r] * q[r]     \* mutant
Kelly(p, q, r) == Bankroll * KellyMultiplier * (p.of[r] * q[r] - PricePer * p.per)
KellyOver(p, q, r) == p.per * (q[r] - PricePer)

Cap == Bankroll * MaxStakeFraction

\* min(raw_stake, cap) for the raw stake n / d.
Uncapped(n, d) == [num |-> n, den |-> d]                               \* mutant
Capped(n, d) == IF n > Cap * d THEN [num |-> Cap, den |-> 1] ELSE [num |-> n, den |-> d]

\* round(x, 2): the nearest penny.  Half-way between two it may be either, since
\* the float is a little above or below.
Nearest(x) ==
    LET penny == x.den * Per
        down == x.num \div penny
    IN {s \in {down, down + 1} : /\ 2 * (s * penny) <= 2 * x.num + penny
                                /\ 2 * x.num <= 2 * (s * penny) + penny}

\* compute_stake; odds of one or less, a negative Kelly fraction and a stake
\* below the minimum are no stake.  The comparisons come before the rounding.
Stakes(p, q, r) ==
    LET n == Kelly(p, q, r)
        d == KellyOver(p, q, r)
    IN IF q[r] > PricePer /\ n >= MinStake * d /\ Cap >= MinStake
       THEN Nearest(Capped(n, d))
       ELSE {NoOrder}

-------------------------------------------------------------------------------
(* The callback of one market, in one poll cycle after another *)

Nil == [of |-> [r \in Runner |-> 0], per |-> 1]

TypeOK ==
    /\ pc \in {"idle", "books", "answered", "sizing"}
    /\ quotes \in [Runner -> Prices \cup {NoPrice}]
    /\ probs \in Probs
    /\ own \in BOOLEAN
    /\ allows \in 0 .. MaxPositions
    /\ chosen \in Runner
    /\ order \in Nat \cup {NoOrder}
    /\ staked \in Nat

Init ==
    /\ pc = "idle"
    /\ quotes = [r \in Runner |-> NoPrice]
    /\ probs = Nil /\ own = FALSE
    /\ allows = 0 /\ chosen = 1
    /\ order = NoOrder /\ staked = 0

Books ==
    /\ pc = "idle"
    /\ pc' = "books"
    /\ quotes' \in [Runner -> Prices \cup {NoPrice}]
    /\ order' = NoOrder
    /\ UNCHANGED <<probs, own, allows, chosen, staked>>

\* MarketImpliedProvider, the fallback without a model or an A2 vector.
NotNormalised(q) ==                                                    \* mutant
    [of |-> [r \in Runner |-> 10 * Raw(q, r)], per |-> Scale(q, 1) * Scale(q, 2) * Scale(q, 3)]
Fallback(q) == MarketProbs(q)

Infer ==
    /\ pc = "books"
    /\ pc' = "answered"
    /\ \/ /\ own' = TRUE
          /\ probs' \in Answers
       \/ /\ own' = FALSE
          /\ probs' = Fallback(quotes)
    /\ UNCHANGED <<quotes, allows, chosen, order, staked>>

Passes(r) == EdgeGate(probs, quotes, r) /\ HasSize(quotes, r) /\ PositionGate

Allow ==
    /\ pc = "answered"
    /\ chosen' = Selected(probs, quotes)
    /\ Passes(chosen')
    /\ allows' = allows + 1
    /\ pc' = "sizing"
    /\ UNCHANGED <<quotes, probs, own, order, staked>>

\* A gate blocks: one of those above, or one that looks at other data.
Block ==
    /\ pc = "answered"
    /\ chosen' = Selected(probs, quotes)
    /\ pc' = "idle"
    /\ UNCHANGED <<quotes, probs, own, allows, order, staked>>

\* on_decision_allow: the newest quote of the table is that of the decision.
Size ==
    /\ pc = "sizing"
    /\ order' \in Stakes(probs, quotes, chosen)
    /\ staked' = staked + (IF order' = NoOrder THEN 0 ELSE order')
    /\ pc' = "idle"
    /\ UNCHANGED <<quotes, probs, own, allows, chosen>>

\* An exception at any await.
Raise ==
    /\ pc # "idle"
    /\ pc' = "idle"
    /\ UNCHANGED <<quotes, probs, own, allows, chosen, order, staked>>

Next == Books \/ Infer \/ Allow \/ Block \/ Size \/ Raise

Spec == Init /\ [][Next]_vars

-------------------------------------------------------------------------------
(* Properties *)

\* Without a model no decision is ALLOW: the market's own probabilities have no
\* edge over themselves, whatever is quoted, unquoted or over-round.
FallbackNeverAllows == pc = "sizing" => own

\* The outcome of an ALLOW decision is quoted, though an outcome without a price
\* has the market probability 0, so the largest edge, and is what gets selected.
AllowedIsQuoted == pc = "sizing" => quotes[chosen] # NoPrice

\* A stake sent keeps minimum and cap up to the rounding, by half a penny at
\* most, and is on an outcome the model gives more than its price asks for.
StakeInBounds ==
    order # NoOrder =>
        /\ 2 * MinStake - Per <= 2 * (Per * order) /\ 2 * (Per * order) <= 2 * Cap + Per
        /\ probs.of[chosen] * quotes[chosen] > PricePer * probs.per

\* All the orders of an event together stake no more than the cap per position,
\* give or take the rounding of each.
ExposureBounded == 2 * (Per * staked) <= MaxPositions * (2 * Cap + Per)

-------------------------------------------------------------------------------
(* What the documents claim and some step of the code refutes *)

\* Risk controls: "Hard cap: max 2% bankroll per market".  No stake is above the
\* fraction of the bankroll; the cap is rounded after the comparison with it.
HardCap == order # NoOrder => Per * order <= Cap
===============================================================================
