------------------------- MODULE EdgeAndStake_proofs -------------------------
(***************************************************************************)
(* Theorems about EdgeAndStake for every set of prices and answers, every  *)
(* commission, threshold, Kelly multiplier, stake fraction and minimum that *)
(* are fractions, and every bankroll of whole pence.                       *)
(***************************************************************************)
EXTENDS EdgeAndStake, TLAPS

Quotes == [Runner -> Prices \cup {NoPrice}]

-------------------------------------------------------------------------------
(* Arithmetic *)

\* What a quotient by a positive number is.
LEMMA Quotient ==
    ASSUME NEW a \in Nat, NEW d \in Nat \ {0}
    PROVE  a \div d \in Nat /\ d * (a \div d) <= a /\ a < d * (a \div d) + d
  OBVIOUS

LEMMA Monotone ==
    ASSUME NEW d \in Nat \ {0}, NEW x \in Int, NEW y \in Int, d * x < d * y
    PROVE  x < y
  OBVIOUS

LEMMA ProductIsNat == \A a, b \in Nat : a * b \in Nat
  OBVIOUS

LEMMA SumIsNat == \A a, b \in Nat : a + b \in Nat
  OBVIOUS

LEMMA ProductIsPositive == \A a, b \in Nat \ {0} : a * b \in Nat \ {0}
  OBVIOUS

\* A penny amount nearest to a fraction between two bounds is, up to half a penny,
\* between them too.
LEMMA NearestInBounds ==
    ASSUME NEW n \in Nat, NEW d \in Nat \ {0}, NEW lo \in Nat, NEW hi \in Nat,
           lo * d <= n, n <= hi * d,
           NEW s \in Nearest([num |-> n, den |-> d])
    PROVE  /\ s \in Nat
           /\ 2 * lo - Per <= 2 * (Per * s) /\ 2 * (Per * s) <= 2 * hi + Per
  <1> DEFINE penny == d * Per
             x == Per * s
  <1>1. penny \in Nat \ {0} /\ Per \in Nat \ {0}
    BY ProductIsPositive, ConstantsAssumption
  <1>2. n \div penny \in Nat
    BY <1>1, Quotient
  <1>3. s \in Nat
    BY <1>2 DEF Nearest
  <1>4. 2 * (s * penny) <= 2 * n + penny /\ 2 * n <= 2 * (s * penny) + penny
    BY DEF Nearest
  <1>5. x \in Nat
    BY <1>1, <1>3, ProductIsNat
  <1>6. s * penny = d * x /\ penny = d * Per
    BY <1>1, <1>3
  <1> HIDE DEF penny, x
  <1>7. d * x \in Nat /\ d * Per \in Nat /\ lo * d \in Nat /\ hi * d \in Nat
    BY <1>1, <1>5, ProductIsNat
  <1>8. /\ d * (2 * x) = 2 * (d * x)
        /\ d * (2 * hi + Per + 1) = 2 * (hi * d) + d * Per + d
        /\ d * (2 * x + Per + 1) = 2 * (d * x) + d * Per + d
        /\ d * (2 * lo) = 2 * (lo * d)
    BY <1>1, <1>5
  <1>9. d * (2 * x) < d * (2 * hi + Per + 1) /\ d * (2 * lo) < d * (2 * x + Per + 1)
    BY <1>4, <1>6, <1>7, <1>8
  <1>10. 2 * x < 2 * hi + Per + 1
    BY <1>1, <1>5, <1>9, Monotone
  <1>11. 2 * lo < 2 * x + Per + 1
    BY <1>1, <1>5, <1>9, Monotone
  <1> QED BY <1>1, <1>3, <1>5, <1>10, <1>11 DEF x

-------------------------------------------------------------------------------
(* services/edge.py *)

LEMMA QuoteIsNat == \A q \in Quotes, r \in Runner : q[r] \in Nat
  <1>1. Prices \cup {NoPrice} \subseteq Nat
    BY ConstantsAssumption DEF NoPrice
  <1> QED BY <1>1 DEF Quotes

LEMMA RawIsNat ==
    ASSUME NEW q \in Quotes
    PROVE  /\ \A r \in Runner : Raw(q, r) \in Nat
           /\ RawTotal(q) \in Nat
  <1>1. \A r \in Runner : Scale(q, r) \in Nat \ {0}
    BY QuoteIsNat DEF Scale, NoPrice
  <1>2. \A r \in Runner : Raw(q, r) \in Nat
    <2> SUFFICES ASSUME NEW r \in Runner PROVE Raw(q, r) \in Nat
      OBVIOUS
    <2>1. /\ Scale(q, 2) * Scale(q, 3) \in Nat /\ Scale(q, 1) * Scale(q, 3) \in Nat
          /\ Scale(q, 1) * Scale(q, 2) \in Nat
      BY <1>1, ProductIsNat DEF Runner
    <2> QED BY <2>1 DEF Raw, Runner
  <1> QED BY <1>2 DEF RawTotal, Runner

LEMMA MarketProbsType ==
    ASSUME NEW q \in Quotes
    PROVE  MarketProbs(q) \in Probs
  BY RawIsNat DEF MarketProbs, Probs

LEMMA EdgeNetIsInt ==
    ASSUME NEW p \in Probs, NEW q \in Quotes, NEW r \in Runner
    PROVE  EdgeNet(p, q, r) \in Int
  <1>1. \A a, b \in Int : a * b \in Int
    OBVIOUS
  <1>2. /\ p.of[r] \in Int /\ p.per \in Int /\ Per - Commission \in Int /\ Per \in Int
        /\ MarketProbs(q).of[r] \in Int /\ MarketProbs(q).per \in Int
    BY MarketProbsType, ConstantsAssumption DEF Probs
  <1>3. /\ p.of[r] * (Per - Commission) * MarketProbs(q).per \in Int
        /\ Per * MarketProbs(q).of[r] * p.per \in Int
    BY <1>1, <1>2
  <1> QED BY <1>3 DEF EdgeNet

\* There is a first runner with the largest edge.
LEMMA SelectedIsRunner ==
    ASSUME NEW p \in Probs, NEW q \in Quotes
    PROVE  Selected(p, q) \in Runner
  <1> DEFINE First(r) == \A k \in Runner : \/ EdgeNet(p, q, k) < EdgeNet(p, q, r)
                                           \/ EdgeNet(p, q, k) = EdgeNet(p, q, r) /\ r <= k
  <1>1. EdgeNet(p, q, 1) \in Int /\ EdgeNet(p, q, 2) \in Int /\ EdgeNet(p, q, 3) \in Int
    BY EdgeNetIsInt DEF Runner
  <1>2. \E r \in Runner : First(r)
    <2>1. Runner = {1, 2, 3}
      BY DEF Runner
    <2>2. First(1) \/ First(2) \/ First(3)
      BY <1>1, <2>1
    <2> QED BY <2>1, <2>2
  <1> QED BY <1>2 DEF Selected

\* The market's own probabilities pass the threshold for no outcome.
LEMMA NoEdgeOverItself ==
    ASSUME NEW q \in Quotes, NEW r \in Runner
    PROVE  ~EdgeGate(MarketProbs(q), q, r)
  <1> DEFINE w == MarketProbs(q).of[r]
             s == MarketProbs(q).per
             c == Commission
  <1>1. w \in Nat /\ s \in Nat \ {0}
    BY MarketProbsType DEF Probs
  <1>2. EdgeNet(MarketProbs(q), q, r) = w * (Per - c) * s - Per * w * s
    BY DEF EdgeNet
  <1>3. c \in Nat /\ Per \in Nat /\ Threshold \in Nat \ {0}
    BY ConstantsAssumption
  <1> HIDE DEF w, s, c
  <1>4. w * (Per - c) * s - Per * w * s = 0 - (w * c) * s
    BY <1>1, <1>3
  <1>5. (w * c) * s \in Nat
    BY <1>1, <1>3, ProductIsNat
  <1>6. Threshold * s * s \in Nat \ {0}
    <2>1. \A a, b \in Nat \ {0} : a * b \in Nat \ {0}
      OBVIOUS
    <2> QED BY <1>1, <1>3, <2>1
  <1>7. EdgeNet(MarketProbs(q), q, r) < Threshold * s * s
    <2> HIDE DEF s
    <2>1. \A x, y \in Nat : y # 0 => 0 - x < y
      OBVIOUS
    <2> QED BY <1>2, <1>4, <1>5, <1>6, <2>1
  <1>8. EdgeNet(MarketProbs(q), q, r) \in Int
    BY MarketProbsType, EdgeNetIsInt
  <1>9. EdgeGate(MarketProbs(q), q, r) => EdgeNet(MarketProbs(q), q, r) >= Threshold * s * s
    BY DEF EdgeGate, s
  <1> QED BY <1>6, <1>7, <1>8, <1>9

-------------------------------------------------------------------------------
(* services/sizer.py *)

\* A stake keeps its bounds up to the rounding, on a price the model finds too long.
Bounded(s) == 2 * MinStake - Per <= 2 * (Per * s) /\ 2 * (Per * s) <= 2 * Cap + Per

LEMMA CapIsNat == Cap \in Nat
  BY ProductIsNat, ConstantsAssumption DEF Cap

LEMMA StakeIsBounded ==
    ASSUME NEW p \in Probs, NEW q \in Quotes, NEW r \in Runner,
           NEW s \in Stakes(p, q, r), s # NoOrder
    PROVE  s \in Nat /\ Bounded(s) /\ p.of[r] * q[r] > PricePer * p.per
  <1> DEFINE n == Kelly(p, q, r)
             d == KellyOver(p, q, r)
             gain == p.of[r] * q[r] - PricePer * p.per
             bank == Bankroll * KellyMultiplier
  <1>1. q[r] > PricePer /\ n >= MinStake * d /\ Cap >= MinStake /\ s \in Nearest(Capped(n, d))
    BY DEF Stakes
  <1>2. q[r] \in Nat /\ p.of[r] \in Nat /\ p.per \in Nat \ {0} /\ PricePer \in Nat \ {0}
    BY QuoteIsNat, ConstantsAssumption DEF Probs
  <1>3. d \in Nat \ {0}
    <2>1. q[r] - PricePer \in Nat \ {0}
      BY <1>1, <1>2
    <2> QED BY <1>2, <2>1, ProductIsPositive DEF KellyOver
  <1>4. gain \in Int /\ bank \in Nat /\ Cap \in Nat /\ MinStake \in Nat \ {0}
    <2>1. p.of[r] * q[r] \in Int /\ PricePer * p.per \in Int
      BY <1>2, ProductIsNat
    <2> QED BY <2>1, CapIsNat, ProductIsNat, ConstantsAssumption
  <1>5. n = bank * gain
    BY DEF Kelly
  <1> HIDE DEF d, gain, bank
  <1>6. MinStake * d \in Nat \ {0}
    BY <1>3, <1>4, ProductIsPositive
  <1>7. bank * gain \in Int
    BY <1>4
  <1>8. n \in Nat \ {0}
    BY <1>1, <1>5, <1>6, <1>7
  <1>9. gain > 0
    <2> SUFFICES ASSUME gain <= 0 PROVE FALSE
      BY <1>4
    <2>1. bank * (0 - gain) \in Nat
      BY <1>4, ProductIsNat
    <2>2. bank * (0 - gain) = 0 - bank * gain
      BY <1>4
    <2> QED BY <1>5, <1>7, <1>8, <2>1, <2>2
  <1>10. p.of[r] * q[r] > PricePer * p.per
    <2>1. p.of[r] * q[r] \in Nat /\ PricePer * p.per \in Nat
      BY <1>2, ProductIsNat
    <2> QED BY <1>9, <2>1 DEF gain
  <1>11. s \in Nat /\ Bounded(s)
    <2> HIDE DEF n
    <2>1. CASE n > Cap * d
      <3>1. s \in Nearest([num |-> Cap, den |-> 1])
        BY <1>1, <2>1 DEF Capped
      <3>2. MinStake * 1 <= Cap /\ Cap <= Cap * 1
        BY <1>1, <1>4
      <3> QED BY <1>4, <3>1, <3>2, NearestInBounds DEF Bounded
    <2>2. CASE ~(n > Cap * d)
      <3>1. s \in Nearest([num |-> n, den |-> d])
        BY <1>1, <2>2 DEF Capped
      <3>2. n <= Cap * d
        BY <1>3, <1>4, <1>8, <2>2, ProductIsNat
      <3>3. MinStake * d <= n
        BY <1>1, <1>6, <1>8
      <3> QED BY <1>3, <1>4, <1>8, <3>1, <3>2, <3>3, NearestInBounds DEF Bounded
    <2> QED BY <2>1, <2>2
  <1> QED BY <1>10, <1>11

-------------------------------------------------------------------------------
(* The callback *)

\* An answer not the model's own is the market's; an ALLOW row without a stake
\* yet is counted before the stake is; a stake belongs to the books it was sized on.
RoundedCap == 2 * Cap + Per
Inv ==
    /\ TypeOK
    /\ pc = "answered" /\ ~own => probs = MarketProbs(quotes)
    /\ FallbackNeverAllows
    /\ AllowedIsQuoted
    /\ order # NoOrder => pc = "idle"
    /\ StakeInBounds
    /\ 2 * (Per * staked) <= allows * RoundedCap
    /\ pc = "sizing" => 2 * (Per * staked) + RoundedCap <= allows * RoundedCap

LEMMA RoundedCapIsNat == RoundedCap \in Nat
  BY CapIsNat, ConstantsAssumption DEF RoundedCap

LEMMA InitInv == Init => Inv
  <1> SUFFICES ASSUME Init PROVE Inv
    OBVIOUS
  <1>1. TypeOK
    <2>1. quotes \in [Runner -> Prices \cup {NoPrice}] /\ 1 \in Runner
      BY DEF Init, Runner
    <2>2. probs \in Probs
      BY DEF Init, Probs, Nil
    <2>3. /\ pc \in {"idle", "books", "answered", "sizing"} /\ own \in BOOLEAN
          /\ chosen \in Runner /\ order \in Nat \cup {NoOrder} /\ staked \in Nat
      BY <2>1 DEF Init
    <2>4. allows \in 0 .. MaxPositions
      BY ConstantsAssumption DEF Init
    <2> QED BY <2>1, <2>2, <2>3, <2>4 DEF TypeOK
  <1>2. 2 * (Per * 0) <= 0 * RoundedCap
    BY RoundedCapIsNat, ConstantsAssumption
  <1> QED BY <1>1, <1>2 DEF Init, Inv, FallbackNeverAllows, AllowedIsQuoted, StakeInBounds

LEMMA InvInductive == Inv /\ [Next]_vars => Inv'
  <1> SUFFICES ASSUME Inv, [Next]_vars PROVE Inv'
    OBVIOUS
  <1>0. /\ TypeOK /\ quotes \in Quotes /\ probs \in Probs /\ chosen \in Runner
        /\ allows * RoundedCap \in Nat /\ RoundedCap \in Nat /\ RoundedCap' = RoundedCap
    BY RoundedCapIsNat, ProductIsNat DEF Inv, TypeOK, Quotes, RoundedCap, Cap
  <1>1. CASE Books
    BY <1>1, <1>0 DEF Books, Inv, TypeOK, FallbackNeverAllows, AllowedIsQuoted, StakeInBounds
  <1>2. CASE Infer
    <2>1. probs' \in Probs
      BY <1>0, <1>2, ConstantsAssumption, MarketProbsType DEF Infer, Fallback
    <2> QED BY <1>2, <1>0, <2>1
            DEF Infer, Fallback, Inv, TypeOK, FallbackNeverAllows, AllowedIsQuoted, StakeInBounds
  <1>3. CASE Allow
    <2>1. chosen' \in Runner /\ own
      <3>1. chosen' \in Runner
        BY <1>0, <1>3, SelectedIsRunner DEF Allow
      <3>2. EdgeGate(probs, quotes, chosen') /\ pc = "answered"
        BY <1>3 DEF Allow, Passes
      <3> QED BY <1>0, <3>1, <3>2, NoEdgeOverItself DEF Inv
    <2>2. allows' \in 0 .. MaxPositions /\ allows' = allows + 1
      BY <1>0, <1>3, ConstantsAssumption DEF Allow, Passes, PositionGate, TypeOK
    <2>3. allows' * RoundedCap = allows * RoundedCap + RoundedCap
      BY <1>0, <2>2 DEF TypeOK
    <2>4. 2 * (Per * staked) \in Nat
      BY <1>0, ProductIsNat, ConstantsAssumption DEF TypeOK
    <2>5. /\ 2 * (Per * staked') <= allows' * RoundedCap
          /\ 2 * (Per * staked') + RoundedCap <= allows' * RoundedCap
      BY <1>0, <1>3, <2>3, <2>4 DEF Allow, Inv
    <2> QED BY <1>0, <1>3, <2>1, <2>2, <2>5
            DEF Allow, Passes, HasSize, Inv, TypeOK, FallbackNeverAllows, AllowedIsQuoted,
                StakeInBounds
  <1>4. CASE Block
    <2>1. chosen' \in Runner
      BY <1>0, <1>4, SelectedIsRunner DEF Block
    <2> QED BY <1>0, <1>4, <2>1
            DEF Block, Inv, TypeOK, FallbackNeverAllows, AllowedIsQuoted, StakeInBounds
  <1>5. CASE Size
    <2>1. order' \in Stakes(probs, quotes, chosen) /\ pc' = "idle" /\ pc = "sizing"
      BY <1>5 DEF Size
    <2>2. order' = NoOrder \/ (order' \in Nat /\ Bounded(order'))
      BY <1>0, <2>1, StakeIsBounded
    <2>3. staked' \in Nat /\ 2 * (Per * staked') <= allows * RoundedCap
      <3>1. /\ staked \in Nat /\ Per \in Nat /\ Per * staked \in Nat
            /\ 2 * (Per * staked) + RoundedCap <= allows * RoundedCap
        BY <1>0, <2>1, ProductIsNat, ConstantsAssumption DEF Inv, TypeOK
      <3>2. CASE order' = NoOrder
        BY <1>0, <1>5, <3>1, <3>2 DEF Size
      <3>3. CASE order' # NoOrder
        <4>1. order' \in Nat /\ 2 * (Per * order') <= RoundedCap
          BY <2>2, <3>3 DEF Bounded, RoundedCap
        <4>2. staked' = staked + order'
          BY <1>5, <3>3 DEF Size
        <4>3. staked' \in Nat
          <5>1. staked \in Nat /\ order' \in Nat
            BY <3>1, <4>1
          <5> QED BY <4>2, <5>1, SumIsNat
        <4>4. Per * order' \in Nat
          BY <3>1, <4>1, ProductIsNat
        <4>5. Per * staked' = Per * staked + Per * order'
          BY <3>1, <4>1, <4>2
        <4>6. ASSUME NEW x \in Nat, NEW y \in Nat, NEW c \in Nat, NEW b \in Nat,
                     2 * x + c <= b, 2 * y <= c
              PROVE  2 * (x + y) <= b
          BY <4>6
        <4>7. 2 * (Per * staked') <= allows * RoundedCap
          BY <1>0, <3>1, <4>1, <4>4, <4>5, <4>6
        <4> QED BY <4>3, <4>7
      <3> QED BY <3>2, <3>3
    <2>4. StakeInBounds'
      BY <1>0, <1>5, <2>1, StakeIsBounded DEF Size, StakeInBounds, Bounded, Cap
    <2> QED BY <1>0, <1>5, <2>1, <2>2, <2>3, <2>4
            DEF Size, Inv, TypeOK, FallbackNeverAllows, AllowedIsQuoted
  <1>6. CASE Raise
    BY <1>0, <1>6 DEF Raise, Inv, TypeOK, FallbackNeverAllows, AllowedIsQuoted, StakeInBounds
  <1>7. CASE UNCHANGED vars
    BY <1>0, <1>7 DEF vars, Inv, TypeOK, FallbackNeverAllows, AllowedIsQuoted, StakeInBounds
  <1> QED BY <1>1, <1>2, <1>3, <1>4, <1>5, <1>6, <1>7 DEF Next

LEMMA InvAlways == Spec => []Inv
  BY InitInv, InvInductive, PTL DEF Spec

\* Types, and no more ALLOW rows of an event than positions.
THEOREM PricingTypeCorrect == Spec => []TypeOK
  BY InvAlways, PTL DEF Inv

\* Without a model nothing is traded: for every set of quotes the fallback's edge
\* is minus the commission on its own probability, so below a positive threshold.
THEOREM FallbackNeverAllowsHolds == Spec => []FallbackNeverAllows
  BY InvAlways, PTL DEF Inv

\* The liquidity gate catches the selection of an outcome without a price.
THEOREM AllowedIsQuotedHolds == Spec => []AllowedIsQuoted
  BY InvAlways, PTL DEF Inv

\* Every stake keeps minimum and cap up to half a penny, whatever fractions they
\* are, on odds worth taking before the commission.
THEOREM StakeInBoundsHolds == Spec => []StakeInBounds
  BY InvAlways, PTL DEF Inv

\* A cap of whole pence, as the configured 2% of 1000.00, is a hard one: rounding
\* exceeds the cap only by parts of a penny, and a whole penny has none.
THEOREM WholeCapIsHard ==
    ASSUME NEW pence \in Nat, Cap = Per * pence
    PROVE  Spec => []HardCap
  <1>1. Inv => HardCap
    <2> SUFFICES ASSUME Inv, order # NoOrder PROVE Per * order <= Cap
      BY DEF HardCap
    <2>1. order \in Nat /\ Per \in Nat \ {0} /\ 2 * (Per * order) <= 2 * Cap + Per
      BY ConstantsAssumption DEF Inv, TypeOK, StakeInBounds
    <2>2. Per * order \in Nat /\ Per * pence \in Nat
      BY <2>1, ProductIsNat
    <2>3. Per * order < Per * (pence + 1)
      <3>1. Per * (pence + 1) = Per * pence + Per
        BY <2>1
      <3> QED BY <2>1, <2>2, <3>1
    <2>4. order < pence + 1
      BY <2>1, <2>3, Monotone
    <2>5. Per * (pence - order) \in Nat
      BY <2>1, <2>4, ProductIsNat
    <2>6. Per * (pence - order) = Per * pence - Per * order
      BY <2>1
    <2> QED BY <2>2, <2>5, <2>6
  <1> QED BY <1>1, InvAlways, PTL

\* What an event can cost is bounded by its positions times the cap, with half a
\* penny for the rounding of each.
THEOREM ExposureBoundedHolds == Spec => []ExposureBounded
  <1>1. Inv => ExposureBounded
    <2> SUFFICES ASSUME Inv PROVE ExposureBounded
      OBVIOUS
    <2>1. /\ 2 * (Per * staked) <= allows * RoundedCap /\ RoundedCap \in Nat
          /\ allows \in Nat /\ MaxPositions - allows \in Nat
      BY RoundedCapIsNat, ConstantsAssumption DEF Inv, TypeOK
    <2>2. (MaxPositions - allows) * RoundedCap \in Nat /\ allows * RoundedCap \in Nat
      BY <2>1, ProductIsNat
    <2>3. MaxPositions * RoundedCap = allows * RoundedCap + (MaxPositions - allows) * RoundedCap
      BY <2>1, ConstantsAssumption
    <2>4. 2 * (Per * staked) \in Nat
      BY ProductIsNat, ConstantsAssumption DEF Inv, TypeOK
    <2> QED BY <2>1, <2>2, <2>3, <2>4 DEF ExposureBounded, RoundedCap
  <1> QED BY <1>1, InvAlways, PTL
===============================================================================
