\* Every combination of three prices or none for three outcomes, two positions.
\* The bankroll is 100.33 and the cap 2% of it: 2.0066, not a whole penny, as is
\* the minimum of 1.008.
SPECIFICATION Spec
CONSTANTS
    PricePer = 10
    Prices = {14, 25, 40}
    Answers <- MCAnswers
    Per = 100
    Commission = 5
    Threshold = 2
    KellyMultiplier = 25
    MaxStakeFraction = 2
    MinStake = 10080
    Bankroll = 10033
    MaxPositions = 2
INVARIANT TypeOK
INVARIANT FallbackNeverAllows
INVARIANT AllowedIsQuoted
INVARIANT StakeInBounds
INVARIANT ExposureBounded
