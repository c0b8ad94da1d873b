\* Two features, five operators, trees of up to three nodes, two generations of two.
CONSTANTS
    FEATURES = {"close", "ret"}
    UNARY_OPS = {"cs_rank"}
    BINARY_OPS = {"sub"}
    TS_OPS = {"delay", "delta", "ts_mean"}
    WINDOWS = {2}
    MaxSimilarity = 6
    MaxNodes = 3
    MaxParams = 1
    Deepest = 6
    Library <- MCLibrary
    MaxDepth = 2
    Observations <- MCBars
    Admitted <- MCAdmitted
    Draws <- Drawn
    MutantsOf <- Mutations
    CrossingsOf <- Grafts
    Seeds <- MCSeeds
    Invalid <- MCInvalid
    Fitnesses = {0, 1}
    PopulationSize = 2
    EliteCount = 1
    HallOfFame = 2
    MaxGenerations = 2
SPECIFICATION Spec
INVARIANTS HallIsBest ScoresAreCausal ReadsBack GraftsLand NothingKnown
PROPERTY BestIsKept
CHECK_DEADLOCK FALSE
