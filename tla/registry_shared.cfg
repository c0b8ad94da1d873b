\* Two connections working on one signal.
CONSTANTS
    Names = {n1}
    Conns = {c1, c2}
    Callers <- SharedNames
    RegisterAs = {"DISCOVERED", "VALIDATED"}
    Metrics = {}
    MaxTrail = 2
SPECIFICATION FairSpec
INVARIANTS StampsMatchStatus LocksOnlyAfterRace
PROPERTY EveryCallReturns
