\* Two connections, each with a signal of its own.
CONSTANTS
    Names = {n1, n2}
    Conns = {c1, c2}
    Callers <- OwnedNames
    RegisterAs = {"DISCOVERED"}
    Metrics = {"mean_ic"}
    MaxTrail = 3
SPECIFICATION Spec
INVARIANT TrailInOrder
PROPERTIES LifecycleSpec MetricsKept
