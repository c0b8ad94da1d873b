\* Two connections on one signal: a stale save brings a retired signal back.
CONSTANTS
    Names = {n1}
    Conns = {c1, c2}
    Callers <- SharedNames
    RegisterAs = {"DISCOVERED"}
    Metrics = {}
    MaxTrail = 2
SPECIFICATION Spec
PROPERTY RetiredIsTerminal
