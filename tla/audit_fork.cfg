\* Two writers.
CONSTANTS
    Writers = {w1, w2}
    MaxRecords = 3
SPECIFICATION Spec
CHECK_DEADLOCK FALSE
INVARIANT FalseOnlyIfTampered
