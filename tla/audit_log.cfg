\* Two writers, short appends, stops, and a file that may be damaged in every way.
CONSTANTS
    Writers = {w1, w2}
    MaxRecords = 4
SPECIFICATION Spec
CHECK_DEADLOCK FALSE
INVARIANTS VerifiedHistory ForkedIffOverlapped
PROPERTY ForksStay
