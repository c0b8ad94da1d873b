\* Two writers of one path, reruns, failures and kills.
CONSTANTS
    Writers = {w1, w2}
    Contents = {a, b, c}
    Names = {t1, t2, t3, t4}
    MaxKills = 2
    NoFile = NoFile
    Partial = Partial
SPECIFICATION Spec
INVARIANTS NeverHalfWritten FailsOnlyUnsettled TemporariesAccounted
