\* Three pages at most; half a second of backoff and 0.2 s between calls, as in the code.
CONSTANTS
    MaxRetries = 3
    BackoffBase = 5
    MinInterval = 2
    PageSize = 2
    Ceiling = 4
    MaxServed = 3
    NoUrl = NoUrl
    NoMax = NoMax
SPECIFICATION FairSpec
INVARIANTS Polite OnlyAskedRows NothingSilentlyMissing
PROPERTY EveryFetchEnds
