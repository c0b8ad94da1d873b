\* Half a second of backoff and the SEC's quarter of a second, in hundredths.
CONSTANTS
    Tickers <- MCTickers
    Cik <- MCCik
    MaxNames = 2
    MaxRetries = 3
    BackoffBase = 50
    PoliteInterval = 25
    NoListing = NoListing
SPECIFICATION Spec
INVARIANTS NamesAreAccounted CompaniesOnce
