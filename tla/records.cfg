\* Every kind of records over a few days, a few records each.
CONSTANTS
    Kinds = {"edgar", "compustat", "ccm", "crsp", "ibes", "book", "signals", "validation", "month", "pipeline"}
    LastDay <- MCLastDay
    MaxRecords <- MCMaxRecords
    Fields = {"assets", "revenue"}
    Tags <- MCTags
    Instants = {"Assets"}
    Undated = Undated
    NoFigure = NoFigure
    NoDate = NoDate
    NoMatch = NoMatch
    CoverageEnd = 9
    NoPermno = NoPermno
    NoExchange = NoExchange
    NoReturn = NoReturn
    Ruin = Ruin
    Periods <- MCPeriods
    Companies = {g1, g2}
    Securities = {p1, p2}
    Analysts = {1, 2}
    Tickers = {x, y}
    MinObservations = 2
    Unannounced = Unannounced
    Sessions <- MCSessions
    Names = {"a", "b", "c", "d"}
    Units = {20, 100}
    MaxPosition = 1
    MaxGross = 3
    VolLookback = 2
    TailOneIn = 2
    NoBook = NoBook
    Signals <- MCSignals
    Labels <- MCLabels
    MinCrossSection = 3
    NoIc = NoIc
    MaxCorrelation = 3
    IcAcceptance = 0
    DecayIcMin = 0
    MinRegimesPositive = 3
    RegimeWindow = 2
    Ridge = 1
    Listings <- MCListings
    Years = {1990, 2024}
    BaseYear = 2024
    Cpi <- MCCpi
    Deciles = 4
    MinCap = 10
    MaxCap = 40
    MinPrice = 3
    NoCap = NoCap
    LegOneIn = 2
    MIN_LEG = 2
    TercileOneIn = 3
    TercileMin = 2
    Cost = 1
    NoSpread = NoSpread
    FirmYears <- MCFirmYears
    MIN_FIRM_YEARS = 2
SPECIFICATION Spec
INVARIANTS PastIsSettled CurrentFigures FlowsAddUp JoinedOnce DeathsAreBooked OneCompany
           ConsensusLeansRight BooksAreSound CombinationIsJustified PassIsEarned YearsAreFair
           CertificateIsEvidence
SYMMETRY Symmetry
CHECK_DEADLOCK FALSE
