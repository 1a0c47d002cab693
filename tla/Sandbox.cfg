SPECIFICATION Spec
CONSTANTS
    s1 = s1
    s2 = s2
    Ups = {u1}
    Series <- MCSeries
    DefaultSeries = s1
    Distribution = s2
    NoDatabase = NoDatabase
    Unasked = Unasked
    None = None
    Requests <- MCRequests
    SeedsFiles = FALSE
    Overlap = FALSE
INVARIANTS
    SeriesMatches
PROPERTIES
    UpCostsNoApplication KeptContainerIsFinished FreshContainerIsRepointed
