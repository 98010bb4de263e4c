SPECIFICATION FairSpec
CONSTANTS
    a1 = a1
    a2 = a2
    b1 = b1
    Companies = {a1, a2, b1}
    IdOf <- ThreeObjects
    NoCompany = NoCompany
    MaxCrawls = 2
    Threads = 2
INVARIANTS
    TypeOK
    NoCrawlUnderOldEvent
    BlockedOnlyByCrawl
    LoadingMeansCrawling
PROPERTIES
    StartAllowedAgain
CHECK_DEADLOCK FALSE
