SPECIFICATION DeskSpec
CONSTANTS
    c1 = c1
    c2 = c2
    d1 = d1
    Texts = {t1, t2}
    Fleeting = {t2}
    NoText = NoText
    Filters = {f1, f2}
    NoFilter = NoFilter
    MaxSearches = 2
    MaxRequests = 4
    PageThreads = 1
    Watched = {c1, c2}
    Rekeyed = {c1}
    Jobs = {j1}
    MaxEdits = 3
    MaxCrashes = 1
    KeyNames = {"fmp", "opencorporates"}
    RawLimits = {0, 1, 2, 3, 4}
    LeastLimit = 1
    MostLimit = 3
    UsualLimit = 2
    MaxSaves = 3
    Contents = {d1}
    Mentions <- MCMentions
    MonitorThreads = {m1, m2}
    Sources = {s1}
    MaxUserSteps = 3
    MaxIngestions = 2
    Replied <- MCReplied
    MaxProviderCalls = 2
    Pages <- MCPages
    NoPage = "no page"
    HostOf <- MCHostOf
    Within <- MCWithin
    Barred = {"x.com"}
    Official = "firm.com"
    Seeds <- MCSeeds
    Disallowed = {"investors"}
    OutOfBounds = {"elsewhere"}
    Reports = {"report"}
    AddressSays <- MCAddressSays
    Priority <- MCPriority
    Documents <- MCDocuments
    MaxCrawlPages = 3
    MaxDepth = 1
    MaxQueued = 4
    MaxLinks = 2
    MaxRedirects = 2
    MaxSize = 1
    Tests = {x1}
    Firms = {"f", "g"}
    FirmName <- MCFirmName
    FirmTicker <- MCFirmTicker
    NoTicker = "none"
    NickNames = {"ALPH"}
    ShortNames = {"ALPH", "Alpha", "none"}
    News <- MCNews
    MaxAliasEdits = 3
    Claims = {"a", "b", "c"}
    Says <- MCSays
    Strong = {"a", "b"}
    Provided = {"z"}
    NoValue = "none"
    Crawlers = {1, 2}
    MaxLoads = 2
    MaxVisits = 2
INVARIANTS
    ListIsWanted
    SettingsStay
    ChoiceIsSound
    DeletedIsRecoverable
    IngestionIsAccounted
    OutageIsToldApart
    KeptPagesBelong
    NoProcessIsLeft
    AlertsAreEarned
    DecisionsShow
PROPERTIES
    PromiseKept
    ScreenBelongs
    SearchSettles
CHECK_DEADLOCK FALSE
