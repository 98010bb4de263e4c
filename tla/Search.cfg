SPECIFICATION Spec
CONSTANTS
    Searches = {s1, s2}
    SearchKeys = {k1, k2}
    NoKey = NoKey
    Providers = {"china_hk", "universe", "nasdaq", "akshare", "wikidata"}
    Knows <- MCKnows
    LocalOf <- MCLocalOf
    Directory = "nasdaq"
    MemoryLimit = 1
    Threshold = 2
    Remote <- MCRemote
    Unconfigured = {}
    PoolWorkers = 1
    Companies = {"a", "b", "d"}
    Facts <- MCFacts
    Spelling <- MCSpelling
    KnownTo <- MCKnownTo
    Queries <- MCQueries
    LocalAsked <- MCLocalAsked
    OnlineAsked = {"fmp", "gleif", "opencorporates"}
    Cut = 4
    Securities = {"sh6", "sh9", "sz0", "bj4", "hk7", "hk1"}
    Listing <- MCListing
    InUniverse = {"sh6", "sz0", "hk7"}
    CoreSymbols = {"sh6", "hk7"}
    LeastRecords = 2
    MaxBuilds = 2
    MaxBreaks = 1
    c1 = c1
    c2 = c2
    Details = {c1, c2}
    NoDetail = NoDetail
    WithSymbol = {c1}
    InChina = {c1}
    LocalSource <- MCLocalSource
    DetailKeys = {"fmp"}
    MaxDetails = 4
    Failing = {"gleif"}
    MaxChanges = 1
    DetailThreads = 2
SYMMETRY Symmetry
INVARIANTS
    MemoryIsAccounted
    DiskIsAccounted
    CardsAreCompanies
    PageShowsEveryCard
    IndexSaysWhatItLacks
    SpellingsFind
    DetailsBelong
    MergeFollowsPriority
PROPERTIES
    HealthIsEarned
CHECK_DEADLOCK FALSE
