SPECIFICATION FetchSpec
CONSTANTS
    Pages <- MCPages
    NoPage = "no page"
    HostOf <- MCHostOf
    Within <- MCWithin
    Barred = {"x.com"}
    Official = "firm.com"
    Seeds <- MCSeeds
    Disallowed = {"investors"}
    OutOfBounds = {"elsewhere"}
    Reports = {"report"}
    AddressSays <- MCAddressSays
    Priority <- MCPriority
    Documents <- MCDocuments
    MaxCrawlPages = 3
    MaxDepth = 1
    MaxQueued = 4
    MaxLinks = 2
    MaxRedirects = 2
    MaxSize = 1
INVARIANT RobotsAllowEveryTarget
CHECK_DEADLOCK FALSE
