SPECIFICATION Spec
CONSTANTS
    a1 = a1
    a2 = a2
    b1 = b1
    Companies = {a1}
    IdOf <- OneObject
    NoCompany = NoCompany
    MaxCrawls = 2
    Threads = 2
INVARIANTS
    ShutdownReachesCrawls
CHECK_DEADLOCK FALSE
