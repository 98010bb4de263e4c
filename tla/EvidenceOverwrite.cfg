SPECIFICATION Spec
CONSTANTS
    Companies = {c1}
    Urls = {u1, u2}
    Hashes = {h1, h2}
    Proposals = {}
    Workers = {w1}
    Free = Free
    NoItem = NoItem
PROPERTIES
    OverwritesOnlyDuplicates
