SPECIFICATION Spec
CONSTANTS
    Companies = {c1}
    Urls = {u1, u2}
    Hashes = {h1, h2}
    Proposals = {p1}
    Workers = {w1, w2}
    Free = Free
    NoItem = NoItem
SYMMETRY Symmetry
INVARIANTS
    TypeOK
    OneRowPerPage
    SaveNeverTripsConstraint
    CandidatesHaveEvidence
PROPERTIES
    DecisionsStick
