\* Two items of one name; two requests in flight on the first.
SPECIFICATION Spec
CONSTANTS
    MaxItem = 2
    Racing = 1
    Names = {n1}
    Requirements = {r1}
    References = {b1}
    ProjectTypes = {p1, p2}
    Explanations = {"Not Applicable"}
    Workers = {w1, w2}
    Nobody = Nobody
SYMMETRY Symmetry
INVARIANTS
    ScopeTypeOK
    LastSyncIsListed
    LostCoverIsUnexplained
PROPERTY
    ReviewsStand
