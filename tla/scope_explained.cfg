\* One item, one request at a time.
SPECIFICATION Spec
CONSTANTS
    MaxItem = 1
    Racing = 0
    Names = {n1}
    Requirements = {r1}
    References = {b1}
    ProjectTypes = {p1}
    Explanations = {"Not Applicable"}
    Workers = {w1}
    Nobody = Nobody
INVARIANTS
    MissingIsExplained
