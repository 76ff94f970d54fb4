\* Two request threads on versions of one template.
SPECIFICATION Spec
CONSTANTS
    Artifacts = {a1, a2}
    Templates = {t1}
    Managers = {manager}
    Approvers = {reviewer}
    Workers = {w1, w2}
    Nobody = Nobody
SYMMETRY Symmetry
INVARIANT AtMostOneApproved
CHECK_DEADLOCK FALSE
