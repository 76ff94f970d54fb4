\* One package request against two artifact requests and three finding tables.
SPECIFICATION GateSpec
CONSTANTS
    Artifacts = {a1, a2}
    Templates = {t1}
    Managers = {manager}
    Approvers = {reviewer}
    Workers = {w1, w2}
    Nobody = Nobody
    Packers = {k1}
    ClauseRisks = {risk}
    DrawingFindings = {drawing}
    PlanningFindings = {planning}
SYMMETRY Symmetry
INVARIANTS
    GateTypeOK
    PackageIsVetted
    PackageAnswersFormats
    NoStandingBlocker
    ReleasedIsComplete
    RowHasFile
    ApprovalsAreAudited
    UniqueVersions
PROPERTY ApprovedVersionSpec
