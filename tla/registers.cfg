\* One register at a time, two requests in flight; one beside an upload.
SPECIFICATION RegistersSpec
CONSTANTS
    Workers = {w1, w2}
    Reviewers = {u1}
    Nobody = Nobody
    Papers = {d1}
    Lines = {"short", "long"}
    LongLines = {"long"}
    StandardCodes = {"LD_CAP"}
    OtherCodes = {"OWN"}
    StandardTerms <- TheTerms
    Unreadable = {}
    Accepting = {"Accept Risk"}
    Dismissing = {}
    Deferring = {"Escalate"}
    TermChoices = {{"long"}}
    MaxFindings = 2
    Observable <- TheObservable
    Likeness <- TheLikeness
    Boqs <- TheBoqs
    DrawingDispositions = {"BOQ Correct", "Escalate"}
    MaxDrawingRows = 3
    Factors = {f1}
    Values = {v1}
    Sources = {s1}
    Keys = {k1}
    Closing = {"Resolved"}
    Keeping = {"Escalate"}
    Candidates = {"shall"}
    Reworded = "reworded"
    Owners = {"Planning"}
    PendingReviews = {"Not Reviewed"}
    OpenStatuses = {"Open"}
    Resolved = {"Resolved"}
    EditedBeside = {}
    MaxRequirementRows = 2
    Queries = {q1}
    Editors = {editor}
    Approvers = {approver}
    Payloads <- AllPayloads
    Overlapping <- RacingPayloads
    Docs = {1, 2, 3}
    Contents = {c1, c2}
    MaxBeside = 1
SYMMETRY Symmetry
\* The row ids of the documents run out.
CHECK_DEADLOCK FALSE
INVARIANTS
    RegistersTypeOK
    RaisedOnce
    ComparedOnce
    DifferencesAreSeen
    CountedAsReviewed
    VerdictIsWhole
    LatestAnalysisDecides
    ExtractedOnce
    VerdictsAreAttributed
    ApprovedByWorkflow
    ApprovedTextIsVetted
    StatusIsBacked
    ContentStoredOnce
    DuplicateContentIsHeld
PROPERTIES
    LibraryIsReviewed
    ReviewIsVetted
    RefreshKeepsClosed
    OwnerIsKept
