--------------------------- MODULE RegistersProofs ---------------------------
(***************************************************************************)
(* Proofs about Registers: a behaviour that works on a register is a       *)
(* behaviour of that register's module, and leaves the tables of the other *)
(* registers as they were.  What is proved of each register alone so holds *)
(* of the registers together.                                              *)
(***************************************************************************)
EXTENDS Registers, DocumentsProofs, FoundRegistersProofs, ReviewedRegistersProofs

-----------------------------------------------------------------------------
(* The register of a behaviour                                              *)

\* Work on the register "risks" is a behaviour of its module.
THEOREM RisksAlone == RegistersSpec /\ register = "risks" => RisksSpec
  <1>1. RegistersInit /\ register = "risks" => RisksInit /\ SessionInit
        BY DEF RegistersInit
  <1>2. register = "risks" /\ [RegistersNext]_registerVars
            => (register = "risks")' /\ [RisksNext]_riskVars
        BY DEF RegistersNext, registerVars, riskVars
  <1> QED BY <1>1, <1>2, PTL DEF RegistersSpec, RisksSpec

\* Work on another register leaves its tables as they began.
LEMMA RisksUntouched ==
    RegistersSpec /\ ~(register = "risks") =>
        []RisksInit /\ [][UNCHANGED riskTables]_riskVars
  <1>1. RegistersInit => RisksInit BY DEF RegistersInit
  <1>2. ~(register = "risks") /\ [RegistersNext]_registerVars
            => (~(register = "risks"))' /\ UNCHANGED riskTables
        BY DEF RegistersNext, registerVars
  <1>3. RisksInit /\ UNCHANGED riskTables => RisksInit' BY DEF RisksInit, riskTables
  <1> QED BY <1>1, <1>2, <1>3, PTL DEF RegistersSpec

\* Work on the register "drawings" is a behaviour of its module.
THEOREM DrawingsAlone == RegistersSpec /\ register = "drawings" => DrawingsSpec
  <1>1. RegistersInit /\ register = "drawings" => DrawingsInit /\ SessionInit
        BY DEF RegistersInit
  <1>2. register = "drawings" /\ [RegistersNext]_registerVars
            => (register = "drawings")' /\ [DrawingsNext]_drawingVars
        BY DEF RegistersNext, registerVars, drawingVars
  <1> QED BY <1>1, <1>2, PTL DEF RegistersSpec, DrawingsSpec

\* Work on another register leaves its tables as they began.
LEMMA DrawingsUntouched ==
    RegistersSpec /\ ~(register = "drawings") =>
        []DrawingsInit /\ [][UNCHANGED drawingTables]_drawingVars
  <1>1. RegistersInit => DrawingsInit BY DEF RegistersInit
  <1>2. ~(register = "drawings") /\ [RegistersNext]_registerVars
            => (~(register = "drawings"))' /\ UNCHANGED drawingTables
        BY DEF RegistersNext, registerVars
  <1>3. DrawingsInit /\ UNCHANGED drawingTables => DrawingsInit' BY DEF DrawingsInit, drawingTables
  <1> QED BY <1>1, <1>2, <1>3, PTL DEF RegistersSpec

\* Work on the register "learning" is a behaviour of its module.
THEOREM LearningAlone == RegistersSpec /\ register = "learning" => LearningSpec
  <1>1. RegistersInit /\ register = "learning" => LearningInit /\ SessionInit
        BY DEF RegistersInit
  <1>2. register = "learning" /\ [RegistersNext]_registerVars
            => (register = "learning")' /\ [LearningNext]_learningVars
        BY DEF RegistersNext, registerVars, learningVars
  <1> QED BY <1>1, <1>2, PTL DEF RegistersSpec, LearningSpec

\* Work on another register leaves its tables as they began.
LEMMA LearningUntouched ==
    RegistersSpec /\ ~(register = "learning") =>
        []LearningInit /\ [][UNCHANGED learningTables]_learningVars
  <1>1. RegistersInit => LearningInit BY DEF RegistersInit
  <1>2. ~(register = "learning") /\ [RegistersNext]_registerVars
            => (~(register = "learning"))' /\ UNCHANGED learningTables
        BY DEF RegistersNext, registerVars
  <1>3. LearningInit /\ UNCHANGED learningTables => LearningInit' BY DEF LearningInit, learningTables
  <1> QED BY <1>1, <1>2, <1>3, PTL DEF RegistersSpec

\* Work on the register "findings" is a behaviour of its module.
THEOREM FindingsAlone == RegistersSpec /\ register = "findings" => FindingsSpec
  <1>1. RegistersInit /\ register = "findings" => FindingsInit /\ SessionInit
        BY DEF RegistersInit
  <1>2. register = "findings" /\ [RegistersNext]_registerVars
            => (register = "findings")' /\ [FindingsNext]_findingVars
        BY DEF RegistersNext, registerVars, findingVars
  <1> QED BY <1>1, <1>2, PTL DEF RegistersSpec, FindingsSpec

\* Work on another register leaves its tables as they began.
LEMMA FindingsUntouched ==
    RegistersSpec /\ ~(register = "findings") =>
        []FindingsInit /\ [][UNCHANGED findingTables]_findingVars
  <1>1. RegistersInit => FindingsInit BY DEF RegistersInit
  <1>2. ~(register = "findings") /\ [RegistersNext]_registerVars
            => (~(register = "findings"))' /\ UNCHANGED findingTables
        BY DEF RegistersNext, registerVars
  <1>3. FindingsInit /\ UNCHANGED findingTables => FindingsInit' BY DEF FindingsInit, findingTables
  <1> QED BY <1>1, <1>2, <1>3, PTL DEF RegistersSpec

\* Work on the register "requirements" is a behaviour of its module.
THEOREM RequirementsAlone == RegistersSpec /\ register = "requirements" => RequirementsSpec
  <1>1. RegistersInit /\ register = "requirements" => RequirementsInit /\ SessionInit
        BY DEF RegistersInit
  <1>2. register = "requirements" /\ [RegistersNext]_registerVars
            => (register = "requirements")' /\ [RequirementsNext]_requirementVars
        BY DEF RegistersNext, registerVars, requirementVars
  <1> QED BY <1>1, <1>2, PTL DEF RegistersSpec, RequirementsSpec

\* Work on another register leaves its tables as they began.
LEMMA RequirementsUntouched ==
    RegistersSpec /\ ~(register = "requirements") =>
        []RequirementsInit /\ [][UNCHANGED requirementTables]_requirementVars
  <1>1. RegistersInit => RequirementsInit BY DEF RegistersInit
  <1>2. ~(register = "requirements") /\ [RegistersNext]_registerVars
            => (~(register = "requirements"))' /\ UNCHANGED requirementTables
        BY DEF RegistersNext, registerVars
  <1>3. RequirementsInit /\ UNCHANGED requirementTables => RequirementsInit' BY DEF RequirementsInit, requirementTables
  <1> QED BY <1>1, <1>2, <1>3, PTL DEF RegistersSpec

\* Work on the register "queries" is a behaviour of its module.
THEOREM QueriesAlone == RegistersSpec /\ register = "queries" => QueriesSpec
  <1>1. RegistersInit /\ register = "queries" => QueriesInit /\ SessionInit
        BY DEF RegistersInit
  <1>2. register = "queries" /\ [RegistersNext]_registerVars
            => (register = "queries")' /\ [QueriesNext]_queryVars
        BY DEF RegistersNext, registerVars, queryVars
  <1> QED BY <1>1, <1>2, PTL DEF RegistersSpec, QueriesSpec

\* Work on another register leaves its tables as they began.
LEMMA QueriesUntouched ==
    RegistersSpec /\ ~(register = "queries") =>
        []QueriesInit /\ [][UNCHANGED queryTables]_queryVars
  <1>1. RegistersInit => QueriesInit BY DEF RegistersInit
  <1>2. ~(register = "queries") /\ [RegistersNext]_registerVars
            => (~(register = "queries"))' /\ UNCHANGED queryTables
        BY DEF RegistersNext, registerVars
  <1>3. QueriesInit /\ UNCHANGED queryTables => QueriesInit' BY DEF QueriesInit, queryTables
  <1> QED BY <1>1, <1>2, <1>3, PTL DEF RegistersSpec

\* Work on the register "documents" is a behaviour of its module.
THEOREM DocumentsAlone == RegistersSpec /\ register = "documents" => DocumentsSpec
  <1>1. RegistersInit /\ register = "documents" => DocumentsInit
        BY DEF RegistersInit
  <1>2. register = "documents" /\ [RegistersNext]_registerVars
            => (register = "documents")' /\ [DocumentsNext]_documentVars
        BY DEF RegistersNext, registerVars, documentVars
  <1> QED BY <1>1, <1>2, PTL DEF RegistersSpec, DocumentsSpec

\* Work on another register leaves its tables as they began.
LEMMA DocumentsUntouched ==
    RegistersSpec /\ ~(register = "documents") =>
        [](document = <<>> /\ stored = {} /\ uploading = NoUpload /\ archivedDocs = {})
  <1> DEFINE Empty == document = <<>> /\ stored = {} /\ uploading = NoUpload /\ archivedDocs = {}
  <1>1. RegistersInit => Empty BY DEF RegistersInit, DocumentsInit
  <1>2. ~(register = "documents") /\ [RegistersNext]_registerVars
            => (~(register = "documents"))' /\ UNCHANGED documentTables
        BY DEF RegistersNext, registerVars
  <1>3. Empty /\ UNCHANGED documentTables => Empty' BY DEF documentTables
  <1> QED BY <1>1, <1>2, <1>3, PTL DEF RegistersSpec

-----------------------------------------------------------------------------
(* The registers together                                                   *)

\* Whatever register is worked on, the threads do what its module says and nothing else:
\* a request of services of one register never acts on another.
THEOREM RegistersImplement ==
    RegistersSpec =>
        /\ register = "risks" => RisksSpec
        /\ register = "drawings" => DrawingsSpec
        /\ register = "learning" => LearningSpec
        /\ register = "findings" => FindingsSpec
        /\ register = "requirements" => RequirementsSpec
        /\ register = "queries" => QueriesSpec
        /\ register = "documents" => DocumentsSpec
  BY RisksAlone, DrawingsAlone, LearningAlone, FindingsAlone, RequirementsAlone,
     QueriesAlone, DocumentsAlone, PTL

\* Every table holds rows of its columns, whichever register is worked on.
THEOREM RegistersAreWellFormed == RegistersSpec => []RegistersTypeOK
  <1>1. RegistersSpec => []RisksTypeOK
    <2>1. RisksInit => RisksTypeOK BY DEF RisksInit, RisksTypeOK
    <2> QED BY <2>1, RisksAlone, RisksUntouched, RisksAreWellFormed, PTL
  <1>2. RegistersSpec => []DrawingsTypeOK
    <2>1. DrawingsInit => DrawingsTypeOK BY DEF DrawingsInit, DrawingsTypeOK
    <2>2. DrawInv => DrawingsTypeOK BY DEF DrawInv
    <2> QED BY <2>1, <2>2, DrawingsAlone, DrawingsUntouched, DrawingsInvHolds, PTL
  <1>3. RegistersSpec => []LearningTypeOK
    <2>1. LearningInit => LearningTypeOK BY DEF LearningInit, LearningTypeOK
    <2>2. LInv => LearningTypeOK BY DEF LInv
    <2> QED BY <2>1, <2>2, LearningAlone, LearningUntouched, LearningInvHolds, PTL
  <1>4. RegistersSpec => []FindingsTypeOK
    <2>1. FindingsInit => FindingsTypeOK BY DEF FindingsInit, FindingsTypeOK, Rows
    <2>2. FInv => FindingsTypeOK BY DEF FInv
    <2> QED BY <2>1, <2>2, FindingsAlone, FindingsUntouched, FindingsInvHolds, PTL
  <1>5. RegistersSpec => []RequirementsTypeOK
    <2>1. RequirementsInit => RequirementsTypeOK BY DEF RequirementsInit, RequirementsTypeOK
    <2>2. ReqInv => RequirementsTypeOK BY DEF ReqInv
    <2> QED BY <2>1, <2>2, RequirementsAlone, RequirementsUntouched, RequirementsInvHolds, PTL
  <1>6. RegistersSpec => []QueryTypeOK
    <2>1. QueriesInit => QueryTypeOK BY DEF QueriesInit, QueryTypeOK, Asked
    <2>2. QInv => QueryTypeOK BY DEF QInv
    <2> QED BY <2>1, <2>2, QueriesAlone, QueriesUntouched, QueriesInvHolds, PTL
  <1>7. RegistersSpec => []DocumentsTypeOK
    <2>1. (document = <<>> /\ stored = {} /\ uploading = NoUpload /\ archivedDocs = {})
              => DocumentsTypeOK
          BY DEF DocumentsTypeOK, Filed
    <2> QED BY <2>1, DocumentsAlone, DocumentsUntouched, DocumentsTypes, PTL
  <1>8. RisksTypeOK /\ DrawingsTypeOK /\ LearningTypeOK /\ FindingsTypeOK
            /\ RequirementsTypeOK /\ QueryTypeOK /\ DocumentsTypeOK => RegistersTypeOK
        BY DEF RegistersTypeOK
  <1> QED BY <1>1, <1>2, <1>3, <1>4, <1>5, <1>6, <1>7, <1>8, PTL

\* What a scan, a record or an extraction finds is kept once, and who decided about it
\* is on the row, unless requests overlapped on that row.
THEOREM FoundRowsAreSound ==
    RegistersSpec => [](/\ RaisedOnce /\ ComparedOnce /\ DifferencesAreSeen
                        /\ ExtractedOnce /\ VerdictsAreAttributed)
  <1>1. RegistersSpec => []RaisedOnce
    <2>1. RisksInit => RaisedOnce BY DEF RisksInit, RaisedOnce
    <2> QED BY <2>1, RisksAlone, RisksUntouched, RaisedOnceOnly, PTL
  <1>2. RegistersSpec => [](ComparedOnce /\ DifferencesAreSeen)
    <2>1. DrawingsInit => ComparedOnce /\ DifferencesAreSeen
          BY DEF DrawingsInit, ComparedOnce, DifferencesAreSeen
    <2> QED BY <2>1, DrawingsAlone, DrawingsUntouched, ComparedOnceOnly,
               NoDifferencePassesUnseen, PTL
  <1>3. RegistersSpec => [](ExtractedOnce /\ VerdictsAreAttributed)
    <2>1. RequirementsInit => ExtractedOnce /\ VerdictsAreAttributed
          BY DEF RequirementsInit, ExtractedOnce, VerdictsAreAttributed
    <2> QED BY <2>1, RequirementsAlone, RequirementsUntouched, ExtractedOnceOnly,
               VerdictsNameTheReviewer, PTL
  <1> QED BY <1>1, <1>2, <1>3, PTL

\* The documents among the registers: a content is stored once, and a duplicate's content
\* is held by a row with a file.
THEOREM DocumentsAreSound == RegistersSpec => [](ContentStoredOnce /\ DuplicateContentIsHeld)
  <1>1. (document = <<>> /\ stored = {} /\ uploading = NoUpload /\ archivedDocs = {})
            => ContentStoredOnce /\ DuplicateContentIsHeld
    <2> SUFFICES ASSUME document = <<>>
                 PROVE  ContentStoredOnce /\ DuplicateContentIsHeld
        OBVIOUS
    <2>1. Filed = {} BY DEF Filed
    <2>2. \A c \in Contents :
             {d \in Filed \ archivedDocs : document[d].content = c /\ d \in stored} = {}
          BY <2>1
    <2> QED BY <2>1, <2>2, FS_EmptySet DEF ContentStoredOnce, DuplicateContentIsHeld
  <1> QED BY <1>1, DocumentsAlone, DocumentsUntouched, StoredOnce, DuplicatesAreHeld, PTL

\* A verdict stands for what was read when it was given, unless requests overlapped on
\* its row: Reviewed lessons, dispositions of findings, approvals of queries.
THEOREM VerdictsAreSound ==
    RegistersSpec => [](/\ CountedAsReviewed /\ VerdictIsWhole /\ LatestAnalysisDecides
                        /\ ApprovedByWorkflow /\ ApprovedTextIsVetted /\ StatusIsBacked)
  <1>1. RegistersSpec => []CountedAsReviewed
    <2>1. LearningInit => CountedAsReviewed BY DEF LearningInit, CountedAsReviewed, Counted
    <2> QED BY <2>1, LearningAlone, LearningUntouched, CountedIsReviewed, PTL
  <1>2. RegistersSpec => [](VerdictIsWhole /\ LatestAnalysisDecides)
    <2>1. FindingsInit => VerdictIsWhole /\ LatestAnalysisDecides
          BY DEF FindingsInit, VerdictIsWhole, LatestAnalysisDecides, Calm, Rows
    <2> QED BY <2>1, FindingsAlone, FindingsUntouched, VerdictsAreWhole, LatestDecides, PTL
  <1>3. RegistersSpec => [](ApprovedByWorkflow /\ ApprovedTextIsVetted /\ StatusIsBacked)
    <2>1. QueriesInit => ApprovedByWorkflow /\ ApprovedTextIsVetted /\ StatusIsBacked
          BY DEF QueriesInit, ApprovedByWorkflow, ApprovedTextIsVetted, StatusIsBacked,
                 CalmQueries, Asked
    <2> QED BY <2>1, QueriesAlone, QueriesUntouched, ApprovalNeedsWorkflow,
               ApprovedTextIsRead, StatusNeedsColumns, PTL
  <1> QED BY <1>1, <1>2, <1>3, PTL

\* The steps of all registers: the library grows by what was accepted, owners are kept,
\* a review rests on evidence, and a refresh keeps what a reviewer closed.
THEOREM StepsAreSound ==
    RegistersSpec =>
        LibraryIsReviewed /\ OwnerIsKept /\ ReviewIsVetted /\ RefreshKeepsClosed
  <1>1. RegistersSpec => LibraryIsReviewed
    <2> DEFINE A == \A c \in DOMAIN pattern' :
                       IF c \in DOMAIN pattern THEN pattern'[c] = pattern[c]
                       ELSE \/ c \in StandardCodes /\ pattern'[c] = Standard(c)
                            \/ \E w \in Workers :
                                  /\ req[w].op = "promote" /\ req[w].code = c
                                  /\ \/ risk[req[w].row].disposition \in Accepting
                                     \/ req[w].row \in req[w].stale
    <2>1. UNCHANGED riskTables => A BY DEF riskTables
    <2> QED BY <2>1, RisksAlone, RisksUntouched, LibraryStaysReviewed, PTL
               DEF LibraryIsReviewed
  <1>2. RegistersSpec => OwnerIsKept
    <2> DEFINE A == \A w \in Workers :
                       req[w].op = "assign" /\ req'[w] = Idle =>
                          /\ \A x \in DOMAIN requirement \ req[w].stale :
                                requirement[x].owner # Nobody =>
                                    requirement'[x].owner = requirement[x].owner
                          /\ \A i \in DOMAIN input \ req[w].stale :
                                input[i].owner # Nobody => input'[i].owner = input[i].owner
    <2>1. UNCHANGED requirementTables => A BY DEF requirementTables
    <2> QED BY <2>1, RequirementsAlone, RequirementsUntouched, OwnersAreKept, PTL
               DEF OwnerIsKept
  <1>3. RegistersSpec => ReviewIsVetted
    <2> DEFINE A == \A x \in DOMAIN learning :
                       learning[x].status = "Draft" /\ learning'[x].status = "Reviewed" =>
                          \E w \in Workers :
                             /\ req[w].op = "review" /\ req[w].row = x
                             /\ req[w].stale = {} =>
                                   /\ Evidenced(learning[x])
                                   /\ learning["actuals"].status = "Reviewed" \/ x = "actuals"
    <2>1. UNCHANGED learningTables => A BY DEF learningTables
    <2> QED BY <2>1, LearningAlone, LearningUntouched, ReviewsAreVetted, PTL
               DEF ReviewIsVetted
  <1>4. RegistersSpec => RefreshKeepsClosed
    <2> DEFINE A == \A k \in Rows :
                       row[k].status = "Closed" /\ k \notin raced' /\ row'[k].status # "Closed"
                          => \E w \in Workers : req[w].op = "review finding" /\ req[w].key = k
    <2>1. UNCHANGED findingTables => A BY DEF findingTables
    <2> QED BY <2>1, FindingsAlone, FindingsUntouched, ClosedIsKept, PTL
               DEF RefreshKeepsClosed
  <1> QED BY <1>1, <1>2, <1>3, <1>4
==============================================================================
