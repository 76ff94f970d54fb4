------------------------- MODULE SubmissionGateProofs -------------------------
(***************************************************************************)
(* Theorems about SubmissionGate for any artifacts, findings and requests. *)
(* They rest on the invariant of the artifact requests, IInv, and on what  *)
(* no artifact request undoes: a row keeps its template, stays complete    *)
(* and keeps naming somebody in its review columns.                        *)
(***************************************************************************)
EXTENDS SubmissionGate, PreparedArtifactsProofs, FiniteSetTheorems

Vetted(a) ==
    /\ a \in Rows /\ summary[a] = "complete"
    /\ readyBy[a] # Nobody /\ approvedBy[a] # Nobody

Chose(r) == r.step \in {"artifacts", "risks", "drawings", "checked", "built"}

ChosenOK(r) ==
    Chose(r) =>
        /\ \A a \in r.chosen : Vetted(a)
        /\ \A a, b \in r.chosen : template[a] = template[b] => a = b

\* The findings open since the request began, of the tables it has read.
StandingOK(r) ==
    /\ r.standing \subseteq open
    /\ ~r.blocked =>
         /\ r.step \in {"risks", "drawings", "checked", "built"} =>
               r.standing \cap ClauseRisks = {}
         /\ r.step \in {"drawings", "checked", "built"} => r.standing \cap DrawingFindings = {}
         /\ r.step \in {"checked", "built"} => r.standing \cap PlanningFindings = {}

PackOK(r) ==
    /\ r \in PackRequest /\ ChosenOK(r) /\ StandingOK(r)
    /\ r.step = "built" => IsReady(r)

GInv ==
    /\ IInv /\ RowTemplates
    /\ open \in SUBSET Blockers
    /\ pack \in [Packers -> PackRequest]
    /\ \A k \in Packers : PackOK(pack[k])

-----------------------------------------------------------------------------
(* What an artifact request leaves of a row.                                *)

RowKept(a) ==
    /\ a \in Rows' /\ template'[a] = template[a]
    /\ Vetted(a) => Vetted(a)'

RowsKept == \A a \in Rows : RowKept(a)

LEMMA UnchangedKeepsRows == UNCHANGED rowVars => RowsKept /\ Rows' = Rows
  BY DEF rowVars, Rows, RowsKept, RowKept, Vetted

LEMMA CreateKeepsRows ==
    ASSUME IInv, RowTemplates, NEW w \in Workers, CommitCreate(w)
    PROVE  RowsKept /\ RowTemplates'
  <1> DEFINE a == req[w].art
  <1>1. CreatingOK(req[w])
    BY DEF IInv, RequestsOK, RequestOK, CommitCreate
  <1>2. /\ a \in Artifacts /\ a \notin Rows /\ req[w].template \in Templates
    BY <1>1 DEF CreatingOK, Rows
  <1>3. /\ status' = [status EXCEPT ![a] = "Draft"]
        /\ template' = [template EXCEPT ![a] = req[w].template]
        /\ summary' = [summary EXCEPT ![a] = req[w].summary]
        /\ UNCHANGED <<readyBy, approvedBy>>
    BY DEF CommitCreate
  <1>4. Rows' = Rows \cup {a} /\ template'[a] = req[w].template
        /\ \A b \in Rows : template'[b] = template[b] /\ summary'[b] = summary[b]
    BY <1>2, <1>3 DEF Rows, IInv, TypeOK
  <1>5. RowTemplates'
    BY <1>2, <1>4 DEF RowTemplates
  <1>6. RowsKept
    BY <1>3, <1>4 DEF RowsKept, RowKept, Vetted
  <1> QED
    BY <1>5, <1>6

LEMMA ReadyKeepsRows ==
    ASSUME IInv, RowTemplates, NEW w \in Workers, CommitReady(w)
    PROVE  RowsKept /\ RowTemplates'
  <1> DEFINE a == req[w].art
  <1>1. a \in Rows /\ req[w].user # Nobody
    BY NobodyAssumption DEF IInv, RequestsOK, RequestOK, ReadyOK, CommitReady
  <1>2. /\ status' = [status EXCEPT ![a] = "Ready for Review"]
        /\ readyBy' = [readyBy EXCEPT ![a] = req[w].user]
        /\ UNCHANGED <<template, summary, approvedBy>>
    BY DEF CommitReady
  <1>3. Rows' = Rows /\ \A b \in Rows : readyBy[b] # Nobody => readyBy'[b] # Nobody
    BY <1>1, <1>2 DEF Rows, IInv, TypeOK
  <1> QED
    BY <1>2, <1>3 DEF RowsKept, RowKept, Vetted, RowTemplates

LEMMA ApproveKeepsRows ==
    ASSUME IInv, RowTemplates, NEW w \in Workers, CommitApprove(w)
    PROVE  RowsKept /\ RowTemplates'
  <1> DEFINE a == req[w].art
             old == req[w].previous
  <1>1. /\ req[w].user # Nobody /\ a \in Rows /\ old \subseteq Rows
    BY NobodyAssumption DEF IInv, RequestsOK, RequestOK, ApprovingOK, ReviewedRow, CommitApprove,
       TypeOK, Request
  <1>2. /\ status' = [b \in Artifacts |-> IF b = a THEN "Approved"
                        ELSE IF b \in old THEN "Superseded" ELSE status[b]]
        /\ approvedBy' = [approvedBy EXCEPT ![a] = Flushed(@, req[w].seen, req[w].user)]
        /\ UNCHANGED <<template, summary, readyBy>>
    BY DEF CommitApprove
  <1>3. Rows' = Rows
    BY <1>1, <1>2 DEF Rows, IInv, TypeOK
  <1>4. \A b \in Rows : approvedBy[b] # Nobody => approvedBy'[b] # Nobody
    <2>1. approvedBy \in [Artifacts -> Users \cup {Nobody}]
      BY DEF IInv, TypeOK
    <2> QED
      BY <2>1, <1>1, <1>2 DEF Flushed
  <1> QED
    BY <1>2, <1>3, <1>4 DEF RowsKept, RowKept, Vetted, RowTemplates

LEMMA StepKeepsRows ==
    ASSUME IInv, RowTemplates, NEW w \in Workers, Step(w)
    PROVE  RowsKept /\ RowTemplates'
  <1>1. CASE UNCHANGED rowVars
    <2>1. RowTemplates'
      BY <1>1, UnchangedKeepsRows DEF RowTemplates, rowVars
    <2> QED
      BY <1>1, <2>1, UnchangedKeepsRows
  <1>2. CASE CommitCreate(w)
    BY <1>2, CreateKeepsRows
  <1>3. CASE CommitReady(w)
    BY <1>3, ReadyKeepsRows
  <1>4. CASE CommitApprove(w)
    BY <1>4, ApproveKeepsRows
  <1>5. Create(w) \/ SaveFile(w) \/ Ready(w) \/ Approve(w) \/ SelectPrevious(w) \/ Abort(w)
          => UNCHANGED rowVars
    BY DEF Create, BeginCreate, SaveFile, Ready, BeginReady, Approve, BeginApprove,
       SelectPrevious, Abort
  <1> QED
    BY <1>1, <1>2, <1>3, <1>4, <1>5 DEF Step

-----------------------------------------------------------------------------
(* The steps of the gate.                                                   *)

LEMMA ArtifactStepGInv ==
    ASSUME GInv, NEW w \in Workers, Step(w), UNCHANGED <<open, pack>>
    PROVE  GInv'
  <1>1. IInv'
    BY NextIInv DEF GInv, Next
  <1>2. RowsKept /\ RowTemplates'
    BY StepKeepsRows DEF GInv
  <1>3. ASSUME NEW k \in Packers PROVE PackOK(pack[k])'
    <2>1. PackOK(pack[k]) /\ pack'[k] = pack[k]
      BY DEF GInv
    <2>2. ChosenOK(pack[k])'
      BY <2>1, <1>2 DEF PackOK, ChosenOK, RowsKept, RowKept, Vetted
    <2>3. StandingOK(pack[k])'
      BY <2>1 DEF PackOK, StandingOK
    <2>4. pack[k].step = "built" => IsReady(pack[k])'
      <3> SUFFICES ASSUME pack[k].step = "built" PROVE IsReady(pack[k])'
        OBVIOUS
      <3>1. IsReady(pack[k]) /\ \A a \in pack[k].chosen : a \in Rows
        BY <2>1 DEF PackOK, ChosenOK, Chose, Vetted
      <3>2. \A a \in pack[k].chosen : template'[a] = template[a]
        BY <3>1, <1>2 DEF RowsKept, RowKept
      <3> QED
        BY <2>1, <3>1, <3>2 DEF IsReady, Covered
    <2> QED
      BY <2>1, <2>2, <2>3, <2>4 DEF PackOK
  <1> QED
    BY <1>1, <1>2, <1>3 DEF GInv

LEMMA FindingGInv ==
    ASSUME GInv, NEW b \in Blockers, OpenFinding(b) \/ CloseFinding(b)
    PROVE  GInv'
  <1>1. IInv' /\ RowTemplates'
    <2>1. UNCHANGED vars
      BY DEF OpenFinding, CloseFinding
    <2>2. IInv'
      BY <2>1, NextIInv DEF GInv
    <2> QED
      BY <2>1, <2>2 DEF GInv, RowTemplates, Rows, vars
  <1>2. UNCHANGED <<status, template, summary, readyBy, approvedBy>> /\ Rows' = Rows
    BY DEF OpenFinding, CloseFinding, vars, Rows
  <1>3. ASSUME NEW k \in Packers
        PROVE  /\ pack'[k] \in PackRequest
               /\ pack'[k].step = pack[k].step /\ pack'[k].formats = pack[k].formats
               /\ pack'[k].chosen = pack[k].chosen /\ pack'[k].blocked = pack[k].blocked
               /\ pack'[k].standing \subseteq pack[k].standing
               /\ pack'[k].standing \subseteq open'
    <2>1. PackOK(pack[k]) /\ pack[k] \in PackRequest /\ pack[k].standing \subseteq open
      BY DEF GInv, PackOK, StandingOK
    <2>2. CASE OpenFinding(b)
      BY <2>1, <2>2 DEF OpenFinding
    <2>3. CASE CloseFinding(b)
      <3>1. pack'[k] = [pack[k] EXCEPT !.standing = @ \ {b}] /\ open' = open \ {b}
        BY <2>3 DEF CloseFinding
      <3> QED
        BY <2>1, <3>1 DEF PackRequest
    <2> QED
      BY <2>2, <2>3
  <1>4. pack' \in [Packers -> PackRequest] /\ open' \in SUBSET Blockers
    BY <1>3 DEF GInv, OpenFinding, CloseFinding
  <1>5. ASSUME NEW k \in Packers PROVE PackOK(pack[k])'
    <2>1. PackOK(pack[k])
      BY DEF GInv
    <2>2. ChosenOK(pack[k])'
      BY <2>1, <1>2, <1>3 DEF PackOK, ChosenOK, Chose, Vetted
    <2>3. StandingOK(pack[k])'
      BY <2>1, <1>3 DEF PackOK, StandingOK
    <2>4. IsReady(pack[k]) => IsReady(pack[k])'
      BY <1>2, <1>3 DEF IsReady, Covered
    <2> QED
      BY <2>1, <2>2, <2>3, <2>4, <1>3 DEF PackOK
  <1> QED
    BY <1>1, <1>4, <1>5 DEF GInv

\* A step of a package request leaves the tables alone.
LEMMA PackOnly ==
    ASSUME GInv, UNCHANGED <<vars, open>>, NEW k \in Packers, NEW r,
           pack' = [pack EXCEPT ![k] = r], PackOK(r)
    PROVE  GInv'
  <1>1. IInv' /\ RowTemplates'
    BY NextIInv DEF GInv, RowTemplates, Rows, vars
  <1>2. pack' \in [Packers -> PackRequest] /\ pack'[k] = r
        /\ \A j \in Packers \ {k} : pack'[j] = pack[j]
    BY DEF GInv, PackOK
  <1>3. ASSUME NEW j \in Packers PROVE PackOK(pack[j])'
    <2>1. PackOK(pack'[j])
      BY <1>2 DEF GInv
    <2>2. UNCHANGED <<status, template, summary, readyBy, approvedBy, open>> /\ Rows' = Rows
      BY DEF vars, Rows
    <2> QED
      BY <2>1, <2>2 DEF PackOK, ChosenOK, Vetted, StandingOK, IsReady, Covered
  <1> QED
    BY <1>1, <1>2, <1>3 DEF GInv

LEMMA IdlePackOK == PackOK(IdlePack)
  BY DEF PackOK, PackRequest, PackSteps, IdlePack, ChosenOK, Chose, StandingOK

LEMMA BeginPackageGInv ==
    ASSUME GInv, NEW k \in Packers, NEW fs \in DetectedFormats, BeginPackage(k, fs)
    PROVE  GInv'
  <1> DEFINE r == [IdlePack EXCEPT !.step = "formats", !.formats = fs, !.standing = open]
  <1>1. PackOK(r)
    BY DEF GInv, PackOK, PackRequest, PackSteps, IdlePack, ChosenOK, Chose, StandingOK,
       DetectedFormats
  <1>2. UNCHANGED <<vars, open>> /\ pack' = [pack EXCEPT ![k] = r]
    BY DEF BeginPackage
  <1> HIDE DEF r
  <1> QED
    BY <1>1, <1>2, PackOnly

LEMMA ReadArtifactsGInv ==
    ASSUME GInv, NEW k \in Packers, ReadArtifacts(k)
    PROVE  GInv'
  <1>1. PICK C \in SUBSET Rows :
            /\ IsApprovedByTemplate(C)
            /\ pack' = [pack EXCEPT ![k].step = "artifacts", ![k].chosen = C]
    BY DEF ReadArtifacts
  <1> DEFINE r == [pack[k] EXCEPT !.step = "artifacts", !.chosen = C]
  <1>2. PackOK(pack[k]) /\ pack[k].step = "formats" /\ pack[k] \in PackRequest
    BY DEF GInv, PackOK, ReadArtifacts
  <1>3. r \in PackRequest /\ r.step = "artifacts" /\ r.chosen = C
        /\ r.standing = pack[k].standing
    BY <1>2 DEF PackRequest, PackSteps, Rows
  <1>4. \A a \in C : Vetted(a)
    BY <1>1 DEF IsApprovedByTemplate, Vetted, GInv, IInv, ReleasedIsComplete, Released,
       ApprovalsAreAudited
  <1>5. pack' = [pack EXCEPT ![k] = r]
    BY <1>1 DEF GInv
  <1> HIDE DEF r
  <1>6. PackOK(r)
    BY <1>1, <1>2, <1>3, <1>4 DEF PackOK, ChosenOK, StandingOK, IsApprovedByTemplate
  <1>7. UNCHANGED <<vars, open>>
    BY DEF ReadArtifacts
  <1> QED
    BY <1>5, <1>6, <1>7, PackOnly

\* One SELECT on findings: a standing finding of the table is in the result.
LEMMA ReadFindingsGInv ==
    ASSUME GInv, NEW k \in Packers, NEW from, NEW to, NEW table,
           <<from, to, table>> \in {<<"artifacts", "risks", ClauseRisks>>,
                                    <<"risks", "drawings", DrawingFindings>>,
                                    <<"drawings", "checked", PlanningFindings>>},
           ReadFindings(k, from, to, table)
    PROVE  GInv'
  <1> DEFINE now == pack[k].blocked \/ table \cap open # {}
             r == [pack[k] EXCEPT !.step = to, !.blocked = now]
  <1>1. PackOK(pack[k]) /\ pack[k].step = from /\ pack[k] \in PackRequest
    BY DEF GInv, PackOK, ReadFindings
  <1>2. to \in {"risks", "drawings", "checked"} /\ now \in BOOLEAN
    BY <1>1 DEF PackRequest
  <1>3. r \in PackRequest
    BY <1>1, <1>2 DEF PackRequest, PackSteps
  <1>4. r.step = to /\ r.chosen = pack[k].chosen /\ r.standing = pack[k].standing
        /\ r.blocked = now
    BY <1>1 DEF PackRequest
  <1>5. pack' = [pack EXCEPT ![k] = r] /\ UNCHANGED <<vars, open>>
    BY DEF ReadFindings, GInv
  <1>6. ~r.blocked => ~pack[k].blocked /\ table \cap open = {}
    BY <1>4
  <1> HIDE DEF r, now
  <1>7. ChosenOK(r)
    BY <1>1, <1>4 DEF PackOK, ChosenOK, Chose
  <1>8. StandingOK(r)
    BY <1>1, <1>4, <1>6 DEF PackOK, StandingOK
  <1>9. PackOK(r)
    BY <1>2, <1>3, <1>4, <1>7, <1>8 DEF PackOK
  <1> QED
    BY <1>5, <1>9, PackOnly

LEMMA BuildPackageGInv ==
    ASSUME GInv, NEW k \in Packers, BuildPackage(k)
    PROVE  GInv'
  <1> DEFINE r == [pack[k] EXCEPT !.step = "built"]
  <1>1. PackOK(pack[k]) /\ pack[k].step = "checked" /\ IsReady(pack[k])
        /\ pack[k] \in PackRequest
    BY DEF GInv, PackOK, BuildPackage
  <1>2. r \in PackRequest /\ r.step = "built" /\ r.chosen = pack[k].chosen
        /\ r.standing = pack[k].standing /\ r.formats = pack[k].formats
        /\ r.blocked = pack[k].blocked
    BY <1>1 DEF PackRequest, PackSteps
  <1>3. pack' = [pack EXCEPT ![k] = r] /\ UNCHANGED <<vars, open>>
    BY DEF BuildPackage, GInv
  <1> HIDE DEF r
  <1>4. PackOK(r)
    BY <1>1, <1>2 DEF PackOK, ChosenOK, Chose, StandingOK, IsReady, Covered
  <1> QED
    BY <1>3, <1>4, PackOnly

-----------------------------------------------------------------------------
LEMMA InitGInv == GateInit => GInv
  <1> SUFFICES ASSUME GateInit PROVE GInv
    OBVIOUS
  <1>1. IInv
    BY InitIInv DEF GateInit
  <1>2. RowTemplates
    BY DEF GateInit, Init, RowTemplates, Rows
  <1> QED
    BY <1>1, <1>2, IdlePackOK DEF GateInit, GInv, PackOK

LEMMA GateNextGInv == GInv /\ [GateNext]_gateVars => GInv'
  <1> SUFFICES ASSUME GInv, [GateNext]_gateVars PROVE GInv'
    OBVIOUS
  <1>1. CASE UNCHANGED gateVars
    <2>1. UNCHANGED <<vars, open, pack>>
      BY <1>1 DEF gateVars
    <2>2. IInv'
      BY <2>1, NextIInv DEF GInv
    <2>3. UNCHANGED <<status, template, summary, readyBy, approvedBy, open, pack>> /\ Rows' = Rows
      BY <2>1 DEF vars, Rows
    <2> QED
      BY <2>2, <2>3 DEF GInv, RowTemplates, PackOK, ChosenOK, Vetted, StandingOK, IsReady, Covered
  <1>2. CASE ArtifactStep
    BY <1>2, ArtifactStepGInv DEF ArtifactStep
  <1>3. CASE \E b \in Blockers : OpenFinding(b) \/ CloseFinding(b)
    BY <1>3, FindingGInv
  <1>4. ASSUME NEW k \in Packers,
               \/ \E fs \in DetectedFormats : BeginPackage(k, fs)
               \/ ReadArtifacts(k) \/ ReadClauseRisks(k) \/ ReadDrawingFindings(k)
               \/ ReadPlanningFindings(k)
               \/ RefusePackage(k) \/ BuildPackage(k) \/ IssuePackage(k)
        PROVE  GInv'
    <2>1. CASE \E fs \in DetectedFormats : BeginPackage(k, fs)
      BY <2>1, BeginPackageGInv
    <2>2. CASE ReadArtifacts(k)
      BY <2>2, ReadArtifactsGInv
    <2>3. CASE ReadClauseRisks(k)
      BY <2>3, ReadFindingsGInv DEF ReadClauseRisks
    <2>4. CASE ReadDrawingFindings(k)
      BY <2>4, ReadFindingsGInv DEF ReadDrawingFindings
    <2>5. CASE ReadPlanningFindings(k)
      BY <2>5, ReadFindingsGInv DEF ReadPlanningFindings
    <2>6. CASE RefusePackage(k) \/ IssuePackage(k)
      BY <2>6, IdlePackOK, PackOnly DEF RefusePackage, IssuePackage
    <2>7. CASE BuildPackage(k)
      BY <2>7, BuildPackageGInv
    <2> QED
      BY <1>4, <2>1, <2>2, <2>3, <2>4, <2>5, <2>6, <2>7
  <1> QED
    BY <1>1, <1>2, <1>3, <1>4 DEF GateNext

LEMMA GateSpecGInv == GateSpec => []GInv
  BY InitGInv, GateNextGInv, PTL DEF GateSpec

\* Whatever races with package requests, every variable keeps its type.
THEOREM GateTypes == GateSpec => []GateTypeOK
  <1>1. GInv => GateTypeOK
    BY DEF GInv, GateTypeOK, IInv
  <1> QED
    BY <1>1, GateSpecGInv, PTL

\* Whatever artifact requests commit between the reads of a package request, a
\* built package holds reviewed and approved content only.
THEOREM VettedPackage == GateSpec => []PackageIsVetted
  <1>1. GInv => PackageIsVetted
    BY DEF GInv, PackOK, ChosenOK, Chose, Vetted, PackageIsVetted, Built
  <1> QED
    BY <1>1, GateSpecGInv, PTL

\* A built package answers every format with one version of its template, even
\* if racing approvals left several approved.
THEOREM OneAnswerPerFormat == GateSpec => []PackageAnswersFormats
  <1>1. GInv => PackageAnswersFormats
    <2> SUFFICES ASSUME GInv, NEW k \in Packers, Built(k)
                 PROVE  /\ pack[k].formats # {} /\ Nobody \notin pack[k].formats
                        /\ \A t \in pack[k].formats :
                              Cardinality({a \in pack[k].chosen : template[a] = t}) = 1
      BY DEF PackageAnswersFormats
    <2>1. PackOK(pack[k]) /\ ChosenOK(pack[k]) /\ Chose(pack[k]) /\ Covered(pack[k])
      BY DEF GInv, PackOK, Built, Chose, IsReady
    <2>2. \A a \in pack[k].chosen : template[a] # Nobody
      BY <2>1, NobodyAssumption DEF ChosenOK, Vetted, GInv, RowTemplates
    <2>3. ASSUME NEW t \in pack[k].formats
          PROVE  Cardinality({a \in pack[k].chosen : template[a] = t}) = 1
      <3>1. PICK a \in pack[k].chosen : template[a] = t
        BY <2>1 DEF Covered
      <3>2. {b \in pack[k].chosen : template[b] = t} = {a}
        BY <2>1, <3>1 DEF ChosenOK
      <3> QED
        BY <3>2, FS_Singleton
    <2> QED
      BY <2>1, <2>2, <2>3 DEF Covered
  <1> QED
    BY <1>1, GateSpecGInv, PTL

\* No package is built past a blocking finding that was open throughout.
THEOREM StandingBlockerStops == GateSpec => []NoStandingBlocker
  <1>1. GInv => NoStandingBlocker
    <2> SUFFICES ASSUME GInv, NEW k \in Packers, Built(k) PROVE pack[k].standing = {}
      BY DEF NoStandingBlocker
    <2>1. StandingOK(pack[k]) /\ ~pack[k].blocked /\ pack[k].step = "built"
      BY DEF GInv, PackOK, Built, IsReady
    <2>2. pack[k].standing \subseteq Blockers
      BY <2>1 DEF StandingOK, GInv
    <2> QED
      BY <2>1, <2>2 DEF StandingOK, Blockers
  <1> QED
    BY <1>1, GateSpecGInv, PTL

-----------------------------------------------------------------------------
(* The artifacts beside the gate                                            *)

\* Package requests and findings leave the artifacts alone: what the gate runs beside is
\* a behaviour of PreparedArtifacts.
THEOREM GateKeepsArtifacts == GateSpec => Spec
  <1>1. GateInit => Init
    BY DEF GateInit
  <1>2. [GateNext]_gateVars => [Next]_vars
    BY DEF GateNext, gateVars, ArtifactStep, OpenFinding, CloseFinding, BeginPackage,
           ReadArtifacts, ReadClauseRisks, ReadDrawingFindings, ReadPlanningFindings,
           ReadFindings, RefusePackage, BuildPackage, IssuePackage, Next
  <1> QED
    BY <1>1, <1>2, PTL DEF GateSpec, Spec

\* Beside package requests too, what was released is complete, has its file, and its
\* approvals are audited.
THEOREM ReleasesHoldAtGate ==
    GateSpec => [](ReleasedIsComplete /\ RowHasFile /\ ApprovalsAreAudited)
  BY GateKeepsArtifacts, ReleaseNeedsReview, FileBeforeRow, AuditExplainsApprovals, PTL
=============================================================================
