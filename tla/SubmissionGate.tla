---------------------------- MODULE SubmissionGate ----------------------------
(***************************************************************************)
(* The submission package of a bid: services/submission_readiness.py.      *)
(*                                                                         *)
(* A request for the package reads, in separate statements, the formats    *)
(* the tender prescribes, the prepared artifacts, and the open findings of *)
(* three tables; when nothing blocks it zips the approved artifacts.       *)
(* Requests on artifacts, findings, requirements and documents commit      *)
(* between those statements: this module puts the package requests beside  *)
(* PreparedArtifacts.  The rows of the finding tables are reduced to       *)
(* whether they are open; their own life is not modelled here.             *)
(***************************************************************************)
EXTENDS PreparedArtifacts

CONSTANTS
    Packers,        \* threads that serve package requests
    ClauseRisks,    \* clause risk findings of severity Critical
    DrawingFindings,    \* drawing findings of a blocking finding_status
    PlanningFindings    \* planning findings of severity High

Blockers == ClauseRisks \cup DrawingFindings \cup PlanningFindings

VARIABLES
    open,           \* the blocking findings that are open
    pack            \* per packer: the request in flight and what it has read

gateVars == <<vars, open, pack>>

PackSteps == {"idle", "formats", "artifacts", "risks", "drawings", "checked", "built"}

\* `standing` is no variable of the code: the findings that have been open ever
\* since the request began.
PackRequest ==
    [step : PackSteps, formats : SUBSET (Templates \cup {Nobody}),
     chosen : SUBSET Artifacts, blocked : BOOLEAN, standing : SUBSET Blockers]

IdlePack == [step |-> "idle", formats |-> {}, chosen |-> {}, blocked |-> FALSE,
             standing |-> {}]

GateTypeOK ==
    /\ TypeOK
    /\ open \in SUBSET Blockers
    /\ pack \in [Packers -> PackRequest]

GateInit ==
    /\ Init
    /\ open = {}
    /\ pack = [k \in Packers |-> IdlePack]

-----------------------------------------------------------------------------
(* The other handlers, as far as the gate sees them.                        *)

ArtifactStep == \E w \in Workers : Step(w) /\ UNCHANGED <<open, pack>>

\* A scan, verification or analysis inserts or reopens a finding.
OpenFinding(b) ==
    /\ b \notin open
    /\ open' = open \cup {b}
    /\ UNCHANGED <<vars, pack>>

\* A review closes it, or a new analysis no longer finds it.
CloseFinding(b) ==
    /\ b \in open
    /\ open' = open \ {b}
    /\ pack' = [k \in Packers |-> [pack[k] EXCEPT !.standing = @ \ {b}]]
    /\ UNCHANGED vars

-----------------------------------------------------------------------------
(* submission_readiness and build_submission_package                        *)

\* detect_submission_formats gives, for each detected format, its template
\* document or none: whatever requirements and documents yield at that moment.
DetectedFormats == SUBSET (Templates \cup {Nobody})

BeginPackage(k, fs) ==
    /\ pack[k].step = "idle"
    /\ pack' = [pack EXCEPT ![k] = [IdlePack EXCEPT
                    !.step = "formats", !.formats = fs, !.standing = open]]
    /\ UNCHANGED <<vars, open>>

\* Mutant: the newest version of each template, whatever its status.
IsNewestByTemplate(C) ==
    /\ C \subseteq Rows
    /\ \A a \in Rows : \E c \in C : template[c] = template[a] /\ version[c] >= version[a]
    /\ \A a, b \in C : template[a] = template[b] => a = b

\* Mutant: every approved version is taken.
IsEveryApproved(C) == C = {a \in Rows : status[a] = "Approved"}

\* approved_by_template.setdefault over the rows by descending version: one
\* approved artifact per template, of the highest version; among equal versions
\* the order of the rows is not determined.
IsApprovedByTemplate(C) ==
    LET approved == {a \in Rows : status[a] = "Approved"}
    IN  /\ C \subseteq approved
        /\ \A a \in approved : \E c \in C : template[c] = template[a] /\ version[c] >= version[a]
        /\ \A a, b \in C : template[a] = template[b] => a = b

ReadArtifacts(k) ==
    /\ pack[k].step = "formats"
    /\ \E C \in SUBSET Rows :
         /\ IsApprovedByTemplate(C)
         /\ pack' = [pack EXCEPT ![k].step = "artifacts", ![k].chosen = C]
    /\ UNCHANGED <<vars, open>>

\* Mutant: a later table overwrites what an earlier one found.
ReadFindingsAfresh(k, from, to, table) ==
    /\ pack[k].step = from
    /\ pack' = [pack EXCEPT ![k].step = to, ![k].blocked = table \cap open # {}]
    /\ UNCHANGED <<vars, open>>

\* The three SELECTs on findings, in the order of the code.
ReadFindings(k, from, to, table) ==
    /\ pack[k].step = from
    /\ pack' = [pack EXCEPT ![k].step = to, ![k].blocked = @ \/ table \cap open # {}]
    /\ UNCHANGED <<vars, open>>

ReadClauseRisks(k) == ReadFindings(k, "artifacts", "risks", ClauseRisks)
ReadDrawingFindings(k) == ReadFindings(k, "risks", "drawings", DrawingFindings)
ReadPlanningFindings(k) == ReadFindings(k, "drawings", "checked", PlanningFindings)

\* Every detected format has its template and an approved artifact of it.
Covered(r) ==
    /\ r.formats # {}
    /\ \A t \in r.formats : \E a \in r.chosen : template[a] = t

IsReady(r) == Covered(r) /\ ~r.blocked

\* Readiness fails: 422.
RefusePackage(k) ==
    /\ pack[k].step = "checked"
    /\ ~IsReady(pack[k])
    /\ pack' = [pack EXCEPT ![k] = IdlePack]
    /\ UNCHANGED <<vars, open>>

\* The second SELECT is by id: a row that a racing approval superseded since is
\* packed all the same.  The file of each row is read.
BuildPackage(k) ==
    /\ pack[k].step = "checked"
    /\ IsReady(pack[k])
    /\ pack[k].chosen \subseteq stored
    /\ pack' = [pack EXCEPT ![k].step = "built"]
    /\ UNCHANGED <<vars, open>>

\* The audit event is committed and the archive returned.
IssuePackage(k) ==
    /\ pack[k].step = "built"
    /\ pack' = [pack EXCEPT ![k] = IdlePack]
    /\ UNCHANGED <<vars, open>>

GateNext ==
    \/ ArtifactStep
    \/ \E b \in Blockers : OpenFinding(b) \/ CloseFinding(b)
    \/ \E k \in Packers :
         \/ \E fs \in DetectedFormats : BeginPackage(k, fs)
         \/ ReadArtifacts(k) \/ ReadClauseRisks(k) \/ ReadDrawingFindings(k)
         \/ ReadPlanningFindings(k)
         \/ RefusePackage(k) \/ BuildPackage(k) \/ IssuePackage(k)

GateSpec == GateInit /\ [][GateNext]_gateVars

-----------------------------------------------------------------------------
Built(k) == pack[k].step = "built"

\* Whatever races with the request, each artifact in a built package has
\* nothing unresolved, was sent for review and approved by somebody.
PackageIsVetted ==
    \A k \in Packers : Built(k) =>
        \A a \in pack[k].chosen :
            /\ a \in Rows /\ summary[a] = "complete"
            /\ readyBy[a] # Nobody /\ approvedBy[a] # Nobody

\* A built package answers each format the request read with one version of
\* its template, also when racing approvals left several versions Approved.
PackageAnswersFormats ==
    \A k \in Packers : Built(k) =>
        /\ pack[k].formats # {} /\ Nobody \notin pack[k].formats
        /\ \A t \in pack[k].formats :
              Cardinality({a \in pack[k].chosen : template[a] = t}) = 1

\* A blocking finding that is open for the whole request stops the package.
NoStandingBlocker == \A k \in Packers : Built(k) => pack[k].standing = {}
=============================================================================
