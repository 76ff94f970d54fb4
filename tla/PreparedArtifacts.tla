-------------------------- MODULE PreparedArtifacts --------------------------
(***************************************************************************)
(* The life of the workbooks a bid prepares from employer templates:       *)
(* services/prepared_artifacts.py behind the routes that call it.  An      *)
(* artifact is created as a Draft version of its template, sent for        *)
(* review, and approved; approving a version supersedes the approved ones. *)
(*                                                                         *)
(* Each HTTP request runs in a thread with its own database session: it    *)
(* loads rows, tests them, and writes everything in one commit.  Between   *)
(* the load and the commit other requests commit: the database is          *)
(* PostgreSQL at READ COMMITTED, no row is locked and no UPDATE repeats    *)
(* the guard.  So a handler is several actions here, one per point where   *)
(* others can interleave, and each request keeps what it read.             *)
(*                                                                         *)
(* An artifact is identified by the uuid in its stored filename.           *)
(***************************************************************************)
EXTENDS Naturals, FiniteSets

CONSTANTS
    Artifacts,      \* uuids a creation may draw
    Templates,      \* employer template documents of the bid
    Managers,       \* users whose role holds PREPARED_ARTIFACT_MANAGE
    Approvers,      \* users whose role holds PREPARED_ARTIFACT_APPROVE
    Workers,        \* request threads
    Nobody          \* NULL in a user column

ASSUME NobodyAssumption == Nobody \notin Artifacts \cup Templates \cup Managers \cup Approvers

VARIABLES
    status,         \* column status of the row of each artifact, or "Absent"
    template,       \* column template_document_id
    version,        \* column version_no
    summary,        \* column generation_summary: is a field left unresolved?
    readyBy,        \* column ready_for_review_by
    approvedBy,     \* column approved_by
    stored,         \* artifacts whose file is in the storage provider
    approvals,      \* prepared_artifact.approved events of the audit table
    req,            \* per worker: the request in flight and what it has read
    \* No columns; they record the past for the properties and guard nothing:
    rivalCreations, \* templates of which two creations were in flight at once
    rivalReviews    \* templates of which two reviews were in flight at once

rowVars == <<status, template, version, summary, readyBy, approvedBy>>
rivals == <<rivalCreations, rivalReviews>>
vars == <<status, template, version, summary, readyBy, approvedBy,
          stored, approvals, req, rivalCreations, rivalReviews>>

Users == Managers \cup Approvers
Statuses == {"Draft", "Ready for Review", "Approved", "Superseded"}
Summaries == {"complete", "unresolved"}
Steps == {"idle", "create.numbered", "create.saved", "ready.loaded",
          "approve.loaded", "approve.selected"}

Request ==
    [step : Steps, user : Users \cup {Nobody}, art : Artifacts \cup {Nobody},
     template : Templates \cup {Nobody}, version : Nat, summary : Summaries,
     seen : Users \cup {Nobody}, previous : SUBSET Artifacts]

Idle == [step |-> "idle", user |-> Nobody, art |-> Nobody, template |-> Nobody,
         version |-> 0, summary |-> "unresolved", seen |-> Nobody, previous |-> {}]

Approval == [art : Artifacts, user : Users, superseded : SUBSET Artifacts]

Rows == {a \in Artifacts : status[a] # "Absent"}
ApprovedOf(t) == {a \in Rows : template[a] = t /\ status[a] = "Approved"}

TypeOK ==
    /\ status \in [Artifacts -> Statuses \cup {"Absent"}]
    /\ template \in [Artifacts -> Templates \cup {Nobody}]
    /\ version \in [Artifacts -> Nat]
    /\ summary \in [Artifacts -> Summaries]
    /\ readyBy \in [Artifacts -> Users \cup {Nobody}]
    /\ approvedBy \in [Artifacts -> Users \cup {Nobody}]
    /\ stored \in SUBSET Artifacts
    /\ approvals \in SUBSET Approval
    /\ req \in [Workers -> Request]
    /\ rivalCreations \in SUBSET Templates
    /\ rivalReviews \in SUBSET Templates

Init ==
    /\ status = [a \in Artifacts |-> "Absent"]
    /\ template = [a \in Artifacts |-> Nobody]
    /\ version = [a \in Artifacts |-> 0]
    /\ summary = [a \in Artifacts |-> "unresolved"]
    /\ readyBy = [a \in Artifacts |-> Nobody]
    /\ approvedBy = [a \in Artifacts |-> Nobody]
    /\ stored = {}
    /\ approvals = {}
    /\ req = [w \in Workers |-> Idle]
    /\ rivalCreations = {}
    /\ rivalReviews = {}

\* What an UPDATE leaves in a column that the session loaded as `loaded` and
\* set to `new`: SQLAlchemy writes a column only when its value changed.
Flushed(current, loaded, new) == IF new = loaded THEN current ELSE new

Creating(w) == req[w].step \in {"create.numbered", "create.saved"}
Reviewing(w) == req[w].step \in {"ready.loaded", "approve.loaded", "approve.selected"}

\* The templates with a creation, or a review, in flight.
InCreation == {req[w].template : w \in {v \in Workers : Creating(v)}}
InReview == {template[req[w].art] : w \in {v \in Workers : Reviewing(v)}}

-----------------------------------------------------------------------------
(* create_prepared_artifact: number the version, save the file, insert.     *)

\* Mutant: versions that were approved do not count for the numbering.
TakenByDrafts(t) ==
    {0} \cup {version[a] : a \in {b \in Rows :
                  template[b] = t /\ status[b] \notin {"Approved", "Superseded"}}}

\* version_no of the rows of a template, and 0 for max() over no row.
Taken(t) == {0} \cup {version[a] : a \in {b \in Rows : template[b] = t}}

BeginCreate(w, u, t, a, c) ==
    /\ req[w].step = "idle"
    /\ a \notin stored
    /\ \A v \in Workers : req[v].art # a
    /\ \E top \in Taken(t) :
         /\ \A n \in Taken(t) : n <= top
         /\ req' = [req EXCEPT ![w] = [Idle EXCEPT
                        !.step = "create.numbered", !.user = u, !.art = a,
                        !.template = t, !.version = top + 1, !.summary = c]]
    /\ rivalCreations' = rivalCreations \cup (InCreation \cap {t})
    /\ UNCHANGED <<rowVars, stored, approvals, rivalReviews>>

\* storage.save runs before the row exists.
SaveFile(w) ==
    /\ req[w].step = "create.numbered"
    /\ stored' = stored \cup {req[w].art}
    /\ req' = [req EXCEPT ![w].step = "create.saved"]
    /\ UNCHANGED <<rowVars, approvals, rivals>>

\* Mutant: the row is inserted before the file is saved.
CommitCreateFirst(w) ==
    LET r == req[w] IN
    /\ r.step = "create.numbered"
    /\ status' = [status EXCEPT ![r.art] = "Draft"]
    /\ template' = [template EXCEPT ![r.art] = r.template]
    /\ version' = [version EXCEPT ![r.art] = r.version]
    /\ summary' = [summary EXCEPT ![r.art] = r.summary]
    /\ req' = [req EXCEPT ![w] = Idle]
    /\ UNCHANGED <<readyBy, approvedBy, stored, approvals, rivals>>

\* No unique constraint covers (template, version_no): the INSERT succeeds.
CommitCreate(w) ==
    LET r == req[w] IN
    /\ r.step = "create.saved"
    /\ status' = [status EXCEPT ![r.art] = "Draft"]
    /\ template' = [template EXCEPT ![r.art] = r.template]
    /\ version' = [version EXCEPT ![r.art] = r.version]
    /\ summary' = [summary EXCEPT ![r.art] = r.summary]
    /\ req' = [req EXCEPT ![w] = Idle]
    /\ UNCHANGED <<readyBy, approvedBy, stored, approvals, rivals>>

-----------------------------------------------------------------------------
(* mark_artifact_ready                                                      *)

\* Mutant: the unresolved fields are not looked at.
BeginReadyUnchecked(w, u, a) ==
    /\ req[w].step = "idle"
    /\ status[a] = "Draft"
    /\ req' = [req EXCEPT ![w] = [Idle EXCEPT
                    !.step = "ready.loaded", !.user = u, !.art = a]]
    /\ rivalReviews' = rivalReviews \cup (InReview \cap {template[a]})
    /\ UNCHANGED <<rowVars, stored, approvals, rivalCreations>>

BeginReady(w, u, a) ==
    /\ req[w].step = "idle"
    /\ status[a] = "Draft"
    /\ summary[a] = "complete"
    /\ req' = [req EXCEPT ![w] = [Idle EXCEPT
                    !.step = "ready.loaded", !.user = u, !.art = a]]
    /\ rivalReviews' = rivalReviews \cup (InReview \cap {template[a]})
    /\ UNCHANGED <<rowVars, stored, approvals, rivalCreations>>

CommitReady(w) ==
    LET r == req[w] IN
    /\ r.step = "ready.loaded"
    /\ status' = [status EXCEPT ![r.art] = "Ready for Review"]
    /\ readyBy' = [readyBy EXCEPT ![r.art] = r.user]
    /\ req' = [req EXCEPT ![w] = Idle]
    /\ UNCHANGED <<template, version, summary, approvedBy, stored, approvals, rivals>>

-----------------------------------------------------------------------------
(* approve_artifact: load the item, select the approved ones, commit.       *)

\* Mutant: the acting user is not handed to the service.
BeginApproveAnonymous(w, u, a) ==
    /\ req[w].step = "idle"
    /\ status[a] = "Ready for Review"
    /\ req' = [req EXCEPT ![w] = [Idle EXCEPT
                    !.step = "approve.loaded", !.art = a, !.seen = approvedBy[a]]]
    /\ rivalReviews' = rivalReviews \cup (InReview \cap {template[a]})
    /\ UNCHANGED <<rowVars, stored, approvals, rivalCreations>>

\* Mutant: a superseded version may be approved again.
BeginApproveAgain(w, u, a) ==
    /\ req[w].step = "idle"
    /\ status[a] \in {"Ready for Review", "Superseded"}
    /\ req' = [req EXCEPT ![w] = [Idle EXCEPT
                    !.step = "approve.loaded", !.user = u, !.art = a,
                    !.seen = approvedBy[a]]]
    /\ rivalReviews' = rivalReviews \cup (InReview \cap {template[a]})
    /\ UNCHANGED <<rowVars, stored, approvals, rivalCreations>>

BeginApprove(w, u, a) ==
    /\ req[w].step = "idle"
    /\ status[a] = "Ready for Review"
    /\ req' = [req EXCEPT ![w] = [Idle EXCEPT
                    !.step = "approve.loaded", !.user = u, !.art = a,
                    !.seen = approvedBy[a]]]
    /\ rivalReviews' = rivalReviews \cup (InReview \cap {template[a]})
    /\ UNCHANGED <<rowVars, stored, approvals, rivalCreations>>

\* Mutant: only lower versions are superseded.
SelectLower(w) ==
    LET a == req[w].art IN
    /\ req[w].step = "approve.loaded"
    /\ req' = [req EXCEPT ![w].step = "approve.selected",
                          ![w].previous = {b \in ApprovedOf(template[a]) :
                                              version[b] < version[a]}]
    /\ UNCHANGED <<rowVars, stored, approvals, rivals>>

SelectPrevious(w) ==
    LET a == req[w].art IN
    /\ req[w].step = "approve.loaded"
    /\ req' = [req EXCEPT ![w].step = "approve.selected",
                          ![w].previous = ApprovedOf(template[a]) \ {a}]
    /\ UNCHANGED <<rowVars, stored, approvals, rivals>>

\* Mutant: the approval event does not list what it superseded.
CommitApproveUnlisted(w) ==
    LET r == req[w] IN
    /\ r.step = "approve.selected"
    /\ status' = [a \in Artifacts |->
                    IF a = r.art THEN "Approved"
                    ELSE IF a \in r.previous THEN "Superseded" ELSE status[a]]
    /\ approvedBy' = [approvedBy EXCEPT ![r.art] = Flushed(@, r.seen, r.user)]
    /\ approvals' = approvals \cup {[art |-> r.art, user |-> r.user, superseded |-> {}]}
    /\ req' = [req EXCEPT ![w] = Idle]
    /\ UNCHANGED <<template, version, summary, readyBy, stored, rivals>>

CommitApprove(w) ==
    LET r == req[w] IN
    /\ r.step = "approve.selected"
    /\ status' = [a \in Artifacts |->
                    IF a = r.art THEN "Approved"
                    ELSE IF a \in r.previous THEN "Superseded" ELSE status[a]]
    /\ approvedBy' = [approvedBy EXCEPT ![r.art] = Flushed(@, r.seen, r.user)]
    /\ approvals' = approvals \cup
          {[art |-> r.art, user |-> r.user, superseded |-> r.previous]}
    /\ req' = [req EXCEPT ![w] = Idle]
    /\ UNCHANGED <<template, version, summary, readyBy, stored, rivals>>

\* The request fails or its process dies: the session rolls back, a saved file
\* stays behind.
Abort(w) ==
    /\ req[w].step # "idle"
    /\ req' = [req EXCEPT ![w] = Idle]
    /\ UNCHANGED <<rowVars, stored, approvals, rivals>>

-----------------------------------------------------------------------------
Create(w) == \E u \in Managers, t \in Templates, a \in Artifacts, c \in Summaries :
                BeginCreate(w, u, t, a, c)
Ready(w) == \E u \in Managers, a \in Artifacts : BeginReady(w, u, a)
Approve(w) == \E u \in Approvers, a \in Artifacts : BeginApprove(w, u, a)

Step(w) ==
    \/ Create(w) \/ SaveFile(w) \/ CommitCreate(w)
    \/ Ready(w) \/ CommitReady(w)
    \/ Approve(w) \/ SelectPrevious(w) \/ CommitApprove(w)
    \/ Abort(w)

Next == \E w \in Workers : Step(w)

Spec == Init /\ [][Next]_vars

-----------------------------------------------------------------------------
(* What holds however requests interleave.                                  *)

Released == {"Ready for Review", "Approved", "Superseded"}

\* An artifact past Draft has nothing unresolved and carries the name of who
\* sent it for review; one that was ever approved has been sent for review.
ReleasedIsComplete ==
    \A a \in Rows :
        status[a] \in Released \/ approvedBy[a] # Nobody
            => summary[a] = "complete" /\ readyBy[a] # Nobody

\* A crash may leave a file without a row, never a row without its file: a
\* download or a submission package finds the content of every row.
RowHasFile == Rows \subseteq stored

\* The audit table accounts for the review columns: a superseded artifact is
\* listed by the approval of another one of its template, and whoever is in
\* approved_by has an approval event for it.
ApprovalsAreAudited ==
    \A a \in Rows :
        /\ status[a] = "Superseded" =>
              \E e \in approvals :
                  a \in e.superseded /\ e.art # a /\ template[e.art] = template[a]
        /\ approvedBy[a] # Nobody =>
              \E e \in approvals : e.art = a /\ e.user = approvedBy[a]
        /\ status[a] = "Approved" => approvedBy[a] # Nobody

-----------------------------------------------------------------------------
(* What overlapping requests cost, and that nothing else does.              *)

\* version_no names one artifact of a template, unless two creations of that
\* template were in flight at once: nothing else makes a number repeat, no
\* crash, no supersession and no review.
UniqueVersions ==
    \A a, b \in Rows :
        template[a] = template[b] /\ version[a] = version[b]
            => a = b \/ template[a] \in rivalCreations

\* The code's promise of one approved version per template.  approve_artifact
\* does not keep it: two approvals that overlap leave two versions Approved.
AtMostOneApproved ==
    \A a, b \in Rows :
        template[a] = template[b] /\ status[a] = "Approved" /\ status[b] = "Approved"
            => a = b

Retired == {a \in Artifacts : status[a] = "Superseded"}

Register == INSTANCE ApprovedVersion WITH
    current <- [t \in Templates |-> ApprovedOf(t)], retired <- Retired,
    contested <- rivalReviews

\* Under every interleaving the approved versions of the templates behave as
\* the register of ApprovedVersion: as long as no two reviews of a template
\* have overlapped, its approved version is replaced in one step and for good;
\* afterwards an approval still takes effect and brings no other version back.
ApprovedVersionSpec == Register!Spec
=============================================================================
