---------------------------- MODULE Requirements ----------------------------
(***************************************************************************)
(* Requirements of a bid and the inputs it misses: services/requirements.py,*)
(* services/missing_inputs.py, extract_requirements_from_document and the  *)
(* automatic assignment of owners in api/routes.py.  Users create and edit *)
(* rows; an extraction inserts the candidates it finds in a document that  *)
(* are not requirements of it yet; the assignment gives every row without  *)
(* a responsible function a suggested one.                                 *)
(*                                                                         *)
(* A candidate stands for its normalised text, page, clause and document;  *)
(* Reworded for any that the extraction does not find.  A row is named by  *)
(* what it was created as and a copy number.  Owners are the responsible   *)
(* functions; the one the rules suggest is "suggested".                    *)
(***************************************************************************)
EXTENDS Session, FiniteSets

CONSTANTS
    Candidates,     \* what an extraction finds in the document
    Reworded,       \* a text, page, clause or document that is no candidate's
    Owners,         \* responsible functions a user may give
    PendingReviews, \* review statuses Not Reviewed, Needs Clarification
    OpenStatuses, Resolved,     \* OPEN_STATUSES, RESOLVED_STATUSES of missing inputs
    EditedBeside,   \* bound: columns an edit changes that starts beside another request
    MaxRequirementRows         \* bound: rows of the two tables

ASSUME RequirementAssumption ==
    /\ Reworded \notin Candidates /\ Nobody \notin Owners /\ "suggested" \notin Owners
    /\ "Not Reviewed" \in PendingReviews /\ "Reviewed" \notin PendingReviews
    /\ "Open" \in OpenStatuses /\ OpenStatuses \cap Resolved = {} /\ MaxRequirementRows \in Nat
    /\ IsFiniteSet(Candidates) /\ Candidates \cap (PendingReviews \cup {"Reviewed"}) = {}

VARIABLES
    requirement,    \* bid_requirements: <<created as, copy>> -> row
    input,          \* bid_missing_inputs: <<"input", copy>> -> row
    retyped         \* history: the extracted requirements whose text an edit changed

requirementTables == <<requirement, input, retyped>>
requirementVars == <<requirementTables, session>>

ReviewStatuses == {"Reviewed"} \cup PendingReviews
InputStatuses == OpenStatuses \cup Resolved

\* What a requirement is created as: a candidate, or by a user in a review status.
Origins == Candidates \cup ReviewStatuses
Texts == Candidates \cup {Reworded}
RequirementRow ==
    [text : Texts, review : ReviewStatuses,
     reviewedBy : Reviewers \cup {Nobody}, owner : Owners \cup {"suggested", Nobody}]
InputRow ==
    [status : InputStatuses, resolvedBy : Reviewers \cup {Nobody},
     owner : Owners \cup {"suggested", Nobody}, of : (Origins \X Nat) \cup {Nobody}]

RequirementsTypeOK ==
    /\ DOMAIN requirement \subseteq Origins \X (1..MaxRequirementRows)
    /\ DOMAIN input \subseteq {"input"} \X (1..MaxRequirementRows)
    /\ \A x \in DOMAIN requirement : requirement[x] \in RequirementRow
    /\ \A i \in DOMAIN input : input[i] \in InputRow
    /\ retyped \subseteq DOMAIN requirement

RequirementsInit == requirement = <<>> /\ input = <<>> /\ retyped = {}

RequirementRoom(n) == Cardinality(DOMAIN requirement) + Cardinality(DOMAIN input) + n <= MaxRequirementRows

NextOf(table, o) == <<o, 1 + Cardinality({x \in DOMAIN table : x[1] = o})>>

Inserted(table, rows) ==
    [x \in DOMAIN table \cup DOMAIN rows |-> IF x \in DOMAIN rows THEN rows[x] ELSE table[x]]

-----------------------------------------------------------------------------
(* extract_requirements_from_document                                       *)

Extracted(c) ==
    [text |-> c, review |-> "Not Reviewed", reviewedBy |-> Nobody, owner |-> "suggested"]

\* Mutant: reviewed requirements are not looked up.
KnownUnreviewed ==
    {requirement[x].text : x \in {y \in DOMAIN requirement : requirement[y].review # "Reviewed"}}

KnownTexts == {requirement[x].text : x \in DOMAIN requirement}

BeginExtract(w) ==
    /\ Take(w, [op |-> "extract", new |-> Candidates \ KnownTexts,
                reads |-> {<<c>> : c \in Candidates}, stale |-> {}])
    /\ UNCHANGED requirementTables

CommitExtract(w) ==
    LET r == req[w]
        rows == [x \in {NextOf(requirement, c) : c \in r.new} |-> Extracted(x[1])]
    IN
    /\ r.op = "extract"
    /\ RequirementRoom(Cardinality(r.new))
    /\ requirement' = Inserted(requirement, rows)
    /\ Commit(w, {<<c>> : c \in r.new}, {<<c>> : c \in r.new}, Idle)
    /\ UNCHANGED <<input, retyped>>

-----------------------------------------------------------------------------
(* create_requirement, update_requirement                                   *)

\* A requirement created as Reviewed names no reviewer.
CreateRequirement(status, o, t) ==
    /\ RequirementRoom(1)
    /\ requirement' = Inserted(requirement,
          [x \in {NextOf(requirement, status)} |->
              [text |-> t, review |-> status, reviewedBy |-> Nobody, owner |-> o]])
    /\ UNCHANGED <<input, retyped, session>>

\* Mutant: the reviewer stays when a review is withdrawn.
ReviewedKeeping(row, status, u) ==
    [row EXCEPT !.review = status, !.reviewedBy = IF status = "Reviewed" THEN u ELSE @]

ReviewedAs(row, status, u) ==
    [row EXCEPT !.review = status, !.reviewedBy = IF status = "Reviewed" THEN u ELSE Nobody]

\* The fields of an update that are modelled: the text, the review or the owner.
Edits(row, u) ==
    {[row EXCEPT !.text = t] : t \in Texts}
    \cup {ReviewedAs(row, status, u) : status \in ReviewStatuses}
    \cup {[row EXCEPT !.owner = o] : o \in Owners \cup {Nobody}}

\* The tables remember nothing of an edit that changes nothing.
Edit(loaded, new) ==
    /\ new # loaded
    /\ (\E v \in Workers : req[v] # Idle) => DOMAIN Changes(loaded, new) \subseteq EditedBeside

BeginEdit(w, x, new) ==
    /\ Edit(requirement[x], new)
    /\ Take(w, [op |-> "edit", row |-> x, changes |-> Changes(requirement[x], new),
                reads |-> {x}, stale |-> {}])
    /\ UNCHANGED requirementTables

CommitEdit(w) ==
    LET r == req[w] IN
    /\ r.op = "edit"
    /\ requirement' = [requirement EXCEPT ![r.row] = Written(@, r.changes)]
    /\ retyped' = retyped \cup {x \in {r.row} : x[1] \in Candidates /\ "text" \in DOMAIN r.changes}
    /\ Commit(w, {r.row}, {r.row}, Idle)
    /\ UNCHANGED input

-----------------------------------------------------------------------------
(* create_missing_input, update_missing_input                               *)

WithStatus(row, status, u) ==
    [row EXCEPT !.status = status, !.resolvedBy = IF status \in Resolved THEN u ELSE Nobody]

\* It is linked to a requirement of the bid or to none; an owner is suggested
\* when the user gives none.
CreateInput(u, status, o, x) ==
    /\ RequirementRoom(1)
    /\ input' = Inserted(input,
          [i \in {NextOf(input, "input")} |->
              WithStatus([status |-> "Open", resolvedBy |-> Nobody, of |-> x,
                          owner |-> IF o = Nobody THEN "suggested" ELSE o], status, u)])
    /\ UNCHANGED <<requirement, retyped, session>>

InputEdits(row, u) ==
    {WithStatus(row, status, u) : status \in InputStatuses}
    \cup {[row EXCEPT !.owner = o] : o \in Owners \cup {Nobody}}

BeginEditInput(w, i, new) ==
    /\ Edit(input[i], new)
    /\ Take(w, [op |-> "edit input", row |-> i, changes |-> Changes(input[i], new),
                reads |-> {i}, stale |-> {}])
    /\ UNCHANGED requirementTables

CommitEditInput(w) ==
    LET r == req[w] IN
    /\ r.op = "edit input"
    /\ input' = [input EXCEPT ![r.row] = Written(@, r.changes)]
    /\ Commit(w, {r.row}, {r.row}, Idle)
    /\ UNCHANGED <<requirement, retyped>>

-----------------------------------------------------------------------------
(* auto_assign_owners                                                       *)

\* Mutant: every row is assigned.
AssignedAlways(row) == "suggested"

Assigned(row) == IF row.owner = Nobody THEN "suggested" ELSE row.owner

\* An input takes the owner its requirement has by now.
AssignedInput(row) ==
    IF row.owner = Nobody /\ row.of # Nobody THEN Assigned(requirement[row.of]) ELSE Assigned(row)

\* The session loads the rows and gives an owner to those that have none.
BeginAssign(w) ==
    LET owner == [x \in {y \in DOMAIN requirement : Assigned(requirement[y]) # requirement[y].owner}
                     |-> Assigned(requirement[x])]
        inputOwner == [i \in {j \in DOMAIN input : AssignedInput(input[j]) # input[j].owner}
                          |-> AssignedInput(input[i])]
    IN
    /\ Take(w, [op |-> "assign", owner |-> owner, inputOwner |-> inputOwner,
                reads |-> DOMAIN owner \cup DOMAIN inputOwner, stale |-> {}])
    /\ UNCHANGED requirementTables

\* They are written over whatever the rows say by then.
WithOwners(table, owner) ==
    [x \in DOMAIN table |->
        IF x \in DOMAIN owner THEN [table[x] EXCEPT !.owner = owner[x]] ELSE table[x]]

CommitAssign(w) ==
    LET r == req[w] IN
    /\ r.op = "assign"
    /\ requirement' = WithOwners(requirement, r.owner)
    /\ input' = WithOwners(input, r.inputOwner)
    /\ Commit(w, DOMAIN r.owner \cup DOMAIN r.inputOwner, DOMAIN r.owner \cup DOMAIN r.inputOwner, Idle)
    /\ UNCHANGED retyped

RequirementsNext ==
    \/ \E status \in ReviewStatuses, o \in Owners \cup {Nobody}, t \in Texts :
          CreateRequirement(status, o, t)
    \/ \E u \in Reviewers, status \in InputStatuses, o \in Owners \cup {Nobody},
          x \in DOMAIN requirement \cup {Nobody} : CreateInput(u, status, o, x)
    \/ \E w \in Workers :
        \/ BeginExtract(w) \/ CommitExtract(w)
        \/ \E u \in Reviewers, x \in DOMAIN requirement :
              \E new \in Edits(requirement[x], u) : BeginEdit(w, x, new)
        \/ CommitEdit(w)
        \/ \E u \in Reviewers, i \in DOMAIN input :
              \E new \in InputEdits(input[i], u) : BeginEditInput(w, i, new)
        \/ CommitEditInput(w)
        \/ BeginAssign(w) \/ CommitAssign(w)
        \/ Die(w) /\ UNCHANGED requirementTables

RequirementsSpec == RequirementsInit /\ SessionInit /\ [][RequirementsNext]_requirementVars

-----------------------------------------------------------------------------
\* While the requirement extracted for a candidate stands as it was extracted,
\* whatever is edited, reviewed and created beside it, the candidate is not extracted
\* again, unless two extractions overlapped.  Rewording the requirement loses it:
\* then the candidate is new, also when the text is restored later.
ExtractedOnce ==
    \A x, y \in DOMAIN requirement :
        /\ x[1] = y[1] /\ x[1] \in Candidates /\ x[2] < y[2]
        /\ x \notin retyped
        => <<x[1]>> \in raced

\* A review and a resolution name who decided, and nothing else does, unless two
\* requests wrote the row at a time.  The exception is a requirement created as
\* Reviewed, whose reviewer nobody recorded.
VerdictsAreAttributed ==
    /\ \A x \in DOMAIN requirement \ raced :
        /\ requirement[x].review = "Reviewed" =>
              requirement[x].reviewedBy # Nobody \/ x[1] = "Reviewed"
        /\ requirement[x].review # "Reviewed" => requirement[x].reviewedBy = Nobody
    /\ \A i \in DOMAIN input \ raced :
        (input[i].status \in Resolved) <=> (input[i].resolvedBy # Nobody)

\* The assignment never takes a row from the owner a user gave it, unless the user
\* did so while the assignment was under way.
OwnerIsKept ==
    [][\A w \in Workers :
          req[w].op = "assign" /\ req'[w] = Idle =>
              /\ \A x \in DOMAIN requirement \ req[w].stale :
                    requirement[x].owner # Nobody => requirement'[x].owner = requirement[x].owner
              /\ \A i \in DOMAIN input \ req[w].stale :
                    input[i].owner # Nobody => input'[i].owner = input[i].owner]_requirementVars
=============================================================================
