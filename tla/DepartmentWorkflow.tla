-------------------------- MODULE DepartmentWorkflow --------------------------
(***************************************************************************)
(* The work queue of the departments (services/department_workflow.py):    *)
(* what every register still asks somebody to do, whose it is, how urgent  *)
(* it is today, and how far each function has come; the actions that the   *)
(* readiness of the estimate asks for (services/estimation_readiness.py);  *)
(* with the routes that give an item a person and the items without a      *)
(* function one.                                                           *)
(*                                                                         *)
(* A work item is a row of a register as the queue sees it.  The texts,    *)
(* the filters, the scores and the sort order are left out, and so is the  *)
(* cut of the action plan after its twelfth row.                           *)
(***************************************************************************)
EXTENDS Integers, FiniteSets

CONSTANTS
    WorkItems,      \* ids of rows in the registers, positive numbers
    WorkRows,       \* what the requests of the registers may make of a row
    People,         \* active members of the bid
    MaxDay          \* bound: days that pass

VARIABLES
    work,           \* the rows: id -> WorkRow
    today

workTables == <<work, today>>

Nobody == "nobody"
NoDay == -1

Dated == {"Requirement", "Missing Input", "Pre-Bid Query"}
WorkKinds == Dated \cup {"Clause Risk", "Planning Package", "Drawing BOQ", "Schedule Scope"}

\* The statuses a register gives a row.
Statuses ==
    [k \in WorkKinds |->
        CASE k = "Requirement" ->
                {"Open", "In Progress", "Ready for Review", "Closed", "Not Applicable"}
          [] k = "Missing Input" ->
                {"Open", "Requested", "In Progress", "Received", "Resolved", "Not Applicable"}
          [] k = "Pre-Bid Query" ->
                {"Draft", "Ready for Review", "Approved", "Submitted", "Responded", "Closed",
                 "Withdrawn"}
          [] k = "Clause Risk"      -> {"Open", "Closed"}
          [] k = "Planning Package" -> {"Open", "Closed", "Cleared by Re-analysis"}
          [] k = "Drawing BOQ"      -> {"Open", "Closed", "Informational"}
          [] k = "Schedule Scope"   -> {"Blocking", "Covered"}]

\* `status` is the one the register closes an item with; a requirement is also reviewed
\* and assessed, and a group of schedule scope is mandatory when it can block.  `owner`
\* is the function stored, `suggested` the one its words suggest, `described` the one
\* its description alone suggests, `about` the requirement or missing input the row
\* refers to (0: none).
WorkRow ==
    [kind : WorkKinds, status : STRING, assessed : BOOLEAN,
     reviewed : {"Not Reviewed", "Reviewed", "Needs Clarification"},
     priority : {"Critical", "High", "Medium", "Low"}, owner : STRING, suggested : STRING,
     described : STRING, person : People \cup {Nobody}, due : Int, about : Nat]

\* A finding keeps the function of its register.
WellFormed(r) == r.status \in Statuses[r.kind] /\ (r.kind \notin Dated => r.owner = Nobody)

ASSUME RowsAssumption == WorkRows \subseteq {r \in WorkRow : WellFormed(r)}

WorkInit == work = <<>> /\ today = 0

-----------------------------------------------------------------------------
\* What a row asks.

\* Statuses that take a row off the queue.
Ended ==
    [k \in WorkKinds |->
        CASE k = "Requirement"      -> {"Closed", "Not Applicable"}
          [] k = "Missing Input"    -> {"Resolved", "Not Applicable"}
          [] k = "Pre-Bid Query"    -> {"Closed", "Withdrawn", "Responded"}
          [] k = "Clause Risk"      -> {"Closed"}
          [] k = "Planning Package" -> {"Closed", "Cleared by Re-analysis"}
          [] k = "Drawing BOQ"      -> {"Closed", "Informational"}
          [] k = "Schedule Scope"   -> {"Covered"}]

Queued(r) ==
    /\ r.status \notin Ended[r.kind]
    /\ r.kind = "Requirement" => r.reviewed # "Reviewed" \/ ~r.assessed
    /\ r.kind = "Clause Risk" => r.priority \in {"Critical", "High"}

\* The function whose queue shows a row.
OwnerOf(r) ==
    IF r.owner # Nobody THEN r.owner
    ELSE CASE r.kind \in Dated         -> r.suggested
           [] r.kind = "Clause Risk"   -> "Contracts"
           [] r.kind = "Drawing BOQ"   -> "Engineering"
           [] r.kind \in {"Planning Package", "Schedule Scope"} -> "Planning"

\* The function whose progress counts a row.
CountedFor(r) ==
    CASE r.kind \in Dated       -> OwnerOf(r)
      [] r.kind = "Clause Risk" -> "Contracts"
      [] r.kind = "Drawing BOQ" -> "Engineering"
      [] r.kind \in {"Planning Package", "Schedule Scope"} -> "Planning"

\* Mutant: the progress waits for an answered query to be closed.
CompletedWhenClosed(r) ==
    CASE r.kind = "Requirement" ->
            \/ r.status \in {"Closed", "Not Applicable"}
            \/ r.reviewed = "Reviewed" /\ r.assessed
      [] r.kind = "Missing Input"    -> r.status \in {"Resolved", "Not Applicable"}
      [] r.kind = "Pre-Bid Query"    -> r.status \in {"Closed", "Withdrawn"}
      [] r.kind = "Clause Risk"      -> r.status = "Closed"
      [] r.kind \in {"Planning Package", "Drawing BOQ"} -> r.status # "Open"
      [] r.kind = "Schedule Scope"   -> r.status # "Blocking"

\* What the progress counts as completed.
Completed(r) ==
    CASE r.kind = "Requirement" ->
            \/ r.status \in {"Closed", "Not Applicable"}
            \/ r.reviewed = "Reviewed" /\ r.assessed
      [] r.kind = "Missing Input"    -> r.status \in {"Resolved", "Not Applicable"}
      [] r.kind = "Pre-Bid Query"    -> r.status \in {"Responded", "Closed", "Withdrawn"}
      [] r.kind = "Clause Risk"      -> r.status = "Closed"
      [] r.kind \in {"Planning Package", "Drawing BOQ"} -> r.status # "Open"
      [] r.kind = "Schedule Scope"   -> r.status # "Blocking"

\* A query is late only while the employer has it.
Overdue(r, day) ==
    r.due # NoDay /\ r.due < day /\ (r.kind = "Pre-Bid Query" => r.status = "Submitted")

\* Mutant: what is due today is not due soon.
DueSoonAfterToday(r, day) == r.due \in day + 1 .. day + 3

DueSoon(r, day) == r.due \in day .. day + 3

\* Mutant: what has a person is never red.
EscalationUnassigned(r, day) ==
    LET unassigned == r.person = Nobody
    IN  IF unassigned /\ (Overdue(r, day) \/ r.priority = "Critical") THEN 2
        ELSE IF DueSoon(r, day) \/ (unassigned /\ r.priority \in {"Critical", "High"}) THEN 1
        ELSE 0

\* 2: Red, 1: Amber, 0: None.
Escalation(r, day) ==
    LET unassigned == r.person = Nobody
    IN  IF Overdue(r, day) \/ (unassigned /\ r.priority = "Critical") THEN 2
        ELSE IF DueSoon(r, day) \/ (unassigned /\ r.priority \in {"Critical", "High"}) THEN 1
        ELSE 0

Queue(f) == {i \in DOMAIN work : Queued(work[i]) /\ OwnerOf(work[i]) = f}
Remaining(f) == {i \in DOMAIN work : CountedFor(work[i]) = f /\ ~Completed(work[i])}

\* The estimate waits for missing inputs, for requirements to be reviewed and assessed,
\* and for a missing input where a reviewer asked for clarification and none is open.
OpenRequirements ==
    {i \in DOMAIN work :
        work[i].kind = "Requirement" /\ work[i].status \notin {"Closed", "Not Applicable"}}

OpenGaps ==
    {i \in DOMAIN work :
        work[i].kind = "Missing Input" /\ work[i].status \notin {"Resolved", "Not Applicable"}}

CandidateGaps ==
    {i \in OpenRequirements :
        work[i].reviewed = "Needs Clarification" /\ \A g \in OpenGaps : work[g].about # i}

ActionPlan ==
    OpenGaps \cup CandidateGaps
    \cup {i \in OpenRequirements : work[i].reviewed = "Not Reviewed" \/ ~work[i].assessed}

-----------------------------------------------------------------------------
\* The requests of the registers write rows (see Registers and ScheduleScope), a row
\* keeping its kind, its words and what it refers to.
WriteRow(i, r) ==
    /\ r.about # 0 =>
          /\ r.about \in DOMAIN work \ {i}
          /\ work[r.about].kind \in IF r.kind = "Pre-Bid Query" THEN {"Requirement", "Missing Input"}
                                   ELSE {"Requirement"}
    /\ i \in DOMAIN work =>
          \A column \in {"kind", "suggested", "described", "about"} : r[column] = work[i][column]
    /\ work' = [j \in DOMAIN work \cup {i} |-> IF j = i THEN r ELSE work[j]]
    /\ UNCHANGED today

\* assign_work_item_person: an active member, or nobody.
AssignPerson(i, person) ==
    /\ person \in People \cup {Nobody}
    /\ work' = [work EXCEPT ![i].person = person]
    /\ UNCHANGED today

\* auto_assign_owners goes through requirements, missing inputs and queries in turn: who
\* has no function takes that of what it refers to, or the one its words suggest.
RequirementOwner(r) == IF r.owner # Nobody THEN r.owner ELSE r.suggested

InputOwner(r) ==
    IF r.owner # Nobody THEN r.owner
    ELSE IF r.about = 0 THEN r.described ELSE RequirementOwner(work[r.about])

QueryOwner(r) ==
    IF r.owner # Nobody \/ r.about = 0 THEN RequirementOwner(r)
    ELSE IF work[r.about].kind = "Requirement" THEN RequirementOwner(work[r.about])
    ELSE InputOwner(work[r.about])

AutoAssign ==
    /\ work' = [i \in DOMAIN work |->
                  [work[i] EXCEPT !.owner =
                      CASE work[i].kind = "Requirement"   -> RequirementOwner(work[i])
                        [] work[i].kind = "Missing Input" -> InputOwner(work[i])
                        [] work[i].kind = "Pre-Bid Query" -> QueryOwner(work[i])
                        [] work[i].kind \notin Dated      -> @]]
    /\ UNCHANGED today

NextDay ==
    /\ today < MaxDay
    /\ today' = today + 1
    /\ UNCHANGED work

WorkNext ==
    \/ \E i \in WorkItems, r \in WorkRows : WriteRow(i, r)
    \/ \E i \in DOMAIN work, person \in People \cup {Nobody} : AssignPerson(i, person)
    \/ AutoAssign
    \/ NextDay

WorkSpec == WorkInit /\ [][WorkNext]_workTables /\ WF_workTables(NextDay)

-----------------------------------------------------------------------------
\* What a function has left by its progress is what its queue shows, but for open risks
\* of lower severity.
ProgressAgrees ==
    \A f \in {OwnerOf(work[i]) : i \in DOMAIN work} \cup {CountedFor(work[i]) : i \in DOMAIN work} :
        Remaining(f) =
            Queue(f) \cup {i \in DOMAIN work :
                              /\ work[i].kind = "Clause Risk" /\ f = "Contracts"
                              /\ work[i].status # "Closed" /\ work[i].priority \in {"Medium", "Low"}}

\* The estimate asks for nothing the queue does not show, and leaves out only requirements
\* that wait for a missing input it asks for.
ActionPlanAgrees ==
    LET queued == {i \in DOMAIN work :
                      work[i].kind \in {"Requirement", "Missing Input"} /\ Queued(work[i])}
    IN  /\ ActionPlan \subseteq queued
        /\ \A i \in queued \ ActionPlan : \E g \in OpenGaps : work[g].about = i

\* Three views of the open work, the queue, the progress and the action plan, are computed
\* from the registers with conditions written three times; a row that one of them loses
\* would be done by nobody.
ViewsAgree == ProgressAgrees /\ ActionPlanAgrees

\* Whether the passing of its date is held against a row.
Counts(r) == Queued(r) /\ (r.kind = "Pre-Bid Query" => r.status = "Submitted")

\* A day that passes escalates no queued row less than the day before.  (A query that
\* was not submitted yet loses its escalation with its date.)
DeadlinesEscalate ==
    [][today' # today =>
          \A i \in DOMAIN work :
              Counts(work[i]) => Escalation(work'[i], today') >= Escalation(work[i], today)]_workTables

\* A queued row with a date is red in the end, whoever is responsible, unless somebody
\* deals with it or moves the date first.
OverdueIsSeen ==
    \A i \in WorkItems : \A d \in {r.due : r \in WorkRows} \ {NoDay} :
        LET waits == i \in DOMAIN work /\ Counts(work[i]) /\ work[i].due = d
        IN  waits ~> (waits => Escalation(work[i], today) = 2)
=============================================================================
