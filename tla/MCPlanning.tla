------------------------------ MODULE MCPlanning ------------------------------
(* The three desks that say what is left to plan and to do, for TLC: the     *)
(* analysis of a schedule, the readiness of the planning, the work queue.    *)
(* They share no state here, so a behaviour is one of one desk.              *)
EXTENDS MCSchedule, MCPlanningDesk, DepartmentWorkflow

VARIABLE desk       \* the desk of this behaviour

\* Two activities, and one after them that is never listed.
RowsOfTwo == [a \in {a1, a2} |-> Representatives]

LinksOfTwo ==
    {[pred |-> l[1], succ |-> l[2], lag |-> l[3]] :
        l \in {<<a1, a2, FALSE>>, <<a1, a2, TRUE>>, <<a2, end, FALSE>>}}

\* A requirement, a missing input and a query that refer to it, and one of each kind of
\* finding; in the statuses the rules tell apart.
ToReview ==
    [kind |-> "Requirement", status |-> "Open", reviewed |-> "Not Reviewed", assessed |-> FALSE,
     priority |-> "Medium", owner |-> Nobody, suggested |-> "Planning", described |-> "Planning",
     person |-> Nobody, due |-> 1, about |-> 0]

ToGet ==
    [ToReview EXCEPT !.kind = "Missing Input", !.priority = "Critical", !.described = "Other",
                     !.about = 1, !.due = 4]

ToAsk == [ToReview EXCEPT !.kind = "Pre-Bid Query", !.status = "Draft", !.priority = "High",
                          !.about = 1]

Finding(kind) == [ToReview EXCEPT !.kind = kind, !.priority = "High", !.due = NoDay]

TheWorkRows ==
    {ToReview, [ToReview EXCEPT !.reviewed = "Reviewed"], [ToReview EXCEPT !.status = "Closed"],
     [ToReview EXCEPT !.reviewed = "Needs Clarification", !.assessed = TRUE],
     [ToReview EXCEPT !.reviewed = "Reviewed", !.assessed = TRUE, !.owner = "Design"],
     ToGet, [ToGet EXCEPT !.status = "Resolved"],
     ToAsk, [ToAsk EXCEPT !.status = "Submitted"], [ToAsk EXCEPT !.status = "Responded"],
     [Finding("Clause Risk") EXCEPT !.priority = "Low"],
     [Finding("Drawing BOQ") EXCEPT !.status = "Informational"],
     [Finding("Planning Package") EXCEPT !.status = "Cleared by Re-analysis"],
     [Finding("Schedule Scope") EXCEPT !.status = "Covered"],
     [Finding("Schedule Scope") EXCEPT !.status = "Blocking"]}
    \cup {Finding(kind) : kind \in {"Clause Risk", "Drawing BOQ", "Planning Package"}}

-----------------------------------------------------------------------------
Init ==
    /\ desk \in {"schedule", "package", "workflow"}
    /\ ScheduleInit /\ PlanningInit /\ WorkInit
    /\ desk # "schedule" => file.kind = "binary"

ScheduleStep == desk = "schedule" /\ ScheduleNext /\ UNCHANGED <<desk, planningTables, workTables>>
PackageStep ==
    desk = "package" /\ PlanningNext /\ Bounded' /\ UNCHANGED <<desk, file, workTables>>
WorkStep == desk = "workflow" /\ WorkNext /\ UNCHANGED <<desk, file, planningTables>>

Next == ScheduleStep \/ PackageStep \/ WorkStep

Spec ==
    /\ Init /\ [][Next]_<<desk, file, planningTables, workTables>>
    /\ WF_workTables(WorkStep /\ NextDay)
=============================================================================
