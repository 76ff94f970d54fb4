----------------------------- MODULE ScheduleDesk -----------------------------
(***************************************************************************)
(* One schedule document, written row by row by the planner, and what the  *)
(* analysis of services/p6_xer.py and the advisor of                       *)
(* services/p6_schedule_optimizer.py say of it at every point.             *)
(***************************************************************************)
EXTENDS ScheduleAnalysis

CONSTANTS
    SourceRows,     \* what the row of an activity may say: activity -> set of rows
    SourceLinks,    \* the links a file may have
    MaxLinks        \* bound: links in a file

ASSUME SourceAssumption ==
    /\ \A a \in DOMAIN SourceRows : SourceRows[a] \subseteq SourceRow
    /\ SourceLinks \subseteq Link

VARIABLE file       \* the schedule: [kind, rows, links, loaded, calendars, planned]

\* The planner writes the file.

ScheduleInit ==
    \E kind \in Kinds :
        file = [kind |-> kind, rows |-> <<>>, links |-> {}, loaded |-> {},
                calendars |-> FALSE, planned |-> None]

WriteActivity(a, row) ==
    /\ a \notin DOMAIN file.rows
    /\ file' = [file EXCEPT !.rows = [b \in DOMAIN @ \cup {a} |->
                                         IF b = a THEN row ELSE @[b]]]

\* Tables and reports state the links and the resources of an activity in its row.
WriteLink(l) ==
    /\ l \notin file.links /\ Cardinality(file.links) < MaxLinks
    /\ file.kind \in {"table", "report"} => l.succ \in DOMAIN file.rows
    /\ file' = [file EXCEPT !.links = @ \cup {l}]

WriteResource(a) ==
    /\ a \notin file.loaded
    /\ file.kind \in {"table", "report"} => a \in DOMAIN file.rows
    /\ file' = [file EXCEPT !.loaded = @ \cup {a}]

ScheduleNext ==
    \/ \E a \in DOMAIN SourceRows : \E row \in SourceRows[a] : WriteActivity(a, row)
    \/ \E l \in SourceLinks : WriteLink(l)
    \/ \E a \in DOMAIN SourceRows : WriteResource(a)

ScheduleSpec == ScheduleInit /\ [][ScheduleNext]_file

-----------------------------------------------------------------------------
\* The same file with its floats, or its links, left out.
WithoutFloat(f) ==
    [f EXCEPT !.rows = [a \in DOMAIN f.rows |-> [f.rows[a] EXCEPT !.float = None]]]

WithoutLogic(f) == [f EXCEPT !.links = {}]

\* What the analysis counts and lists as an issue; the milestones at risk are not among
\* the issues.
Screened(t) ==
    [start |-> OpenStart(t), finish |-> OpenFinish(t), negative |-> NegativeFloat(t),
     exhausted |-> NoFloatLeft(t), critical |-> Critical(t), near |-> NearCritical(t),
     long |-> LongDuration(t), constrained |-> Constrained(t), dates |-> StatusDateIssues(t),
     lagged |-> {l \in t.links : l.lag}, dangling |-> Dangling(t)]

\* A source without float or without logic scores no lower than the same schedule with
\* them ("Unavailable logic or float data is not treated as a defect", p6_xer.py:244), no
\* issue is listed that the schedule with them lacks, and the advisor, where it answers
\* for the poorer source, has nothing more to review.  What it does fall for, milestones
\* at risk without a float and the advisor's failure, are the next two properties.
UnavailableScoresNoLower ==
    Detected(file) =>
        LET t == Tables(file)
            screened == Screened(t)
        IN  \A poorer \in {Tables(WithoutFloat(file)), Tables(WithoutLogic(file))} :
                /\ HealthScore(poorer) >= HealthScore(t)
                /\ LET left == Screened(poorer)
                   IN  \A k \in DOMAIN screened : left[k] \subseteq screened[k]
                /\ ~AdvisorFails(poorer) =>
                       ~AdvisorFails(t) /\ AdvisedOf(poorer) \subseteq AdvisedOf(t)

\* "Total float is not available from this source, so criticality is not inferred."
\* (p6_xer.py:237): of a source without a float nothing is called critical.
CriticalityIsNotInferred ==
    Detected(file) =>
        LET t == Tables(file)
        IN  ~t.float => Critical(t) \cup NearCritical(t) \cup MilestonesAtRisk(t) = {}

\* "Rules only use parameters actually available from the uploaded schedule"
\* (p6_schedule_optimizer.py:283): the advisor answers for every file it is given.
OnlyAvailableParameters == Detected(file) => ~AdvisorFails(Tables(file))

\* Whatever the analysis finds at an activity that is still to do, the advisor, where it
\* answers, lists: the two decide from the same tables with conditions written twice.
\* They part over a float that is not finite, which is 0 to the analysis: to the advisor
\* `nan` compares with no limit and `inf` makes any activity but a milestone adjustable.
\* There the findings about float are excepted.
IssuesAreAdvised ==
    Detected(file) =>
        LET t == Tables(file)
            read == {a \in Listed(t) :
                        /\ t.task[a].float # NaN
                        /\ t.task[a].milestone => t.task[a].float # Infinity}
            aboutFloat == Critical(t) \cup NearCritical(t) \cup NegativeFloat(t)
                          \cup {a \in MilestonesAtRisk(t) : t.float}
            found == OpenStart(t) \cup OpenFinish(t) \cup LongDuration(t) \cup Constrained(t)
                     \cup {a \in Listed(t) : Lagged(t, a) # {}}
                     \cup (aboutFloat \cap read)
        IN  ~AdvisorFails(t) => found \cap Active(t) \subseteq AdvisedOf(t)
=============================================================================
