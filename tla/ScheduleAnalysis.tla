--------------------------- MODULE ScheduleAnalysis ---------------------------
(***************************************************************************)
(* What the program reads from an uploaded schedule and says of it:        *)
(* services/schedule_ingestion.py turns any source into one set of tables, *)
(* services/p6_xer.py screens their health and criticality, and            *)
(* services/p6_schedule_optimizer.py lists the activities worth a review.  *)
(* All three are functions of the file.  A file is what the planner wrote  *)
(* in it; two rows of one activity and the calendars' contents are left    *)
(* out, and so are project, WBS and field inventories.  Durations and lags *)
(* are finite; a float is whatever the program's float() reads, `nan` and  *)
(* `inf` included, which the screening and the advisor take differently.   *)
(***************************************************************************)
EXTENDS Integers, FiniteSets, FiniteSetsExt

CONSTANTS
    Activities,     \* ids of activities, in rows, links and assignments
    None,           \* an empty cell
    NaN, Infinity, MinusInfinity    \* a float that is no finite number

ASSUME CellsDiffer ==
    /\ None \notin {NaN, Infinity, MinusInfinity}
    /\ NaN \notin {Infinity, MinusInfinity} /\ Infinity # MinusInfinity
    /\ {None, NaN, Infinity, MinusInfinity} \cap Int = {}

\* A file: [kind, rows, links, loaded, calendars, planned].  A row: milestone flag or type,
\* status, percent, hours, float, whether there are actual dates and a constraint, and the
\* start and finish that count.
SourceRow ==
    [type : {"", "TT_Task", "TT_Mile"}, percent : Nat \cup {None},
     status : {"", "Not Started", "In Progress", "Complete"},
     hours : Nat \cup {None}, float : Int \cup {None, NaN, Infinity, MinusInfinity},
     started : BOOLEAN, finished : BOOLEAN, constrained : BOOLEAN,
     start : Nat \cup {None}, finish : Nat \cup {None}]

\* A relation of the network: `pred` comes before `succ`, `lag` hours apart or not.
Link == [pred : Activities, succ : Activities, lag : BOOLEAN]

Kinds == {"xer", "xml", "table", "report", "binary"}

-----------------------------------------------------------------------------
\* Ingestion.

\* Only a table infers a milestone, from a duration of zero.
Milestone(kind, row) ==
    \/ row.type = "TT_Mile"
    \/ kind \in {"table", "report"} /\ row.type = "" /\ row.hours = 0

\* Every reader but that of XER takes a missing status from the progress.
Status(kind, row) ==
    IF row.status # "" \/ kind = "xer" \/ row.percent = None THEN row.status
    ELSE IF row.percent >= 100 THEN "Complete"
    ELSE IF row.percent > 0 THEN "In Progress"
    ELSE "Not Started"

\* The columns of one task.
Task(kind, row) ==
    [milestone |-> Milestone(kind, row), status |-> Status(kind, row),
     hours |-> IF row.hours = None THEN 0 ELSE row.hours, float |-> row.float,
     started |-> row.started, finished |-> row.finished, constrained |-> row.constrained,
     start |-> row.start, finish |-> row.finish]

Detected(f) == f.kind # "binary" /\ DOMAIN f.rows # {}

\* The tables of a report come without its resources.
Loads(f) == IF f.kind = "report" THEN {} ELSE f.loaded

\* The tables and the capabilities of a source: a parameter is available when one row
\* has it.
Tables(f) ==
    [task      |-> [a \in DOMAIN f.rows |-> Task(f.kind, f.rows[a])],
     links     |-> f.links,
     loaded    |-> Loads(f),
     logic     |-> f.links # {},
     float     |-> \E a \in DOMAIN f.rows : f.rows[a].float # None,
     calendars |-> f.calendars,
     planned   |-> IF f.kind \in {"xer", "xml"} THEN f.planned ELSE None]

-----------------------------------------------------------------------------
\* Health and criticality.  A float that is missing or not finite counts as 0 when any
\* row has one.

LongHours == 160
NearCriticalHours == 40

Listed(t) == DOMAIN t.task
Active(t) == {a \in Listed(t) : t.task[a].status # "Complete"}
Executable(t) == {a \in Active(t) : ~t.task[a].milestone}

Preds(t, a) == {l \in t.links : l.succ = a}
Succs(t, a) == {l \in t.links : l.pred = a}
Float(t, a) == IF t.task[a].float \in Int THEN t.task[a].float ELSE 0

\* Mutant: a missing predecessor counts where the source has no logic.
OpenStartAnyway(t) == {a \in Executable(t) : Preds(t, a) = {}}

OpenStart(t) == {a \in Executable(t) : t.logic /\ Preds(t, a) = {}}
OpenFinish(t) == {a \in Executable(t) : t.logic /\ Succs(t, a) = {}}
Dangling(t) == {l \in t.links : ~({l.pred, l.succ} \subseteq Listed(t))}

NegativeFloat(t) == {a \in Listed(t) : t.float /\ Float(t, a) < 0}
NoFloatLeft(t) == {a \in Listed(t) : t.float /\ Float(t, a) <= 0}
Critical(t) == Active(t) \cap NoFloatLeft(t)
NearCritical(t) == {a \in Active(t) : t.float /\ Float(t, a) \in 1 .. NearCriticalHours}
LongDuration(t) == {a \in Listed(t) : t.task[a].hours > LongHours /\ ~t.task[a].milestone}
Constrained(t) == {a \in Listed(t) : t.task[a].constrained}

StatusDateIssues(t) ==
    {a \in Listed(t) :
        LET task == t.task[a]
        IN  \/ task.status = "Not Started" /\ (task.started \/ task.finished)
            \/ task.status = "In Progress" /\ ~task.started
            \/ task.status = "Complete" /\ ~task.finished}

\* Milestones whose float reads as critical or near-critical, available or not.
MilestonesAtRisk(t) ==
    {a \in Listed(t) : t.task[a].milestone /\ Float(t, a) <= NearCriticalHours}

Capped(limit, x) == Min({limit, x})

\* The health score, times the number of activities it is relative to.
HealthScore(t) ==
    LET n == Max({1, Cardinality(Listed(t))})
        share(limit, weight, found) == Capped(limit * n, weight * Cardinality(found))
        loss == share(25, 50, OpenStart(t)) + share(25, 50, OpenFinish(t))
                + share(20, 40, NegativeFloat(t)) + share(10, 2 * n, Dangling(t))
                + share(10, 30, StatusDateIssues(t)) + share(10, 15, Constrained(t))
    IN  Max({0, 100 * n - loss})

\* The grade of the score rounded to one decimal; half of the last place is taken up.
HealthGrade(t) ==
    LET n == Max({1, Cardinality(Listed(t))})
        atLeast(grade) == 20 * HealthScore(t) >= (20 * grade - 1) * n
    IN  IF atLeast(85) THEN "Good" ELSE IF atLeast(65) THEN "Needs Attention" ELSE "Poor"

-----------------------------------------------------------------------------
\* The advisor states its rules anew, with limits and a reading of numbers of its own.

SensitiveHours == 40
LengthyHours == 160

\* A missing float is 0 here too, but one that is not finite stays as it is.
TotalFloat(t, a) == IF t.task[a].float = None THEN 0 ELSE t.task[a].float

Below(x, limit) == x = MinusInfinity \/ (x \in Int /\ x < limit)
AtMost(x, limit) == x = MinusInfinity \/ (x \in Int /\ x <= limit)
Above(x, limit) == x = Infinity \/ (x \in Int /\ x > limit)

LoadingStatus(t) ==
    LET eligible == {a \in Listed(t) : ~t.task[a].milestone}
    IN  IF t.loaded = {} THEN "Not Resource Loaded"
        ELSE IF 10 * Cardinality(eligible \cap t.loaded) >= 9 * Max({1, Cardinality(eligible)})
             THEN "Broadly Resource Loaded" ELSE "Partially Resource Loaded"

\* What is not complete is weighed.
Weighable(t) == {a \in Listed(t) : t.task[a].status # "Complete"}

\* Where a weighed activity has resources its float is compared, whether the source has
\* floats or not: the comparison with None is a TypeError, and the advisor has no answer.
AdvisorFails(t) == ~t.float /\ Weighable(t) \cap t.loaded # {}

Lagged(t, a) == {l \in Preds(t, a) : l.lag}
Dense(t, a) == Cardinality(Preds(t, a)) > 4 \/ Cardinality(Succs(t, a)) > 4
Lengthy(t, a) == t.task[a].hours > LengthyHours /\ ~t.task[a].milestone

\* What the advisor finds at an activity, with its weight in the review score.
ReviewWeights(t, a) ==
    LET task == t.task[a]
        judged == t.logic /\ ~task.milestone
        float == TotalFloat(t, a)
    IN  {x \in {<<"open start", IF judged /\ Preds(t, a) = {} THEN 22 ELSE 0>>,
                <<"open finish", IF judged /\ Succs(t, a) = {} THEN 22 ELSE 0>>,
                <<"float", IF ~t.float THEN 0 ELSE IF Below(float, 0) THEN 28
                           ELSE IF AtMost(float, SensitiveHours) THEN 18 ELSE 0>>,
                <<"long", IF Lengthy(t, a) THEN 16 ELSE 0>>,
                <<"lag", Capped(15, 5 * Cardinality(Lagged(t, a)))>>,
                <<"constraint", IF task.constrained THEN 14 ELSE 0>>,
                <<"unloaded", IF t.loaded # {} /\ a \notin t.loaded /\ ~task.milestone
                              THEN 10 ELSE 0>>,
                <<"density", IF Dense(t, a) THEN 8 ELSE 0>>} : x[2] > 0}

\* How adjustable an activity is: float, length, lag, resources and density count for
\* it; a short float and a constraint against it; milestones are not.
Adjustability(t, a) ==
    LET task == t.task[a]
        float == TotalFloat(t, a)
        slack == t.float /\ Above(float, SensitiveHours)
        gains == (IF slack THEN 20 ELSE 0)
                 + (IF Lengthy(t, a) THEN 16 ELSE 0)
                 + Capped(12, 4 * Cardinality(Lagged(t, a)))
                 + (IF slack /\ a \in t.loaded THEN 10 ELSE 0)
                 + (IF Dense(t, a) THEN 6 ELSE 0)
        tight == IF ~t.float THEN 0 ELSE IF AtMost(float, 0) THEN 20
                 ELSE IF AtMost(float, SensitiveHours) THEN 10 ELSE 0
        held == Max({0, gains - tight}) - (IF task.constrained THEN 8 ELSE 0)
    IN  IF task.milestone THEN 0 ELSE Max({0, held})

\* Mutant: what weighs less than the threshold is left out.
AdvisedHeavyOf(t) ==
    {a \in Weighable(t) :
        (\E x \in ReviewWeights(t, a) : x[2] >= 8) \/ Adjustability(t, a) >= 8}

\* The activities the advisor lists, where it does not fail.
AdvisedOf(t) == {a \in Weighable(t) : ReviewWeights(t, a) # {} \/ Adjustability(t, a) >= 8}
=============================================================================
