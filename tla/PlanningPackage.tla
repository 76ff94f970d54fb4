--------------------------- MODULE PlanningPackage ---------------------------
(***************************************************************************)
(* The reconciliation of a schedule with the bidder's resource and staff   *)
(* plans (services/planning_package_reconciliation.py): a function of the  *)
(* schedule's tables t, of the plan entries e, and of the staff roles that *)
(* open requirements ask for.                                              *)
(*                                                                         *)
(* Words are compared by the program; here how alike two texts are is a    *)
(* constant, in thousandths.  Days are numbers.  The monthly profile, the  *)
(* suggestions beside a shortfall and the wording of issues are left out.  *)
(***************************************************************************)
EXTENDS ScheduleAnalysis, Sequences

CONSTANTS
    Likeness,       \* <<reference, work front>> of an entry -> how alike each activity is
    FrontLikeness,  \* <<work front, work front>> -> how alike they are
    Boqs,           \* bill items: how alike each activity is, quantity, unit, work front
    PhaseTasks      \* roles tied to a phase -> the activities of the phase

\* A row of a plan: who or what, where, when, and the output it promises.
PlanRow ==
    [staff : BOOLEAN, role : STRING \cup {None}, label : STRING,
     reference : STRING \cup {None}, front : STRING \cup {None},
     start : Nat \cup {None}, finish : Nat \cup {None},
     rate : Nat \cup {None}, rateUnit : STRING \cup {None},   \* "" where nothing is before "per"
     perResource : BOOLEAN,
     quantity : Nat \cup {None}]

Known(x) == x # None
Later(x, y) == Known(x) /\ Known(y) /\ x > y

-----------------------------------------------------------------------------
\* Who is matched with which activity.

Staff(e) == {i \in DOMAIN e : e[i].staff}
External(e) == DOMAIN e \ Staff(e)

ScheduleLoaded(t) == Executable(t) \cap t.loaded

BroadlyLoaded(t) ==
    10 * Cardinality(ScheduleLoaded(t)) >= 9 * Max({1, Cardinality(Executable(t))})

SourceMode(t, e) ==
    IF BroadlyLoaded(t) THEN "Schedule Primary"
    ELSE IF ScheduleLoaded(t) # {} /\ External(e) # {} THEN "Combined Schedule + Separate Plans"
    ELSE IF ScheduleLoaded(t) # {} THEN "Partially Schedule Loaded"
    ELSE IF External(e) # {} THEN "Separate Resource Plans"
    ELSE "No Resource Basis Available"

\* The activity most alike, when it is alike enough.
BestMatch(t, alike) ==
    LET likely == {a \in Executable(t) : alike[a] >= 340}
    IN  IF likely = {} THEN None
        ELSE CHOOSE a \in likely : \A b \in likely : alike[a] >= alike[b]

MatchOf(t, x) ==
    IF ~Known(x.reference) /\ ~Known(x.front) THEN None
    ELSE BestMatch(t, Likeness[<<x.reference, x.front>>])

Mapped(t, e, a) == {i \in External(e) : MatchOf(t, e[i]) = a}
Unlinked(t, e) == {i \in External(e) : ~Known(MatchOf(t, e[i]))}

Uncovered(t, e) == (Executable(t) \ t.loaded) \ {MatchOf(t, e[i]) : i \in External(e)}

Timeline(t, x) ==
    LET a == MatchOf(t, x)
    IN  IF ~Known(a) THEN "Not Checked"
        ELSE IF ~Known(x.start) /\ ~Known(x.finish) THEN "Dates Not Provided"
        ELSE IF Later(x.start, t.task[a].start) THEN "Starts After Activity"
        ELSE IF Later(t.task[a].finish, x.finish) THEN "Ends Before Activity"
        ELSE "Aligned / Overlapping"

Mistimed(t, e) ==
    {i \in External(e) : Timeline(t, e[i]) \in {"Starts After Activity", "Ends Before Activity"}}

-----------------------------------------------------------------------------
\* Output, work fronts, shared resources.

Capacity(x) ==
    IF ~x.perResource THEN x.rate ELSE IF Known(x.quantity) THEN x.rate * x.quantity ELSE None

\* An entry with a rate against a bill item done in `hours` of eight a day.
Output(x, b, hours) ==
    IF ~Known(x.rateUnit) THEN "Rate Unit Missing"
    ELSE IF x.rateUnit # "" /\ x.rateUnit # b.unit THEN "Unit Review"
    ELSE IF ~Known(Capacity(x)) THEN "Resource Quantity Missing"
    ELSE IF Capacity(x) * hours >= b.quantity * 8 THEN "Meets / Exceeds Implied Requirement"
    ELSE "Below Implied Requirement"

Shortfalls(t, e) ==
    {b \in DOMAIN Boqs :
        LET item == Boqs[b]
            a == BestMatch(t, item.alike)
        IN  /\ Known(item.quantity) /\ Known(item.unit) /\ Known(a)
            /\ t.task[a].hours > 0
            /\ \E i \in Mapped(t, e, a) :
                  /\ Known(e[i].rate)
                  /\ Output(e[i], item, t.task[a].hours) = "Below Implied Requirement"}

FrontStatus(b, x) ==
    IF ~Known(x.front) THEN "Resource Work Front Missing"
    ELSE IF FrontLikeness[<<b.front, x.front>>] >= 500 THEN "Aligned"
    ELSE IF FrontLikeness[<<b.front, x.front>>] >= 250 THEN "Needs Review"
    ELSE "Mismatch"

\* Bill item and entry of one activity whose work fronts have this status.
FrontChecks(t, e, status) ==
    {c \in (DOMAIN Boqs) \X External(e) :
        /\ Known(Boqs[c[1]].front)
        /\ Known(MatchOf(t, e[c[2]]))
        /\ BestMatch(t, Boqs[c[1]].alike) = MatchOf(t, e[c[2]])
        /\ FrontStatus(Boqs[c[1]], e[c[2]]) = status}

\* Pairs of entries at different activities that both have a start and a finish.
Concurrent(t, e) ==
    LET dated == {a \in Executable(t) : Known(t.task[a].start) /\ Known(t.task[a].finish)}
    IN  {p \in External(e) \X External(e) :
            /\ p[1] < p[2]
            /\ MatchOf(t, e[p[1]]) \in dated /\ MatchOf(t, e[p[2]]) \in dated
            /\ MatchOf(t, e[p[1]]) # MatchOf(t, e[p[2]])}

\* Those that would be deployed at once under one label.
Shared(t, e) ==
    {p \in Concurrent(t, e) :
        LET left == t.task[MatchOf(t, e[p[1]])]
            right == t.task[MatchOf(t, e[p[2]])]
        IN  /\ e[p[1]].label = e[p[2]].label
            /\ left.start <= right.finish /\ right.start <= left.finish}

\* The labels of such a pair are compared with a function the file does not define:
\* a NameError, and no analysis.
ReconcileFails(t, e) == Concurrent(t, e) # {}

-----------------------------------------------------------------------------
\* Staff.

MissingRoles(e, roles) == {r \in roles : \A i \in Staff(e) : e[i].role # r}

\* The window of a phase: from its first known start to its last known finish.
PhaseStart(t, r) ==
    LET starts == {t.task[a].start : a \in PhaseTasks[r] \cap Executable(t)} \ {None}
    IN  IF starts = {} THEN None ELSE Min(starts)

PhaseFinish(t, r) ==
    LET finishes == {t.task[a].finish : a \in PhaseTasks[r] \cap Executable(t)} \ {None}
    IN  IF finishes = {} THEN None ELSE Max(finishes)

\* Staff of a required role who come after its phase starts or leave before it ends.
PhaseGaps(t, e, roles) ==
    {g \in (roles \cap DOMAIN PhaseTasks) \X Staff(e) :
        LET x == e[g[2]]
        IN  /\ x.role = g[1]
            /\ Later(x.start, PhaseStart(t, g[1])) \/ Later(PhaseFinish(t, g[1]), x.finish)}

-----------------------------------------------------------------------------
\* Issues, and the findings they and the rows stand for.

\* The share of the activities that is covered, rounded to a tenth of a percent, is below
\* this percentage; half of the last place is taken up.
CoveredBelow(t, e, percent) ==
    2000 * Cardinality(Executable(t) \ Uncovered(t, e))
        < (20 * percent - 1) * Max({1, Cardinality(Executable(t))})

HighIssues(t, e, roles) ==
    {x \in {"Schedule", "Resource Coverage", "Missing Resource Plan", "Missing Staff Plan",
            "Productivity Feasibility", "Contract Staff Requirement", "Staff Phase Timing"} :
        \/ x = "Schedule" /\ Executable(t) = {}
        \/ x = "Resource Coverage" /\ Executable(t) # {} /\ CoveredBelow(t, e, 60)
        \/ x = "Missing Resource Plan" /\ ~BroadlyLoaded(t) /\ External(e) = {}
        \/ x = "Missing Staff Plan" /\ Staff(e) = {}
        \/ x = "Productivity Feasibility" /\ Shortfalls(t, e) # {}
        \/ x = "Contract Staff Requirement" /\ MissingRoles(e, roles) # {}
        \/ x = "Staff Phase Timing" /\ PhaseGaps(t, e, roles) # {}}

MediumIssues(t, e) ==
    {x \in {"Resource Coverage", "Staff Timing", "Resource Timing", "Work Front Alignment",
            "Work Front Evidence", "Unlinked Resources"} :
        \/ x = "Resource Coverage" /\ ~CoveredBelow(t, e, 60) /\ CoveredBelow(t, e, 90)
        \/ x = "Staff Timing" /\ \E i \in Staff(e) : ~Known(e[i].start) /\ ~Known(e[i].finish)
        \/ x = "Resource Timing" /\ Mistimed(t, e) # {}
        \/ x = "Work Front Alignment" /\ FrontChecks(t, e, "Mismatch") # {}
        \/ x = "Work Front Evidence" /\ FrontChecks(t, e, "Resource Work Front Missing") # {}
        \/ x = "Unlinked Resources" /\ Unlinked(t, e) # {}}

\* The keys of the findings an analysis detects, by severity.
HighKeys(t, e, roles) ==
    {<<"issue", x>> : x \in HighIssues(t, e, roles)}
    \cup {<<"uncovered activity", a>> : a \in Uncovered(t, e)}
    \cup {<<"contract staff", r>> : r \in MissingRoles(e, roles)}
    \cup {<<"productivity", b>> : b \in Shortfalls(t, e)}

MediumKeys(t, e) ==
    {<<"issue", x>> : x \in MediumIssues(t, e)}
    \cup {<<"work front", c>> : c \in FrontChecks(t, e, "Mismatch")
                                      \cup FrontChecks(t, e, "Resource Work Front Missing")}
    \cup {<<"resource timing", i>> : i \in Mistimed(t, e)}
    \cup {<<"unlinked resource", i>> : i \in Unlinked(t, e)}
=============================================================================
