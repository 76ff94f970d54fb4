-------------------------- MODULE PlanningReadiness --------------------------
(***************************************************************************)
(* The planning desk of a bid: plans are ingested                          *)
(* (services/planning_package_ingestion.py), the findings of the package   *)
(* are refreshed and reviewed, and the readiness of the planning is graded *)
(* from schedule, scope, package and findings                              *)
(* (services/planning_readiness.py, schedule_requirement_alignment.py, and *)
(* the planning routes of api/routes.py).  Requests come one at a time:    *)
(* PlanningFindings has those that overlap.                                *)
(***************************************************************************)
EXTENDS PlanningPackage

CONSTANTS
    Schedules,      \* the schedule documents of the bid: name -> file
    PlanDocuments,  \* document -> the plans its table may hold, sequences of rows
    Demands,        \* requirements that ask something of the planning
    MaxEntries      \* bound: entries ever ingested

ASSUME PlanningAssumption ==
    /\ MaxEntries \in Nat /\ None \notin DOMAIN Schedules
    /\ \A s \in DOMAIN Schedules : IsFiniteSet(DOMAIN Schedules[s].rows)
    /\ \A doc \in DOMAIN PlanDocuments : PlanDocuments[doc] \subseteq Seq(PlanRow)

VARIABLES
    entry,          \* the plan entries of the bid: id -> [doc, row]
    serial,         \* the last id given to an entry
    demand,         \* the requirements that are open
    finding,        \* key -> [status, severity], the findings that have a row
    current         \* history: the schedule refreshed last, when nothing changed since

planningTables == <<entry, serial, demand, finding, current>>

\* What an open requirement asks of the planning: resources loaded, a completion within
\* `limit` days, a milestone by day `limit`, a staff role, or something unclear.
Demand ==
    [asks : {"loading", "duration", "milestone", "staff", "other"},
     limit : Nat \cup {None}, role : STRING \cup {None}, alike : [Activities -> 0 .. 1000]]

\* What ingestion makes of each schedule document.
Read == [s \in DOMAIN Schedules |-> Tables(Schedules[s])]

Plan == [i \in DOMAIN entry |-> entry[i].row]
RequiredRoles == {d.role : d \in {x \in demand : x.asks = "staff"}}

PlanningInit ==
    entry = <<>> /\ serial = 0 /\ demand = {} /\ finding = <<>> /\ current = None

-----------------------------------------------------------------------------
\* What the analysis reads changes on the tender side and in the plans.

ChangeDemand(d) ==
    /\ demand' = (demand \ {d}) \cup ({d} \ demand)
    /\ current' = None
    /\ UNCHANGED <<entry, serial, finding>>

\* A plan document is read again: its entries go, and its rows come in with new ids.
IngestPlan(doc, rows) ==
    LET kept == {i \in DOMAIN entry : entry[i].doc # doc}
        added == serial + 1 .. serial + Len(rows)
    IN
    /\ serial + Len(rows) <= MaxEntries
    /\ entry' = [i \in kept \cup added |->
                    IF i \in kept THEN entry[i] ELSE [doc |-> doc, row |-> rows[i - serial]]]
    /\ serial' = serial + Len(rows)
    /\ current' = None
    /\ UNCHANGED <<demand, finding>>

-----------------------------------------------------------------------------
\* The findings.  The route answers nothing when the file shows no activities or the
\* reconciliation fails.

Analysed(s) == Detected(Schedules[s]) /\ ~ReconcileFails(Read[s], Plan)

High(s) == HighKeys(Read[s], Plan, RequiredRoles)
Medium(s) == MediumKeys(Read[s], Plan)

\* The row of a key that is detected, and of one that is not.
Redetected(k, severity) ==
    [status |-> IF k \in DOMAIN finding /\ finding[k].status = "Closed" THEN "Closed" ELSE "Open",
     severity |-> severity]

Undetected(r) == [r EXCEPT !.status = IF @ = "Open" THEN "Cleared by Re-analysis" ELSE @]

RefreshFindings(s) ==
    LET high == High(s)
        medium == Medium(s)
    IN
    /\ Analysed(s)
    /\ finding' = [k \in DOMAIN finding \cup high \cup medium |->
                      IF k \in high THEN Redetected(k, "High")
                      ELSE IF k \in medium THEN Redetected(k, "Medium")
                      ELSE Undetected(finding[k])]
    /\ current' = s
    /\ UNCHANGED <<entry, serial, demand>>

ReviewFinding(k, status) ==
    /\ status \in {"Open", "Closed"}
    /\ finding' = [finding EXCEPT ![k].status = status]
    /\ UNCHANGED <<entry, serial, demand, current>>

-----------------------------------------------------------------------------
\* The alignment of the schedule with the tender.

TenderMilestone(t, d) ==
    LET milestones == {a \in Listed(t) : t.task[a].milestone}
        likely == {a \in milestones : d.alike[a] >= 350}
    IN  IF likely = {} THEN None
        ELSE CHOOSE a \in likely : \A b \in likely : d.alike[a] >= d.alike[b]

Verdict(measured, limit) ==
    IF ~Known(measured) THEN "Manual Review" ELSE IF measured <= limit THEN "Pass" ELSE "Fail"

\* One check per open schedule requirement; the duration has a day of grace.
TenderCheck(t, d) ==
    CASE d.asks = "loading" ->
            (CASE LoadingStatus(t) = "Not Resource Loaded" -> "Fail"
               [] LoadingStatus(t) = "Partially Resource Loaded" -> "Manual Review"
               [] LoadingStatus(t) = "Broadly Resource Loaded" -> "Pass")
      [] d.asks = "duration" -> Verdict(t.planned, d.limit + 1)
      [] d.asks = "milestone" ->
            Verdict(IF Known(TenderMilestone(t, d)) THEN t.task[TenderMilestone(t, d)].finish
                    ELSE None, d.limit)
      [] d.asks = "other" -> "Manual Review"

TenderChecks(t) == {TenderCheck(t, d) : d \in {x \in demand : x.asks # "staff"}}

-----------------------------------------------------------------------------
\* The grade, given what the coverage of the schedule scope says.

Open(severity) ==
    {k \in DOMAIN finding : finding[k].status = "Open" /\ finding[k].severity = severity}

Blocked(t, scope) ==
    \/ scope = "blocking"
    \/ "Fail" \in TenderChecks(t)
    \/ SourceMode(t, Plan) \in {"No Resource Basis Available", "Partially Schedule Loaded"}
    \/ Uncovered(t, Plan) # {}
    \/ MissingRoles(Plan, RequiredRoles) # {}
    \/ Shortfalls(t, Plan) # {}
    \/ Open("High") # {}

\* Mutant: the staff plan is not asked for when no requirement names a role.
WarnedUnstaffed(t, scope) ==
    \/ scope = "possible"
    \/ "Manual Review" \in TenderChecks(t)
    \/ Unlinked(t, Plan) # {} \/ Mistimed(t, Plan) # {}
    \/ Open("Medium") # {}
    \/ HealthGrade(t) = "Poor"
    \/ ~t.logic \/ ~t.float \/ ~t.calendars

Warned(t, scope) ==
    \/ scope = "possible"
    \/ "Manual Review" \in TenderChecks(t)
    \/ Unlinked(t, Plan) # {} \/ Mistimed(t, Plan) # {}
    \/ Staff(Plan) = {} /\ RequiredRoles = {}
    \/ Open("Medium") # {}
    \/ HealthGrade(t) = "Poor"
    \/ ~t.logic \/ ~t.float \/ ~t.calendars

\* The readiness a request for the planning intelligence reports, when it answers.
Grade(s, scope) ==
    LET t == Read[s]
    IN  IF ~Analysed(s) \/ AdvisorFails(t) THEN "No Answer"
        ELSE IF Blocked(t, scope) THEN "Not Ready"
        ELSE IF Warned(t, scope) THEN "Needs Attention"
        ELSE "Ready"

PlanningNext ==
    \/ \E d \in Demands : ChangeDemand(d)
    \/ \E doc \in DOMAIN PlanDocuments : \E rows \in PlanDocuments[doc] : IngestPlan(doc, rows)
    \/ \E s \in DOMAIN Schedules : RefreshFindings(s)
    \/ \E k \in DOMAIN finding, status \in {"Open", "Closed"} : ReviewFinding(k, status)

PlanningSpec == PlanningInit /\ [][PlanningNext]_planningTables

-----------------------------------------------------------------------------
\* What the readiness does not ask about itself: it relies on the findings.
LeftToFindings ==
    {<<"issue", x>> : x \in {"Staff Phase Timing", "Staff Timing", "Work Front Alignment",
                             "Work Front Evidence"}}
    \cup {<<"work front", c>> : c \in (DOMAIN Boqs) \X (1 .. MaxEntries)}

\* A planning whose scope is clear is Ready on a schedule only when the reconciliation
\* detects nothing but what is left to the findings, and, once those were refreshed from
\* that schedule, a reviewer closed all of that.
ReadyIsSupported ==
    \A s \in DOMAIN Schedules :
        Grade(s, "clear") = "Ready" =>
            LET detected == High(s) \cup Medium(s)
            IN  /\ detected \subseteq LeftToFindings
                /\ current = s => \A k \in detected : finding[k].status = "Closed"

\* "overlapping activity pairs use the same resource label and require sharing/capacity
\* confirmation" (planning_package_reconciliation.py:487): a pair of entries deployed at
\* once under one label is reviewed, that is, there is an analysis to say so.
ConcurrencyIsReviewed ==
    \A s \in DOMAIN Schedules :
        LET t == Read[s]
        IN  Detected(Schedules[s]) /\ Shared(t, Plan) # {} => ~ReconcileFails(t, Plan)
=============================================================================
