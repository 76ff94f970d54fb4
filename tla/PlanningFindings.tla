--------------------------- MODULE PlanningFindings ---------------------------
(***************************************************************************)
(* The findings of the integrated planning-package analysis:               *)
(* sync_planning_package_findings and review_planning_package_finding of   *)
(* services/planning_package_reconciliation.py, behind the routes that     *)
(* refresh and review.                                                     *)
(*                                                                         *)
(* The analysis is an input here: the set of keys it detects.  Keys are    *)
(* unique per bid, whichever schedule was analysed, so there is one table. *)
(* Each handler loads rows and later commits the columns it changed;       *)
(* the audit event of a review is a second commit.                         *)
(***************************************************************************)
EXTENDS Session

CONSTANTS
    Keys,           \* finding keys an analysis may detect
    Closing,        \* dispositions that close: Resolved, Accepted / Explained, Not Applicable
    Keeping         \* dispositions that keep open: To Be Revised, Escalate

Dispositions == Closing \cup Keeping

ASSUME DispositionAssumption ==
    /\ Closing \cap Keeping = {}
    /\ Nobody \notin Dispositions /\ "No Longer Detected" \notin Dispositions
    /\ Nobody \notin {"reviewer", "engine"}

VARIABLES
    row,            \* the table: a function on the keys that have a row
    events,         \* <<key, user, disposition>> of the finding_reviewed audit events
    latest,         \* history: keys detected by the last analysis committed
    unaudited       \* history: keys whose review died before its audit event

findingTables == <<row, events, latest, unaudited>>
findingVars == <<findingTables, session>>

Row ==
    [status : {"Open", "Closed", "Cleared by Re-analysis"},
     disposition : Dispositions \cup {"No Longer Detected", Nobody},
     comment : {"reviewer", "engine", Nobody},
     reviewedBy : Reviewers \cup {Nobody}]

Rows == DOMAIN row

FindingsTypeOK ==
    /\ Rows \subseteq Keys /\ \A k \in Rows : row[k] \in Row
    /\ events \subseteq (Keys \X Reviewers \X Dispositions)
    /\ latest \subseteq Keys /\ unaudited \subseteq Keys

FindingsInit == row = <<>> /\ events = {} /\ latest = {} /\ unaudited = {}

-----------------------------------------------------------------------------
(* sync_planning_package_findings                                           *)

Detected == [status |-> "Open", disposition |-> Nobody, comment |-> Nobody, reviewedBy |-> Nobody]

\* Mutant: a finding that is detected again is opened again.
RefreshedAlways(r) == Detected

\* A detected finding opens afresh unless a reviewer closed it.
Refreshed(r) == IF r.status \in {"Open", "Cleared by Re-analysis"} THEN Detected ELSE r

\* Mutant: the disposition of the reviewer stays beside the engine's comment.
ClearedKeeping(r) ==
    IF r.status = "Open"
    THEN [r EXCEPT !.status = "Cleared by Re-analysis", !.comment = "engine",
                   !.disposition = IF @ = Nobody THEN "No Longer Detected" ELSE @]
    ELSE r

\* An open finding no longer detected; reviewed_by keeps its value.
Cleared(r) ==
    IF r.status = "Open"
    THEN [r EXCEPT !.status = "Cleared by Re-analysis", !.comment = "engine",
                   !.disposition = "No Longer Detected"]
    ELSE r

\* Mutant: only the findings that are detected are visited.
SyncedDetected(r, k, C) == IF k \in C THEN Refreshed(r) ELSE r

Synced(r, k, C) == IF k \in C THEN Refreshed(r) ELSE Cleared(r)

\* An analysis detected the keys of C; the session loads the rows of the bid.
BeginSync(w, C) ==
    /\ Take(w, [op |-> "sync", keys |-> C, inserted |-> C \ Rows,
                changes |-> [k \in Rows |-> Changes(row[k], Synced(row[k], k, C))],
                reads |-> Keys, stale |-> {}])
    /\ UNCHANGED findingTables

\* Keys are unique in the table: an insert that meets a new row fails.
CommitSync(w) ==
    LET r == req[w]
        after(k) == IF k \in r.inserted THEN Detected
                    ELSE IF k \in DOMAIN r.changes THEN Written(row[k], r.changes[k]) ELSE row[k]
        table == [k \in Rows \cup r.inserted |-> after(k)]
    IN
    /\ r.op = "sync"
    /\ r.inserted \cap Rows = {}
    /\ row' = table
    /\ Commit(w, r.reads, {k \in DOMAIN table : k \notin Rows \/ table[k] # row[k]}, Idle)
    /\ latest' = r.keys
    /\ UNCHANGED <<events, unaudited>>

-----------------------------------------------------------------------------
(* review_planning_package_finding and its route                            *)

\* Mutant: what is escalated gets a status of its own.
ReviewedEscalated(d, c, u) ==
    [status |-> IF d \in Keeping THEN "Escalated" ELSE "Closed",
     disposition |-> d, comment |-> c, reviewedBy |-> u]

Reviewed(d, c, u) ==
    [status |-> IF d \in Keeping THEN "Open" ELSE "Closed",
     disposition |-> d, comment |-> c, reviewedBy |-> u]

BeginReview(w, u, k, d, c) ==
    /\ d \in Closing => c # Nobody
    /\ Take(w, [op |-> "review finding", key |-> k, new |-> Reviewed(d, c, u),
                changes |-> Changes(row[k], Reviewed(d, c, u)), reads |-> {k}, stale |-> {}])
    /\ UNCHANGED findingTables

CommitReview(w) ==
    LET r == req[w] IN
    /\ r.op = "review finding"
    /\ row' = [row EXCEPT ![r.key] = Written(@, r.changes)]
    /\ Commit(w, {r.key}, {r.key}, [op |-> "audit", key |-> r.key, new |-> r.new, reads |-> {}, stale |-> {}])
    /\ UNCHANGED <<events, latest, unaudited>>

\* The second commit of the route.
CommitAudit(w) ==
    LET r == req[w] IN
    /\ r.op = "audit"
    /\ events' = events \cup {<<r.key, r.new.reviewedBy, r.new.disposition>>}
    /\ Continue(w, Idle)
    /\ UNCHANGED <<row, latest, unaudited>>

\* A review that dies between its two commits leaves no audit event.
DieFinding(w) ==
    /\ Die(w)
    /\ unaudited' = IF req[w].op = "audit" THEN unaudited \cup {req[w].key} ELSE unaudited
    /\ UNCHANGED <<row, events, latest>>

FindingsNext ==
    \E w \in Workers :
        \/ \E C \in SUBSET Keys : BeginSync(w, C)
        \/ CommitSync(w)
        \/ \E u \in Reviewers, k \in Rows, d \in Dispositions, c \in {"reviewer", Nobody} :
              BeginReview(w, u, k, d, c)
        \/ CommitReview(w) \/ CommitAudit(w) \/ DieFinding(w)

FindingsSpec == FindingsInit /\ SessionInit /\ [][FindingsNext]_findingVars

-----------------------------------------------------------------------------
Calm == Rows \ raced

\* The audit event of a row is written, about to be, or lost because the process died
\* between the two commits of the review.
Audited(k) ==
    \/ k \in unaudited
    \/ <<k, row[k].reviewedBy, row[k].disposition>> \in events
    \/ \E w \in Workers : req[w].op = "audit" /\ req[w].key = k /\ req[w].new = row[k]

\* Unless a row changed under a request, its status, disposition, comment, reviewer and
\* audit event tell one story: a Closed finding was closed by a named reviewer with a
\* comment, and audited; a cleared one by the engine, an Open one by nobody.
VerdictIsWhole ==
    \A k \in Calm :
        /\ row[k].status = "Closed" =>
              /\ row[k].disposition \in Closing /\ row[k].comment = "reviewer"
              /\ row[k].reviewedBy # Nobody /\ Audited(k)
        /\ row[k].status = "Cleared by Re-analysis" =>
              row[k].disposition = "No Longer Detected" /\ row[k].comment = "engine"
        /\ row[k].status = "Open" =>
              row[k].disposition \in Keeping \cup {Nobody} /\ row[k].comment # "engine"

\* Unless rows changed under a request, what the last analysis detected is Open or
\* was Closed by a reviewer, and what it did not detect is not Open but for a
\* reviewer who reopened it since.
LatestAnalysisDecides ==
    \A k \in Calm :
        /\ k \in latest => row[k].status \in {"Open", "Closed"}
        /\ k \notin latest /\ row[k].status = "Open" => row[k].disposition \in Keeping

\* A refresh never undoes what a reviewer closed, unless the row changed under it.
RefreshKeepsClosed ==
    [][\A k \in Rows :
          row[k].status = "Closed" /\ k \notin raced' /\ row'[k].status # "Closed" =>
              \E w \in Workers : req[w].op = "review finding" /\ req[w].key = k]_findingVars
=============================================================================
