---------------------------- MODULE PreBidQueries ----------------------------
(***************************************************************************)
(* The workflow of pre-bid queries: services/pre_bid_queries.py, and the   *)
(* submission set that api/pre_bid_queries.py exports.                     *)
(*                                                                         *)
(* Of the columns the model has those the workflow tests: a date is        *)
(* whether it is set, the query's text is whether it changed.              *)
(***************************************************************************)
EXTENDS Session, FiniteSets

CONSTANTS
    Queries,        \* rows of the bid
    Editors,        \* users holding PRE_BID_QUERY_MANAGE
    Approvers,      \* users holding PRE_BID_QUERY_APPROVE
    Payloads,       \* bodies of PATCH requests, a subset of Payload
    Overlapping     \* bound: the bodies of requests that run beside others

Users == Editors \cup Approvers

STATUSES == {"Draft", "Ready for Review", "Approved", "Submitted", "Responded",
             "Closed", "Withdrawn"}
CLOSED_STATUSES == {"Closed", "Withdrawn"}

QueryRow ==
    [status : STATUSES, approvedBy : Users \cup {Nobody}, approvedAt : BOOLEAN,
     submittedDate : BOOLEAN, response : BOOLEAN, responseDate : BOOLEAN,
     closedBy : Users \cup {Nobody}]

\* A PATCH body: the status it names or none ("-"), whether it has an
\* approval-sensitive field, the employer response it sets or none, and whether
\* it sets the dates to null.
Payload ==
    [status : STATUSES \cup {"-"}, material : BOOLEAN, response : {"-", "text", "blank"},
     noDates : BOOLEAN]

ASSUME QueryAssumption == Nobody \notin Users /\ Payloads \subseteq Payload

VARIABLES
    query,          \* bid_pre_bid_queries: a function on the queries that exist
    approvals,      \* <<query, user>> of the pre_bid_query.approved events
    edited          \* history: queries changed since the approving request loaded them

queryTables == <<query, approvals, edited>>
queryVars == <<queryTables, session>>

Asked == DOMAIN query

QueryTypeOK ==
    /\ Asked \subseteq Queries /\ \A q \in Asked : query[q] \in QueryRow
    /\ approvals \subseteq Queries \X Users
    /\ edited \subseteq Queries

QueriesInit == query = <<>> /\ approvals = {} /\ edited = {}

-----------------------------------------------------------------------------
(* normalize_workflow                                                       *)

Refused(r) == r.status = "Responded" /\ ~r.response

Normalized(r) ==
    [r EXCEPT !.submittedDate = @ \/ r.status = "Submitted",
              !.responseDate = @ \/ r.status = "Responded"]

\* closed_by, when the request names a status.
WithClosing(r, u) ==
    [r EXCEPT !.closedBy = IF r.status \in CLOSED_STATUSES THEN u ELSE Nobody]

(* create_pre_bid_query                                                     *)

Created(s, resp) ==
    [status |-> s, approvedBy |-> Nobody, approvedAt |-> FALSE, submittedDate |-> FALSE,
     response |-> resp, responseDate |-> FALSE, closedBy |-> Nobody]

CreateQuery(u, q, s, resp) ==
    LET r == Normalized(WithClosing(Created(s, resp), u)) IN
    /\ q \notin Asked
    /\ s # "Approved"
    /\ ~Refused(r)
    /\ query' = [p \in Asked \cup {q} |-> IF p = q THEN r ELSE query[p]]
    /\ UNCHANGED <<approvals, edited, session>>

-----------------------------------------------------------------------------
(* update_pre_bid_query                                                     *)

\* Bound: a request that is `alone` overlaps no other.
Admitted(alone) == \A v \in Workers : req[v] # Idle => ~alone /\ ~req[v].alone

\* A request on q loads its row and makes it `new`.
BeginQuery(w, op, u, q, new, material, alone) ==
    /\ Admitted(alone)
    /\ Take(w, [op |-> op, row |-> q, user |-> u, changes |-> Changes(query[q], new),
                material |-> material, alone |-> alone, reads |-> {q}, stale |-> {}])
    /\ UNCHANGED queryTables

WithPayload(r, p) ==
    [r EXCEPT !.status = IF p.status = "-" THEN @ ELSE p.status,
              !.response = IF p.response = "-" THEN @ ELSE p.response = "text",
              !.submittedDate = @ /\ ~p.noDates,
              !.responseDate = @ /\ ~p.noDates]

Unapproved(r) == [r EXCEPT !.approvedBy = Nobody, !.approvedAt = FALSE]

\* Mutant: the reset is skipped when the request names a status.
WithApprovalResetUnlessNamed(r, previous, p) ==
    IF previous = "Approved" /\ p.material /\ p.status = "-"
    THEN [Unapproved(r) EXCEPT !.status = "Ready for Review"]
    ELSE IF previous = "Approved" /\ p.status \in {"Draft", "Ready for Review", "Withdrawn"}
         THEN Unapproved(r)
         ELSE r

WithApprovalReset(r, previous, p) ==
    IF previous = "Approved" /\ p.material
    THEN [Unapproved(r) EXCEPT !.status = "Ready for Review"]
    ELSE IF previous = "Approved" /\ p.status \in {"Draft", "Ready for Review", "Withdrawn"}
         THEN Unapproved(r)
         ELSE r

\* The row the handler makes of the loaded one.
Updated(r, p, u) ==
    LET n == Normalized(WithApprovalReset(WithPayload(r, p), r.status, p))
    IN  IF p.status = "-" THEN n ELSE WithClosing(n, u)

\* Mutant: a PATCH may name the status Approved.
BeginUpdateAny(w, u, q, p) ==
    /\ ~Refused(WithApprovalReset(WithPayload(query[q], p), query[q].status, p))
    /\ BeginQuery(w, "update", u, q, Updated(query[q], p, u), p.material, p \notin Overlapping)

BeginUpdate(w, u, q, p) ==
    /\ p.status = "Approved" => query[q].status = "Approved"
    /\ ~Refused(WithApprovalReset(WithPayload(query[q], p), query[q].status, p))
    /\ BeginQuery(w, "update", u, q, Updated(query[q], p, u), p.material, p \notin Overlapping)

CommitUpdate(w) ==
    LET r == req[w] IN
    /\ r.op = "update"
    /\ query' = [query EXCEPT ![r.row] = Written(@, r.changes)]
    /\ edited' = IF r.material THEN edited \cup {r.row} ELSE edited
    /\ Commit(w, {r.row}, {r.row}, Idle)
    /\ UNCHANGED approvals

-----------------------------------------------------------------------------
(* approve_pre_bid_query and revoke_pre_bid_query_approval                  *)

BeginApprove(w, u, q) ==
    /\ query[q].status = "Ready for Review"
    /\ BeginQuery(w, "approve", u, q, [query[q] EXCEPT !.status = "Approved", !.approvedBy = u], FALSE, FALSE)

\* approved_at is a new time: it is written whatever was loaded.
CommitApprove(w) ==
    LET r == req[w] IN
    /\ r.op = "approve"
    /\ query' = [query EXCEPT ![r.row] = [Written(@, r.changes) EXCEPT !.approvedAt = TRUE]]
    /\ approvals' = approvals \cup {<<r.row, r.user>>}
    /\ edited' = IF r.stale = {} THEN edited \ {r.row} ELSE edited
    /\ Commit(w, {r.row}, {r.row}, Idle)

\* Mutant: approved_by survives the revocation.
RevokedKeeping(r) == [r EXCEPT !.status = "Ready for Review", !.approvedAt = FALSE]

Revoked(r) == [Unapproved(r) EXCEPT !.status = "Ready for Review"]

BeginRevoke(w, u, q) ==
    /\ query[q].status = "Approved"
    /\ query[q].approvedAt
    /\ BeginQuery(w, "revoke", u, q, Revoked(query[q]), FALSE, FALSE)

CommitRevoke(w) ==
    LET r == req[w] IN
    /\ r.op = "revoke"
    /\ query' = [query EXCEPT ![r.row] = Written(@, r.changes)]
    /\ Commit(w, {r.row}, {r.row}, Idle)
    /\ UNCHANGED <<approvals, edited>>

QueriesNext ==
    \/ \E u \in Editors, q \in Queries, s \in STATUSES, resp \in BOOLEAN : CreateQuery(u, q, s, resp)
    \/ \E w \in Workers, q \in Asked :
         \/ \E u \in Editors, p \in Payloads : BeginUpdate(w, u, q, p)
         \/ \E u \in Approvers : BeginApprove(w, u, q) \/ BeginRevoke(w, u, q)
    \/ \E w \in Workers :
         \/ CommitUpdate(w) \/ CommitApprove(w) \/ CommitRevoke(w)
         \/ Die(w) /\ UNCHANGED queryTables

QueriesSpec == QueriesInit /\ SessionInit /\ [][QueriesNext]_queryVars

-----------------------------------------------------------------------------
(* The rows of export.docx with submission_only.                            *)
SubmissionSet ==
    {q \in Asked :
        /\ query[q].status # "Withdrawn"
        /\ query[q].approvedAt \/ query[q].status \in {"Submitted", "Responded", "Closed"}}

\* Whatever the interleaving, a query is Approved, has an approval time or names
\* an approver only if that approval went through the approval route (the 422 of
\* update_pre_bid_query and of create_pre_bid_query).
ApprovedByWorkflow ==
    \A q \in Asked :
        /\ query[q].status = "Approved" \/ query[q].approvedAt => \E u \in Users : <<q, u>> \in approvals
        /\ query[q].approvedBy # Nobody => <<q, query[q].approvedBy>> \in approvals

CalmQueries == Asked \ raced

\* Unless a request committed over a stale row, the text of an Approved query is
\* the text its approver read: every sensitive PATCH sends it back to review.
ApprovedTextIsVetted == \A q \in CalmQueries : query[q].status = "Approved" => q \notin edited

\* Unless a request committed over a stale row, every status is backed by its columns:
\* an Approved query names approver and time together and no other column pretends an
\* approval; closed_by is set exactly in the closed statuses; a Responded query has the
\* employer's response and its date, a Submitted one its date, also when a PATCH blanks
\* them later.
StatusIsBacked ==
    \A q \in CalmQueries :
        /\ query[q].status = "Approved" => query[q].approvedAt
        /\ query[q].approvedAt <=> query[q].approvedBy # Nobody
        /\ query[q].status \in CLOSED_STATUSES <=> query[q].closedBy # Nobody
        /\ query[q].status = "Responded" => query[q].response /\ query[q].responseDate
        /\ query[q].status = "Submitted" => query[q].submittedDate

\* "Draft and withdrawn items excluded", says the exported submission set
\* (api/pre_bid_queries.py, line 94).
DraftsExcluded == \A q \in SubmissionSet : query[q].status \notin {"Draft", "Withdrawn"}
=============================================================================
