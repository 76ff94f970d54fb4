----------------------- MODULE PreparedArtifactsProofs -----------------------
(***************************************************************************)
(* Theorems about PreparedArtifacts for any artifacts, templates, users    *)
(* and request threads.                                                    *)
(***************************************************************************)
EXTENDS PreparedArtifacts, TLAPS

(***************************************************************************)
(* The strengthening of the invariants of Spec: what each request in       *)
(* flight may still rely on when it commits, whatever was committed since  *)
(* it read.                                                                *)
(***************************************************************************)
ReviewedRow(a) == a \in Rows /\ summary[a] = "complete" /\ readyBy[a] # Nobody

CreatingOK(r) ==
    /\ r.user \in Managers /\ r.art \in Artifacts /\ r.template \in Templates
    /\ status[r.art] = "Absent"
    /\ r.step = "create.numbered" <=> r.art \notin stored

ReadyOK(r) == r.user \in Managers /\ r.art \in Rows /\ summary[r.art] = "complete"

ApprovingOK(r) ==
    /\ r.user \in Approvers
    /\ ReviewedRow(r.art)
    /\ r.seen # Nobody => approvedBy[r.art] # Nobody
    /\ r.step = "approve.selected" =>
         \A b \in r.previous :
            ReviewedRow(b) /\ b # r.art /\ template[b] = template[r.art]

RequestOK(r) ==
    /\ r.step \in {"create.numbered", "create.saved"} => CreatingOK(r)
    /\ r.step = "ready.loaded" => ReadyOK(r)
    /\ r.step \in {"approve.loaded", "approve.selected"} => ApprovingOK(r)

RequestsOK == \A w \in Workers : RequestOK(req[w])

\* No other request holds the uuid a creation has drawn.
FreshUuids == \A v, w \in Workers : v # w /\ Creating(v) => req[v].art # req[w].art

AbsentRows == \A a \in Artifacts \ Rows : approvedBy[a] = Nobody

EventRows == \A e \in approvals : e.art \in Rows

RowTemplates == \A a \in Rows : template[a] \in Templates

IInv ==
    /\ TypeOK /\ RequestsOK /\ FreshUuids /\ AbsentRows /\ EventRows /\ RowTemplates
    /\ ReleasedIsComplete /\ RowHasFile /\ ApprovalsAreAudited

-----------------------------------------------------------------------------
(* Lemmas                                                                   *)

\* What a step leaves in a column is the old value or the new one.
LEMMA FlushedChoice ==
    ASSUME NEW current, NEW loaded, NEW new
    PROVE  Flushed(current, loaded, new) \in {current, new}
  BY DEF Flushed

LEMMA IdleRequest == Idle \in Request /\ RequestOK(Idle)
  BY DEF Idle, Request, RequestOK, Steps, Summaries

LEMMA InitIInv == Init => IInv
  <1> SUFFICES ASSUME Init PROVE IInv
    OBVIOUS
  <1>1. Rows = {}
    BY DEF Init, Rows
  <1>2. TypeOK
    BY IdleRequest DEF Init, TypeOK, Statuses, Users, Summaries
  <1>3. RequestsOK /\ FreshUuids
    BY IdleRequest DEF Init, RequestsOK, FreshUuids, Creating, Idle
  <1> QED
    BY <1>1, <1>2, <1>3 DEF Init, IInv, AbsentRows, EventRows,
       RowTemplates, ReleasedIsComplete, RowHasFile, ApprovalsAreAudited

-----------------------------------------------------------------------------
(* A step that only moves a request: the tables are left alone.             *)

TablesUnchanged == UNCHANGED <<rowVars, stored, approvals>>

LEMMA RequestOnly ==
    ASSUME IInv, TablesUnchanged,
           rivalCreations' \subseteq Templates, rivalReviews' \subseteq Templates,
           NEW w \in Workers, NEW r \in Request,
           req' = [req EXCEPT ![w] = r],
           RequestOK(r),
           r.step \in {"create.numbered", "create.saved"} =>
              \A v \in Workers \ {w} : req[v].art # r.art,
           \A v \in Workers \ {w} : Creating(v) => req[v].art # r.art
    PROVE  IInv'
  <1>1. Rows' = Rows
    BY DEF Rows, TablesUnchanged, rowVars
  <1>2. req' \in [Workers -> Request] /\ req'[w] = r
        /\ \A v \in Workers \ {w} : req'[v] = req[v]
    BY DEF IInv, TypeOK
  <1>3. TypeOK'
    BY <1>2 DEF IInv, TypeOK, TablesUnchanged, rowVars
  <1>4. RequestsOK'
    <2> SUFFICES ASSUME NEW v \in Workers PROVE RequestOK(req[v])'
      BY DEF RequestsOK
    <2>1. RequestOK(req'[v])
      BY <1>2 DEF IInv, RequestsOK
    <2> QED
      BY <2>1, <1>1 DEF RequestOK, CreatingOK, ReadyOK, ApprovingOK, ReviewedRow,
         TablesUnchanged, rowVars
  <1>5. FreshUuids'
    BY <1>2 DEF IInv, FreshUuids, Creating
  <1>6. AbsentRows' /\ EventRows' /\ RowTemplates' /\ ReleasedIsComplete' /\ RowHasFile'
        /\ ApprovalsAreAudited'
    BY <1>1 DEF IInv, AbsentRows, EventRows, RowTemplates, ReleasedIsComplete, RowHasFile,
       ApprovalsAreAudited, TablesUnchanged, rowVars
  <1> QED
    BY <1>3, <1>4, <1>5, <1>6 DEF IInv

LEMMA BeginCreateIInv ==
    ASSUME IInv, NEW w \in Workers, NEW u \in Managers, NEW t \in Templates,
           NEW a \in Artifacts, NEW c \in Summaries, BeginCreate(w, u, t, a, c)
    PROVE  IInv'
  <1>1. PICK top \in Taken(t) :
            req' = [req EXCEPT ![w] = [Idle EXCEPT
                        !.step = "create.numbered", !.user = u, !.art = a,
                        !.template = t, !.version = top + 1, !.summary = c]]
    BY DEF BeginCreate
  <1> DEFINE r == [Idle EXCEPT
                        !.step = "create.numbered", !.user = u, !.art = a,
                        !.template = t, !.version = top + 1, !.summary = c]
  <1>2. top \in Nat
    BY DEF Taken, IInv, TypeOK, Rows
  <1>3. r \in Request
    <2> DEFINE i == [Idle EXCEPT !.step = "create.numbered", !.user = u, !.art = a]
    <2>1. i \in Request
      BY DEF Idle, Request, Steps, Users, Summaries
    <2> DEFINE n == top + 1
    <2>2. n \in Nat
      BY <1>2
    <2>3. r = [i EXCEPT !.template = t, !.version = n, !.summary = c]
      OBVIOUS
    <2> HIDE DEF i, n, r
    <2> QED
      BY <2>1, <2>2, <2>3 DEF Request
  <1>4. a \notin stored /\ status[a] = "Absent" /\ \A v \in Workers : req[v].art # a
    BY DEF BeginCreate, IInv, RowHasFile, Rows
  <1>5. RequestOK(r)
    BY <1>4 DEF RequestOK, CreatingOK, Idle
  <1>6. r.art = a
    BY DEF Idle
  <1>7. TablesUnchanged /\ req' = [req EXCEPT ![w] = r]
    BY <1>1 DEF BeginCreate, TablesUnchanged
  <1>8. rivalCreations' \subseteq Templates /\ rivalReviews' \subseteq Templates
    BY DEF BeginCreate, IInv, TypeOK
  <1> HIDE DEF r
  <1> QED
    BY <1>3, <1>4, <1>5, <1>6, <1>7, <1>8, RequestOnly

LEMMA BeginReadyIInv ==
    ASSUME IInv, NEW w \in Workers, NEW u \in Managers, NEW a \in Artifacts,
           BeginReady(w, u, a)
    PROVE  IInv'
  <1> DEFINE r == [Idle EXCEPT !.step = "ready.loaded", !.user = u, !.art = a]
  <1>1. a \in Rows /\ summary[a] = "complete"
    BY DEF BeginReady, Rows
  <1>2. r \in Request /\ RequestOK(r) /\ r.art = a /\ r.step = "ready.loaded"
    BY <1>1 DEF Idle, Request, Steps, Users, Summaries, RequestOK, ReadyOK
  <1>3. \A v \in Workers : Creating(v) => req[v].art # a
    BY <1>1 DEF IInv, RequestsOK, RequestOK, CreatingOK, Creating, Rows
  <1>4. TablesUnchanged /\ req' = [req EXCEPT ![w] = r]
    BY DEF BeginReady, TablesUnchanged
  <1>5. rivalCreations' \subseteq Templates /\ rivalReviews' \subseteq Templates
    BY <1>1 DEF BeginReady, IInv, TypeOK, RowTemplates
  <1> HIDE DEF r
  <1> QED
    BY <1>2, <1>3, <1>4, <1>5, RequestOnly

LEMMA BeginApproveIInv ==
    ASSUME IInv, NEW w \in Workers, NEW u \in Approvers, NEW a \in Artifacts,
           BeginApprove(w, u, a)
    PROVE  IInv'
  <1> DEFINE r == [Idle EXCEPT !.step = "approve.loaded", !.user = u, !.art = a,
                               !.seen = approvedBy[a]]
  <1>1. a \in Rows /\ ReviewedRow(a)
    BY DEF BeginApprove, Rows, IInv, ReleasedIsComplete, Released, ReviewedRow
  <1>2. r \in Request /\ RequestOK(r) /\ r.art = a /\ r.step = "approve.loaded"
    BY <1>1 DEF Idle, Request, Steps, Users, Summaries, RequestOK, ApprovingOK, IInv, TypeOK
  <1>3. \A v \in Workers : Creating(v) => req[v].art # a
    BY <1>1 DEF IInv, RequestsOK, RequestOK, CreatingOK, Creating, Rows
  <1>4. TablesUnchanged /\ req' = [req EXCEPT ![w] = r]
    BY DEF BeginApprove, TablesUnchanged
  <1>5. rivalCreations' \subseteq Templates /\ rivalReviews' \subseteq Templates
    BY <1>1 DEF BeginApprove, IInv, TypeOK, RowTemplates
  <1> HIDE DEF r
  <1> QED
    BY <1>2, <1>3, <1>4, <1>5, RequestOnly

LEMMA SelectPreviousIInv ==
    ASSUME IInv, NEW w \in Workers, SelectPrevious(w)
    PROVE  IInv'
  <1> DEFINE a == req[w].art
             r == [req[w] EXCEPT !.step = "approve.selected",
                                 !.previous = ApprovedOf(template[a]) \ {a}]
  <1>1. req[w] \in Request /\ ApprovingOK(req[w]) /\ a \in Rows
    BY DEF IInv, TypeOK, RequestsOK, RequestOK, SelectPrevious, ApprovingOK, ReviewedRow
  <1>2. r \in Request /\ r.art = a /\ r.step = "approve.selected"
        /\ r.user = req[w].user /\ r.seen = req[w].seen
        /\ r.previous = ApprovedOf(template[a]) \ {a}
    BY <1>1 DEF Request, Steps, ApprovedOf, Rows
  <1>3. \A b \in r.previous :
            ReviewedRow(b) /\ b # r.art /\ template[b] = template[r.art]
    BY <1>2 DEF ApprovedOf, IInv, ReleasedIsComplete, Released, ReviewedRow
  <1>4. RequestOK(r)
    BY <1>1, <1>2, <1>3 DEF RequestOK, ApprovingOK
  <1>5. \A v \in Workers : Creating(v) => req[v].art # a
    BY <1>1 DEF IInv, RequestsOK, RequestOK, CreatingOK, Creating, Rows
  <1>6. TablesUnchanged /\ req' = [req EXCEPT ![w] = r]
    BY DEF SelectPrevious, TablesUnchanged, IInv, TypeOK
  <1>7. \A v \in Workers \ {w} : Creating(v) => req[v].art # r.art
    BY <1>2, <1>5
  <1>8. rivalCreations' \subseteq Templates /\ rivalReviews' \subseteq Templates
    BY DEF SelectPrevious, rivals, IInv, TypeOK
  <1> HIDE DEF r
  <1> QED
    BY <1>2, <1>4, <1>6, <1>7, <1>8, RequestOnly

LEMMA AbortIInv ==
    ASSUME IInv, NEW w \in Workers, Abort(w)
    PROVE  IInv'
  <1>1. TablesUnchanged /\ req' = [req EXCEPT ![w] = Idle]
    BY DEF Abort, TablesUnchanged
  <1>2. Idle.step = "idle" /\ Idle.art = Nobody
    BY DEF Idle
  <1>3. \A v \in Workers : Creating(v) => req[v].art # Nobody
    BY NobodyAssumption DEF IInv, RequestsOK, RequestOK, CreatingOK, Creating
  <1>4. rivalCreations' \subseteq Templates /\ rivalReviews' \subseteq Templates
    BY DEF Abort, rivals, IInv, TypeOK
  <1> QED
    BY <1>1, <1>2, <1>3, <1>4, IdleRequest, RequestOnly

-----------------------------------------------------------------------------
(* The steps that write.                                                    *)

LEMMA SaveFileIInv ==
    ASSUME IInv, NEW w \in Workers, SaveFile(w)
    PROVE  IInv'
  <1> DEFINE r == [req[w] EXCEPT !.step = "create.saved"]
  <1>1. req[w] \in Request /\ CreatingOK(req[w]) /\ Creating(w)
    BY DEF IInv, TypeOK, RequestsOK, RequestOK, SaveFile, Creating
  <1>2. r \in Request /\ r.step = "create.saved" /\ r.art = req[w].art
        /\ r.user = req[w].user /\ r.template = req[w].template
    BY <1>1 DEF Request, Steps
  <1>3. req' \in [Workers -> Request] /\ req'[w] = r
        /\ \A v \in Workers \ {w} : req'[v] = req[v]
    BY <1>2 DEF SaveFile, IInv, TypeOK
  <1> HIDE DEF r
  <1>4. UNCHANGED <<status, template, version, summary, readyBy, approvedBy, approvals,
                    rivalCreations, rivalReviews>>
        /\ stored' = stored \cup {req[w].art} /\ Rows' = Rows
    BY DEF SaveFile, rowVars, rivals, Rows
  <1>5. TypeOK'
    BY <1>1, <1>3, <1>4 DEF IInv, TypeOK, CreatingOK
  <1>6. RequestsOK'
    <2> SUFFICES ASSUME NEW v \in Workers PROVE RequestOK(req[v])'
      BY DEF RequestsOK
    <2>1. CASE v = w
      BY <2>1, <1>1, <1>2, <1>3, <1>4 DEF RequestOK, CreatingOK
    <2>2. CASE v # w
      <3>1. req'[v] = req[v] /\ RequestOK(req[v])
        BY <2>2, <1>3 DEF IInv, RequestsOK
      <3>2. Creating(v) => req[v].art # req[w].art
        BY <2>2 DEF IInv, FreshUuids
      <3> QED
        BY <3>1, <3>2, <1>4 DEF RequestOK, CreatingOK, ReadyOK, ApprovingOK,
           ReviewedRow, Creating
    <2> QED
      BY <2>1, <2>2
  <1>7. FreshUuids'
    BY <1>1, <1>2, <1>3 DEF IInv, FreshUuids, Creating
  <1> QED
    BY <1>4, <1>5, <1>6, <1>7 DEF IInv, AbsentRows, EventRows, RowTemplates,
       ReleasedIsComplete, RowHasFile, ApprovalsAreAudited

LEMMA CommitCreateIInv ==
    ASSUME IInv, NEW w \in Workers, CommitCreate(w)
    PROVE  IInv'
  <1> DEFINE a == req[w].art
  <1>1. req[w] \in Request /\ CreatingOK(req[w]) /\ Creating(w) /\ a \in stored
    BY DEF IInv, TypeOK, RequestsOK, RequestOK, CommitCreate, Creating, CreatingOK
  <1>2. a \in Artifacts /\ status[a] = "Absent" /\ approvedBy[a] = Nobody /\ a \notin Rows
    BY <1>1 DEF CreatingOK, Rows, IInv, AbsentRows
  <1>3. req' \in [Workers -> Request] /\ req'[w] = Idle
        /\ \A v \in Workers \ {w} : req'[v] = req[v]
    BY IdleRequest DEF CommitCreate, IInv, TypeOK
  <1>4. /\ UNCHANGED <<readyBy, approvedBy, stored, approvals, rivalCreations, rivalReviews>>
        /\ status' = [status EXCEPT ![a] = "Draft"]
        /\ template' = [template EXCEPT ![a] = req[w].template]
        /\ version' = [version EXCEPT ![a] = req[w].version]
        /\ summary' = [summary EXCEPT ![a] = req[w].summary]
    BY DEF CommitCreate, rivals
  <1>5. Rows' = Rows \cup {a} /\ status'[a] = "Draft"
        /\ \A b \in Rows : b # a /\ status'[b] = status[b] /\ template'[b] = template[b]
                            /\ summary'[b] = summary[b]
    BY <1>2, <1>4 DEF Rows, IInv, TypeOK
  <1>6. TypeOK'
    BY <1>1, <1>2, <1>3, <1>4 DEF IInv, TypeOK, Statuses, CreatingOK, Request
  <1>7. RequestsOK'
    <2> SUFFICES ASSUME NEW v \in Workers PROVE RequestOK(req[v])'
      BY DEF RequestsOK
    <2>1. CASE v = w
      BY <2>1, <1>3 DEF RequestOK, Idle
    <2>2. CASE v # w
      <3>1. req'[v] = req[v] /\ RequestOK(req[v])
        BY <2>2, <1>3 DEF IInv, RequestsOK
      <3>2. Creating(v) => req[v].art # a
        BY <2>2 DEF IInv, FreshUuids
      <3>3. CASE Creating(v)
        BY <3>1, <3>2, <3>3, <1>4 DEF RequestOK, CreatingOK, Creating, IInv, TypeOK
      <3>4. CASE ~Creating(v)
        BY <3>1, <3>4, <1>4, <1>5 DEF RequestOK, ReadyOK, ApprovingOK, ReviewedRow, Creating
      <3> QED
        BY <3>3, <3>4
    <2> QED
      BY <2>1, <2>2
  <1>8. FreshUuids'
    <2>1. \A v \in Workers : Creating(v) => req[v].art # Nobody
      BY NobodyAssumption DEF IInv, RequestsOK, RequestOK, CreatingOK, Creating
    <2> QED
      BY <2>1, <1>3 DEF IInv, FreshUuids, Creating, Idle
  <1>9. AbsentRows' /\ EventRows' /\ RowHasFile'
    BY <1>1, <1>2, <1>4, <1>5 DEF IInv, AbsentRows, EventRows, RowHasFile
  <1>12. RowTemplates'
    <2>1. template'[a] = req[w].template /\ req[w].template \in Templates
      BY <1>1, <1>2, <1>4 DEF IInv, TypeOK, CreatingOK
    <2> QED
      BY <2>1, <1>5 DEF IInv, RowTemplates
  <1>10. ReleasedIsComplete'
    BY <1>2, <1>4, <1>5 DEF IInv, ReleasedIsComplete, Released
  <1>11. ApprovalsAreAudited'
    BY <1>2, <1>4, <1>5 DEF IInv, ApprovalsAreAudited, EventRows
  <1> QED
    BY <1>6, <1>7, <1>8, <1>9, <1>10, <1>11, <1>12 DEF IInv

LEMMA CommitReadyIInv ==
    ASSUME IInv, NEW w \in Workers, CommitReady(w)
    PROVE  IInv'
  <1> DEFINE a == req[w].art
  <1>1. req[w] \in Request /\ req[w].user \in Managers /\ a \in Rows
        /\ summary[a] = "complete"
    BY DEF IInv, TypeOK, RequestsOK, RequestOK, ReadyOK, CommitReady
  <1>2. req' \in [Workers -> Request] /\ req'[w] = Idle
        /\ \A v \in Workers \ {w} : req'[v] = req[v]
    BY IdleRequest DEF CommitReady, IInv, TypeOK
  <1>3. /\ UNCHANGED <<template, version, summary, approvedBy, stored, approvals,
                       rivalCreations, rivalReviews>>
        /\ status' = [status EXCEPT ![a] = "Ready for Review"]
        /\ readyBy' = [readyBy EXCEPT ![a] = req[w].user]
    BY DEF CommitReady, rivals
  <1>4. req[w].user # Nobody /\ req[w].user \in Users
    BY <1>1, NobodyAssumption DEF Users
  <1>5. Rows' = Rows /\ status'[a] = "Ready for Review" /\ readyBy'[a] # Nobody
        /\ \A b \in Rows : b # a => status'[b] = status[b] /\ readyBy'[b] = readyBy[b]
    BY <1>1, <1>3, <1>4 DEF Rows, IInv, TypeOK
  <1>6. TypeOK'
    BY <1>1, <1>2, <1>3, <1>4 DEF IInv, TypeOK, Statuses, Rows
  <1>7. RequestsOK'
    <2> SUFFICES ASSUME NEW v \in Workers PROVE RequestOK(req[v])'
      BY DEF RequestsOK
    <2>1. CASE v = w
      BY <2>1, <1>2 DEF RequestOK, Idle
    <2>2. CASE v # w
      <3>1. req'[v] = req[v] /\ RequestOK(req[v])
        BY <2>2, <1>2 DEF IInv, RequestsOK
      <3>2. CASE Creating(v)
        BY <3>1, <3>2, <1>1, <1>3 DEF RequestOK, CreatingOK, Creating, IInv, TypeOK, Rows
      <3>3. CASE ~Creating(v)
        <4>1. ReadyOK(req[v]) => ReadyOK(req[v])'
          BY <3>1, <1>3, <1>5 DEF ReadyOK
        <4>2. \A b : ReviewedRow(b) => ReviewedRow(b)'
          BY <1>3, <1>5 DEF ReviewedRow
        <4>3. ApprovingOK(req[v]) => ApprovingOK(req[v])'
          BY <3>1, <4>2, <1>3 DEF ApprovingOK
        <4> QED
          BY <3>1, <3>3, <4>1, <4>3 DEF RequestOK, Creating
      <3> QED
        BY <3>2, <3>3
    <2> QED
      BY <2>1, <2>2
  <1>8. FreshUuids'
    <2>1. \A v \in Workers : Creating(v) => req[v].art # Nobody
      BY NobodyAssumption DEF IInv, RequestsOK, RequestOK, CreatingOK, Creating
    <2> QED
      BY <2>1, <1>2 DEF IInv, FreshUuids, Creating, Idle
  <1>9. AbsentRows' /\ EventRows' /\ RowTemplates' /\ RowHasFile'
    BY <1>3, <1>5 DEF IInv, AbsentRows, EventRows, RowTemplates, RowHasFile
  <1>10. ReleasedIsComplete'
    BY <1>1, <1>3, <1>5 DEF IInv, ReleasedIsComplete, Released
  <1>11. ApprovalsAreAudited'
    <2> SUFFICES ASSUME NEW b \in Rows
                 PROVE
        /\ status'[b] = "Superseded" =>
              \E x \in approvals :
                  b \in x.superseded /\ x.art # b /\ template[x.art] = template[b]
        /\ approvedBy[b] # Nobody =>
              \E x \in approvals : x.art = b /\ x.user = approvedBy[b]
        /\ status'[b] = "Approved" => approvedBy[b] # Nobody
      BY <1>3, <1>5 DEF ApprovalsAreAudited
    <2>1. status'[b] = status[b] \/ status'[b] = "Ready for Review"
      BY <1>5
    <2> QED
      BY <2>1 DEF IInv, ApprovalsAreAudited
  <1> QED
    BY <1>6, <1>7, <1>8, <1>9, <1>10, <1>11 DEF IInv

LEMMA CommitApproveIInv ==
    ASSUME IInv, NEW w \in Workers, CommitApprove(w)
    PROVE  IInv'
  <1> DEFINE a == req[w].art
             old == req[w].previous
             e == [art |-> a, user |-> req[w].user, superseded |-> old]
  <1>1. /\ req[w] \in Request /\ req[w].user \in Approvers /\ ReviewedRow(a)
        /\ req[w].seen # Nobody => approvedBy[a] # Nobody
        /\ \A b \in old : ReviewedRow(b) /\ b # a /\ template[b] = template[a]
    BY DEF IInv, TypeOK, RequestsOK, RequestOK, ApprovingOK, CommitApprove
  <1>2. req' \in [Workers -> Request] /\ req'[w] = Idle
        /\ \A v \in Workers \ {w} : req'[v] = req[v]
    BY IdleRequest DEF CommitApprove, IInv, TypeOK
  <1>3. /\ UNCHANGED <<template, version, summary, readyBy, stored, rivalCreations,
                       rivalReviews>>
        /\ status' = [b \in Artifacts |-> IF b = a THEN "Approved"
                        ELSE IF b \in old THEN "Superseded" ELSE status[b]]
        /\ approvedBy' = [approvedBy EXCEPT
                            ![a] = Flushed(@, req[w].seen, req[w].user)]
        /\ approvals' = approvals \cup {e}
    BY DEF CommitApprove, rivals
  <1>4. req[w].user # Nobody /\ req[w].user \in Users /\ e \in Approval
    BY <1>1, NobodyAssumption DEF Users, Approval, ReviewedRow, Rows, Request
  <1>5. /\ Rows' = Rows /\ a \in Artifacts /\ old \subseteq Artifacts
        /\ status'[a] = "Approved"
        /\ \A b \in old : status'[b] = "Superseded"
        /\ \A b \in Artifacts \ (old \cup {a}) : status'[b] = status[b]
    BY <1>1, <1>3 DEF Rows, IInv, TypeOK, ReviewedRow, Request
  <1>6. /\ approvedBy' \in [Artifacts -> Users \cup {Nobody}]
        /\ approvedBy'[a] # Nobody
        /\ approvedBy'[a] = req[w].user \/ approvedBy'[a] = approvedBy[a]
        /\ \A b \in Artifacts \ {a} : approvedBy'[b] = approvedBy[b]
    <2>1. approvedBy'[a] = Flushed(approvedBy[a], req[w].seen, req[w].user)
          /\ approvedBy \in [Artifacts -> Users \cup {Nobody}]
          /\ approvedBy' = [approvedBy EXCEPT ![a] =
                              Flushed(approvedBy[a], req[w].seen, req[w].user)]
      BY <1>3, <1>5 DEF IInv, TypeOK
    <2> QED
      BY <2>1, <1>1, <1>4, <1>5 DEF Flushed
  <1>7. TypeOK'
    <2>1. status' \in [Artifacts -> Statuses \cup {"Absent"}]
      BY <1>3 DEF IInv, TypeOK, Statuses
    <2> QED
      BY <2>1, <1>2, <1>3, <1>4, <1>6 DEF IInv, TypeOK
  <1>8. RequestsOK'
    <2> SUFFICES ASSUME NEW v \in Workers PROVE RequestOK(req[v])'
      BY DEF RequestsOK
    <2>1. CASE v = w
      BY <2>1, <1>2 DEF RequestOK, Idle
    <2>2. CASE v # w
      <3>1. req'[v] = req[v] /\ RequestOK(req[v])
        BY <2>2, <1>2 DEF IInv, RequestsOK
      <3>2. CASE Creating(v)
        <4>1. CreatingOK(req[v])
          BY <3>1, <3>2 DEF RequestOK, Creating
        <4>2. req[v].art \notin Rows
          BY <4>1 DEF CreatingOK, Rows
        <4>3. status'[req[v].art] = "Absent"
          BY <4>1, <4>2, <1>1, <1>5 DEF CreatingOK, ReviewedRow
        <4> QED
          BY <3>1, <3>2, <4>1, <4>3, <1>3 DEF RequestOK, CreatingOK, Creating
      <3>3. CASE ~Creating(v)
        <4>1. ReadyOK(req[v]) => ReadyOK(req[v])'
          BY <3>1, <1>3, <1>5 DEF ReadyOK
        <4>2. \A b : ReviewedRow(b) => ReviewedRow(b)'
          BY <1>3, <1>5 DEF ReviewedRow
        <4>3. ApprovingOK(req[v]) => ApprovingOK(req[v])'
          BY <3>1, <4>2, <1>3, <1>5, <1>6 DEF ApprovingOK, ReviewedRow, Rows
        <4> QED
          BY <3>1, <3>3, <4>1, <4>3 DEF RequestOK, Creating
      <3> QED
        BY <3>2, <3>3
    <2> QED
      BY <2>1, <2>2
  <1>9. FreshUuids'
    <2>1. \A v \in Workers : Creating(v) => req[v].art # Nobody
      BY NobodyAssumption DEF IInv, RequestsOK, RequestOK, CreatingOK, Creating
    <2> QED
      BY <2>1, <1>2 DEF IInv, FreshUuids, Creating, Idle
  <1>10. AbsentRows' /\ EventRows' /\ RowTemplates' /\ RowHasFile'
    BY <1>1, <1>3, <1>5, <1>6 DEF IInv, AbsentRows, EventRows, RowTemplates, RowHasFile,
       ReviewedRow
  <1>11. ReleasedIsComplete'
    <2> SUFFICES ASSUME NEW b \in Rows,
                        status'[b] \in Released \/ approvedBy'[b] # Nobody
                 PROVE  summary[b] = "complete" /\ readyBy[b] # Nobody
      BY <1>3, <1>5 DEF ReleasedIsComplete
    <2>1. CASE b \in old \cup {a}
      BY <2>1, <1>1 DEF ReviewedRow
    <2>2. CASE b \notin old \cup {a}
      BY <2>2, <1>5, <1>6 DEF IInv, ReleasedIsComplete, Rows
    <2> QED
      BY <2>1, <2>2
  <1>12. ApprovalsAreAudited'
    <2> SUFFICES ASSUME NEW b \in Rows
                 PROVE
        /\ status'[b] = "Superseded" =>
              \E x \in approvals' :
                  b \in x.superseded /\ x.art # b /\ template[x.art] = template[b]
        /\ approvedBy'[b] # Nobody =>
              \E x \in approvals' : x.art = b /\ x.user = approvedBy'[b]
        /\ status'[b] = "Approved" => approvedBy'[b] # Nobody
      BY <1>3, <1>5 DEF ApprovalsAreAudited
    <2>1. e \in approvals' /\ approvals \subseteq approvals' /\ e.art = a
          /\ e.user = req[w].user /\ e.superseded = old
      BY <1>3
    <2>2. CASE b = a
      BY <2>1, <2>2, <1>5, <1>6 DEF IInv, ApprovalsAreAudited
    <2>3. CASE b # a
      <3>1. approvedBy'[b] = approvedBy[b] /\ b \in Artifacts
        BY <2>3, <1>6 DEF Rows
      <3>2. status'[b] = "Superseded" =>
              \E x \in approvals' :
                  b \in x.superseded /\ x.art # b /\ template[x.art] = template[b]
        BY <2>1, <2>3, <3>1, <1>1, <1>5 DEF IInv, ApprovalsAreAudited
      <3>3. status'[b] = "Approved" => status[b] = "Approved"
        BY <2>3, <3>1, <1>5
      <3> QED
        BY <2>1, <3>1, <3>2, <3>3 DEF IInv, ApprovalsAreAudited
    <2> QED
      BY <2>2, <2>3
  <1> QED
    BY <1>7, <1>8, <1>9, <1>10, <1>11, <1>12 DEF IInv

-----------------------------------------------------------------------------
(* The theorems about Spec.                                                 *)

LEMMA NextIInv == IInv /\ [Next]_vars => IInv'
  <1> SUFFICES ASSUME IInv, [Next]_vars PROVE IInv'
    OBVIOUS
  <1>1. CASE UNCHANGED vars
    <2>1. UNCHANGED <<status, template, version, summary, readyBy, approvedBy,
                      stored, approvals, req, rivalCreations, rivalReviews>> /\ Rows' = Rows
      BY <1>1 DEF vars, Rows
    <2>2. RequestsOK'
      <3> SUFFICES ASSUME NEW w \in Workers PROVE RequestOK(req[w])'
        BY DEF RequestsOK
      <3>1. RequestOK(req[w])
        BY DEF IInv, RequestsOK
      <3> QED
        BY <2>1, <3>1 DEF RequestOK, CreatingOK, ReadyOK, ApprovingOK, ReviewedRow
    <2> QED
      BY <2>1, <2>2 DEF IInv, TypeOK, FreshUuids, Creating, AbsentRows, EventRows,
         RowTemplates, ReleasedIsComplete, RowHasFile, ApprovalsAreAudited
  <1>2. ASSUME NEW w \in Workers, Step(w) PROVE IInv'
    <2>1. CASE Create(w)
      BY <2>1, BeginCreateIInv DEF Create
    <2>2. CASE SaveFile(w)
      BY <2>2, SaveFileIInv
    <2>3. CASE CommitCreate(w)
      BY <2>3, CommitCreateIInv
    <2>4. CASE Ready(w)
      BY <2>4, BeginReadyIInv DEF Ready
    <2>5. CASE CommitReady(w)
      BY <2>5, CommitReadyIInv
    <2>6. CASE Approve(w)
      BY <2>6, BeginApproveIInv DEF Approve
    <2>7. CASE SelectPrevious(w)
      BY <2>7, SelectPreviousIInv
    <2>8. CASE CommitApprove(w)
      BY <2>8, CommitApproveIInv
    <2>9. CASE Abort(w)
      BY <2>9, AbortIInv
    <2> QED
      BY <1>2, <2>1, <2>2, <2>3, <2>4, <2>5, <2>6, <2>7, <2>8, <2>9 DEF Step
  <1> QED
    BY <1>1, <1>2 DEF Next

LEMMA SpecIInv == Spec => []IInv
  BY InitIInv, NextIInv, PTL DEF Spec

\* Every variable keeps its type, whatever requests interleave.
THEOREM ArtifactsTypeOK == Spec => []TypeOK
  <1>1. IInv => TypeOK
    BY DEF IInv
  <1> QED
    BY <1>1, SpecIInv, PTL

\* Whatever requests interleave, an artifact that reached review, approval or
\* supersession has nothing unresolved and names who sent it for review.
THEOREM ReleaseNeedsReview == Spec => []ReleasedIsComplete
  <1>1. IInv => ReleasedIsComplete
    BY DEF IInv
  <1> QED
    BY <1>1, SpecIInv, PTL

\* Whenever requests fail, no row lacks its file.
THEOREM FileBeforeRow == Spec => []RowHasFile
  <1>1. IInv => RowHasFile
    BY DEF IInv
  <1> QED
    BY <1>1, SpecIInv, PTL

\* Whatever approvals race, the audit table explains each superseded row and
\* each approver.
THEOREM AuditExplainsApprovals == Spec => []ApprovalsAreAudited
  <1>1. IInv => ApprovalsAreAudited
    BY DEF IInv
  <1> QED
    BY <1>1, SpecIInv, PTL

-----------------------------------------------------------------------------
(***************************************************************************)
(* Rivals.  Until two requests of a kind have been in flight at once on a  *)
(* template, what a request read of it is still true when it commits: the  *)
(* strengthening says so of each request in flight.                        *)
(***************************************************************************)
CurrentCreation(r) == \A b \in Rows : template[b] = r.template => version[b] < r.version

CurrentReview(r) ==
    /\ r.step = "ready.loaded" => status[r.art] = "Draft"
    /\ r.step \in {"approve.loaded", "approve.selected"} =>
         status[r.art] = "Ready for Review"
    /\ r.step = "approve.selected" => r.previous = ApprovedOf(template[r.art])

CurrentReads(w) ==
    LET r == req[w] IN
    /\ Creating(w) => r.template \in rivalCreations \/ CurrentCreation(r)
    /\ Reviewing(w) => template[r.art] \in rivalReviews \/ CurrentReview(r)

AllReadsCurrent == \A w \in Workers : CurrentReads(w)

\* Two requests of a kind in flight on one template are on record.
RivalsRecorded ==
    \A v, w \in Workers :
        v # w =>
            /\ Creating(v) /\ Creating(w) /\ req[v].template = req[w].template
                  => req[v].template \in rivalCreations
            /\ Reviewing(v) /\ Reviewing(w) /\ template[req[v].art] = template[req[w].art]
                  => template[req[v].art] \in rivalReviews

OneUnlessRivals ==
    \A t \in Templates \ rivalReviews : \A a, b \in ApprovedOf(t) : a = b

DInv ==
    /\ IInv /\ RivalsRecorded /\ AllReadsCurrent /\ OneUnlessRivals /\ UniqueVersions

LEMMA InitDInv == Init => DInv
  <1> SUFFICES ASSUME Init PROVE DInv
    OBVIOUS
  <1>1. Rows = {}
    BY DEF Init, Rows
  <1>2. \A w \in Workers : ~Creating(w) /\ ~Reviewing(w)
    BY DEF Init, Idle, Creating, Reviewing
  <1>3. \A t : ApprovedOf(t) = {}
    BY <1>1 DEF ApprovedOf
  <1> QED
    BY <1>1, <1>2, <1>3, InitIInv DEF DInv, RivalsRecorded, AllReadsCurrent,
       CurrentReads, OneUnlessRivals, UniqueVersions

\* Records only grow.
RivalsGrow == rivalCreations \subseteq rivalCreations' /\ rivalReviews \subseteq rivalReviews'

\* A request goes on with what it was about, or starts and records its rivals.
Continues(w) ==
    /\ Creating(w)' =>
         \/ Creating(w) /\ req'[w].template = req[w].template
         \/ \A v \in Workers \ {w} :
              Creating(v) /\ req[v].template = req'[w].template
                 => req[v].template \in rivalCreations'
    /\ Reviewing(w)' =>
         \/ Reviewing(w) /\ req'[w].art = req[w].art
         \/ \A v \in Workers \ {w} :
              Reviewing(v) /\ template[req[v].art] = template'[req'[w].art]
                 => template[req[v].art] \in rivalReviews'

LEMMA StepKeepsRivals ==
    ASSUME DInv, RivalsGrow, NEW w \in Workers, Continues(w),
           \A v \in Workers \ {w} : req'[v] = req[v],
           \A a \in Rows : template'[a] = template[a]
    PROVE  RivalsRecorded'
  <1>1. \A v \in Workers : Reviewing(v) => req[v].art \in Rows
    BY DEF DInv, IInv, RequestsOK, RequestOK, ReadyOK, ApprovingOK, ReviewedRow, Reviewing
  <1>2. \A v \in Workers : Reviewing(v) => template'[req[v].art] = template[req[v].art]
    BY <1>1
  <1>3. ASSUME NEW v \in Workers \ {w}, Creating(v)', Creating(w)',
               req'[v].template = req'[w].template
        PROVE  req'[v].template \in rivalCreations'
    <2>1. req'[v] = req[v] /\ Creating(v)
      BY <1>3 DEF Creating
    <2> QED
      BY <2>1, <1>3 DEF Continues, DInv, RivalsRecorded, RivalsGrow
  <1>4. ASSUME NEW v \in Workers \ {w}, Reviewing(v)', Reviewing(w)',
               template'[req'[v].art] = template'[req'[w].art]
        PROVE  template'[req'[v].art] \in rivalReviews'
    <2>1. req'[v] = req[v] /\ Reviewing(v)
      BY <1>4 DEF Reviewing
    <2> QED
      BY <2>1, <1>2, <1>4 DEF Continues, DInv, RivalsRecorded, RivalsGrow
  <1>5. ASSUME NEW u \in Workers \ {w}, NEW v \in Workers \ {w}, u # v
        PROVE  /\ Creating(u)' /\ Creating(v)' /\ req'[u].template = req'[v].template
                     => req'[u].template \in rivalCreations'
               /\ Reviewing(u)' /\ Reviewing(v)'
                     /\ template'[req'[u].art] = template'[req'[v].art]
                     => template'[req'[u].art] \in rivalReviews'
    <2>1. req'[u] = req[u] /\ req'[v] = req[v]
      OBVIOUS
    <2> QED
      BY <2>1, <1>2, <1>5 DEF DInv, RivalsRecorded, RivalsGrow, Creating, Reviewing
  <1> QED
    BY <1>3, <1>4, <1>5 DEF RivalsRecorded

\* A step that leaves the rows alone keeps the reads of the other requests.
LEMMA RivalRequestOnly ==
    ASSUME DInv, IInv', UNCHANGED rowVars, RivalsGrow,
           NEW w \in Workers, Continues(w),
           \A v \in Workers \ {w} : req'[v] = req[v],
           CurrentReads(w)'
    PROVE  DInv'
  <1>1. Rows' = Rows /\ \A t : ApprovedOf(t)' = ApprovedOf(t)
    BY DEF Rows, ApprovedOf, rowVars
  <1>2. RivalsRecorded'
    BY StepKeepsRivals DEF rowVars
  <1>3. AllReadsCurrent'
    <2> SUFFICES ASSUME NEW v \in Workers, v # w PROVE CurrentReads(v)'
      BY DEF AllReadsCurrent
    <2>1. req'[v] = req[v] /\ CurrentReads(v)
      BY DEF DInv, AllReadsCurrent
    <2> QED
      BY <1>1, <2>1 DEF CurrentReads, CurrentCreation, CurrentReview, Creating, Reviewing,
         RivalsGrow, rowVars
  <1>4. OneUnlessRivals'
    BY <1>1 DEF DInv, OneUnlessRivals, RivalsGrow
  <1>5. UniqueVersions'
    BY <1>1 DEF DInv, UniqueVersions, RivalsGrow, rowVars
  <1> QED
    BY <1>2, <1>3, <1>4, <1>5 DEF DInv

LEMMA BeginCreateDInv ==
    ASSUME DInv, IInv', NEW w \in Workers, NEW u \in Managers,
           NEW t \in Templates, NEW a \in Artifacts, NEW c \in Summaries,
           BeginCreate(w, u, t, a, c)
    PROVE  DInv'
  <1>1. PICK top \in Taken(t) :
            /\ \A n \in Taken(t) : n <= top
            /\ req' = [req EXCEPT ![w] = [Idle EXCEPT
                        !.step = "create.numbered", !.user = u, !.art = a,
                        !.template = t, !.version = top + 1, !.summary = c]]
    BY DEF BeginCreate
  <1>2. /\ req'[w].step = "create.numbered" /\ req'[w].template = t
        /\ req'[w].version = top + 1
        /\ \A v \in Workers \ {w} : req'[v] = req[v]
    BY <1>1 DEF DInv, IInv, TypeOK, Idle
  <1>3. \A b \in Rows : template[b] = t => version[b] \in Nat /\ version[b] <= top
    BY <1>1 DEF Taken, DInv, IInv, TypeOK, Rows
  <1>4. top \in Nat
    BY DEF Taken, DInv, IInv, TypeOK, Rows
  <1>5. UNCHANGED rowVars /\ Rows' = Rows
    BY DEF BeginCreate, rowVars, Rows
  <1>6. CurrentReads(w)'
    BY <1>2, <1>3, <1>4, <1>5 DEF CurrentReads, CurrentCreation, Reviewing, rowVars
  <1>7. RivalsGrow /\ Continues(w)
    BY <1>2 DEF BeginCreate, RivalsGrow, Continues, InCreation, Reviewing
  <1> QED
    BY <1>2, <1>5, <1>6, <1>7, RivalRequestOnly

LEMMA BeginReviewDInv ==
    ASSUME DInv, IInv', NEW w \in Workers, NEW u \in Users, NEW a \in Artifacts,
           BeginReady(w, u, a) \/ BeginApprove(w, u, a)
    PROVE  DInv'
  <1>1. /\ req'[w].art = a
        /\ \/ req'[w].step = "ready.loaded" /\ status[a] = "Draft"
           \/ req'[w].step = "approve.loaded" /\ status[a] = "Ready for Review"
        /\ \A v \in Workers \ {w} : req'[v] = req[v]
    BY DEF BeginReady, BeginApprove, DInv, IInv, TypeOK, Idle
  <1>2. UNCHANGED rowVars /\ template' = template
    BY DEF BeginReady, BeginApprove, rowVars
  <1>3. CurrentReads(w)'
    BY <1>1, <1>2 DEF CurrentReads, CurrentReview, Creating, rowVars
  <1>4. /\ rivalReviews' = rivalReviews \cup (InReview \cap {template[a]})
        /\ rivalCreations' = rivalCreations
    BY DEF BeginReady, BeginApprove
  <1>5. RivalsGrow /\ Continues(w)
    BY <1>1, <1>2, <1>4 DEF RivalsGrow, Continues, InReview, Creating
  <1> QED
    BY <1>1, <1>2, <1>3, <1>5, RivalRequestOnly

LEMMA SelectPreviousDInv ==
    ASSUME DInv, IInv', NEW w \in Workers, SelectPrevious(w)
    PROVE  DInv'
  <1> DEFINE a == req[w].art
  <1>1. req[w] \in Request /\ Reviewing(w)
        /\ (template[a] \in rivalReviews \/ status[a] = "Ready for Review")
    BY DEF DInv, IInv, TypeOK, AllReadsCurrent, CurrentReads, CurrentReview, SelectPrevious,
       Reviewing
  <1>2. /\ req'[w].art = a /\ req'[w].step = "approve.selected"
        /\ req'[w].previous = ApprovedOf(template[a]) \ {a}
        /\ \A v \in Workers \ {w} : req'[v] = req[v]
    BY <1>1 DEF SelectPrevious, DInv, IInv, TypeOK, Request
  <1>3. /\ UNCHANGED rowVars /\ UNCHANGED rivals
        /\ \A t : ApprovedOf(t)' = ApprovedOf(t)
    BY DEF SelectPrevious, rowVars, ApprovedOf, Rows
  <1>4. template[a] \in rivalReviews \/ a \notin ApprovedOf(template[a])
    BY <1>1 DEF ApprovedOf
  <1>5. CurrentReads(w)'
    BY <1>1, <1>2, <1>3, <1>4 DEF CurrentReads, CurrentReview, Creating, rowVars, rivals
  <1>6. RivalsGrow /\ Continues(w)
    BY <1>1, <1>2, <1>3 DEF RivalsGrow, Continues, Creating, rivals
  <1> QED
    BY <1>2, <1>3, <1>5, <1>6, RivalRequestOnly

LEMMA SaveFileDInv ==
    ASSUME DInv, IInv', NEW w \in Workers, SaveFile(w)
    PROVE  DInv'
  <1>1. /\ req'[w].step = "create.saved" /\ req'[w].template = req[w].template
        /\ req'[w].version = req[w].version
        /\ \A v \in Workers \ {w} : req'[v] = req[v]
    BY DEF SaveFile, DInv, IInv, TypeOK, Request
  <1>2. UNCHANGED rowVars /\ UNCHANGED rivals /\ Rows' = Rows
    BY DEF SaveFile, rowVars, Rows
  <1>3. Creating(w) /\ CurrentReads(w)
    BY DEF SaveFile, Creating, DInv, AllReadsCurrent
  <1>4. CurrentReads(w)'
    BY <1>1, <1>2, <1>3 DEF CurrentReads, CurrentCreation, Reviewing, rowVars, rivals
  <1>5. RivalsGrow /\ Continues(w)
    BY <1>1, <1>2, <1>3 DEF RivalsGrow, Continues, Reviewing, rivals
  <1> QED
    BY <1>1, <1>2, <1>4, <1>5, RivalRequestOnly

LEMMA AbortDInv ==
    ASSUME DInv, IInv', NEW w \in Workers, Abort(w)
    PROVE  DInv'
  <1>1. req'[w].step = "idle" /\ \A v \in Workers \ {w} : req'[v] = req[v]
    BY DEF Abort, Idle, DInv, IInv, TypeOK
  <1>2. CurrentReads(w)' /\ Continues(w)
    BY <1>1 DEF CurrentReads, Continues, Creating, Reviewing
  <1>3. UNCHANGED rowVars /\ RivalsGrow
    BY DEF Abort, RivalsGrow, rivals
  <1> QED
    BY <1>1, <1>2, <1>3, RivalRequestOnly

\* A request that has just committed is idle.
LEMMA CommittedIsIdle ==
    ASSUME IInv, NEW w \in Workers, CommitCreate(w) \/ CommitReady(w) \/ CommitApprove(w)
    PROVE  /\ req'[w].step = "idle" /\ \A v \in Workers \ {w} : req'[v] = req[v]
           /\ ~Creating(w)' /\ ~Reviewing(w)'
           /\ CurrentReads(w)' /\ Continues(w)
           /\ RivalsGrow /\ UNCHANGED rivals
  <1>1. req'[w].step = "idle" /\ \A v \in Workers \ {w} : req'[v] = req[v]
    <2>1. req' = [req EXCEPT ![w] = Idle]
      BY DEF CommitCreate, CommitReady, CommitApprove
    <2> QED
      BY <2>1 DEF Idle, IInv, TypeOK
  <1>2. UNCHANGED rivals
    BY DEF CommitCreate, CommitReady, CommitApprove
  <1>3. ~Creating(w)' /\ ~Reviewing(w)'
    BY <1>1 DEF Creating, Reviewing
  <1>4. CurrentReads(w)' /\ Continues(w)
    BY <1>3 DEF CurrentReads, Continues
  <1> QED
    BY <1>1, <1>2, <1>3, <1>4 DEF RivalsGrow, rivals

LEMMA CommitCreateDInv ==
    ASSUME DInv, IInv', NEW w \in Workers, CommitCreate(w)
    PROVE  DInv' /\ \A t : ApprovedOf(t)' = ApprovedOf(t)
  <1> DEFINE a == req[w].art
             s == req[w].template
             n == req[w].version
  <1>1. /\ a \in Artifacts /\ a \notin Rows /\ s \in Templates /\ n \in Nat
        /\ Creating(w) /\ CurrentReads(w)
    BY DEF DInv, IInv, TypeOK, Request, RequestsOK, RequestOK, CreatingOK, CommitCreate,
       Creating, Rows, AllReadsCurrent
  <1>2. s \in rivalCreations \/ \A b \in Rows : template[b] = s => version[b] < n
    BY <1>1 DEF CurrentReads, CurrentCreation
  <1>3. /\ \A v \in Workers \ {w} : req'[v] = req[v]
        /\ CurrentReads(w)' /\ Continues(w) /\ RivalsGrow /\ UNCHANGED rivals
    BY CommittedIsIdle DEF DInv
  <1>4. /\ Rows' = Rows \cup {a} /\ status'[a] = "Draft" /\ template'[a] = s /\ version'[a] = n
        /\ \A b \in Rows : /\ b # a /\ status'[b] = status[b]
                           /\ template'[b] = template[b] /\ version'[b] = version[b]
    BY <1>1 DEF CommitCreate, Rows, DInv, IInv, TypeOK
  <1>5. \A t : ApprovedOf(t)' = ApprovedOf(t)
    BY <1>4 DEF ApprovedOf
  <1>6. AllReadsCurrent'
    <2> SUFFICES ASSUME NEW v \in Workers, v # w PROVE CurrentReads(v)'
      BY <1>3 DEF AllReadsCurrent
    <2>1. req'[v] = req[v] /\ CurrentReads(v) /\ RequestOK(req[v])
      BY <1>3 DEF DInv, IInv, AllReadsCurrent, RequestsOK
    <2>2. CASE Creating(v)
      <3>1. req[v].template = s => req[v].template \in rivalCreations
        BY <2>2, <1>1 DEF DInv, RivalsRecorded
      <3> QED
        BY <2>1, <2>2, <3>1, <1>3, <1>4 DEF CurrentReads, CurrentCreation, Creating,
           Reviewing, rivals
    <2>3. CASE Reviewing(v)
      <3>1. req[v].art \in Rows
        BY <2>1, <2>3 DEF RequestOK, ReadyOK, ApprovingOK, ReviewedRow, Reviewing
      <3> QED
        BY <3>1, <2>1, <2>3, <1>3, <1>4, <1>5 DEF CurrentReads, CurrentReview, Creating,
           Reviewing, rivals
    <2>4. CASE ~Creating(v) /\ ~Reviewing(v)
      BY <2>1, <2>4 DEF CurrentReads, Creating, Reviewing
    <2> QED
      BY <2>2, <2>3, <2>4
  <1>7. RivalsRecorded'
    BY <1>3, <1>4, StepKeepsRivals
  <1>8. OneUnlessRivals'
    BY <1>3, <1>5 DEF DInv, OneUnlessRivals, rivals
  <1>9. UniqueVersions'
    <2>1. \A b \in Rows : version[b] \in Nat
      BY DEF DInv, IInv, TypeOK, Rows
    <2>2. ASSUME NEW b \in Rows, template'[b] = s, version'[b] = n
          PROVE  s \in rivalCreations'
      BY <2>1, <2>2, <1>1, <1>2, <1>3, <1>4 DEF rivals
    <2> QED
      BY <2>2, <1>3, <1>4 DEF DInv, UniqueVersions, rivals
  <1> QED
    BY <1>5, <1>6, <1>7, <1>8, <1>9 DEF DInv

\* What sending artifact a of template t for review does.
ReadyEffect(a, t) ==
    /\ a \in Rows /\ t \in Templates
    /\ t \notin rivalReviews => status[a] = "Draft"
    /\ Rows' = Rows /\ UNCHANGED <<template, version>>
    /\ status'[a] = "Ready for Review"
    /\ \A b \in Artifacts \ {a} : status'[b] = status[b]
    /\ ApprovedOf(t)' = ApprovedOf(t) \ {a}
    /\ t \notin rivalReviews => ApprovedOf(t)' = ApprovedOf(t)
    /\ \A s : s # t => ApprovedOf(s)' = ApprovedOf(s)

LEMMA CommitReadyEffect ==
    ASSUME DInv, NEW w \in Workers, CommitReady(w),
           NEW a, a = req[w].art, NEW t, t = template[a]
    PROVE  Reviewing(w) /\ ReadyEffect(a, t)
  <1>1. a \in Rows /\ t \in Templates /\ Reviewing(w)
        /\ (t \notin rivalReviews => status[a] = "Draft")
    BY DEF DInv, IInv, RequestsOK, RequestOK, ReadyOK, CommitReady, Reviewing,
       AllReadsCurrent, CurrentReads, CurrentReview, RowTemplates
  <1>2. /\ Rows' = Rows /\ UNCHANGED <<template, version>>
        /\ status'[a] = "Ready for Review"
        /\ \A b \in Artifacts \ {a} : status'[b] = status[b]
    BY <1>1 DEF CommitReady, Rows, DInv, IInv, TypeOK
  <1>3. \A s : ApprovedOf(s)' = ApprovedOf(s) \ {a}
    BY <1>1, <1>2 DEF ApprovedOf, Rows
  <1>4. \A s : s # t => a \notin ApprovedOf(s)
    BY DEF ApprovedOf
  <1>5. status[a] = "Draft" => a \notin ApprovedOf(t)
    BY DEF ApprovedOf
  <1> QED
    BY <1>1, <1>2, <1>3, <1>4, <1>5 DEF ReadyEffect

\* What approving artifact a of template t over the versions P does.
ApprovalEffect(a, t, P) ==
    /\ a \in Rows /\ t \in Templates /\ P \subseteq Rows \ {a}
    /\ \A b \in P : template[b] = t
    /\ t \notin rivalReviews => status[a] = "Ready for Review" /\ P = ApprovedOf(t)
    /\ Rows' = Rows /\ UNCHANGED <<template, version>>
    /\ status'[a] = "Approved"
    /\ \A b \in P : status'[b] = "Superseded"
    /\ \A b \in Artifacts \ (P \cup {a}) : status'[b] = status[b]
    /\ ApprovedOf(t)' = (ApprovedOf(t) \ P) \cup {a}
    /\ \A s : s # t => ApprovedOf(s)' = ApprovedOf(s)

LEMMA CommitApproveEffect ==
    ASSUME DInv, NEW w \in Workers, CommitApprove(w),
           NEW a, a = req[w].art, NEW t, t = template[a]
    PROVE  Reviewing(w) /\ ApprovalEffect(a, t, req[w].previous)
  <1> DEFINE P == req[w].previous
  <1>1. /\ a \in Rows /\ t \in Templates /\ Reviewing(w) /\ P \subseteq Rows \ {a}
        /\ \A b \in P : template[b] = t
        /\ t \notin rivalReviews => status[a] = "Ready for Review" /\ P = ApprovedOf(t)
    BY DEF DInv, IInv, RequestsOK, RequestOK, ApprovingOK, ReviewedRow, CommitApprove,
       Reviewing, AllReadsCurrent, CurrentReads, CurrentReview, RowTemplates
  <1>2. /\ UNCHANGED <<template, version>>
        /\ status' = [b \in Artifacts |-> IF b = a THEN "Approved"
                        ELSE IF b \in P THEN "Superseded" ELSE status[b]]
    BY DEF CommitApprove
  <1>3. /\ status'[a] = "Approved"
        /\ \A b \in P : b # a /\ b \in Rows /\ status'[b] = "Superseded"
        /\ \A b \in Artifacts \ (P \cup {a}) : status'[b] = status[b]
    BY <1>1, <1>2 DEF Rows
  <1>4. Rows' = Rows
    BY <1>1, <1>3 DEF Rows
  <1>5. ApprovedOf(t)' = (ApprovedOf(t) \ P) \cup {a}
    <2>1. \A b \in Rows : template[b] = t /\ status'[b] = "Approved"
                            <=> b = a \/ (b \in ApprovedOf(t) /\ b \notin P)
      BY <1>1, <1>3 DEF ApprovedOf, Rows
    <2> QED
      BY <2>1, <1>1, <1>2, <1>4 DEF ApprovedOf
  <1>6. ASSUME NEW s, s # t PROVE ApprovedOf(s)' = ApprovedOf(s)
    <2>1. \A b \in Rows : template[b] = s => status'[b] = status[b]
      BY <1>1, <1>3, <1>6 DEF Rows
    <2> QED
      BY <2>1, <1>2, <1>4 DEF ApprovedOf
  <1> QED
    BY <1>1, <1>2, <1>3, <1>4, <1>5, <1>6 DEF ApprovalEffect

\* A review that commits on artifact a of template t, touching no row of another
\* template: the reads of the other requests stand.
LEMMA ReviewCommitReads ==
    ASSUME DInv, IInv', NEW w \in Workers, CommitReady(w) \/ CommitApprove(w), Reviewing(w),
           NEW t, t = template[req[w].art],
           Rows' = Rows, UNCHANGED <<template, version>>,
           \A b \in Rows : template[b] # t => status'[b] = status[b],
           \A s : s # t => ApprovedOf(s)' = ApprovedOf(s),
           OneUnlessRivals'
    PROVE  DInv'
  <1>1. /\ \A v \in Workers \ {w} : req'[v] = req[v]
        /\ CurrentReads(w)' /\ Continues(w) /\ RivalsGrow /\ UNCHANGED rivals
    BY CommittedIsIdle DEF DInv
  <1>2. AllReadsCurrent'
    <2> SUFFICES ASSUME NEW v \in Workers, v # w PROVE CurrentReads(v)'
      BY <1>1 DEF AllReadsCurrent
    <2>1. req'[v] = req[v] /\ CurrentReads(v) /\ RequestOK(req[v])
      BY <1>1 DEF DInv, IInv, AllReadsCurrent, RequestsOK
    <2>2. CASE Reviewing(v)
      <3>1. req[v].art \in Rows
        BY <2>1, <2>2 DEF RequestOK, ReadyOK, ApprovingOK, ReviewedRow, Reviewing
      <3>2. template[req[v].art] = t => template[req[v].art] \in rivalReviews
        BY <2>2 DEF DInv, RivalsRecorded
      <3> QED
        BY <3>1, <3>2, <2>1, <2>2, <1>1 DEF CurrentReads, CurrentReview, Creating,
           Reviewing, rivals
    <2>3. CASE ~Reviewing(v)
      BY <2>1, <2>3, <1>1 DEF CurrentReads, CurrentCreation, Creating, Reviewing, rivals
    <2> QED
      BY <2>2, <2>3
  <1>3. RivalsRecorded'
    BY <1>1, StepKeepsRivals
  <1>4. UniqueVersions'
    BY <1>1 DEF DInv, UniqueVersions, rivals
  <1> QED
    BY <1>2, <1>3, <1>4 DEF DInv

LEMMA CommitReadyDInv ==
    ASSUME DInv, IInv', NEW w \in Workers, CommitReady(w)
    PROVE  DInv'
  <1>1. PICK a : a = req[w].art
    OBVIOUS
  <1>2. PICK t : t = template[a]
    OBVIOUS
  <1>3. Reviewing(w) /\ ReadyEffect(a, t)
    BY <1>1, <1>2, CommitReadyEffect
  <1>4. \A s : ApprovedOf(s)' \subseteq ApprovedOf(s)
    BY <1>3 DEF ReadyEffect
  <1>5. OneUnlessRivals'
    BY <1>4, CommittedIsIdle DEF DInv, OneUnlessRivals, rivals
  <1>6. \A b \in Rows : template[b] # t => status'[b] = status[b]
    BY <1>2, <1>3 DEF ReadyEffect, Rows
  <1>7. Rows' = Rows /\ UNCHANGED <<template, version>>
        /\ \A s : s # t => ApprovedOf(s)' = ApprovedOf(s)
    BY <1>3 DEF ReadyEffect
  <1> QED
    BY <1>1, <1>2, <1>3, <1>5, <1>6, <1>7, ReviewCommitReads

LEMMA CommitApproveDInv ==
    ASSUME DInv, IInv', NEW w \in Workers, CommitApprove(w)
    PROVE  DInv'
  <1>1. PICK a : a = req[w].art
    OBVIOUS
  <1>2. PICK t : t = template[a]
    OBVIOUS
  <1>3. Reviewing(w) /\ ApprovalEffect(a, t, req[w].previous)
    BY <1>1, <1>2, CommitApproveEffect
  <1>4. rivalReviews' = rivalReviews
    BY CommittedIsIdle DEF DInv, rivals
  <1>5. OneUnlessRivals'
    <2>1. t \notin rivalReviews => ApprovedOf(t)' = {a}
      BY <1>3 DEF ApprovalEffect
    <2>2. \A s : s # t => ApprovedOf(s)' = ApprovedOf(s)
      BY <1>3 DEF ApprovalEffect
    <2> QED
      BY <2>1, <2>2, <1>4 DEF DInv, OneUnlessRivals
  <1>6. \A b \in Rows : template[b] # t => status'[b] = status[b]
    BY <1>2, <1>3 DEF ApprovalEffect, Rows
  <1>7. Rows' = Rows /\ UNCHANGED <<template, version>>
        /\ \A s : s # t => ApprovedOf(s)' = ApprovedOf(s)
    BY <1>3 DEF ApprovalEffect
  <1> QED
    BY <1>1, <1>2, <1>3, <1>5, <1>6, <1>7, ReviewCommitReads

LEMMA NextDInv == DInv /\ [Next]_vars => DInv'
  <1> SUFFICES ASSUME DInv, [Next]_vars PROVE DInv'
    OBVIOUS
  <1>1. IInv'
    BY NextIInv DEF DInv
  <1>2. CASE UNCHANGED vars
    <2>1. UNCHANGED <<rowVars, req, rivals>> /\ Rows' = Rows
          /\ \A t : ApprovedOf(t)' = ApprovedOf(t)
      BY <1>2 DEF vars, rowVars, rivals, Rows, ApprovedOf
    <2>2. RivalsRecorded' /\ OneUnlessRivals' /\ UniqueVersions'
      BY <2>1 DEF DInv, RivalsRecorded, Creating, Reviewing, OneUnlessRivals,
         UniqueVersions, rowVars, rivals
    <2>3. AllReadsCurrent'
      BY <2>1 DEF DInv, AllReadsCurrent, CurrentReads, CurrentCreation, CurrentReview,
         Creating, Reviewing, rowVars, rivals
    <2> QED
      BY <1>1, <2>2, <2>3 DEF DInv
  <1>3. ASSUME NEW w \in Workers, Step(w) PROVE DInv'
    <2>1. CASE Create(w)
      BY <1>1, <2>1, BeginCreateDInv DEF Create
    <2>2. CASE SaveFile(w)
      BY <1>1, <2>2, SaveFileDInv
    <2>3. CASE CommitCreate(w)
      BY <1>1, <2>3, CommitCreateDInv
    <2>4. CASE Ready(w)
      BY <1>1, <2>4, BeginReviewDInv DEF Ready, Users
    <2>5. CASE CommitReady(w)
      BY <1>1, <2>5, CommitReadyDInv
    <2>6. CASE Approve(w)
      BY <1>1, <2>6, BeginReviewDInv DEF Approve, Users
    <2>7. CASE SelectPrevious(w)
      BY <1>1, <2>7, SelectPreviousDInv
    <2>8. CASE CommitApprove(w)
      BY <1>1, <2>8, CommitApproveDInv
    <2>9. CASE Abort(w)
      BY <1>1, <2>9, AbortDInv
    <2> QED
      BY <1>3, <2>1, <2>2, <2>3, <2>4, <2>5, <2>6, <2>7, <2>8, <2>9 DEF Step
  <1> QED
    BY <1>2, <1>3 DEF Next

LEMMA SpecDInv == Spec => []DInv
  BY InitDInv, NextDInv, PTL DEF Spec

\* Under every interleaving two versions of a template share a number only when
\* two creations of that template were in flight at once.
THEOREM OnlyRivalsShareNumbers == Spec => []UniqueVersions
  <1>1. DInv => UniqueVersions
    BY DEF DInv
  <1> QED
    BY <1>1, SpecDInv, PTL

\* Under every interleaving a template has two approved versions only when two
\* of its reviews were in flight at once.
THEOREM OnlyRivalsApproveTwice == Spec => []OneUnlessRivals
  <1>1. DInv => OneUnlessRivals
    BY DEF DInv
  <1> QED
    BY <1>1, SpecDInv, PTL

-----------------------------------------------------------------------------
(* Spec implements ApprovedVersion.                                         *)

registerVars == <<[t \in Templates |-> ApprovedOf(t)], Retired, rivalReviews>>

LEMMA InitRegister == Init => Register!Init
  <1> SUFFICES ASSUME Init PROVE Register!Init
    OBVIOUS
  <1>1. Rows = {} /\ Retired = {} /\ rivalReviews = {}
    BY DEF Init, Rows, Retired
  <1>2. \A t : ApprovedOf(t) = {}
    BY <1>1 DEF ApprovedOf
  <1> QED
    BY <1>1, <1>2 DEF Register!Init

\* Steps that approve nothing leave the register alone.
LEMMA SameRegister ==
    ASSUME \A t : ApprovedOf(t)' = ApprovedOf(t),
           \A a \in Artifacts : status'[a] = "Superseded" <=> status[a] = "Superseded",
           UNCHANGED rivalReviews
    PROVE  UNCHANGED registerVars
  BY DEF Retired, registerVars

LEMMA ApprovePromotes ==
    ASSUME DInv, NEW w \in Workers, CommitApprove(w)
    PROVE  Register!Next
  <1>1. PICK a : a = req[w].art
    OBVIOUS
  <1>2. PICK t : t = template[a]
    OBVIOUS
  <1> DEFINE P == req[w].previous
  <1>3. ApprovalEffect(a, t, P)
    BY <1>1, <1>2, CommitApproveEffect
  <1>4. a \in Artifacts /\ t \in Templates /\ P \in SUBSET (Artifacts \ {a})
    BY <1>3 DEF ApprovalEffect, Rows
  <1>5. [s \in Templates |-> ApprovedOf(s)]' =
           [[s \in Templates |-> ApprovedOf(s)] EXCEPT ![t] = (ApprovedOf(t) \ P) \cup {a}]
    BY <1>3 DEF ApprovalEffect
  <1>6. Retired' = (Retired \ {a}) \cup P
    BY <1>3, <1>4 DEF Retired, ApprovalEffect
  <1>7. rivalReviews' = rivalReviews
    BY CommittedIsIdle DEF DInv, rivals
  <1> HIDE DEF P
  <1>8. CASE t \in rivalReviews
    <2>1. Register!PromoteOver(t, a, P)
      BY <1>4, <1>5, <1>6, <1>7, <1>8 DEF Register!PromoteOver
    <2> QED
      BY <2>1, <1>4 DEF Register!Next
  <1>9. CASE t \notin rivalReviews
    <2>1. P = ApprovedOf(t) /\ status[a] = "Ready for Review"
      BY <1>3, <1>9 DEF ApprovalEffect
    <2>2. a \notin Retired /\ \A s \in Templates : a \notin ApprovedOf(s)
      BY <2>1 DEF Retired, ApprovedOf
    <2>3. (ApprovedOf(t) \ P) \cup {a} = {a} /\ (Retired \ {a}) \cup P = Retired \cup ApprovedOf(t)
      BY <2>1, <2>2
    <2>4. Register!Promote(t, a)
      BY <2>2, <2>3, <1>4, <1>5, <1>6, <1>7, <1>9 DEF Register!Promote
    <2> QED
      BY <2>4, <1>4 DEF Register!Next
  <1> QED
    BY <1>8, <1>9

LEMMA ReadyTakesBack ==
    ASSUME DInv, NEW w \in Workers, CommitReady(w)
    PROVE  Register!Next \/ UNCHANGED registerVars
  <1>1. PICK a : a = req[w].art
    OBVIOUS
  <1>2. PICK t : t = template[a]
    OBVIOUS
  <1>3. ReadyEffect(a, t)
    BY <1>1, <1>2, CommitReadyEffect
  <1>4. a \in Artifacts /\ t \in Templates
    BY <1>3 DEF ReadyEffect, Rows
  <1>5. rivalReviews' = rivalReviews
    BY CommittedIsIdle DEF DInv, rivals
  <1>6. CASE t \in rivalReviews
    <2>1. [s \in Templates |-> ApprovedOf(s)]' =
             [[s \in Templates |-> ApprovedOf(s)] EXCEPT ![t] = ApprovedOf(t) \ {a}]
      BY <1>3 DEF ReadyEffect
    <2>2. Retired' = Retired \ {a}
      BY <1>3, <1>4 DEF ReadyEffect, Retired
    <2>3. Register!TakeBack(t, a)
      BY <2>1, <2>2, <1>4, <1>5, <1>6 DEF Register!TakeBack
    <2> QED
      BY <2>3, <1>4 DEF Register!Next
  <1>7. CASE t \notin rivalReviews
    <2>1. \A s : ApprovedOf(s)' = ApprovedOf(s)
      BY <1>3, <1>7 DEF ReadyEffect
    <2>2. \A b \in Artifacts : status'[b] = "Superseded" <=> status[b] = "Superseded"
      BY <1>3, <1>7 DEF ReadyEffect
    <2> QED
      BY <2>1, <2>2, <1>5, SameRegister
  <1> QED
    BY <1>6, <1>7

LEMMA BeginReviewContests ==
    ASSUME DInv, NEW w \in Workers, NEW u \in Users, NEW a \in Artifacts,
           BeginReady(w, u, a) \/ BeginApprove(w, u, a)
    PROVE  Register!Next \/ UNCHANGED registerVars
  <1> DEFINE t == template[a]
  <1>1. /\ UNCHANGED rowVars /\ a \in Rows
        /\ rivalReviews' = rivalReviews \cup (InReview \cap {t})
    BY DEF BeginReady, BeginApprove, Rows
  <1>2. t \in Templates
    BY <1>1 DEF DInv, IInv, RowTemplates
  <1>3. [s \in Templates |-> ApprovedOf(s)]' = [s \in Templates |-> ApprovedOf(s)]
        /\ Retired' = Retired
    BY <1>1 DEF ApprovedOf, Rows, Retired, rowVars
  <1> HIDE DEF t
  <1>4. CASE t \in InReview
    <2>1. rivalReviews' = rivalReviews \cup {t}
      BY <1>1, <1>4
    <2>2. Register!Contest(t)
      BY <2>1, <1>3 DEF Register!Contest
    <2> QED
      BY <2>2, <1>2 DEF Register!Next
  <1>5. CASE t \notin InReview
    <2>1. rivalReviews' = rivalReviews
      BY <1>1, <1>5
    <2> QED
      BY <2>1, <1>3 DEF registerVars
  <1> QED
    BY <1>4, <1>5

LEMMA StepRegister ==
    ASSUME DInv, IInv', NEW w \in Workers, Step(w)
    PROVE  Register!Next \/ UNCHANGED registerVars
  <1>1. CASE CommitApprove(w)
    BY <1>1, ApprovePromotes
  <1>2. CASE CommitCreate(w)
    <2>1. \A a \in Artifacts : status'[a] = "Superseded" <=> status[a] = "Superseded"
      BY <1>2 DEF CommitCreate, DInv, IInv, TypeOK, RequestsOK, RequestOK, CreatingOK
    <2>2. UNCHANGED rivalReviews
      BY <1>2 DEF CommitCreate, rivals
    <2> QED
      BY <1>2, <2>1, <2>2, CommitCreateDInv, SameRegister
  <1>3. CASE CommitReady(w)
    BY <1>3, ReadyTakesBack
  <1>4. CASE Ready(w) \/ Approve(w)
    BY <1>4, BeginReviewContests DEF Ready, Approve, Users
  <1>5. CASE Create(w) \/ SaveFile(w) \/ SelectPrevious(w) \/ Abort(w)
    <2>1. UNCHANGED rowVars /\ UNCHANGED rivalReviews
      BY <1>5 DEF Create, BeginCreate, SaveFile, SelectPrevious, Abort, rivals
    <2> QED
      BY <2>1 DEF rowVars, registerVars, ApprovedOf, Rows, Retired
  <1> QED
    BY <1>1, <1>2, <1>3, <1>4, <1>5 DEF Step

\* Under every interleaving of creations, reviews and approvals the approved
\* versions behave as the register: single, replaced in one step and never
\* reverting until two reviews of the template overlap, and after that still
\* changed by approvals and reviews of that template only.
THEOREM ArtifactsImplementRegister == Spec => ApprovedVersionSpec
  <1>1. DInv /\ DInv' /\ [Next]_vars => [Register!Next]_registerVars
    <2> SUFFICES ASSUME DInv, DInv', [Next]_vars PROVE [Register!Next]_registerVars
      OBVIOUS
    <2>1. CASE UNCHANGED vars
      BY <2>1 DEF vars, registerVars, ApprovedOf, Rows, Retired
    <2>2. ASSUME NEW w \in Workers, Step(w)
          PROVE  Register!Next \/ UNCHANGED registerVars
      BY <2>2, StepRegister DEF DInv
    <2> QED
      BY <2>1, <2>2 DEF Next
  <1> QED
    BY <1>1, InitRegister, SpecDInv, PTL DEF Spec, ApprovedVersionSpec, Register!Spec,
       registerVars
=============================================================================
