------------------------ MODULE ReviewedRegistersProofs ------------------------
(***************************************************************************)
(* Proofs about the registers whose rows carry a verdict of a user that    *)
(* later work must not silently outlive: ExecutionLearning,                *)
(* PlanningFindings and PreBidQueries.  Whatever requests overlap, each    *)
(* knows what its rows say as long as nobody changed them.                 *)
(***************************************************************************)
EXTENDS ExecutionLearning, PlanningFindings, PreBidQueries, TLAPS

-----------------------------------------------------------------------------
(* ExecutionLearning: saves, reviews and what the portfolio counts          *)

Drafted == {Changes(l, DraftOf(l, d)) : l \in LearningRow, d \in Data}
Approval(l, u) == [l EXCEPT !.status = "Reviewed", !.reviewedBy = u]
Vouched == {Changes(l, Approval(l, u)) : l \in LearningRow, u \in Reviewers}

SaveRequest ==
    [op : {"save"}, row : Learned, insert : BOOLEAN, data : Data,
     changes : Drafted \cup {<<>>}, reads : SUBSET Learned, stale : SUBSET Learned]
VouchRequest ==
    [op : {"review"}, row : Learned, data : Data,
     changes : Vouched, reads : SUBSET Learned, stale : SUBSET Learned]

\* A save that is no insert has a row, and changes it into a Draft as long as nobody
\* changed it; it would insert nothing but the actuals.
SaveKnows(table, r) ==
    /\ r.row \in r.reads
    /\ r.insert => r.row = "actuals"
    /\ ~r.insert =>
          /\ r.row \in DOMAIN table /\ r.changes \in Drafted
          /\ r.row \notin r.stale =>
                \E d \in Data : r.changes = Changes(table[r.row], DraftOf(table[r.row], d))

\* A review knows what its rows say as long as nobody changed them.
VouchKnows(table, r) ==
    /\ r.row \in DOMAIN table /\ r.row \in r.reads
    /\ "actuals" \in DOMAIN table /\ "actuals" \in r.reads
    /\ r.row \notin r.stale =>
          /\ DataOf(table[r.row]) = r.data /\ Evidenced(table[r.row])
          /\ \E u \in Reviewers : r.changes = Changes(table[r.row], Approval(table[r.row], u))
    /\ r.row # "actuals" /\ "actuals" \notin r.stale => table["actuals"].status = "Reviewed"

LearningKnows(table, r) ==
    \/ r = Idle
    \/ r \in SaveRequest /\ SaveKnows(table, r)
    \/ r \in VouchRequest /\ VouchKnows(table, r)

Backed(x) ==
    /\ x \in DOMAIN seen /\ DataOf(learning[x]) = seen[x]
    /\ Evidenced(learning[x]) /\ learning[x].reviewedBy # Nobody

LInv ==
    /\ LearningTypeOK
    /\ DOMAIN req = Workers
    /\ \A w \in Workers : LearningKnows(learning, req[w])
    /\ DOMAIN learning # {} => "actuals" \in DOMAIN learning
    /\ \A x \in DOMAIN learning \ raced : learning[x].status = "Reviewed" => Backed(x)

-----------------------------------------------------------------------------
(* What a commit makes of a row                                             *)

LearningColumns == {"value", "source", "status", "reviewedBy"}

LEMMA WrittenLearning ==
    ASSUME NEW was \in LearningRow, NEW l \in LearningRow, NEW n \in LearningRow
    PROVE  /\ Written(was, Changes(l, n)) \in LearningRow
           /\ \A c \in LearningColumns :
                 Written(was, Changes(l, n))[c] = IF n[c] # l[c] THEN n[c] ELSE was[c]
  <1> DEFINE ch == Changes(l, n)
             wr == Written(was, ch)
  <1>1. DOMAIN l = LearningColumns /\ DOMAIN n = LearningColumns /\ DOMAIN was = LearningColumns
        BY DEF LearningRow, LearningColumns
  <1>2. /\ DOMAIN ch = {c \in LearningColumns : n[c] # l[c]}
        /\ \A c \in DOMAIN ch : ch[c] = n[c]
        BY <1>1 DEF Changes
  <1>3. wr = [c \in LearningColumns |-> IF c \in DOMAIN ch THEN ch[c] ELSE was[c]]
        BY <1>1 DEF Written
  <1> HIDE DEF ch, wr
  <1>4. \A c \in LearningColumns : wr[c] = IF n[c] # l[c] THEN n[c] ELSE was[c]
        BY <1>2, <1>3
  <1>5. wr \in LearningRow
    <2>1. wr = [value |-> wr.value, source |-> wr.source,
                status |-> wr.status, reviewedBy |-> wr.reviewedBy]
          BY <1>3 DEF LearningColumns
    <2>2. /\ wr.value \in Values \cup {Nobody} /\ wr.source \in Sources \cup {Nobody}
          /\ wr.status \in {"Draft", "Reviewed"} /\ wr.reviewedBy \in Reviewers \cup {Nobody}
          BY <1>4 DEF LearningColumns, LearningRow
    <2> QED BY <2>1, <2>2 DEF LearningRow
  <1> QED BY <1>4, <1>5 DEF ch, wr

LEMMA DraftsAreRows ==
    ASSUME NEW l \in LearningRow, NEW d \in Data
    PROVE  DraftOf(l, d) \in LearningRow /\ FirstDraft(d) \in LearningRow
  BY DEF DraftOf, FirstDraft, LearningRow, Data

LEMMA ApprovalsAreRows ==
    ASSUME NEW l \in LearningRow, NEW u \in Reviewers
    PROVE  Approval(l, u) \in LearningRow
  BY DEF Approval, LearningRow

\* A save leaves a Draft, or what was no Draft of a row it did not find Reviewed.
LEMMA SavedRow ==
    ASSUME NEW was \in LearningRow, NEW ch \in Drafted
    PROVE  /\ Written(was, ch) \in LearningRow
           /\ was.status = "Draft" => Written(was, ch).status = "Draft"
  <1>1. PICK l \in LearningRow, d \in Data : ch = Changes(l, DraftOf(l, d))
        BY DEF Drafted
  <1>2. DraftOf(l, d) \in LearningRow /\ DraftOf(l, d).status = "Draft"
        BY DraftsAreRows DEF DraftOf
  <1> QED BY <1>1, <1>2, WrittenLearning DEF LearningColumns

\* A save over the row it loaded leaves a Draft.
LEMMA SavedOverLoaded ==
    ASSUME NEW l \in LearningRow, NEW d \in Data
    PROVE  Written(l, Changes(l, DraftOf(l, d))).status = "Draft"
  <1>1. DraftOf(l, d) \in LearningRow /\ DraftOf(l, d).status = "Draft"
        BY DraftsAreRows DEF DraftOf
  <1> QED BY <1>1, WrittenLearning DEF LearningColumns

LEMMA ApprovedRow ==
    ASSUME NEW was \in LearningRow, NEW ch \in Vouched
    PROVE  /\ Written(was, ch) \in LearningRow
           /\ Written(was, ch).value = was.value /\ Written(was, ch).source = was.source
  <1>1. PICK l \in LearningRow, u \in Reviewers : ch = Changes(l, Approval(l, u))
        BY DEF Vouched
  <1>2. /\ Approval(l, u) \in LearningRow
        /\ Approval(l, u).value = l.value /\ Approval(l, u).source = l.source
        BY ApprovalsAreRows DEF Approval, LearningRow
  <1> QED BY <1>1, <1>2, WrittenLearning DEF LearningColumns

LEMMA ApprovedOverLoaded ==
    ASSUME NEW l \in LearningRow, NEW u \in Reviewers
    PROVE  Written(l, Changes(l, Approval(l, u))).reviewedBy # Nobody
  <1>1. Approval(l, u) \in LearningRow /\ Approval(l, u).reviewedBy = u
        BY ApprovalsAreRows DEF Approval, LearningRow
  <1>2. Written(l, Changes(l, Approval(l, u))).reviewedBy = u
        BY <1>1, WrittenLearning DEF LearningColumns
  <1> QED BY <1>2, ReviewersAssumption

-----------------------------------------------------------------------------
(* What a request knows survives the commits of others                      *)

LEMMA LearningGrown ==
    ASSUME NEW L, NEW M, NEW r, LearningKnows(L, r),
           DOMAIN L \subseteq DOMAIN M, \A y \in DOMAIN L : M[y] = L[y]
    PROVE  LearningKnows(M, r)
  <1>1. CASE r \in SaveRequest /\ SaveKnows(L, r)
        BY <1>1 DEF LearningKnows, SaveKnows
  <1>2. CASE r \in VouchRequest /\ VouchKnows(L, r)
        BY <1>2 DEF LearningKnows, VouchKnows
  <1> QED BY <1>1, <1>2 DEF LearningKnows

LEMMA LearningStale ==
    ASSUME NEW L, NEW M, NEW r, LearningKnows(L, r), r # Idle, NEW x \in Learned,
           DOMAIN L \subseteq DOMAIN M, \A y \in DOMAIN L \ {x} : M[y] = L[y]
    PROVE  LearningKnows(M, [r EXCEPT !.stale = @ \cup ({x} \cap r.reads)])
  <1> DEFINE s == [r EXCEPT !.stale = @ \cup ({x} \cap r.reads)]
  <1>1. CASE r \in SaveRequest /\ SaveKnows(L, r)
    <2>1. /\ s \in SaveRequest /\ s.row = r.row /\ s.insert = r.insert
          /\ s.changes = r.changes /\ s.reads = r.reads
          /\ s.stale = r.stale \cup ({x} \cap r.reads)
          BY <1>1 DEF SaveRequest
    <2> HIDE DEF s
    <2>2. SaveKnows(M, s) BY <1>1, <2>1 DEF SaveKnows
    <2> QED BY <2>1, <2>2 DEF LearningKnows, s
  <1>2. CASE r \in VouchRequest /\ VouchKnows(L, r)
    <2>1. /\ s \in VouchRequest /\ s.row = r.row /\ s.data = r.data
          /\ s.changes = r.changes /\ s.reads = r.reads
          /\ s.stale = r.stale \cup ({x} \cap r.reads)
          BY <1>2 DEF VouchRequest
    <2> HIDE DEF s
    <2>2. VouchKnows(M, s) BY <1>2, <2>1 DEF VouchKnows
    <2> QED BY <2>1, <2>2 DEF LearningKnows, s
  <1> QED BY <1>1, <1>2 DEF LearningKnows

\* After a commit of the row x by w every request knows what it must.
LEMMA CommitKnowsLearning ==
    ASSUME LInv, NEW w \in Workers, NEW x \in Learned,
           DOMAIN learning \subseteq DOMAIN learning',
           \A y \in DOMAIN learning \ {x} : learning'[y] = learning[y],
           Commit(w, {x}, {x}, Idle)
    PROVE  /\ DOMAIN req' = Workers
           /\ \A v \in Workers : LearningKnows(learning', req'[v])
  <1>1. DOMAIN req' = Workers BY DEF Commit
  <1>2. ASSUME NEW v \in Workers PROVE LearningKnows(learning', req'[v])
    <2>1. LearningKnows(learning, req[v]) BY DEF LInv
    <2>2. CASE v = w
          BY <2>2 DEF Commit, LearningKnows
    <2>3. CASE v # w /\ req[v] = Idle
          BY <2>3 DEF Commit, LearningKnows
    <2>4. CASE v # w /\ req[v] # Idle
      <3>1. req'[v] = [req[v] EXCEPT !.stale = @ \cup ({x} \cap req[v].reads)]
            BY <2>4 DEF Commit
      <3>2. PICK L, M, r : L = learning /\ M = learning' /\ r = req[v] OBVIOUS
      <3>3. LearningKnows(M, [r EXCEPT !.stale = @ \cup ({x} \cap r.reads)])
            BY <2>1, <2>4, <3>2, LearningStale
      <3> QED BY <3>1, <3>2, <3>3
    <2> QED BY <2>2, <2>3, <2>4
  <1> QED BY <1>1, <1>2

\* Taking a request over an unchanged table.
LEMMA TakeLearning ==
    ASSUME LInv, NEW w \in Workers, NEW r, Take(w, r), LearningKnows(learning, r),
           UNCHANGED learningTables
    PROVE  LInv'
  <1>1. DOMAIN req' = Workers BY DEF LInv, Take
  <1>2. \A v \in Workers : LearningKnows(learning, req'[v]) BY DEF LInv, Take
  <1>3. /\ learning' = learning /\ won' = won /\ seen' = seen /\ raced' = raced
        BY DEF Take, learningTables
  <1>4. LearningTypeOK' BY <1>3 DEF LInv, LearningTypeOK
  <1>5. \A x \in DOMAIN learning \ raced :
            learning[x].status = "Reviewed" => Backed(x)'
        BY <1>3 DEF LInv, Backed, DataOf, Evidenced
  <1>6. \A v \in Workers : LearningKnows(learning', req'[v]) BY <1>2, <1>3
  <1> QED BY <1>1, <1>3, <1>4, <1>5, <1>6 DEF LInv

-----------------------------------------------------------------------------
(* The actions                                                              *)

LEMMA LearningInitHolds == LearningInit /\ SessionInit => LInv
  BY DEF LearningInit, SessionInit, LInv, LearningTypeOK, LearningKnows

LEMMA BeginSaveInv ==
    ASSUME LInv, NEW w \in Workers, NEW x \in Learned, NEW d \in Data, BeginSave(w, x, d)
    PROVE  LInv'
  <1> DEFINE old == Exists(x)
             r == [op |-> "save", row |-> x, insert |-> ~old, data |-> d,
                   changes |-> IF old THEN Changes(learning[x], DraftOf(learning[x], d)) ELSE <<>>,
                   reads |-> {x}, stale |-> {}]
  <1>1. Take(w, r) /\ UNCHANGED learningTables BY DEF BeginSave
  <1>2. ~old => x = "actuals" BY DEF BeginSave
  <1>3. old => learning[x] \in LearningRow /\ x \in DOMAIN learning
        BY DEF LInv, LearningTypeOK, Exists
  <1>4. r \in SaveRequest
    <2>1. r.changes \in Drafted \cup {<<>>} BY <1>3 DEF Drafted
    <2>2. old \in BOOLEAN BY DEF Exists
    <2> QED BY <2>1, <2>2 DEF SaveRequest
  <1>5. SaveKnows(learning, r)
    <2>1. /\ r.row = x /\ r.reads = {x} /\ r.insert = ~old
          /\ old => r.changes = Changes(learning[x], DraftOf(learning[x], d))
          OBVIOUS
    <2> HIDE DEF r, old
    <2>2. old => r.changes \in Drafted BY <1>3, <2>1 DEF Drafted
    <2> QED BY <1>2, <1>3, <2>1, <2>2 DEF SaveKnows
  <1> HIDE DEF r
  <1>6. LearningKnows(learning, r) BY <1>4, <1>5 DEF LearningKnows
  <1> QED BY <1>1, <1>6, TakeLearning

LEMMA BeginVouchInv ==
    ASSUME LInv, NEW w \in Workers, NEW u \in Reviewers, NEW x \in DOMAIN learning,
           BeginLearningReview(w, u, x)
    PROVE  LInv'
  <1> DEFINE r == [op |-> "review", row |-> x, data |-> DataOf(learning[x]),
                   changes |-> Changes(learning[x],
                                 [learning[x] EXCEPT !.status = "Reviewed", !.reviewedBy = u]),
                   reads |-> {x, "actuals"}, stale |-> {}]
  <1>1. Take(w, r) /\ UNCHANGED learningTables BY DEF BeginLearningReview
  <1>2. /\ learning[x] \in LearningRow /\ x \in Learned
        /\ "actuals" \in DOMAIN learning
        BY DEF LInv, LearningTypeOK
  <1>3. Evidenced(learning[x]) /\ (x # "actuals" => learning["actuals"].status = "Reviewed")
        BY DEF BeginLearningReview, Reviewable
  <1>4. r.changes = Changes(learning[x], Approval(learning[x], u)) BY DEF Approval
  <1>5. r \in VouchRequest
    <2>1. r.changes \in Vouched BY <1>2, <1>4 DEF Vouched
    <2>2. DataOf(learning[x]) \in Data BY <1>2 DEF DataOf, Data, LearningRow
    <2>3. "actuals" \in Learned BY DEF Learned
    <2> QED BY <1>2, <2>1, <2>2, <2>3 DEF VouchRequest
  <1>6. VouchKnows(learning, r)
    <2>1. /\ r.row = x /\ r.reads = {x, "actuals"} /\ r.stale = {}
          /\ r.data = DataOf(learning[x])
          OBVIOUS
    <2> HIDE DEF r
    <2> QED BY <1>2, <1>3, <1>4, <2>1 DEF VouchKnows
  <1> HIDE DEF r
  <1>7. LearningKnows(learning, r) BY <1>5, <1>6 DEF LearningKnows
  <1> QED BY <1>1, <1>7, TakeLearning

LEMMA CommitSaveInv ==
    ASSUME LInv, NEW w \in Workers, CommitSave(w)
    PROVE  LInv'
  <1> DEFINE r == req[w]
             x == r.row
             was == IF r.insert THEN FirstDraft(r.data) ELSE Written(learning[x], r.changes)
  <1>1. /\ r.op = "save" /\ (r.insert => ~Exists(x))
        /\ learning' = [y \in DOMAIN learning \cup {x} |-> IF y = x THEN was ELSE learning[y]]
        /\ Commit(w, {x}, {x}, Idle) /\ UNCHANGED <<won, seen>>
        BY DEF CommitSave
  <1>2. r \in SaveRequest /\ SaveKnows(learning, r)
        BY <1>1 DEF LInv, LearningKnows, Idle, VouchRequest
  <1>3. x \in Learned /\ r.data \in Data /\ r.insert \in BOOLEAN BY <1>2 DEF SaveRequest
  <1>4. r.insert => was \in LearningRow /\ was.status = "Draft" /\ x = "actuals"
        BY <1>2, <1>3 DEF SaveKnows, FirstDraft, LearningRow, Data
  <1>5. ~r.insert => /\ x \in DOMAIN learning /\ learning[x] \in LearningRow
                     /\ was \in LearningRow
                     /\ x \notin r.stale => was.status = "Draft"
    <2> SUFFICES ASSUME ~r.insert
                 PROVE  /\ x \in DOMAIN learning /\ learning[x] \in LearningRow
                        /\ was \in LearningRow
                        /\ x \notin r.stale => was.status = "Draft"
        OBVIOUS
    <2>1. x \in DOMAIN learning /\ r.changes \in Drafted BY <1>2 DEF SaveKnows
    <2>2. learning[x] \in LearningRow BY <2>1 DEF LInv, LearningTypeOK
    <2>3. was = Written(learning[x], r.changes) OBVIOUS
    <2>4. was \in LearningRow BY <2>1, <2>2, <2>3, SavedRow
    <2>5. ASSUME x \notin r.stale PROVE was.status = "Draft"
      <3>1. PICK d \in Data : r.changes = Changes(learning[x], DraftOf(learning[x], d))
            BY <1>2, <2>5 DEF SaveKnows
      <3> QED BY <2>2, <2>3, <3>1, SavedOverLoaded
    <2> QED BY <2>1, <2>2, <2>4, <2>5
  <1>6. was \in LearningRow /\ (x \notin r.stale \/ r.insert => was.status = "Draft")
        BY <1>3, <1>4, <1>5
  <1> HIDE DEF was
  <1>7. /\ DOMAIN learning' = DOMAIN learning \cup {x} /\ learning'[x] = was
        /\ \A y \in DOMAIN learning \ {x} : learning'[y] = learning[y]
        BY <1>1
  <1>8. LearningTypeOK'
    <2>1. DOMAIN learning' \subseteq Learned BY <1>3, <1>7 DEF LInv, LearningTypeOK
    <2>2. \A y \in DOMAIN learning' : learning'[y] \in LearningRow
          BY <1>6, <1>7 DEF LInv, LearningTypeOK
    <2> QED BY <1>1, <2>1, <2>2 DEF LInv, LearningTypeOK
  <1>9. DOMAIN req' = Workers /\ \A v \in Workers : LearningKnows(learning', req'[v])
        BY <1>1, <1>3, <1>7, CommitKnowsLearning
  <1>10. "actuals" \in DOMAIN learning' BY <1>4, <1>5, <1>7, <1>3 DEF LInv
  <1>11. ASSUME NEW y \in DOMAIN learning' \ raced', learning'[y].status = "Reviewed"
         PROVE  Backed(y)'
    <2>1. raced' = raced \cup ({x} \cap r.stale) BY <1>1 DEF Commit
    <2>2. CASE y = x
      <3>1. x \notin r.stale BY <2>1, <2>2, <1>11
      <3> QED BY <3>1, <2>2, <1>6, <1>7, <1>11
    <2>3. CASE y # x
      <3>1. y \in DOMAIN learning \ raced /\ learning'[y] = learning[y]
            BY <2>1, <2>3, <1>7
      <3>2. Backed(y) BY <3>1, <1>11 DEF LInv
      <3> QED BY <3>1, <3>2, <1>1 DEF Backed, DataOf, Evidenced
    <2> QED BY <2>2, <2>3
  <1> QED BY <1>8, <1>9, <1>10, <1>11 DEF LInv

LEMMA CommitVouchInv ==
    ASSUME LInv, NEW w \in Workers, CommitLearningReview(w)
    PROVE  LInv'
  <1> DEFINE r == req[w]
             x == r.row
  <1>1. /\ r.op = "review"
        /\ learning' = [learning EXCEPT ![x] = Written(@, r.changes)]
        /\ seen' = [y \in DOMAIN seen \cup {x} |-> IF y = x THEN r.data ELSE seen[y]]
        /\ Commit(w, {x}, {x}, Idle) /\ won' = won
        BY DEF CommitLearningReview
  <1>2. r \in VouchRequest /\ VouchKnows(learning, r)
        BY <1>1 DEF LInv, LearningKnows, Idle, SaveRequest
  <1>3. /\ x \in Learned /\ r.data \in Data /\ r.changes \in Vouched
        /\ x \in DOMAIN learning
        BY <1>2 DEF VouchRequest, VouchKnows
  <1>4. learning[x] \in LearningRow BY <1>3 DEF LInv, LearningTypeOK
  <1>5. /\ DOMAIN learning' = DOMAIN learning /\ learning'[x] = Written(learning[x], r.changes)
        /\ \A y \in DOMAIN learning \ {x} : learning'[y] = learning[y]
        BY <1>1, <1>3
  <1>6. /\ learning'[x] \in LearningRow
        /\ learning'[x].value = learning[x].value /\ learning'[x].source = learning[x].source
        BY <1>3, <1>4, <1>5, ApprovedRow
  <1>7. LearningTypeOK'
    <2>1. \A y \in DOMAIN learning' : learning'[y] \in LearningRow
          BY <1>5, <1>6 DEF LInv, LearningTypeOK
    <2>2. DOMAIN seen' \subseteq Learned /\ \A y \in DOMAIN seen' : seen'[y] \in Data
          BY <1>1, <1>3 DEF LInv, LearningTypeOK
    <2> QED BY <1>1, <1>5, <2>1, <2>2 DEF LInv, LearningTypeOK
  <1>8. DOMAIN req' = Workers /\ \A v \in Workers : LearningKnows(learning', req'[v])
        BY <1>1, <1>3, <1>5, CommitKnowsLearning
  <1>9. ASSUME NEW y \in DOMAIN learning' \ raced', learning'[y].status = "Reviewed"
        PROVE  Backed(y)'
    <2>1. raced' = raced \cup ({x} \cap r.stale) BY <1>1 DEF Commit
    <2>2. CASE y = x
      <3>1. x \notin r.stale BY <2>1, <2>2, <1>9
      <3>2. /\ DataOf(learning[x]) = r.data /\ Evidenced(learning[x])
            /\ \E u \in Reviewers : r.changes = Changes(learning[x], Approval(learning[x], u))
            BY <1>2, <3>1 DEF VouchKnows
      <3>3. learning'[x].reviewedBy # Nobody
            BY <1>4, <1>5, <3>2, ApprovedOverLoaded
      <3>4. x \in DOMAIN seen' /\ seen'[x] = r.data BY <1>1
      <3>5. DataOf(learning'[x]) = seen'[x] /\ Evidenced(learning'[x])
            BY <1>6, <3>2, <3>4 DEF DataOf, Evidenced
      <3> HIDE DEF x, r
      <3> QED BY <2>2, <3>3, <3>4, <3>5 DEF Backed
    <2>3. CASE y # x
      <3>1. y \in DOMAIN learning \ raced /\ learning'[y] = learning[y]
            BY <2>1, <2>3, <1>5
      <3>2. Backed(y) BY <3>1, <1>9 DEF LInv
      <3>3. y \in DOMAIN seen' /\ seen'[y] = seen[y]
            BY <1>1, <2>3, <3>2 DEF Backed
      <3> QED BY <3>1, <3>2, <3>3 DEF Backed, DataOf, Evidenced
    <2> QED BY <2>2, <2>3
  <1> QED BY <1>3, <1>5, <1>7, <1>8, <1>9 DEF LInv

LEMMA CreateFactorInv ==
    ASSUME LInv, NEW f \in Factors, NEW d \in Data, CreateFactor(f, d)
    PROVE  LInv'
  <1>1. /\ "actuals" \in DOMAIN learning /\ f \notin DOMAIN learning
        /\ learning' = [x \in DOMAIN learning \cup {f} |->
                           IF x = f THEN FirstDraft(d) ELSE learning[x]]
        /\ UNCHANGED <<won, seen, session>>
        BY DEF CreateFactor, Exists
  <1>2. FirstDraft(d) \in LearningRow /\ FirstDraft(d).status = "Draft" /\ f \in Learned
        BY DEF FirstDraft, LearningRow, Data, Learned
  <1>3. /\ DOMAIN learning' = DOMAIN learning \cup {f} /\ learning'[f] = FirstDraft(d)
        /\ \A y \in DOMAIN learning : learning'[y] = learning[y]
        BY <1>1
  <1>4. req' = req /\ raced' = raced BY <1>1 DEF session
  <1>5. LearningTypeOK'
    <2>1. /\ DOMAIN learning' \subseteq Learned
          /\ \A y \in DOMAIN learning' : learning'[y] \in LearningRow
          BY <1>2, <1>3 DEF LInv, LearningTypeOK
    <2> QED BY <1>1, <2>1 DEF LInv, LearningTypeOK
  <1>6. \A w \in Workers : LearningKnows(learning', req'[w])
    <2> TAKE w \in Workers
    <2>1. PICK L, M, r : L = learning /\ M = learning' /\ r = req[w] OBVIOUS
    <2>2. LearningKnows(M, r) BY <1>3, <2>1, LearningGrown DEF LInv
    <2> QED BY <1>4, <2>1, <2>2
  <1>7. ASSUME NEW y \in DOMAIN learning' \ raced', learning'[y].status = "Reviewed"
        PROVE  Backed(y)'
    <2>1. y # f BY <1>2, <1>3, <1>7
    <2>2. y \in DOMAIN learning \ raced /\ learning'[y] = learning[y] BY <1>3, <1>4, <2>1
    <2>3. Backed(y) BY <2>2, <1>7 DEF LInv
    <2> QED BY <1>1, <2>2, <2>3 DEF Backed, DataOf, Evidenced
  <1> QED BY <1>1, <1>3, <1>4, <1>5, <1>6, <1>7 DEF LInv

\* A step that leaves the rows alone and at most ends a request.
LEMMA QuietLearning ==
    ASSUME LInv, won' \in BOOLEAN, UNCHANGED <<learning, seen, raced>>,
           DOMAIN req' = Workers, \A v \in Workers : req'[v] \in {req[v], Idle}
    PROVE  LInv'
  <1>1. \A v \in Workers : LearningKnows(learning', req'[v]) BY DEF LInv, LearningKnows
  <1>2. LearningTypeOK' BY DEF LInv, LearningTypeOK
  <1>3. \A x \in DOMAIN learning \ raced :
            learning[x].status = "Reviewed" => Backed(x)'
        BY DEF LInv, Backed, DataOf, Evidenced
  <1> QED BY <1>1, <1>2, <1>3 DEF LInv

LEMMA LearningNextHolds ==
    ASSUME LInv, [LearningNext]_learningVars
    PROVE  LInv'
  <1>1. CASE SetResult
    <2>1. won' \in BOOLEAN /\ UNCHANGED <<learning, seen, raced, req>>
          BY <1>1 DEF SetResult, session, LInv, LearningTypeOK
    <2> QED BY <2>1, QuietLearning DEF LInv
  <1>2. CASE \E f \in Factors, d \in Data : CreateFactor(f, d)
        BY <1>2, CreateFactorInv
  <1>3. ASSUME NEW w \in Workers, NEW x \in Learned, NEW d \in Data, BeginSave(w, x, d)
        PROVE  LInv'
        BY <1>3, BeginSaveInv
  <1>4. ASSUME NEW w \in Workers, CommitSave(w) PROVE LInv'
        BY <1>4, CommitSaveInv
  <1>5. ASSUME NEW w \in Workers, NEW u \in Reviewers, NEW x \in DOMAIN learning,
               BeginLearningReview(w, u, x)
        PROVE  LInv'
        BY <1>5, BeginVouchInv
  <1>6. ASSUME NEW w \in Workers, CommitLearningReview(w) PROVE LInv'
        BY <1>6, CommitVouchInv
  <1>7. ASSUME NEW w \in Workers, Die(w), UNCHANGED learningTables PROVE LInv'
    <2>1. /\ DOMAIN req' = Workers /\ \A v \in Workers : req'[v] \in {req[v], Idle}
          /\ UNCHANGED <<learning, seen, raced, won>>
          BY <1>7 DEF Die, learningTables, LInv
    <2> QED BY <2>1, QuietLearning DEF LInv, LearningTypeOK
  <1>8. CASE UNCHANGED learningVars
    <2>1. UNCHANGED <<learning, seen, raced, req, won>>
          BY <1>8 DEF learningVars, learningTables, session
    <2> QED BY <2>1, QuietLearning DEF LInv, LearningTypeOK
  <1> QED BY <1>1, <1>2, <1>3, <1>4, <1>5, <1>6, <1>7, <1>8 DEF LearningNext

\* LInv holds in every state of every behaviour.
THEOREM LearningInvHolds == LearningSpec => []LInv
  <1>1. LearningInit /\ SessionInit => LInv BY LearningInitHolds
  <1>2. LInv /\ [LearningNext]_learningVars => LInv' BY LearningNextHolds
  <1> QED BY <1>1, <1>2, PTL DEF LearningSpec

\* What the portfolio counts is what a reviewer read, with its evidence, unless a save
\* and a review overlapped (services/execution_learning.py: every save makes a Draft).
THEOREM CountedIsReviewed == LearningSpec => []CountedAsReviewed
  <1>1. LInv => CountedAsReviewed BY DEF LInv, CountedAsReviewed, Counted, Backed
  <1> QED BY <1>1, LearningInvHolds, PTL

-----------------------------------------------------------------------------
(* Reviews                                                                  *)

\* The one step that makes a Draft Reviewed is the commit of a review.
LEMMA VouchStep ==
    ASSUME LInv, [LearningNext]_learningVars, NEW x \in DOMAIN learning,
           learning[x].status = "Draft", learning'[x].status = "Reviewed"
    PROVE  \E w \in Workers : CommitLearningReview(w) /\ req[w].row = x
  <1>1. CASE \E w \in Workers : CommitLearningReview(w)
    <2>1. PICK w \in Workers : CommitLearningReview(w) BY <1>1
    <2>2. req[w].row = x
          BY <2>1 DEF CommitLearningReview
    <2> QED BY <2>1, <2>2
  <1>2. CASE \E w \in Workers : CommitSave(w)
    <2>1. PICK w \in Workers : CommitSave(w) BY <1>2
    <2>2. /\ req[w].op = "save" /\ (req[w].insert => ~Exists(req[w].row))
          /\ learning' = [y \in DOMAIN learning \cup {req[w].row} |->
                 IF y = req[w].row
                 THEN IF req[w].insert THEN FirstDraft(req[w].data)
                      ELSE Written(learning[req[w].row], req[w].changes)
                 ELSE learning[y]]
          BY <2>1 DEF CommitSave
    <2>3. req[w] \in SaveRequest /\ SaveKnows(learning, req[w])
          BY <2>2 DEF LInv, LearningKnows, Idle, VouchRequest
    <2>4. req[w].row = x /\ ~req[w].insert BY <2>2 DEF Exists
    <2>5. learning[x] \in LearningRow BY DEF LInv, LearningTypeOK
    <2>6. learning'[x] = Written(learning[x], req[w].changes) /\ req[w].changes \in Drafted
          BY <2>2, <2>3, <2>4 DEF SaveKnows
    <2>7. Written(learning[x], req[w].changes).status = "Draft"
          BY <2>5, <2>6, SavedRow
    <2> QED BY <2>6, <2>7
  <1>3. CASE \E f \in Factors, d \in Data : CreateFactor(f, d)
        BY <1>3 DEF CreateFactor, Exists
  <1>4. CASE UNCHANGED learning
        BY <1>4
  <1>5. \/ \E w \in Workers : CommitLearningReview(w)
        \/ \E w \in Workers : CommitSave(w)
        \/ \E f \in Factors, d \in Data : CreateFactor(f, d)
        \/ UNCHANGED learning
        BY DEF LearningNext, learningVars, learningTables, SetResult, BeginSave,
               BeginLearningReview
  <1> QED BY <1>1, <1>2, <1>3, <1>4, <1>5

\* A row becomes Reviewed only with its evidence, and a factor only on Reviewed actuals,
\* unless one of the two was saved under the review (review_execution_outcome,
\* review_execution_factor).
THEOREM ReviewsAreVetted == LearningSpec => ReviewIsVetted
  <1> DEFINE A == \A x \in DOMAIN learning :
                    learning[x].status = "Draft" /\ learning'[x].status = "Reviewed" =>
                        \E w \in Workers :
                            /\ req[w].op = "review" /\ req[w].row = x
                            /\ req[w].stale = {} =>
                                  /\ Evidenced(learning[x])
                                  /\ learning["actuals"].status = "Reviewed" \/ x = "actuals"
  <1>1. ASSUME LInv, [LearningNext]_learningVars,
               NEW x \in DOMAIN learning,
               learning[x].status = "Draft", learning'[x].status = "Reviewed"
        PROVE  \E w \in Workers :
                  /\ req[w].op = "review" /\ req[w].row = x
                  /\ req[w].stale = {} =>
                        /\ Evidenced(learning[x])
                        /\ learning["actuals"].status = "Reviewed" \/ x = "actuals"
    <2>1. PICK w \in Workers : CommitLearningReview(w) /\ req[w].row = x
          BY <1>1, VouchStep
    <2>2. req[w].op = "review" BY <2>1 DEF CommitLearningReview
    <2>3. VouchKnows(learning, req[w])
          BY <2>2 , <1>1 DEF LInv, LearningKnows, Idle, SaveRequest
    <2> QED BY <2>1, <2>2, <2>3 DEF VouchKnows
  <1>2. LInv /\ [LearningNext]_learningVars => [A]_learningVars BY <1>1
  <1> QED BY <1>2, LearningInvHolds, PTL DEF LearningSpec, ReviewIsVetted

-----------------------------------------------------------------------------
(* PlanningFindings: refreshes, reviews and their audit events              *)

FindingDifferences == {Changes(l, n) : l \in Row, n \in Row}

SyncRequest ==
    [op : {"sync"}, keys : SUBSET Keys, inserted : SUBSET Keys,
     changes : UNION {[K -> FindingDifferences] : K \in SUBSET Keys},
     reads : SUBSET Keys, stale : SUBSET Keys]
VerdictRequest ==
    [op : {"review finding"}, key : Keys, new : Row, changes : FindingDifferences,
     reads : SUBSET Keys, stale : SUBSET Keys]
AuditRequest ==
    [op : {"audit"}, key : Keys, new : Row, reads : SUBSET Keys, stale : SUBSET Keys]

\* A refresh has a change for every row it loaded, and inserts the other keys it
\* detected; a row it did not load is one somebody inserted since.
SyncKnows(table, r) ==
    /\ r.reads = Keys
    /\ DOMAIN r.changes \subseteq DOMAIN table
    /\ r.keys \ DOMAIN r.changes = r.inserted /\ r.inserted \subseteq r.keys
    /\ \A k \in DOMAIN table \ r.stale :
          /\ k \in DOMAIN r.changes
          /\ r.changes[k] = Changes(table[k], Synced(table[k], k, r.keys))

\* The verdict of a reviewer: closing takes a comment.
IsVerdict(new) ==
    \E d \in Dispositions, c \in {"reviewer", Nobody}, u \in Reviewers :
        new = Reviewed(d, c, u) /\ (d \in Closing => c # Nobody)

VerdictKnows(table, r) ==
    /\ r.key \in DOMAIN table /\ r.reads = {r.key} /\ r.stale \subseteq r.reads
    /\ IsVerdict(r.new)
    /\ r.stale = {} => r.changes = Changes(table[r.key], r.new)

FindingKnows(table, r) ==
    \/ r = Idle
    \/ r \in SyncRequest /\ SyncKnows(table, r)
    \/ r \in VerdictRequest /\ VerdictKnows(table, r)
    \/ r \in AuditRequest /\ IsVerdict(r.new)

FInv ==
    /\ FindingsTypeOK
    /\ DOMAIN req = Workers
    /\ \A w \in Workers : FindingKnows(row, req[w])
    /\ VerdictIsWhole
    /\ LatestAnalysisDecides

-----------------------------------------------------------------------------
(* Rows                                                                     *)

FindingColumns == {"status", "disposition", "comment", "reviewedBy"}

LEMMA FindingColumnsOf ==
    ASSUME NEW r
    PROVE  r \in Row <=>
              /\ r = [c \in FindingColumns |-> r[c]]
              /\ r.status \in {"Open", "Closed", "Cleared by Re-analysis"}
              /\ r.disposition \in Dispositions \cup {"No Longer Detected", Nobody}
              /\ r.comment \in {"reviewer", "engine", Nobody}
              /\ r.reviewedBy \in Reviewers \cup {Nobody}
  <1>1. r \in Row => r = [c \in FindingColumns |-> r[c]]
        BY DEF Row, FindingColumns
  <1>2. ASSUME r = [c \in FindingColumns |-> r[c]]
        PROVE  r = [status |-> r.status, disposition |-> r.disposition,
                    comment |-> r.comment, reviewedBy |-> r.reviewedBy]
        BY <1>2 DEF FindingColumns
  <1> QED BY <1>1, <1>2 DEF Row

LEMMA WrittenFinding ==
    ASSUME NEW r \in Row, NEW ch \in FindingDifferences
    PROVE  Written(r, ch) \in Row
  <1>1. PICK l \in Row, n \in Row : ch = Changes(l, n) BY DEF FindingDifferences
  <1> DEFINE wr == Written(r, ch)
  <1>2. DOMAIN l = FindingColumns /\ DOMAIN n = FindingColumns /\ DOMAIN r = FindingColumns
        BY DEF Row, FindingColumns
  <1>3. DOMAIN ch \subseteq FindingColumns /\ \A c \in DOMAIN ch : ch[c] = n[c]
        BY <1>1, <1>2 DEF Changes
  <1>4. wr = [c \in FindingColumns |-> IF c \in DOMAIN ch THEN ch[c] ELSE r[c]]
        BY <1>2 DEF Written
  <1> HIDE DEF wr
  <1>5. \A c \in FindingColumns : wr[c] \in {n[c], r[c]} BY <1>3, <1>4
  <1>6. wr = [c \in FindingColumns |-> wr[c]] BY <1>4
  <1>7. wr.status \in {"Open", "Closed", "Cleared by Re-analysis"}
        BY <1>5, FindingColumnsOf DEF FindingColumns
  <1>8. wr.disposition \in Dispositions \cup {"No Longer Detected", Nobody}
        BY <1>5, FindingColumnsOf DEF FindingColumns
  <1>9. wr.comment \in {"reviewer", "engine", Nobody} /\ wr.reviewedBy \in Reviewers \cup {Nobody}
        BY <1>5, FindingColumnsOf DEF FindingColumns
  <1> QED BY <1>6, <1>7, <1>8, <1>9, FindingColumnsOf DEF wr

\* A request that writes over the row it loaded leaves what it made of it.
LEMMA FindingOver ==
    ASSUME NEW l \in Row, NEW n \in Row
    PROVE  Written(l, Changes(l, n)) = n
  <1>1. DOMAIN l = FindingColumns /\ n = [c \in FindingColumns |-> n[c]]
        BY FindingColumnsOf DEF Row, FindingColumns
  <1>2. \A c \in FindingColumns :
           (IF c \in DOMAIN Changes(l, n) THEN Changes(l, n)[c] ELSE l[c]) = n[c]
        BY <1>1 DEF Changes
  <1>3. Written(l, Changes(l, n)) =
           [c \in FindingColumns |-> IF c \in DOMAIN Changes(l, n) THEN Changes(l, n)[c] ELSE l[c]]
        BY <1>1 DEF Written
  <1> QED BY <1>1, <1>2, <1>3

LEMMA DetectedRow ==
    /\ Detected \in Row /\ Detected.status = "Open" /\ Detected.disposition = Nobody
    /\ Detected.comment = Nobody
  BY DEF Detected, Row

LEMMA VerdictRow ==
    ASSUME NEW new, IsVerdict(new)
    PROVE  /\ new \in Row /\ new.reviewedBy \in Reviewers /\ new.disposition \in Dispositions
           /\ new.comment \in {"reviewer", Nobody}
           /\ new.status \in {"Open", "Closed"}
           /\ new.status = "Open" => new.disposition \in Keeping
           /\ new.status = "Closed" => new.disposition \in Closing /\ new.comment = "reviewer"
  <1>1. PICK d \in Dispositions, c \in {"reviewer", Nobody}, u \in Reviewers :
           new = Reviewed(d, c, u) /\ (d \in Closing => c # Nobody)
        BY DEF IsVerdict
  <1>2. /\ new.status = IF d \in Keeping THEN "Open" ELSE "Closed"
        /\ new.disposition = d /\ new.comment = c /\ new.reviewedBy = u
        BY <1>1 DEF Reviewed
  <1>3. new \in Row
        BY <1>1 DEF Reviewed, Row
  <1> QED BY <1>1, <1>2, <1>3 DEF Dispositions

\* What a refresh makes of a row.
LEMMA SyncedRow ==
    ASSUME NEW r \in Row, NEW k, NEW C
    PROVE  /\ Synced(r, k, C) \in Row
           /\ r.status = "Closed" => Synced(r, k, C) = r
           /\ k \in C /\ r.status # "Closed" => Synced(r, k, C) = Detected
           /\ k \notin C /\ r.status = "Cleared by Re-analysis" => Synced(r, k, C) = r
           /\ k \notin C /\ r.status = "Open" =>
                 /\ Synced(r, k, C).status = "Cleared by Re-analysis"
                 /\ Synced(r, k, C).disposition = "No Longer Detected"
                 /\ Synced(r, k, C).comment = "engine"
  <1>1. r.status \in {"Open", "Closed", "Cleared by Re-analysis"} BY DEF Row
  <1>2. CASE k \in C
        BY <1>1, <1>2, DetectedRow DEF Synced, Refreshed
  <1>3. CASE k \notin C
    <2>1. CASE r.status = "Open"
      <3>1. PICK n : n = [r EXCEPT !.status = "Cleared by Re-analysis", !.comment = "engine",
                                   !.disposition = "No Longer Detected"]
            OBVIOUS
      <3>2. Synced(r, k, C) = n BY <1>3, <2>1, <3>1 DEF Synced, Cleared
      <3>3. /\ n \in Row /\ n.status = "Cleared by Re-analysis"
            /\ n.disposition = "No Longer Detected" /\ n.comment = "engine"
            BY <3>1 DEF Row
      <3> QED BY <1>3, <2>1, <3>2, <3>3
    <2>2. CASE r.status # "Open"
          BY <1>1, <1>3, <2>2 DEF Synced, Cleared
    <2> QED BY <2>1, <2>2
  <1> QED BY <1>2, <1>3

\* The operation of a request tells what it knows.
LEMMA FindingKnowsByOp ==
    ASSUME NEW table, NEW r, FindingKnows(table, r)
    PROVE  /\ r.op = "sync" => r \in SyncRequest /\ SyncKnows(table, r)
           /\ r.op = "review finding" => r \in VerdictRequest /\ VerdictKnows(table, r)
           /\ r.op = "audit" => r \in AuditRequest /\ IsVerdict(r.new)
  <1>1. CASE r = Idle BY <1>1 DEF Idle
  <1>2. CASE r \in SyncRequest /\ SyncKnows(table, r) BY <1>2 DEF SyncRequest
  <1>3. CASE r \in VerdictRequest /\ VerdictKnows(table, r) BY <1>3 DEF VerdictRequest
  <1>4. CASE r \in AuditRequest /\ IsVerdict(r.new) BY <1>4 DEF AuditRequest
  <1> QED BY <1>1, <1>2, <1>3, <1>4 DEF FindingKnows

-----------------------------------------------------------------------------
(* What a request knows survives the commits of others                      *)

LEMMA FindingStale ==
    ASSUME NEW L, NEW M, NEW r, FindingKnows(L, r), r # Idle, NEW W \in SUBSET Keys,
           DOMAIN L \subseteq DOMAIN M, DOMAIN M \ DOMAIN L \subseteq W,
           \A y \in DOMAIN L \ W : M[y] = L[y]
    PROVE  FindingKnows(M, [r EXCEPT !.stale = @ \cup (W \cap r.reads)])
  <1> DEFINE s == [r EXCEPT !.stale = @ \cup (W \cap r.reads)]
  <1>1. CASE r \in SyncRequest /\ SyncKnows(L, r)
    <2>1. /\ s \in SyncRequest /\ s.keys = r.keys /\ s.inserted = r.inserted
          /\ s.changes = r.changes /\ s.reads = r.reads
          /\ s.stale = r.stale \cup (W \cap r.reads)
          BY <1>1 DEF SyncRequest
    <2> HIDE DEF s
    <2>2. ASSUME NEW k \in DOMAIN M \ s.stale
          PROVE  /\ k \in DOMAIN s.changes
                 /\ s.changes[k] = Changes(M[k], Synced(M[k], k, s.keys))
      <3>1. k \notin r.stale /\ k \notin W BY <1>1, <2>1, <2>2 DEF SyncKnows
      <3>2. k \in DOMAIN L /\ M[k] = L[k] BY <2>2, <3>1
      <3> QED BY <1>1, <2>1, <3>1, <3>2 DEF SyncKnows
    <2>3. SyncKnows(M, s) BY <1>1, <2>1, <2>2 DEF SyncKnows
    <2> QED BY <2>1, <2>3 DEF FindingKnows, s
  <1>2. CASE r \in VerdictRequest /\ VerdictKnows(L, r)
    <2>1. /\ s \in VerdictRequest /\ s.key = r.key /\ s.new = r.new
          /\ s.changes = r.changes /\ s.reads = r.reads
          /\ s.stale = r.stale \cup (W \cap r.reads)
          BY <1>2 DEF VerdictRequest
    <2> HIDE DEF s
    <2>2. VerdictKnows(M, s) BY <1>2, <2>1 DEF VerdictKnows
    <2> QED BY <2>1, <2>2 DEF FindingKnows, s
  <1>3. CASE r \in AuditRequest /\ IsVerdict(r.new)
    <2>1. s \in AuditRequest /\ s.new = r.new BY <1>3 DEF AuditRequest
    <2> QED BY <1>3, <2>1 DEF FindingKnows
  <1> QED BY <1>1, <1>2, <1>3 DEF FindingKnows

\* After a commit by w of the rows W every request knows what it must, and the audits
\* in flight are those of before and that of w.
LEMMA CommitKnowsFinding ==
    ASSUME FInv, NEW w \in Workers, NEW W \in SUBSET Keys, NEW D, NEW next,
           DOMAIN row \subseteq DOMAIN row', DOMAIN row' \ DOMAIN row \subseteq W,
           \A y \in DOMAIN row \ W : row'[y] = row[y],
           FindingKnows(row', next), Commit(w, D, W, next)
    PROVE  /\ DOMAIN req' = Workers /\ req'[w] = next
           /\ \A v \in Workers : FindingKnows(row', req'[v])
           /\ \A v \in Workers \ {w} : req[v].op = "audit" =>
                 req'[v].op = "audit" /\ req'[v].key = req[v].key /\ req'[v].new = req[v].new
  <1>1. DOMAIN req' = Workers /\ req'[w] = next BY DEF Commit
  <1>2. ASSUME NEW v \in Workers, v # w, req[v] # Idle
        PROVE  req'[v] = [req[v] EXCEPT !.stale = @ \cup (W \cap req[v].reads)]
        BY <1>2 DEF Commit
  <1>3. ASSUME NEW v \in Workers PROVE FindingKnows(row', req'[v])
    <2>1. FindingKnows(row, req[v]) BY DEF FInv
    <2>2. CASE v = w
          BY <1>1, <2>2
    <2>3. CASE v # w /\ req[v] = Idle
          BY <2>3 DEF Commit, FindingKnows
    <2>4. CASE v # w /\ req[v] # Idle
      <3>1. PICK L, M, r : L = row /\ M = row' /\ r = req[v] OBVIOUS
      <3>2. FindingKnows(M, [r EXCEPT !.stale = @ \cup (W \cap r.reads)])
            BY <2>1, <2>4, <3>1, FindingStale
      <3> QED BY <1>2, <2>4, <3>1, <3>2
    <2> QED BY <2>2, <2>3, <2>4
  <1>4. ASSUME NEW v \in Workers \ {w}, req[v].op = "audit"
        PROVE  req'[v].op = "audit" /\ req'[v].key = req[v].key /\ req'[v].new = req[v].new
    <2>1. req[v] # Idle BY <1>4 DEF Idle
    <2>2. req[v] \in AuditRequest
          BY <1>4, <2>1 DEF FInv, FindingKnows, SyncRequest, VerdictRequest
    <2>3. req'[v] = [req[v] EXCEPT !.stale = @ \cup (W \cap req[v].reads)] BY <1>2, <2>1
    <2> QED BY <1>4, <2>2, <2>3 DEF AuditRequest
  <1> QED BY <1>1, <1>3, <1>4

\* What the two invariants say of one row.
Told(r, audited) ==
    /\ r.status = "Closed" =>
          /\ r.disposition \in Closing /\ r.comment = "reviewer"
          /\ r.reviewedBy # Nobody /\ audited
    /\ r.status = "Cleared by Re-analysis" =>
          r.disposition = "No Longer Detected" /\ r.comment = "engine"
    /\ r.status = "Open" =>
          r.disposition \in Keeping \cup {Nobody} /\ r.comment # "engine"

Decided(r, detected) ==
    /\ detected => r.status \in {"Open", "Closed"}
    /\ ~detected /\ r.status = "Open" => r.disposition \in Keeping

LEMMA RowwiseVerdicts ==
    /\ VerdictIsWhole <=> \A k \in Calm : Told(row[k], Audited(k))
    /\ LatestAnalysisDecides <=> \A k \in Calm : Decided(row[k], k \in latest)
  BY DEF VerdictIsWhole, LatestAnalysisDecides, Told, Decided

\* The row of k and its audits stay: what is told of k is still told.
LEMMA StillTold ==
    ASSUME NEW k, k \in Calm, row'[k] = row[k], Told(row[k], Audited(k)),
           unaudited \subseteq unaudited', events \subseteq events',
           \A v \in Workers : req[v].op = "audit" =>
              \/ req'[v].op = "audit" /\ req'[v].key = req[v].key /\ req'[v].new = req[v].new
              \/ req[v].key \in unaudited'
              \/ <<req[v].key, req[v].new.reviewedBy, req[v].new.disposition>> \in events'
    PROVE  Told(row'[k], Audited(k)')
  <1>1. Audited(k) => Audited(k)' BY DEF Audited
  <1> QED BY <1>1 DEF Told

-----------------------------------------------------------------------------
(* The actions                                                              *)

LEMMA FindingsInitHolds == FindingsInit /\ SessionInit => FInv
  BY DEF FindingsInit, SessionInit, FInv, FindingsTypeOK, FindingKnows, VerdictIsWhole,
         LatestAnalysisDecides, Calm, Rows

\* Taking a request over an unchanged table.
LEMMA TakeFinding ==
    ASSUME FInv, NEW w \in Workers, NEW r, Take(w, r), FindingKnows(row, r), UNCHANGED findingTables
    PROVE  FInv'
  <1>1. DOMAIN req' = Workers /\ \A v \in Workers : FindingKnows(row, req'[v])
        BY DEF FInv, Take
  <1>2. UNCHANGED <<row, events, latest, unaudited, raced>> BY DEF Take, findingTables
  <1>3. FindingsTypeOK' BY <1>2 DEF FInv, FindingsTypeOK, Rows
  <1>4. \A v \in Workers : req[v].op = "audit" =>
           req'[v].op = "audit" /\ req'[v].key = req[v].key /\ req'[v].new = req[v].new
        BY DEF Take, FInv, Idle
  <1>5. ASSUME NEW k \in Calm PROVE Told(row'[k], Audited(k)') /\ Decided(row'[k], k \in latest')
    <2>1. Told(row[k], Audited(k)) /\ Decided(row[k], k \in latest)
          BY RowwiseVerdicts DEF FInv
    <2> QED BY <1>2, <1>4, <2>1, StillTold
  <1>6. Calm' = Calm BY <1>2 DEF Calm, Rows
  <1>7. VerdictIsWhole' /\ LatestAnalysisDecides'
        BY <1>5, <1>6 DEF VerdictIsWhole, LatestAnalysisDecides, Told, Decided
  <1>8. \A v \in Workers : FindingKnows(row', req'[v]) BY <1>1, <1>2
  <1> QED BY <1>1, <1>3, <1>7, <1>8 DEF FInv

LEMMA BeginSyncInv ==
    ASSUME FInv, NEW w \in Workers, NEW C \in SUBSET Keys, BeginSync(w, C)
    PROVE  FInv'
  <1> DEFINE ch == [k \in DOMAIN row |-> Changes(row[k], Synced(row[k], k, C))]
             r == [op |-> "sync", keys |-> C, inserted |-> C \ DOMAIN row, changes |-> ch,
                   reads |-> Keys, stale |-> {}]
  <1>1. Take(w, r) /\ UNCHANGED findingTables BY DEF BeginSync, Rows
  <1>2. DOMAIN row \subseteq Keys /\ \A k \in DOMAIN row : row[k] \in Row
        BY DEF FInv, FindingsTypeOK, Rows
  <1>3. ASSUME NEW k \in DOMAIN row PROVE ch[k] \in FindingDifferences
    <2>1. Synced(row[k], k, C) \in Row BY <1>2, SyncedRow
    <2> QED BY <1>2, <2>1 DEF FindingDifferences
  <1>4. DOMAIN ch = DOMAIN row /\ ch \in [DOMAIN row -> FindingDifferences]
        /\ \A k \in DOMAIN row : ch[k] = Changes(row[k], Synced(row[k], k, C))
        BY <1>3
  <1> HIDE DEF ch
  <1>5. ch \in UNION {[K -> FindingDifferences] : K \in SUBSET Keys} BY <1>2, <1>4
  <1>6. /\ r \in SyncRequest /\ r.keys = C /\ r.inserted = C \ DOMAIN row /\ r.changes = ch
        /\ r.reads = Keys /\ r.stale = {}
        BY <1>5 DEF SyncRequest
  <1> HIDE DEF r
  <1>7. SyncKnows(row, r) BY <1>4, <1>6 DEF SyncKnows
  <1>8. FindingKnows(row, r) BY <1>6, <1>7 DEF FindingKnows
  <1> QED BY <1>1, <1>8, TakeFinding

LEMMA BeginVerdictInv ==
    ASSUME FInv, NEW w \in Workers, NEW u \in Reviewers, NEW k \in Rows, NEW d \in Dispositions,
           NEW c \in {"reviewer", Nobody}, BeginReview(w, u, k, d, c)
    PROVE  FInv'
  <1> DEFINE new == Reviewed(d, c, u)
             ch == Changes(row[k], new)
             r == [op |-> "review finding", key |-> k, new |-> new, changes |-> ch,
                   reads |-> {k}, stale |-> {}]
  <1>1. Take(w, r) /\ UNCHANGED findingTables /\ (d \in Closing => c # Nobody)
        BY DEF BeginReview
  <1>2. IsVerdict(new) BY <1>1 DEF IsVerdict
  <1> HIDE DEF new
  <1>3. new \in Row BY <1>2, VerdictRow
  <1>4. k \in Keys /\ k \in DOMAIN row /\ row[k] \in Row BY DEF FInv, FindingsTypeOK, Rows
  <1>5. ch \in FindingDifferences BY <1>3, <1>4 DEF FindingDifferences
  <1>6. ch = Changes(row[k], new) OBVIOUS
  <1> HIDE DEF ch
  <1>7. /\ r \in VerdictRequest /\ r.key = k /\ r.new = new /\ r.changes = ch
        /\ r.reads = {k} /\ r.stale = {}
        BY <1>3, <1>4, <1>5 DEF VerdictRequest
  <1> HIDE DEF r
  <1>8. FindingKnows(row, r) BY <1>2, <1>4, <1>6, <1>7 DEF FindingKnows, VerdictKnows
  <1> QED BY <1>1, <1>8, TakeFinding

\* What a refresh leaves Closed was Closed before, by the same verdict.
LEMMA ClosedBefore ==
    ASSUME NEW r \in Row, NEW k, NEW C, Synced(r, k, C).status = "Closed"
    PROVE  Synced(r, k, C) = r
  BY DEF Row, Synced, Refreshed, Detected, Cleared

\* What a refresh that nobody disturbed leaves of a row.
LEMMA SyncTells ==
    ASSUME NEW old \in Row, NEW k, NEW C, NEW new, new = Synced(old, k, C),
           NEW audited \in BOOLEAN, Told(old, audited)
    PROVE  Told(new, audited) /\ Decided(new, k \in C)
  <1>1. old.status \in {"Open", "Closed", "Cleared by Re-analysis"} BY DEF Row
  <1>2. CASE old.status = "Closed"
    <2>1. new = old BY <1>2, SyncedRow
    <2> QED BY <1>2, <2>1 DEF Told, Decided
  <1>3. CASE old.status # "Closed" /\ k \in C
    <2>1. new = Detected BY <1>3, SyncedRow
    <2> QED BY <1>3, <2>1, DetectedRow, DispositionAssumption DEF Told, Decided
  <1>4. CASE old.status = "Cleared by Re-analysis" /\ k \notin C
    <2>1. k \notin C /\ old.status = "Cleared by Re-analysis" => Synced(old, k, C) = old
          BY DEF Synced, Cleared
    <2>2. new = old BY <1>4, <2>1
    <2> QED BY <1>4, <2>2 DEF Told, Decided
  <1>5. CASE old.status = "Open" /\ k \notin C
    <2>1. /\ new.status = "Cleared by Re-analysis"
          /\ new.disposition = "No Longer Detected" /\ new.comment = "engine"
          BY <1>5, SyncedRow
    <2> QED BY <1>5, <2>1 DEF Told, Decided
  <1> QED BY <1>1, <1>2, <1>3, <1>4, <1>5

\* The commit of a refresh, row by row.
LEMMA SyncStep ==
    ASSUME FInv, NEW w \in Workers, CommitSync(w)
    PROVE  /\ req[w] \in SyncRequest /\ SyncKnows(row, req[w])
           /\ DOMAIN row' = DOMAIN row \cup req[w].inserted
           /\ req[w].inserted \cap DOMAIN row = {} /\ req[w].inserted \subseteq Keys
           /\ \A k \in req[w].inserted : row'[k] = Detected
           /\ \A k \in DOMAIN row : row'[k] \in Row
           /\ \A k \in DOMAIN row \ req[w].stale : row'[k] = Synced(row[k], k, req[w].keys)
           /\ raced' = raced \cup req[w].stale
           /\ latest' = req[w].keys /\ UNCHANGED <<events, unaudited>>
  <1> DEFINE r == req[w]
             after(k) == IF k \in r.inserted THEN Detected
                         ELSE IF k \in DOMAIN r.changes THEN Written(row[k], r.changes[k])
                              ELSE row[k]
  <1>1. /\ r.op = "sync" /\ r.inserted \cap DOMAIN row = {}
        /\ row' = [k \in DOMAIN row \cup r.inserted |-> after(k)]
        /\ raced' = raced \cup (r.reads \cap r.stale)
        /\ latest' = r.keys /\ UNCHANGED <<events, unaudited>>
        BY DEF CommitSync, Rows, Commit
  <1>2. r \in SyncRequest /\ SyncKnows(row, r)
    <2>1. FindingKnows(row, r) /\ r.op = "sync" BY <1>1 DEF FInv
    <2> QED BY <2>1, FindingKnowsByOp
  <1>3. /\ r.inserted \subseteq Keys /\ r.stale \subseteq Keys /\ r.reads = Keys
        /\ \A k \in DOMAIN r.changes : r.changes[k] \in FindingDifferences
        BY <1>2 DEF SyncRequest, SyncKnows
  <1>4. DOMAIN row' = DOMAIN row \cup r.inserted BY <1>1
  <1>5. \A k \in r.inserted : row'[k] = Detected BY <1>1
  <1>6. ASSUME NEW k \in DOMAIN row
        PROVE  row'[k] \in Row /\ (k \notin r.stale => row'[k] = Synced(row[k], k, r.keys))
    <2>1. row[k] \in Row BY DEF FInv, FindingsTypeOK, Rows
    <2>2. row'[k] = IF k \in DOMAIN r.changes THEN Written(row[k], r.changes[k]) ELSE row[k]
          BY <1>1
    <2>3. row'[k] \in Row BY <1>3, <2>1, <2>2, WrittenFinding
    <2>4. ASSUME k \notin r.stale PROVE row'[k] = Synced(row[k], k, r.keys)
      <3>1. row'[k] = Written(row[k], Changes(row[k], Synced(row[k], k, r.keys)))
            BY <1>2, <2>2, <2>4 DEF SyncKnows
      <3> QED BY <2>1, <3>1, SyncedRow, FindingOver
    <2> QED BY <2>3, <2>4
  <1>7. raced' = raced \cup r.stale BY <1>1, <1>3
  <1> QED BY <1>1, <1>2, <1>3, <1>4, <1>5, <1>6, <1>7

LEMMA CommitSyncInv ==
    ASSUME FInv, NEW w \in Workers, CommitSync(w)
    PROVE  FInv'
  <1> DEFINE r == req[w]
             W == {k \in DOMAIN row' : k \notin DOMAIN row \/ row'[k] # row[k]}
  <1>1. /\ r \in SyncRequest /\ SyncKnows(row, r)
        /\ DOMAIN row' = DOMAIN row \cup r.inserted
        /\ r.inserted \cap DOMAIN row = {} /\ r.inserted \subseteq Keys
        /\ \A k \in r.inserted : row'[k] = Detected
        /\ \A k \in DOMAIN row : row'[k] \in Row
        /\ \A k \in DOMAIN row \ r.stale : row'[k] = Synced(row[k], k, r.keys)
        /\ raced' = raced \cup r.stale
        /\ latest' = r.keys /\ UNCHANGED <<events, unaudited>>
        BY SyncStep
  <1>2. Commit(w, r.reads, W, Idle)
        BY DEF CommitSync, Rows
  <1>3. DOMAIN row \subseteq Keys /\ \A k \in DOMAIN row : row[k] \in Row
        BY DEF FInv, FindingsTypeOK, Rows
  <1>4. /\ W \in SUBSET Keys /\ DOMAIN row \subseteq DOMAIN row'
        /\ DOMAIN row' \ DOMAIN row \subseteq W
        /\ \A y \in DOMAIN row \ W : row'[y] = row[y]
        BY <1>1, <1>3
  <1> HIDE DEF W
  <1>5. /\ DOMAIN req' = Workers
        /\ \A v \in Workers : FindingKnows(row', req'[v])
        /\ \A v \in Workers \ {w} : req[v].op = "audit" =>
              req'[v].op = "audit" /\ req'[v].key = req[v].key /\ req'[v].new = req[v].new
        BY <1>2, <1>4, CommitKnowsFinding DEF FindingKnows
  <1>6. FindingsTypeOK'
    <2>1. \A k \in DOMAIN row' : row'[k] \in Row BY <1>1, DetectedRow
    <2>2. r.keys \subseteq Keys BY <1>1 DEF SyncRequest
    <2> QED BY <1>1, <1>3, <2>1, <2>2 DEF FInv, FindingsTypeOK, Rows
  <1>7. ASSUME NEW k \in DOMAIN row' \ raced'
        PROVE  Told(row'[k], Audited(k)') /\ Decided(row'[k], k \in latest')
    <2>1. CASE k \in r.inserted
      <3>1. k \in r.keys BY <1>1, <2>1 DEF SyncKnows
      <3> QED BY <1>1, <2>1, <3>1, DetectedRow, DispositionAssumption DEF Told, Decided
    <2>2. CASE k \notin r.inserted
      <3>1. k \in DOMAIN row /\ k \notin raced /\ k \notin r.stale BY <1>1, <1>7, <2>2
      <3>2. row'[k] = Synced(row[k], k, r.keys) BY <1>1, <3>1
      <3>3. Told(row[k], Audited(k)) BY <3>1, RowwiseVerdicts DEF FInv, Calm, Rows
      <3>4. Told(row'[k], Audited(k)) /\ Decided(row'[k], k \in r.keys)
            BY <1>3, <3>1, <3>2, <3>3, SyncTells DEF Audited
      <3>5. row'[k].status = "Closed" /\ Audited(k) => Audited(k)'
        <4>1. row'[k].status = "Closed" => row'[k] = row[k]
          <5>1. row[k] \in Row BY <1>3, <3>1
          <5>2. Synced(row[k], k, r.keys).status = "Closed" => Synced(row[k], k, r.keys) = row[k]
                BY <5>1, ClosedBefore
          <5> QED BY <3>2, <5>2
        <4>2. req[w].op # "audit" BY <1>1 DEF SyncRequest
        <4> QED BY <1>1, <1>5, <4>1, <4>2 DEF Audited
      <3> QED BY <1>1, <3>4, <3>5 DEF Told
    <2> QED BY <2>1, <2>2
  <1>8. VerdictIsWhole' /\ LatestAnalysisDecides'
        BY <1>7 DEF VerdictIsWhole, LatestAnalysisDecides, Calm, Rows, Told, Decided
  <1> QED BY <1>5, <1>6, <1>8 DEF FInv

LEMMA VerdictTells ==
    ASSUME NEW new, IsVerdict(new)
    PROVE  Told(new, TRUE) /\ Decided(new, TRUE) /\ Decided(new, FALSE)
  BY VerdictRow, ReviewersAssumption, DispositionAssumption DEF Told, Decided

\* The commit of a review.
LEMMA VerdictStep ==
    ASSUME FInv, NEW w \in Workers, CommitReview(w)
    PROVE  LET r == req[w] IN
           /\ r \in VerdictRequest /\ VerdictKnows(row, r)
           /\ DOMAIN row' = DOMAIN row /\ row'[r.key] \in Row
           /\ \A k \in DOMAIN row \ {r.key} : row'[k] = row[k]
           /\ r.key \notin r.stale => row'[r.key] = r.new
           /\ raced' = raced \cup ({r.key} \cap r.stale)
           /\ UNCHANGED <<latest, events, unaudited>>
  <1> DEFINE r == req[w]
  <1>1. /\ r.op = "review finding"
        /\ row' = [row EXCEPT ![r.key] = Written(row[r.key], r.changes)]
        /\ raced' = raced \cup ({r.key} \cap r.stale)
        /\ UNCHANGED <<latest, events, unaudited>>
        BY DEF CommitReview, Commit
  <1>2. r \in VerdictRequest /\ VerdictKnows(row, r)
    <2>1. FindingKnows(row, r) BY DEF FInv
    <2> QED BY <1>1, <2>1, FindingKnowsByOp
  <1>3. r.key \in DOMAIN row /\ row[r.key] \in Row /\ r.changes \in FindingDifferences /\ r.new \in Row
        BY <1>2 DEF VerdictKnows, VerdictRequest, FInv, FindingsTypeOK, Rows
  <1>4. /\ DOMAIN row' = DOMAIN row /\ row'[r.key] = Written(row[r.key], r.changes)
        /\ \A k \in DOMAIN row \ {r.key} : row'[k] = row[k]
        BY <1>1, <1>3
  <1>5. row'[r.key] \in Row BY <1>3, <1>4, WrittenFinding
  <1>6. ASSUME r.key \notin r.stale PROVE row'[r.key] = r.new
    <2>1. r.changes = Changes(row[r.key], r.new) BY <1>2, <1>6 DEF VerdictKnows
    <2> QED BY <1>3, <1>4, <2>1, FindingOver
  <1> QED BY <1>1, <1>2, <1>4, <1>5, <1>6

LEMMA CommitVerdictInv ==
    ASSUME FInv, NEW w \in Workers, CommitReview(w)
    PROVE  FInv'
  <1> DEFINE r == req[w]
             x == r.key
             next == [op |-> "audit", key |-> x, new |-> r.new, reads |-> {}, stale |-> {}]
  <1>1. /\ r \in VerdictRequest /\ VerdictKnows(row, r)
        /\ DOMAIN row' = DOMAIN row /\ row'[x] \in Row
        /\ \A k \in DOMAIN row \ {x} : row'[k] = row[k]
        /\ x \notin r.stale => row'[x] = r.new
        /\ raced' = raced \cup ({x} \cap r.stale)
        /\ UNCHANGED <<latest, events, unaudited>>
        BY VerdictStep
  <1>2. /\ x \in Keys /\ x \in DOMAIN row /\ IsVerdict(r.new) /\ r.new \in Row
        BY <1>1 DEF VerdictKnows, VerdictRequest
  <1>3. next \in AuditRequest /\ next.op = "audit" /\ next.key = x /\ next.new = r.new
        BY <1>2 DEF AuditRequest
  <1>4. Commit(w, {x}, {x}, next) BY DEF CommitReview
  <1> HIDE DEF next
  <1>5. /\ DOMAIN req' = Workers /\ req'[w] = next
        /\ \A v \in Workers : FindingKnows(row', req'[v])
        /\ \A v \in Workers \ {w} : req[v].op = "audit" =>
              req'[v].op = "audit" /\ req'[v].key = req[v].key /\ req'[v].new = req[v].new
    <2>1. FindingKnows(row', next) BY <1>2, <1>3 DEF FindingKnows
    <2> QED BY <1>1, <1>2, <1>4, <2>1, CommitKnowsFinding
  <1>6. FindingsTypeOK' BY <1>1 DEF FInv, FindingsTypeOK, Rows
  <1>7. req[w].op # "audit" BY <1>1 DEF VerdictRequest
  <1>8. ASSUME NEW k \in DOMAIN row' \ raced'
        PROVE  Told(row'[k], Audited(k)') /\ Decided(row'[k], k \in latest')
    <2>1. CASE k = x
      <3>1. row'[x] = r.new BY <1>1, <1>8, <2>1
      <3>2. Told(r.new, TRUE) /\ Decided(r.new, TRUE) /\ Decided(r.new, FALSE)
            BY <1>2, VerdictTells
      <3>3. Audited(k)' BY <1>3, <1>5, <2>1, <3>1 DEF Audited
      <3>4. row'[k] = r.new BY <2>1, <3>1
      <3>5. Told(row'[k], Audited(k)') BY <3>2, <3>3, <3>4 DEF Told
      <3>6. Decided(row'[k], k \in latest') BY <3>2, <3>4 DEF Decided
      <3> QED BY <3>5, <3>6
    <2>2. CASE k # x
      <3>1. k \in Calm /\ row'[k] = row[k] BY <1>1, <1>8, <2>2 DEF Calm, Rows
      <3>2. Told(row[k], Audited(k)) /\ Decided(row[k], k \in latest)
            BY <3>1, RowwiseVerdicts DEF FInv
      <3>3. Told(row'[k], Audited(k)') BY <1>1, <1>5, <1>7, <3>1, <3>2, StillTold
      <3> QED BY <1>1, <3>1, <3>2, <3>3
    <2> QED BY <2>1, <2>2
  <1>9. VerdictIsWhole' /\ LatestAnalysisDecides'
        BY <1>8 DEF VerdictIsWhole, LatestAnalysisDecides, Calm, Rows, Told, Decided
  <1> QED BY <1>5, <1>6, <1>9 DEF FInv

\* A step that leaves the rows alone, ends requests, and accounts for the audits it ends.
LEMMA QuietFindings ==
    ASSUME FInv, UNCHANGED <<row, latest, raced>>,
           DOMAIN req' = Workers, \A v \in Workers : req'[v] \in {req[v], Idle},
           unaudited \subseteq unaudited', events \subseteq events',
           unaudited' \subseteq Keys, events' \subseteq Keys \X Reviewers \X Dispositions,
           \A v \in Workers : req[v].op = "audit" =>
              \/ req'[v] = req[v]
              \/ req[v].key \in unaudited'
              \/ <<req[v].key, req[v].new.reviewedBy, req[v].new.disposition>> \in events'
    PROVE  FInv'
  <1>1. \A v \in Workers : FindingKnows(row', req'[v]) BY DEF FInv, FindingKnows
  <1>2. FindingsTypeOK' BY DEF FInv, FindingsTypeOK, Rows
  <1>3. ASSUME NEW k \in Calm PROVE Told(row'[k], Audited(k)') /\ Decided(row'[k], k \in latest')
    <2>1. Told(row[k], Audited(k)) /\ Decided(row[k], k \in latest)
          BY RowwiseVerdicts DEF FInv
    <2> QED BY <2>1, StillTold
  <1>4. Calm' = Calm BY DEF Calm, Rows
  <1>5. VerdictIsWhole' /\ LatestAnalysisDecides'
        BY <1>3, <1>4 DEF VerdictIsWhole, LatestAnalysisDecides, Told, Decided
  <1> QED BY <1>1, <1>2, <1>5 DEF FInv

LEMMA CommitAuditInv ==
    ASSUME FInv, NEW w \in Workers, CommitAudit(w)
    PROVE  FInv'
  <1> DEFINE e == <<req[w].key, req[w].new.reviewedBy, req[w].new.disposition>>
  <1>1. /\ req[w].op = "audit" /\ events' = events \cup {e}
        /\ req' = [req EXCEPT ![w] = Idle]
        /\ UNCHANGED <<row, latest, unaudited, raced>>
        BY DEF CommitAudit, Continue
  <1>2. req[w] \in AuditRequest /\ IsVerdict(req[w].new)
    <2>1. FindingKnows(row, req[w]) BY DEF FInv
    <2> QED BY <1>1, <2>1, FindingKnowsByOp
  <1>3. req[w].new.reviewedBy \in Reviewers /\ req[w].new.disposition \in Dispositions
        BY <1>2, VerdictRow
  <1>4. req[w].key \in Keys BY <1>2 DEF AuditRequest
  <1>5. unaudited \subseteq Keys /\ events \subseteq Keys \X Reviewers \X Dispositions
        BY DEF FInv, FindingsTypeOK
  <1>6. e \in Keys \X Reviewers \X Dispositions BY <1>3, <1>4
  <1>7. /\ DOMAIN req' = Workers /\ \A v \in Workers : req'[v] \in {req[v], Idle}
        /\ \A v \in Workers : req[v].op = "audit" =>
              \/ req'[v] = req[v]
              \/ <<req[v].key, req[v].new.reviewedBy, req[v].new.disposition>> \in events'
        BY <1>1 DEF FInv
  <1> HIDE DEF e
  <1> QED BY <1>1, <1>5, <1>6, <1>7, QuietFindings

LEMMA DieFindingInv ==
    ASSUME FInv, NEW w \in Workers, DieFinding(w)
    PROVE  FInv'
  <1>1. /\ unaudited' = IF req[w].op = "audit" THEN unaudited \cup {req[w].key} ELSE unaudited
        /\ req' = [req EXCEPT ![w] = Idle]
        /\ UNCHANGED <<row, latest, events, raced>>
        BY DEF DieFinding, Die
  <1>2. req[w].op = "audit" => req[w].key \in Keys
    <2>1. FindingKnows(row, req[w]) BY DEF FInv
    <2>2. req[w].op = "audit" => req[w] \in AuditRequest BY <2>1, FindingKnowsByOp
    <2> QED BY <2>2 DEF AuditRequest
  <1>3. unaudited \subseteq Keys /\ events \subseteq Keys \X Reviewers \X Dispositions
        BY DEF FInv, FindingsTypeOK
  <1>4. unaudited \subseteq unaudited' /\ unaudited' \subseteq Keys BY <1>1, <1>2, <1>3
  <1>5. /\ DOMAIN req' = Workers /\ \A v \in Workers : req'[v] \in {req[v], Idle}
        /\ \A v \in Workers : req[v].op = "audit" =>
              req'[v] = req[v] \/ req[v].key \in unaudited'
        BY <1>1 DEF FInv
  <1> QED BY <1>1, <1>3, <1>4, <1>5, QuietFindings

LEMMA FindingsNextHolds ==
    ASSUME FInv, [FindingsNext]_findingVars
    PROVE  FInv'
  <1>1. ASSUME NEW w \in Workers, NEW C \in SUBSET Keys, BeginSync(w, C) PROVE FInv'
        BY <1>1, BeginSyncInv
  <1>2. ASSUME NEW w \in Workers, NEW u \in Reviewers, NEW k \in Rows, NEW d \in Dispositions,
               NEW c \in {"reviewer", Nobody}, BeginReview(w, u, k, d, c)
        PROVE  FInv'
        BY <1>2, BeginVerdictInv
  <1>3. ASSUME NEW w \in Workers, CommitSync(w) PROVE FInv' BY <1>3, CommitSyncInv
  <1>4. ASSUME NEW w \in Workers, CommitReview(w) PROVE FInv' BY <1>4, CommitVerdictInv
  <1>5. ASSUME NEW w \in Workers, CommitAudit(w) PROVE FInv' BY <1>5, CommitAuditInv
  <1>6. ASSUME NEW w \in Workers, DieFinding(w) PROVE FInv' BY <1>6, DieFindingInv
  <1>7. CASE UNCHANGED findingVars
    <2>1. UNCHANGED <<row, events, latest, unaudited, req, raced>>
          BY <1>7 DEF findingVars, findingTables, session
    <2>2. /\ DOMAIN req' = Workers /\ \A v \in Workers : req'[v] \in {req[v], Idle}
          /\ unaudited' \subseteq Keys /\ events' \subseteq Keys \X Reviewers \X Dispositions
          BY <2>1 DEF FInv, FindingsTypeOK
    <2> QED BY <2>1, <2>2, QuietFindings
  <1> QED BY <1>1, <1>2, <1>3, <1>4, <1>5, <1>6, <1>7 DEF FindingsNext

\* FInv holds in every state of every behaviour.
THEOREM FindingsInvHolds == FindingsSpec => []FInv
  <1>1. FindingsInit /\ SessionInit => FInv BY FindingsInitHolds
  <1>2. FInv /\ [FindingsNext]_findingVars => FInv' BY FindingsNextHolds
  <1> QED BY <1>1, <1>2, PTL DEF FindingsSpec

\* A row that no request overlapped on tells one story: status, disposition, comment,
\* reviewer and audit event (review_planning_package_finding and its route).
THEOREM VerdictsAreWhole == FindingsSpec => []VerdictIsWhole
  <1>1. FInv => VerdictIsWhole BY DEF FInv
  <1> QED BY <1>1, FindingsInvHolds, PTL

\* The last analysis committed decides which findings are open, but for reviewers
\* (sync_planning_package_findings).
THEOREM LatestDecides == FindingsSpec => []LatestAnalysisDecides
  <1>1. FInv => LatestAnalysisDecides BY DEF FInv
  <1> QED BY <1>1, FindingsInvHolds, PTL

\* A refresh never undoes what a reviewer closed, unless the row changed under it.
THEOREM ClosedIsKept == FindingsSpec => RefreshKeepsClosed
  <1>1. ASSUME FInv, [FindingsNext]_findingVars, NEW k \in Rows,
               row[k].status = "Closed", k \notin raced', row'[k].status # "Closed"
        PROVE  \E w \in Workers : req[w].op = "review finding" /\ req[w].key = k
    <2>1. k \in DOMAIN row /\ row[k] \in Row BY <1>1 DEF FInv, FindingsTypeOK, Rows
    <2>2. CASE \E w \in Workers : CommitSync(w)
      <3>1. PICK w \in Workers : CommitSync(w) BY <2>2
      <3>2. /\ \A y \in DOMAIN row \ req[w].stale : row'[y] = Synced(row[y], y, req[w].keys)
            /\ raced' = raced \cup req[w].stale
            BY <1>1, <3>1, SyncStep
      <3>3. row'[k] = Synced(row[k], k, req[w].keys) BY <1>1, <2>1, <3>2
      <3>4. Synced(row[k], k, req[w].keys) = row[k] BY <1>1, <2>1, SyncedRow
      <3> QED BY <1>1, <3>3, <3>4
    <2>3. CASE \E w \in Workers : CommitReview(w)
      <3>1. PICK w \in Workers : CommitReview(w) BY <2>3
      <3>2. req[w].op = "review finding" BY <3>1 DEF CommitReview
      <3>3. \A y \in DOMAIN row \ {req[w].key} : row'[y] = row[y]
            BY <1>1, <3>1, VerdictStep
      <3> QED BY <1>1, <2>1, <3>2, <3>3
    <2>4. CASE row' = row
          BY <1>1, <2>4
    <2> QED BY <1>1, <2>2, <2>3, <2>4
            DEF FindingsNext, findingVars, findingTables, BeginSync, BeginReview, CommitAudit,
                DieFinding
  <1>2. FInv /\ [FindingsNext]_findingVars =>
           [\A k \in Rows :
               row[k].status = "Closed" /\ k \notin raced' /\ row'[k].status # "Closed" =>
                   \E w \in Workers : req[w].op = "review finding" /\ req[w].key = k]_findingVars
        BY <1>1
  <1> QED BY <1>2, FindingsInvHolds, PTL DEF FindingsSpec, RefreshKeepsClosed

-----------------------------------------------------------------------------
(* PreBidQueries: updates, approvals and their revocation                   *)

\* A row whose columns agree with its status.
Whole(r) ==
    /\ r.status = "Approved" => r.approvedAt
    /\ r.approvedAt <=> r.approvedBy # Nobody
    /\ r.status \in CLOSED_STATUSES <=> r.closedBy # Nobody
    /\ r.status = "Responded" => r.response /\ r.responseDate
    /\ r.status = "Submitted" => r.submittedDate

QueryDifferences == {Changes(l, n) : l \in QueryRow, n \in QueryRow}

QueryRequest ==
    [op : {"update", "approve", "revoke"}, row : Queries, user : Users,
     changes : QueryDifferences, material : BOOLEAN, alone : BOOLEAN,
     reads : SUBSET Queries, stale : SUBSET Queries]

\* What the changes of a request may say of an approval.
Authorised(r) ==
    /\ "approvedBy" \in DOMAIN r.changes =>
          r.changes["approvedBy"] = IF r.op = "approve" THEN r.user ELSE Nobody
    /\ r.op # "approve" =>
          /\ "status" \in DOMAIN r.changes => r.changes["status"] # "Approved"
          /\ "approvedAt" \in DOMAIN r.changes => r.changes["approvedAt"] = FALSE

\* A request `op` makes the row `l` into `n`: the columns keep agreeing, and what is
\* Approved after a sensitive change has been sent back.
Proper(op, material, l, n) ==
    /\ Whole(l) => Whole(IF op = "approve" THEN [n EXCEPT !.approvedAt = TRUE] ELSE n)
    /\ op # "approve" /\ n.status = "Approved" => l.status = "Approved" /\ ~material

\* What the request r knows of a table while nobody changed its row.
QueryKnows(table, r) ==
    \/ r = Idle
    \/ /\ r \in QueryRequest /\ Authorised(r)
       /\ r.row \in DOMAIN table /\ r.reads = {r.row} /\ r.stale \subseteq r.reads
       /\ r.stale = {} =>
             \E n \in QueryRow :
                r.changes = Changes(table[r.row], n) /\ Proper(r.op, r.material, table[r.row], n)

QInv ==
    /\ QueryTypeOK
    /\ DOMAIN req = Workers
    /\ \A w \in Workers : QueryKnows(query, req[w])
    /\ ApprovedByWorkflow
    /\ ApprovedTextIsVetted
    /\ \A q \in CalmQueries : Whole(query[q])

-----------------------------------------------------------------------------
(* What a commit makes of a row                                             *)

QueryColumns ==
    {"status", "approvedBy", "approvedAt", "submittedDate", "response", "responseDate",
     "closedBy"}

LEMMA QueryColumnsOf ==
    ASSUME NEW r
    PROVE  r \in QueryRow <=>
              /\ r = [c \in QueryColumns |-> r[c]]
              /\ r.status \in STATUSES /\ r.approvedBy \in Users \cup {Nobody}
              /\ r.approvedAt \in BOOLEAN /\ r.submittedDate \in BOOLEAN
              /\ r.response \in BOOLEAN /\ r.responseDate \in BOOLEAN
              /\ r.closedBy \in Users \cup {Nobody}
  <1>1. r \in QueryRow => r = [c \in QueryColumns |-> r[c]]
        BY DEF QueryRow, QueryColumns
  <1>2. ASSUME r = [c \in QueryColumns |-> r[c]]
        PROVE  r = [status |-> r.status, approvedBy |-> r.approvedBy,
                    approvedAt |-> r.approvedAt, submittedDate |-> r.submittedDate,
                    response |-> r.response, responseDate |-> r.responseDate,
                    closedBy |-> r.closedBy]
        BY <1>2 DEF QueryColumns
  <1> QED BY <1>1, <1>2 DEF QueryRow

LEMMA WrittenQuery ==
    ASSUME NEW was \in QueryRow, NEW l \in QueryRow, NEW n \in QueryRow
    PROVE  /\ Written(was, Changes(l, n)) \in QueryRow
           /\ \A c \in QueryColumns :
                 Written(was, Changes(l, n))[c] = IF n[c] # l[c] THEN n[c] ELSE was[c]
  <1> DEFINE ch == Changes(l, n)
             wr == Written(was, ch)
  <1>1. DOMAIN l = QueryColumns /\ DOMAIN n = QueryColumns /\ DOMAIN was = QueryColumns
        BY DEF QueryRow, QueryColumns
  <1>2. /\ DOMAIN ch = {c \in QueryColumns : n[c] # l[c]}
        /\ \A c \in DOMAIN ch : ch[c] = n[c]
        BY <1>1 DEF Changes
  <1>3. wr = [c \in QueryColumns |-> IF c \in DOMAIN ch THEN ch[c] ELSE was[c]]
        BY <1>1 DEF Written
  <1> HIDE DEF ch, wr
  <1>4. \A c \in QueryColumns : wr[c] = IF n[c] # l[c] THEN n[c] ELSE was[c]
        BY <1>2, <1>3
  <1>5. wr = [c \in QueryColumns |-> wr[c]] BY <1>3
  <1>6. \A c \in QueryColumns : wr[c] \in {n[c], was[c]} BY <1>4
  <1>7. wr \in QueryRow
    <2>1. /\ wr.status \in STATUSES /\ wr.approvedBy \in Users \cup {Nobody}
          /\ wr.closedBy \in Users \cup {Nobody}
          BY <1>6, QueryColumnsOf DEF QueryColumns
    <2>2. /\ wr.approvedAt \in BOOLEAN /\ wr.submittedDate \in BOOLEAN
          /\ wr.response \in BOOLEAN /\ wr.responseDate \in BOOLEAN
          BY <1>6, QueryColumnsOf DEF QueryColumns
    <2> QED BY <1>5, <2>1, <2>2, QueryColumnsOf
  <1> QED BY <1>4, <1>7 DEF ch, wr

LEMMA ChangedQuery ==
    ASSUME NEW l \in QueryRow, NEW n \in QueryRow
    PROVE  /\ DOMAIN Changes(l, n) = {c \in QueryColumns : n[c] # l[c]}
           /\ \A c \in DOMAIN Changes(l, n) : Changes(l, n)[c] = n[c]
  BY DEF Changes, QueryRow, QueryColumns

\* A request that writes over the row it loaded leaves what it made of it.
LEMMA QueryOver ==
    ASSUME NEW l \in QueryRow, NEW n \in QueryRow
    PROVE  Written(l, Changes(l, n)) = n
  <1>1. \A c \in QueryColumns : Written(l, Changes(l, n))[c] = n[c]
    <2>1. \A c \in QueryColumns :
             Written(l, Changes(l, n))[c] = IF n[c] # l[c] THEN n[c] ELSE l[c]
          BY WrittenQuery
    <2> QED BY <2>1
  <1>2. /\ Written(l, Changes(l, n)) = [c \in QueryColumns |-> Written(l, Changes(l, n))[c]]
        /\ n = [c \in QueryColumns |-> n[c]]
        BY WrittenQuery, QueryColumnsOf
  <1> QED BY <1>1, <1>2

\* What the changes of a request say of a table row, for each column of an approval.
LEMMA WrittenApproval ==
    ASSUME NEW was \in QueryRow, NEW ch \in QueryDifferences
    PROVE  LET wr == Written(was, ch) IN
           /\ wr \in QueryRow
           /\ wr.status = IF "status" \in DOMAIN ch THEN ch["status"] ELSE was.status
           /\ wr.approvedAt = IF "approvedAt" \in DOMAIN ch THEN ch["approvedAt"] ELSE was.approvedAt
           /\ wr.approvedBy = IF "approvedBy" \in DOMAIN ch THEN ch["approvedBy"] ELSE was.approvedBy
  <1>1. PICK l \in QueryRow, n \in QueryRow : ch = Changes(l, n) BY DEF QueryDifferences
  <1>2. Written(was, ch) \in QueryRow BY <1>1, WrittenQuery
  <1>3. DOMAIN was = QueryColumns BY DEF QueryRow, QueryColumns
  <1>4. Written(was, ch) = [c \in QueryColumns |-> IF c \in DOMAIN ch THEN ch[c] ELSE was[c]]
        BY <1>3 DEF Written
  <1> QED BY <1>2, <1>4 DEF QueryColumns

-----------------------------------------------------------------------------
(* What the handlers make of a row                                          *)

LEMMA NormalizedRow ==
    ASSUME NEW r \in QueryRow
    PROVE  /\ Normalized(r) \in QueryRow
           /\ Normalized(r).status = r.status
           /\ Normalized(r).approvedAt = r.approvedAt
           /\ Normalized(r).approvedBy = r.approvedBy
           /\ Normalized(r).closedBy = r.closedBy
           /\ Normalized(r).response = r.response
           /\ r.status = "Responded" => Normalized(r).responseDate
           /\ r.status = "Submitted" => Normalized(r).submittedDate
  <1>1. Normalized(r).submittedDate \in BOOLEAN /\ Normalized(r).responseDate \in BOOLEAN
        BY DEF Normalized, QueryRow
  <1>2. /\ Normalized(r).status = r.status
        /\ Normalized(r).approvedAt = r.approvedAt
        /\ Normalized(r).approvedBy = r.approvedBy
        /\ Normalized(r).closedBy = r.closedBy
        /\ Normalized(r).response = r.response
        /\ r.status = "Responded" => Normalized(r).responseDate
        /\ r.status = "Submitted" => Normalized(r).submittedDate
        BY DEF Normalized, QueryRow
  <1>3. Normalized(r) = [c \in QueryColumns |-> Normalized(r)[c]]
        BY DEF Normalized, QueryRow, QueryColumns
  <1> QED BY <1>1, <1>2, <1>3, QueryColumnsOf

LEMMA ClosingRow ==
    ASSUME NEW r \in QueryRow, NEW u \in Users
    PROVE  /\ WithClosing(r, u) \in QueryRow
           /\ WithClosing(r, u).closedBy = IF r.status \in CLOSED_STATUSES THEN u ELSE Nobody
           /\ \A c \in QueryColumns \ {"closedBy"} : WithClosing(r, u)[c] = r[c]
  BY DEF WithClosing, QueryRow, QueryColumns

LEMMA UnapprovedRow ==
    ASSUME NEW r \in QueryRow
    PROVE  /\ Unapproved(r) \in QueryRow
           /\ Unapproved(r).approvedBy = Nobody /\ Unapproved(r).approvedAt = FALSE
           /\ \A c \in QueryColumns \ {"approvedBy", "approvedAt"} : Unapproved(r)[c] = r[c]
  BY DEF Unapproved, QueryRow, QueryColumns

LEMMA SentBackRow ==
    ASSUME NEW r \in QueryRow
    PROVE  LET b == [Unapproved(r) EXCEPT !.status = "Ready for Review"] IN
           /\ b \in QueryRow /\ b.status = "Ready for Review"
           /\ b.approvedBy = Nobody /\ b.approvedAt = FALSE
           /\ \A c \in QueryColumns \ {"status", "approvedBy", "approvedAt"} : b[c] = r[c]
  <1> DEFINE x == Unapproved(r)
             b == [x EXCEPT !.status = "Ready for Review"]
  <1>1. /\ x \in QueryRow /\ x.approvedBy = Nobody /\ x.approvedAt = FALSE
        /\ \A c \in QueryColumns \ {"approvedBy", "approvedAt"} : x[c] = r[c]
        BY UnapprovedRow
  <1> HIDE DEF x
  <1>2. /\ b \in QueryRow /\ b.status = "Ready for Review"
        /\ \A c \in QueryColumns \ {"status"} : b[c] = x[c]
        BY <1>1 DEF QueryRow, QueryColumns, STATUSES
  <1> HIDE DEF b
  <1>3. b.approvedBy = Nobody /\ b.approvedAt = FALSE BY <1>1, <1>2 DEF QueryColumns
  <1>4. \A c \in QueryColumns \ {"status", "approvedBy", "approvedAt"} : b[c] = r[c]
        BY <1>1, <1>2
  <1> QED BY <1>2, <1>3, <1>4 DEF b, x

LEMMA PayloadRow ==
    ASSUME NEW r \in QueryRow, NEW p \in Payload
    PROVE  /\ WithPayload(r, p) \in QueryRow
           /\ WithPayload(r, p).status = IF p.status = "-" THEN r.status ELSE p.status
           /\ WithPayload(r, p).approvedAt = r.approvedAt
           /\ WithPayload(r, p).approvedBy = r.approvedBy
           /\ WithPayload(r, p).closedBy = r.closedBy
  <1> DEFINE n == WithPayload(r, p)
  <1>1. n = [c \in QueryColumns |-> n[c]] BY DEF WithPayload, QueryRow, QueryColumns
  <1>2. /\ n.status = IF p.status = "-" THEN r.status ELSE p.status
        /\ n.approvedAt = r.approvedAt /\ n.approvedBy = r.approvedBy
        /\ n.closedBy = r.closedBy
        BY DEF WithPayload, QueryRow
  <1>3. n.response \in BOOLEAN
        BY DEF WithPayload, QueryRow
  <1>4. n.submittedDate \in BOOLEAN /\ n.responseDate \in BOOLEAN
        BY DEF WithPayload, QueryRow
  <1>5. n.status \in STATUSES BY <1>2 DEF Payload, QueryRow
  <1> HIDE DEF n
  <1>6. n \in QueryRow
        BY <1>1, <1>2, <1>3, <1>4, <1>5, QueryColumnsOf
  <1> QED BY <1>2, <1>6 DEF n

\* A PATCH of a loaded row: nothing becomes Approved, a sensitive change loses its
\* approval, and the columns keep agreeing.
LEMMA UpdatedRow ==
    ASSUME NEW l \in QueryRow, NEW p \in Payload, NEW u \in Users,
           p.status = "Approved" => l.status = "Approved",
           ~Refused(WithApprovalReset(WithPayload(l, p), l.status, p))
    PROVE  /\ Updated(l, p, u) \in QueryRow
           /\ Updated(l, p, u).approvedBy \in {l.approvedBy, Nobody}
           /\ Updated(l, p, u).approvedAt \in {l.approvedAt, FALSE}
           /\ Updated(l, p, u).status = "Approved" => l.status = "Approved" /\ ~p.material
           /\ Whole(l) => Whole(Updated(l, p, u))
  <1> DEFINE a == WithPayload(l, p)
             b == WithApprovalReset(a, l.status, p)
             n == Normalized(b)
             m == Updated(l, p, u)
  <1>1. /\ a \in QueryRow
        /\ a.status = IF p.status = "-" THEN l.status ELSE p.status
        /\ a.approvedAt = l.approvedAt /\ a.approvedBy = l.approvedBy
        /\ a.closedBy = l.closedBy
        BY PayloadRow
  <1>2. p.status # "-" => p.status \in STATUSES BY DEF Payload
  <1>3. b = IF l.status = "Approved" /\ p.material
            THEN [Unapproved(a) EXCEPT !.status = "Ready for Review"]
            ELSE IF l.status = "Approved" /\ p.status \in {"Draft", "Ready for Review", "Withdrawn"}
                 THEN Unapproved(a) ELSE a
        BY DEF WithApprovalReset
  <1>4. m = IF p.status = "-" THEN n ELSE WithClosing(n, u) BY DEF Updated
  <1> HIDE DEF a, b, m
  <1>5. /\ b \in QueryRow /\ b.closedBy = l.closedBy
        /\ \/ /\ l.status = "Approved" /\ p.material /\ b.status = "Ready for Review"
              /\ b.approvedBy = Nobody /\ b.approvedAt = FALSE
           \/ /\ ~(l.status = "Approved" /\ p.material)
              /\ l.status = "Approved" /\ p.status \in {"Draft", "Ready for Review", "Withdrawn"}
              /\ b.status = a.status /\ b.approvedBy = Nobody /\ b.approvedAt = FALSE
           \/ /\ ~(l.status = "Approved" /\ p.material)
              /\ ~(l.status = "Approved" /\ p.status \in {"Draft", "Ready for Review", "Withdrawn"})
              /\ b.status = a.status /\ b.approvedBy = l.approvedBy /\ b.approvedAt = l.approvedAt
    <2>1. CASE l.status = "Approved" /\ p.material
      <3>1. b = [Unapproved(a) EXCEPT !.status = "Ready for Review"] BY <1>3, <2>1
      <3> QED BY <1>1, <2>1, <3>1, SentBackRow DEF QueryColumns
    <2>2. CASE /\ ~(l.status = "Approved" /\ p.material)
               /\ l.status = "Approved" /\ p.status \in {"Draft", "Ready for Review", "Withdrawn"}
      <3>1. b = Unapproved(a) BY <1>3, <2>2
      <3> QED BY <1>1, <2>2, <3>1, UnapprovedRow DEF QueryColumns
    <2>3. CASE /\ ~(l.status = "Approved" /\ p.material)
               /\ ~(l.status = "Approved" /\ p.status \in {"Draft", "Ready for Review", "Withdrawn"})
      <3>1. b = a BY <1>3, <2>3
      <3> QED BY <1>1, <2>3, <3>1
    <2> QED BY <2>1, <2>2, <2>3
  <1>6. /\ n \in QueryRow /\ n.status = b.status
        /\ n.approvedAt = b.approvedAt /\ n.approvedBy = b.approvedBy
        /\ n.closedBy = b.closedBy /\ n.response = b.response
        /\ b.status = "Responded" => n.responseDate
        /\ b.status = "Submitted" => n.submittedDate
        BY <1>5, NormalizedRow
  <1> HIDE DEF n
  <1>7. /\ m \in QueryRow /\ m.status = n.status
        /\ m.approvedAt = n.approvedAt /\ m.approvedBy = n.approvedBy
        /\ m.response = n.response /\ m.responseDate = n.responseDate
        /\ m.submittedDate = n.submittedDate
        /\ p.status = "-" => m.closedBy = n.closedBy
        /\ p.status # "-" => m.closedBy = IF n.status \in CLOSED_STATUSES THEN u ELSE Nobody
    <2>1. CASE p.status = "-"
          BY <1>4, <1>6, <2>1
    <2>2. CASE p.status # "-"
          BY <1>4, <1>6, <2>2, ClosingRow DEF QueryColumns
    <2> QED BY <2>1, <2>2
  <1>8. m.approvedBy \in {l.approvedBy, Nobody} /\ m.approvedAt \in {l.approvedAt, FALSE}
        BY <1>5, <1>6, <1>7
  <1>9. m.status = "Approved" => l.status = "Approved" /\ ~p.material
        BY <1>1, <1>5, <1>6, <1>7
  <1>10. ASSUME Whole(l) PROVE Whole(m)
    <2>1. m.status = "Approved" => m.approvedAt
          BY <1>1, <1>5, <1>6, <1>7, <1>10 DEF Whole
    <2>2. m.approvedAt <=> m.approvedBy # Nobody
          BY <1>5, <1>6, <1>7, <1>10 DEF Whole
    <2>3. m.status \in CLOSED_STATUSES <=> m.closedBy # Nobody
      <3>1. CASE p.status = "-"
            BY <1>1, <1>5, <1>6, <1>7, <1>10, <3>1 DEF Whole, CLOSED_STATUSES
      <3>2. CASE p.status # "-"
            BY <1>7, <3>2, QueryAssumption
      <3> QED BY <3>1, <3>2
    <2>4. m.status = "Responded" => m.response /\ m.responseDate
      <3>1. ~Refused(b) BY DEF b, a
      <3> QED BY <1>6, <1>7, <3>1 DEF Refused
    <2>5. m.status = "Submitted" => m.submittedDate BY <1>6, <1>7
    <2> QED BY <2>1, <2>2, <2>3, <2>4, <2>5 DEF Whole
  <1> QED BY <1>7, <1>8, <1>9, <1>10 DEF m

-----------------------------------------------------------------------------
(* What a request knows survives the commits of others                      *)

LEMMA QueriesGrown ==
    ASSUME NEW L, NEW M, NEW r, QueryKnows(L, r),
           DOMAIN L \subseteq DOMAIN M, \A y \in DOMAIN L : M[y] = L[y]
    PROVE  QueryKnows(M, r)
  BY DEF QueryKnows

LEMMA QueryStale ==
    ASSUME NEW L, NEW M, NEW r, QueryKnows(L, r), r # Idle, NEW x,
           DOMAIN L \subseteq DOMAIN M, \A y \in DOMAIN L \ {x} : M[y] = L[y]
    PROVE  QueryKnows(M, [r EXCEPT !.stale = @ \cup ({x} \cap r.reads)])
  <1> DEFINE s == [r EXCEPT !.stale = @ \cup ({x} \cap r.reads)]
  <1>1. /\ r \in QueryRequest /\ Authorised(r)
        /\ r.row \in DOMAIN L /\ r.reads = {r.row} /\ r.stale \subseteq r.reads
        BY DEF QueryKnows
  <1>2. /\ s \in QueryRequest /\ s.row = r.row /\ s.op = r.op /\ s.user = r.user
        /\ s.changes = r.changes /\ s.material = r.material /\ s.reads = r.reads
        /\ s.stale = r.stale \cup ({x} \cap r.reads)
        BY <1>1 DEF QueryRequest
  <1> HIDE DEF s
  <1>3. Authorised(s) BY <1>1, <1>2 DEF Authorised
  <1>4. s.row \in DOMAIN M /\ s.reads = {s.row} /\ s.stale \subseteq s.reads
        BY <1>1, <1>2
  <1>5. ASSUME s.stale = {}
        PROVE  \E n \in QueryRow :
                  s.changes = Changes(M[s.row], n) /\ Proper(s.op, s.material, M[s.row], n)
    <2>1. r.stale = {} /\ M[r.row] = L[r.row] BY <1>1, <1>2, <1>5
    <2> QED BY <1>2, <2>1 DEF QueryKnows, Idle, QueryRequest
  <1> QED BY <1>2, <1>3, <1>4, <1>5 DEF QueryKnows, s

\* After a commit of the row x by w every request knows what it must.
LEMMA CommitKnowsQuery ==
    ASSUME QInv, NEW w \in Workers, NEW x,
           DOMAIN query \subseteq DOMAIN query',
           \A y \in DOMAIN query \ {x} : query'[y] = query[y],
           Commit(w, {x}, {x}, Idle)
    PROVE  /\ DOMAIN req' = Workers
           /\ \A v \in Workers : QueryKnows(query', req'[v])
  <1>1. DOMAIN req' = Workers BY DEF Commit
  <1>2. ASSUME NEW v \in Workers PROVE QueryKnows(query', req'[v])
    <2>1. QueryKnows(query, req[v]) BY DEF QInv
    <2>2. CASE v = w
          BY <2>2 DEF Commit, QueryKnows
    <2>3. CASE v # w /\ req[v] = Idle
          BY <2>3 DEF Commit, QueryKnows
    <2>4. CASE v # w /\ req[v] # Idle
      <3>1. req'[v] = [req[v] EXCEPT !.stale = @ \cup ({x} \cap req[v].reads)]
            BY <2>4 DEF Commit
      <3>2. PICK L, M, r : L = query /\ M = query' /\ r = req[v] OBVIOUS
      <3>3. QueryKnows(M, [r EXCEPT !.stale = @ \cup ({x} \cap r.reads)])
            BY <2>1, <2>4, <3>2, QueryStale
      <3> QED BY <3>1, <3>2, <3>3
    <2> QED BY <2>2, <2>3, <2>4
  <1> QED BY <1>1, <1>2

-----------------------------------------------------------------------------
(* The actions                                                              *)

LEMMA QueriesInitHolds == QueriesInit /\ SessionInit => QInv
  BY DEF QueriesInit, SessionInit, QInv, QueryTypeOK, QueryKnows, ApprovedByWorkflow,
         ApprovedTextIsVetted, CalmQueries, Asked

LEMMA BeginInv ==
    ASSUME QInv, NEW w \in Workers, NEW op \in {"update", "approve", "revoke"},
           NEW u \in Users, NEW q \in Asked, NEW new \in QueryRow,
           NEW material \in BOOLEAN, NEW alone \in BOOLEAN,
           BeginQuery(w, op, u, q, new, material, alone),
           new.approvedBy \in {query[q].approvedBy, IF op = "approve" THEN u ELSE Nobody},
           op # "approve" =>
              /\ new.status = "Approved" => query[q].status = "Approved"
              /\ new.approvedAt \in {query[q].approvedAt, FALSE},
           Proper(op, material, query[q], new)
    PROVE  QInv'
  <1> DEFINE ch == Changes(query[q], new)
             r == [op |-> op, row |-> q, user |-> u, changes |-> ch,
                   material |-> material, alone |-> alone, reads |-> {q}, stale |-> {}]
  <1>1. Take(w, r) /\ UNCHANGED queryTables BY DEF BeginQuery
  <1>2. q \in Queries /\ query[q] \in QueryRow BY DEF QInv, QueryTypeOK, Asked
  <1>3. /\ DOMAIN ch = {c \in QueryColumns : new[c] # query[q][c]}
        /\ \A c \in DOMAIN ch : ch[c] = new[c]
    <2>1. PICK l, n : l = query[q] /\ n = new OBVIOUS
    <2>2. l \in QueryRow /\ n \in QueryRow BY <1>2, <2>1
    <2> HIDE DEF ch
    <2>3. /\ DOMAIN Changes(l, n) = {c \in QueryColumns : n[c] # l[c]}
          /\ \A c \in DOMAIN Changes(l, n) : Changes(l, n)[c] = n[c]
          BY <2>2, ChangedQuery
    <2> QED BY <2>1, <2>3 DEF ch
  <1>4. ch \in QueryDifferences BY <1>2 DEF QueryDifferences
  <1>5. ch = Changes(query[q], new) OBVIOUS
  <1> HIDE DEF ch
  <1>6. /\ r \in QueryRequest /\ r.row = q /\ r.op = op /\ r.user = u /\ r.changes = ch
        /\ r.material = material /\ r.reads = {q} /\ r.stale = {}
        BY <1>2, <1>4 DEF QueryRequest
  <1> HIDE DEF r
  <1>7. Authorised(r)
    <2>1. "approvedBy" \in DOMAIN ch => ch["approvedBy"] = IF op = "approve" THEN u ELSE Nobody
          BY <1>3 DEF QueryColumns
    <2>2. op # "approve" /\ "status" \in DOMAIN ch => ch["status"] # "Approved"
          BY <1>3 DEF QueryColumns
    <2>3. op # "approve" /\ "approvedAt" \in DOMAIN ch => ch["approvedAt"] = FALSE
          BY <1>3 DEF QueryColumns
    <2> QED BY <1>6, <2>1, <2>2, <2>3 DEF Authorised
  <1>8. QueryKnows(query, r) BY <1>5, <1>6, <1>7 DEF QueryKnows, Asked
  <1>9. DOMAIN req' = Workers /\ \A v \in Workers : QueryKnows(query, req'[v])
        BY <1>1, <1>8 DEF QInv, Take
  <1>10. UNCHANGED <<query, approvals, edited, raced>> BY <1>1 DEF Take, queryTables
  <1>11. QueryTypeOK' /\ ApprovedByWorkflow' /\ ApprovedTextIsVetted'
         /\ \A y \in CalmQueries' : Whole(query'[y])
         BY <1>10 DEF QInv, QueryTypeOK, ApprovedByWorkflow, ApprovedTextIsVetted,
                      CalmQueries, Asked
  <1> QED BY <1>9, <1>10, <1>11 DEF QInv

LEMMA TimedRow ==
    ASSUME NEW r \in QueryRow
    PROVE  LET t == [r EXCEPT !.approvedAt = TRUE] IN
           /\ t \in QueryRow /\ t.approvedAt = TRUE
           /\ t.status = r.status /\ t.approvedBy = r.approvedBy
  BY DEF QueryRow

\* What the three commits have in common: the row becomes `new`, the events grow.
LEMMA CommitInv ==
    ASSUME QInv, NEW w \in Workers, req[w] # Idle,
           NEW x, x = req[w].row,
           NEW wr, wr = Written(query[x], req[w].changes),
           NEW new, new = IF req[w].op = "approve" THEN [wr EXCEPT !.approvedAt = TRUE] ELSE wr,
           query' = [query EXCEPT ![x] = new],
           Commit(w, {x}, {x}, Idle),
           approvals \subseteq approvals', approvals' \subseteq Queries \X Users,
           req[w].op = "approve" => <<x, req[w].user>> \in approvals',
           edited' \subseteq Queries, edited' \subseteq edited \cup {x},
           req[w].op = "approve" /\ req[w].stale = {} => x \notin edited',
           req[w].op # "approve" /\ ~req[w].material => edited' \subseteq edited
    PROVE  QInv'
  <1> DEFINE r == req[w]
  <1>1. /\ r \in QueryRequest /\ Authorised(r)
        /\ x \in DOMAIN query /\ r.reads = {x} /\ r.stale \subseteq {x}
        /\ r.stale = {} => \E n \in QueryRow :
              r.changes = Changes(query[x], n) /\ Proper(r.op, r.material, query[x], n)
        BY DEF QInv, QueryKnows
  <1>2. /\ query[x] \in QueryRow /\ r.changes \in QueryDifferences /\ r.user \in Users
        /\ x \in Queries
        BY <1>1 DEF QInv, QueryTypeOK, Asked, QueryRequest
  <1>3. /\ wr \in QueryRow
        /\ wr.status = IF "status" \in DOMAIN r.changes THEN r.changes["status"]
                       ELSE query[x].status
        /\ wr.approvedAt = IF "approvedAt" \in DOMAIN r.changes THEN r.changes["approvedAt"]
                           ELSE query[x].approvedAt
        /\ wr.approvedBy = IF "approvedBy" \in DOMAIN r.changes THEN r.changes["approvedBy"]
                           ELSE query[x].approvedBy
        BY <1>2, WrittenApproval
  <1>4. /\ new \in QueryRow /\ new.status = wr.status /\ new.approvedBy = wr.approvedBy
        /\ r.op = "approve" \/ new.approvedAt = wr.approvedAt
    <2>1. CASE r.op = "approve"
          BY <1>3, <2>1, TimedRow
    <2>2. CASE r.op # "approve"
          BY <1>3, <2>2
    <2> QED BY <2>1, <2>2
  <1>5. /\ DOMAIN query' = DOMAIN query /\ query'[x] = new
        /\ \A y \in DOMAIN query \ {x} : query'[y] = query[y]
        BY <1>1
  <1>6. raced' = raced \cup ({x} \cap r.stale) BY DEF Commit
  <1>7. QueryTypeOK'
    <2>1. \A q \in DOMAIN query' : query'[q] \in QueryRow
          BY <1>4, <1>5 DEF QInv, QueryTypeOK, Asked
    <2> QED BY <1>5, <2>1 DEF QInv, QueryTypeOK, Asked
  <1>8. DOMAIN req' = Workers /\ \A v \in Workers : QueryKnows(query', req'[v])
        BY <1>5, CommitKnowsQuery
  <1>9. /\ new.status = "Approved" \/ new.approvedAt => \E u \in Users : <<x, u>> \in approvals'
        /\ new.approvedBy # Nobody => <<x, new.approvedBy>> \in approvals'
    <2>1. CASE r.op = "approve"
          BY <1>1, <1>2, <1>3, <1>4, <2>1 DEF Authorised, QInv, ApprovedByWorkflow, Asked
    <2>2. CASE r.op # "approve"
      <3>1. /\ new.status = "Approved" => query[x].status = "Approved"
            /\ new.approvedAt => query[x].approvedAt
            /\ new.approvedBy # Nobody => new.approvedBy = query[x].approvedBy
            BY <1>1, <1>3, <1>4, <2>2 DEF Authorised
      <3> QED BY <1>1, <3>1 DEF QInv, ApprovedByWorkflow, Asked
    <2> QED BY <2>1, <2>2
  <1>10. ApprovedByWorkflow'
    <2>1. ASSUME NEW q \in DOMAIN query'
          PROVE  /\ query'[q].status = "Approved" \/ query'[q].approvedAt =>
                        \E u \in Users : <<q, u>> \in approvals'
                 /\ query'[q].approvedBy # Nobody => <<q, query'[q].approvedBy>> \in approvals'
      <3>1. CASE q = x
            BY <1>5, <1>9, <3>1
      <3>2. CASE q # x
            BY <1>5, <3>2 DEF QInv, ApprovedByWorkflow, Asked
      <3> QED BY <3>1, <3>2
    <2> QED BY <2>1 DEF ApprovedByWorkflow, Asked
  <1>11. ASSUME x \notin raced'
         PROVE  Whole(new) /\ (new.status = "Approved" => x \notin edited')
    <2>1. r.stale = {} /\ x \notin raced BY <1>1, <1>6, <1>11
    <2>2. PICK n \in QueryRow :
             r.changes = Changes(query[x], n) /\ Proper(r.op, r.material, query[x], n)
          BY <1>1, <2>1
    <2>3. wr = n BY <1>2, <2>2, QueryOver
    <2>4. Whole(query[x]) BY <1>1, <2>1 DEF QInv, CalmQueries, Asked
    <2>5. Whole(new) BY <2>2, <2>3, <2>4 DEF Proper
    <2>6. ASSUME new.status = "Approved", r.op # "approve" PROVE x \notin edited'
      <3>1. query[x].status = "Approved" /\ ~r.material
            BY <1>4, <2>2, <2>3, <2>6 DEF Proper
      <3>2. x \notin edited BY <1>1, <2>1, <3>1 DEF QInv, ApprovedTextIsVetted, CalmQueries, Asked
      <3> QED BY <2>6, <3>1, <3>2
    <2> QED BY <2>1, <2>5, <2>6
  <1>12. ASSUME NEW q \in DOMAIN query' \ raced'
         PROVE  Whole(query'[q]) /\ (query'[q].status = "Approved" => q \notin edited')
    <2>1. CASE q = x
          BY <1>5, <1>11, <1>12, <2>1
    <2>2. CASE q # x
          BY <1>5, <1>6, <1>12, <2>2 DEF QInv, ApprovedTextIsVetted, CalmQueries, Asked
    <2> QED BY <2>1, <2>2
  <1>13. ApprovedTextIsVetted' /\ \A q \in CalmQueries' : Whole(query'[q])
         BY <1>12 DEF ApprovedTextIsVetted, CalmQueries, Asked
  <1> QED BY <1>7, <1>8, <1>10, <1>13 DEF QInv

\* A step that leaves the rows alone and at most ends a request.
LEMMA QuietQueries ==
    ASSUME QInv, UNCHANGED <<query, approvals, edited, raced>>,
           DOMAIN req' = Workers, \A v \in Workers : req'[v] \in {req[v], Idle}
    PROVE  QInv'
  <1>1. \A v \in Workers : QueryKnows(query', req'[v]) BY DEF QInv, QueryKnows
  <1>2. QueryTypeOK' /\ ApprovedByWorkflow' /\ ApprovedTextIsVetted'
        /\ \A y \in CalmQueries' : Whole(query'[y])
        BY DEF QInv, QueryTypeOK, ApprovedByWorkflow, ApprovedTextIsVetted, CalmQueries, Asked
  <1> QED BY <1>1, <1>2 DEF QInv

LEMMA CreatedRow ==
    ASSUME NEW u \in Users, NEW s \in STATUSES, NEW resp \in BOOLEAN, s # "Approved",
           NEW r, r = Normalized(WithClosing(Created(s, resp), u)), ~Refused(r)
    PROVE  /\ r \in QueryRow /\ r.status # "Approved" /\ r.approvedAt = FALSE
           /\ r.approvedBy = Nobody /\ Whole(r)
  <1> DEFINE c == Created(s, resp)
             d == WithClosing(c, u)
  <1>1. /\ c \in QueryRow /\ c.status = s /\ c.approvedAt = FALSE /\ c.approvedBy = Nobody
        BY DEF Created, QueryRow
  <1> HIDE DEF c
  <1>2. /\ d \in QueryRow /\ d.status = s /\ d.approvedAt = FALSE /\ d.approvedBy = Nobody
        /\ d.closedBy = IF s \in CLOSED_STATUSES THEN u ELSE Nobody
        BY <1>1, ClosingRow DEF QueryColumns
  <1> HIDE DEF d
  <1>3. r = Normalized(d) BY DEF d, c
  <1>4. /\ r \in QueryRow /\ r.status = s /\ r.approvedAt = FALSE /\ r.approvedBy = Nobody
        /\ r.closedBy = d.closedBy
        /\ s = "Responded" => r.responseDate
        /\ s = "Submitted" => r.submittedDate
        BY <1>2, <1>3, NormalizedRow
  <1>5. Whole(r) BY <1>2, <1>4, QueryAssumption DEF Whole, Refused
  <1> QED BY <1>4, <1>5

LEMMA CreateInv ==
    ASSUME QInv, NEW u \in Users, NEW q \in Queries, NEW s \in STATUSES, NEW resp \in BOOLEAN,
           CreateQuery(u, q, s, resp)
    PROVE  QInv'
  <1>1. PICK r : r = Normalized(WithClosing(Created(s, resp), u)) OBVIOUS
  <1>2. /\ q \notin DOMAIN query /\ s # "Approved" /\ ~Refused(r)
        /\ query' = [p \in DOMAIN query \cup {q} |-> IF p = q THEN r ELSE query[p]]
        /\ UNCHANGED <<approvals, edited, req, raced>>
        BY <1>1 DEF CreateQuery, Asked, session
  <1>3. /\ r \in QueryRow /\ r.status # "Approved" /\ r.approvedAt = FALSE
        /\ r.approvedBy = Nobody /\ Whole(r)
        BY <1>1, <1>2, CreatedRow
  <1>4. /\ DOMAIN query' = DOMAIN query \cup {q} /\ query'[q] = r
        /\ \A y \in DOMAIN query : query'[y] = query[y]
        BY <1>2
  <1>5. QueryTypeOK'
    <2>1. \A p \in DOMAIN query' : query'[p] \in QueryRow
          BY <1>3, <1>4 DEF QInv, QueryTypeOK, Asked
    <2> QED BY <1>2, <1>4, <2>1 DEF QInv, QueryTypeOK, Asked
  <1>6. \A w \in Workers : QueryKnows(query', req'[w])
    <2> TAKE w \in Workers
    <2>1. PICK L, M, k : L = query /\ M = query' /\ k = req[w] OBVIOUS
    <2>2. QueryKnows(M, k) BY <1>4, <2>1, QueriesGrown DEF QInv
    <2> QED BY <1>2, <2>1, <2>2
  <1>7. ASSUME NEW p \in DOMAIN query'
        PROVE  /\ query'[p].status = "Approved" \/ query'[p].approvedAt =>
                      \E v \in Users : <<p, v>> \in approvals'
               /\ query'[p].approvedBy # Nobody => <<p, query'[p].approvedBy>> \in approvals'
               /\ p \notin raced' =>
                      Whole(query'[p]) /\ (query'[p].status = "Approved" => p \notin edited')
    <2>1. CASE p = q
          BY <1>3, <1>4, <2>1
    <2>2. CASE p # q
          BY <1>2, <1>4, <2>2
             DEF QInv, ApprovedByWorkflow, ApprovedTextIsVetted, CalmQueries, Asked
    <2> QED BY <2>1, <2>2
  <1>8. ApprovedByWorkflow' /\ ApprovedTextIsVetted' /\ \A p \in CalmQueries' : Whole(query'[p])
        BY <1>7 DEF ApprovedByWorkflow, ApprovedTextIsVetted, CalmQueries, Asked
  <1> QED BY <1>2, <1>5, <1>6, <1>8 DEF QInv

LEMMA BeginUpdateInv ==
    ASSUME QInv, NEW w \in Workers, NEW q \in Asked, NEW u \in Editors, NEW p \in Payloads,
           BeginUpdate(w, u, q, p)
    PROVE  QInv'
  <1>1. PICK l, new, material, alone :
           /\ l = query[q] /\ new = Updated(l, p, u) /\ material = p.material
           /\ alone = (p \notin Overlapping)
        OBVIOUS
  <1>2. p \in Payload /\ u \in Users /\ l \in QueryRow
        BY <1>1, QueryAssumption DEF Users, QInv, QueryTypeOK, Asked
  <1>3. /\ p.status = "Approved" => l.status = "Approved"
        /\ ~Refused(WithApprovalReset(WithPayload(l, p), l.status, p))
        /\ BeginQuery(w, "update", u, q, new, material, alone)
        BY <1>1 DEF BeginUpdate
  <1>4. /\ new \in QueryRow
        /\ new.approvedBy \in {l.approvedBy, Nobody}
        /\ new.approvedAt \in {l.approvedAt, FALSE}
        /\ new.status = "Approved" => l.status = "Approved" /\ ~p.material
        /\ Whole(l) => Whole(new)
        BY <1>1, <1>2, <1>3, UpdatedRow
  <1>5. material \in BOOLEAN BY <1>1, <1>2 DEF Payload
  <1>6. alone \in BOOLEAN BY <1>1
  <1>7. Proper("update", material, l, new) BY <1>1, <1>4 DEF Proper
  <1>8. QInv' BY <1>1, <1>2, <1>3, <1>4, <1>5, <1>6, <1>7, BeginInv
  <1> QED BY <1>8

LEMMA BeginApproveInv ==
    ASSUME QInv, NEW w \in Workers, NEW q \in Asked, NEW u \in Approvers, BeginApprove(w, u, q)
    PROVE  QInv'
  <1>1. PICK l, new : l = query[q] /\ new = [l EXCEPT !.status = "Approved", !.approvedBy = u]
        OBVIOUS
  <1>2. u \in Users /\ l \in QueryRow
        BY <1>1 DEF Users, QInv, QueryTypeOK, Asked
  <1>3. l.status = "Ready for Review" /\ BeginQuery(w, "approve", u, q, new, FALSE, FALSE)
        BY <1>1 DEF BeginApprove
  <1>4. /\ new \in QueryRow /\ new.approvedBy = u /\ new.status = "Approved"
        /\ new.closedBy = l.closedBy
        BY <1>1, <1>2 DEF QueryRow, STATUSES
  <1>5. /\ [new EXCEPT !.approvedAt = TRUE].status = "Approved"
        /\ [new EXCEPT !.approvedAt = TRUE].approvedAt = TRUE
        /\ [new EXCEPT !.approvedAt = TRUE].approvedBy = u
        /\ [new EXCEPT !.approvedAt = TRUE].closedBy = l.closedBy
        BY <1>4 DEF QueryRow
  <1>6. Whole(l) => Whole([new EXCEPT !.approvedAt = TRUE])
        BY <1>2, <1>3, <1>5, QueryAssumption DEF Whole, CLOSED_STATUSES
  <1>7. Proper("approve", FALSE, l, new) BY <1>6 DEF Proper
  <1> QED BY <1>1, <1>2, <1>3, <1>4, <1>7, BeginInv

LEMMA BeginRevokeInv ==
    ASSUME QInv, NEW w \in Workers, NEW q \in Asked, NEW u \in Approvers, BeginRevoke(w, u, q)
    PROVE  QInv'
  <1>1. PICK l, new : l = query[q] /\ new = Revoked(l) OBVIOUS
  <1>2. u \in Users /\ l \in QueryRow
        BY <1>1 DEF Users, QInv, QueryTypeOK, Asked
  <1>3. l.status = "Approved" /\ BeginQuery(w, "revoke", u, q, new, FALSE, FALSE)
        BY <1>1 DEF BeginRevoke
  <1>4. /\ new \in QueryRow /\ new.status = "Ready for Review"
        /\ new.approvedBy = Nobody /\ new.approvedAt = FALSE
        /\ new.closedBy = l.closedBy
        BY <1>1, <1>2, SentBackRow DEF Revoked, QueryColumns
  <1>5. Whole(l) => Whole(new) BY <1>3, <1>4 DEF Whole, CLOSED_STATUSES
  <1>6. Proper("revoke", FALSE, l, new) BY <1>4, <1>5 DEF Proper
  <1> QED BY <1>1, <1>2, <1>3, <1>4, <1>6, BeginInv

\* Any of the three commits.
LEMMA CommitAnyInv ==
    ASSUME QInv, NEW w \in Workers, CommitUpdate(w) \/ CommitApprove(w) \/ CommitRevoke(w)
    PROVE  QInv'
  <1>1. PICK x, wr, new :
           /\ x = req[w].row /\ wr = Written(query[x], req[w].changes)
           /\ new = IF req[w].op = "approve" THEN [wr EXCEPT !.approvedAt = TRUE] ELSE wr
        OBVIOUS
  <1>2. req[w] # Idle /\ req[w].op \in {"update", "approve", "revoke"}
        BY DEF CommitUpdate, CommitApprove, CommitRevoke, Idle
  <1>3. /\ req[w] \in QueryRequest /\ x \in DOMAIN query /\ x \in Queries
        /\ req[w].user \in Users
        BY <1>1, <1>2 DEF QInv, QueryKnows, QueryRequest
  <1>4. Commit(w, {x}, {x}, Idle)
        BY <1>1 DEF CommitUpdate, CommitApprove, CommitRevoke
  <1>5. query' = [query EXCEPT ![x] = new]
        BY <1>1 DEF CommitUpdate, CommitApprove, CommitRevoke
  <1>6. /\ approvals \subseteq approvals' /\ approvals' \subseteq Queries \X Users
        /\ req[w].op = "approve" => <<x, req[w].user>> \in approvals'
    <2>1. CASE CommitApprove(w)
          BY <1>1, <1>3, <2>1 DEF CommitApprove, QInv, QueryTypeOK
    <2>2. CASE CommitUpdate(w) \/ CommitRevoke(w)
          BY <2>2 DEF CommitUpdate, CommitRevoke, QInv, QueryTypeOK
    <2> QED BY <2>1, <2>2
  <1>7. /\ edited' \subseteq Queries /\ edited' \subseteq edited \cup {x}
        /\ req[w].op = "approve" /\ req[w].stale = {} => x \notin edited'
        /\ req[w].op # "approve" /\ ~req[w].material => edited' \subseteq edited
        BY <1>1, <1>3 DEF CommitUpdate, CommitApprove, CommitRevoke, QInv, QueryTypeOK
  <1> QED BY <1>1, <1>2, <1>4, <1>5, <1>6, <1>7, CommitInv

LEMMA QueriesNextHolds ==
    ASSUME QInv, [QueriesNext]_queryVars
    PROVE  QInv'
  <1>1. ASSUME NEW u \in Editors, NEW q \in Queries, NEW s \in STATUSES, NEW resp \in BOOLEAN,
               CreateQuery(u, q, s, resp)
        PROVE  QInv'
        BY <1>1, CreateInv DEF Users
  <1>2. ASSUME NEW w \in Workers, NEW q \in Asked, NEW u \in Editors, NEW p \in Payloads,
               BeginUpdate(w, u, q, p)
        PROVE  QInv'
        BY <1>2, BeginUpdateInv
  <1>3. ASSUME NEW w \in Workers, NEW q \in Asked, NEW u \in Approvers,
               BeginApprove(w, u, q) \/ BeginRevoke(w, u, q)
        PROVE  QInv'
        BY <1>3, BeginApproveInv, BeginRevokeInv
  <1>4. ASSUME NEW w \in Workers, CommitUpdate(w) \/ CommitApprove(w) \/ CommitRevoke(w)
        PROVE  QInv'
        BY <1>4, CommitAnyInv
  <1>5. ASSUME NEW w \in Workers, Die(w), UNCHANGED queryTables PROVE QInv'
    <2>1. /\ DOMAIN req' = Workers /\ \A v \in Workers : req'[v] \in {req[v], Idle}
          /\ UNCHANGED <<query, approvals, edited, raced>>
          BY <1>5 DEF Die, queryTables, QInv
    <2> QED BY <2>1, QuietQueries
  <1>6. CASE UNCHANGED queryVars
    <2>1. UNCHANGED <<query, approvals, edited, raced, req>>
          BY <1>6 DEF queryVars, queryTables, session
    <2> QED BY <2>1, QuietQueries DEF QInv
  <1> QED BY <1>1, <1>2, <1>3, <1>4, <1>5, <1>6 DEF QueriesNext

\* QInv holds in every state of every behaviour.
THEOREM QueriesInvHolds == QueriesSpec => []QInv
  <1>1. QueriesInit /\ SessionInit => QInv BY QueriesInitHolds
  <1>2. QInv /\ [QueriesNext]_queryVars => QInv' BY QueriesNextHolds
  <1> QED BY <1>1, <1>2, PTL DEF QueriesSpec

\* Whatever overlaps, a query is Approved, or carries an approval, only after the
\* approval route (approve_pre_bid_query) approved it.
THEOREM ApprovalNeedsWorkflow == QueriesSpec => []ApprovedByWorkflow
  <1>1. QInv => ApprovedByWorkflow BY DEF QInv
  <1> QED BY <1>1, QueriesInvHolds, PTL

\* The text of an Approved query is the text its approver read, unless a request
\* committed over a stale row (update_pre_bid_query sends sensitive changes back).
THEOREM ApprovedTextIsRead == QueriesSpec => []ApprovedTextIsVetted
  <1>1. QInv => ApprovedTextIsVetted BY DEF QInv
  <1> QED BY <1>1, QueriesInvHolds, PTL

\* The columns of a query agree with its status, unless a request committed over a
\* stale row (normalize_workflow and the resets of update_pre_bid_query).
THEOREM StatusNeedsColumns == QueriesSpec => []StatusIsBacked
  <1>1. QInv => StatusIsBacked BY DEF QInv, StatusIsBacked, Whole
  <1> QED BY <1>1, QueriesInvHolds, PTL
================================================================================
