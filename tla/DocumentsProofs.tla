--------------------------- MODULE DocumentsProofs ---------------------------
(***************************************************************************)
(* Proofs about Documents: whatever number of uploads follow each other    *)
(* and whatever classifications and archivings run beside them, a content  *)
(* is stored once and a duplicate leads to it.                             *)
(***************************************************************************)
EXTENDS Documents, FiniteSetTheorems, TLAPS

-----------------------------------------------------------------------------
(* The invariant                                                            *)

DocumentStatuses == {"Uploaded", "Needs Review", "Duplicate", "Archived"}
Classes == {"pending", "classified", "needs_review", "manually_classified"}

\* What a request beside the uploads may change of a row.
Touched(l, s, c) == [l EXCEPT !.status = s, !.class = c]
Touches ==
    {Changes(l, Touched(l, s, c)) : l \in DocumentRow, s \in DocumentStatuses, c \in Classes}

DocumentRequest ==
    [op : {"update", "auto", "forced"}, row : Docs, changes : Touches,
     reads : SUBSET Docs, stale : SUBSET Docs]

\* Until its insert, what the duplicate check of an upload saw still holds: the content
\* is in archived rows only, or in the row the upload found.
UploadKnows ==
    uploading # NoUpload /\ uploading.step \in {"checked", "saved"} =>
        /\ uploading.doc \notin Filed
        /\ uploading.original = Nobody =>
              \A d \in Filed : document[d].content = uploading.content => d \in archivedDocs
        /\ uploading.original # Nobody =>
              /\ uploading.original \in Filed
              /\ document[uploading.original].content = uploading.content
        /\ uploading.step = "checked" => uploading.doc \notin stored
        /\ uploading.step = "saved" => (uploading.doc \in stored <=> uploading.original = Nobody)

UploadClassifies ==
    uploading # NoUpload /\ uploading.step = "classify" => uploading.doc \in Filed

\* Two rows that were never archived do not hold one content.
HeldOnce ==
    \A d, e \in (Filed \ archivedDocs) \cap stored :
        document[d].content = document[e].content => d = e

DInv ==
    /\ DocumentsTypeOK
    /\ DOMAIN req = Workers
    /\ \A w \in Workers : req[w] = Idle \/ (req[w] \in DocumentRequest /\ req[w].row \in Filed)
    /\ \A d \in Filed : document[d].status = "Archived" => d \in archivedDocs
    /\ UploadKnows /\ UploadClassifies
    /\ HeldOnce
    /\ DuplicateContentIsHeld

-----------------------------------------------------------------------------
(* Rows                                                                     *)

Columns == {"status", "class", "content", "original"}

LEMMA RowColumns ==
    ASSUME NEW r
    PROVE  r \in DocumentRow <=>
              /\ r = [c \in Columns |-> r[c]]
              /\ r.status \in DocumentStatuses /\ r.class \in Classes
              /\ r.content \in Contents /\ r.original \in Docs \cup {Nobody}
  <1>1. r \in DocumentRow => r = [c \in Columns |-> r[c]]
        BY DEF DocumentRow, Columns
  <1>2. ASSUME r = [c \in Columns |-> r[c]]
        PROVE  r = [status |-> r.status, class |-> r.class, content |-> r.content,
                    original |-> r.original]
        BY <1>2 DEF Columns
  <1> QED BY <1>1, <1>2 DEF DocumentRow, DocumentStatuses, Classes

\* A request beside the uploads keeps the content of a row and its original.
LEMMA WrittenTouch ==
    ASSUME NEW row \in DocumentRow, NEW ch \in Touches
    PROVE  /\ Written(row, ch) \in DocumentRow
           /\ Written(row, ch).content = row.content /\ Written(row, ch).original = row.original
  <1>1. PICK l \in DocumentRow, s \in DocumentStatuses, c \in Classes :
           ch = Changes(l, Touched(l, s, c))
        BY DEF Touches
  <1> DEFINE n == Touched(l, s, c)
             wr == Written(row, ch)
  <1>2. /\ DOMAIN l = Columns /\ DOMAIN row = Columns
        /\ n.status = s /\ n.class = c /\ n.content = l.content /\ n.original = l.original
        BY DEF DocumentRow, Columns, Touched
  <1>3. ch = Changes(l, n) BY <1>1
  <1> HIDE DEF n
  <1>4. /\ DOMAIN ch \subseteq {"status", "class"}
        /\ \A k \in DOMAIN ch : ch[k] = n[k]
        BY <1>2, <1>3 DEF Changes, Columns
  <1>5. wr = [k \in Columns |-> IF k \in DOMAIN ch THEN ch[k] ELSE row[k]]
        BY <1>2 DEF Written
  <1> HIDE DEF wr
  <1>6. /\ wr.status \in {s, row.status} /\ wr.class \in {c, row.class}
        /\ wr.content = row.content /\ wr.original = row.original
        BY <1>2, <1>4, <1>5 DEF Columns
  <1>7. wr = [k \in Columns |-> wr[k]] BY <1>5
  <1> QED BY <1>6, <1>7, RowColumns DEF wr

LEMMA TouchIsTouch ==
    ASSUME NEW l \in DocumentRow, NEW new \in DocumentRow,
           new.content = l.content, new.original = l.original
    PROVE  Changes(l, new) \in Touches
  <1>1. new.status \in DocumentStatuses /\ new.class \in Classes
        BY DEF DocumentRow, DocumentStatuses, Classes
  <1>2. new = Touched(l, new.status, new.class)
        BY DEF Touched, DocumentRow
  <1> QED BY <1>1, <1>2 DEF Touches

-----------------------------------------------------------------------------
(* What the steps of several actions have in common                         *)

\* A row keeps its content and its original; the upload stays or ends.
LEMMA RowStep ==
    ASSUME DInv, NEW x \in Filed, NEW new \in DocumentRow,
           new.content = document[x].content, new.original = document[x].original,
           document' = [document EXCEPT ![x] = new],
           archivedDocs \subseteq archivedDocs', archivedDocs' \subseteq Docs,
           new.status = "Archived" => x \in archivedDocs',
           stored' = stored, uploading' \in {uploading, NoUpload},
           DOMAIN req' = Workers,
           \A w \in Workers : req'[w] = Idle \/ (req'[w] \in DocumentRequest /\ req'[w].row \in Filed)
    PROVE  DInv'
  <1>1. /\ Filed' = Filed
        /\ \A d \in Filed : /\ document'[d] \in DocumentRow
                            /\ document'[d].content = document[d].content
                            /\ document'[d].original = document[d].original
                            /\ document'[d].status = "Archived" => d \in archivedDocs'
    <2>1. DOMAIN document' = DOMAIN document OBVIOUS
    <2>2. \A d \in DOMAIN document : document'[d] = IF d = x THEN new ELSE document[d]
          BY DEF Filed
    <2>3. \A d \in Filed : document[d] \in DocumentRow
                           /\ (document[d].status = "Archived" => d \in archivedDocs)
          BY DEF DInv, DocumentsTypeOK
    <2> QED BY <2>1, <2>2, <2>3 DEF Filed
  <1>2. DocumentsTypeOK' BY <1>1 DEF DInv, DocumentsTypeOK
  <1>3. UploadKnows' /\ UploadClassifies'
    <2>1. CASE uploading' = NoUpload BY <2>1 DEF UploadKnows, UploadClassifies
    <2>2. CASE uploading' = uploading
          BY <1>1, <2>2 DEF DInv, UploadKnows, UploadClassifies
    <2> QED BY <2>1, <2>2
  <1>4. HeldOnce' BY <1>1 DEF DInv, HeldOnce
  <1>5. DuplicateContentIsHeld'
    <2> SUFFICES ASSUME NEW d \in Filed, document'[d].original # Nobody
                 PROVE  LET o == document'[d].original IN
                        /\ o \in Filed' /\ document'[o].content = document'[d].content
                        /\ \E y \in Filed' \cap stored' : document'[y].content = document'[d].content
        BY <1>1 DEF DuplicateContentIsHeld
    <2>1. LET o == document[d].original IN
          /\ o \in Filed /\ document[o].content = document[d].content
          /\ \E y \in Filed \cap stored : document[y].content = document[d].content
          BY <1>1 DEF DInv, DuplicateContentIsHeld
    <2> QED BY <1>1, <2>1
  <1> QED BY <1>1, <1>2, <1>3, <1>4, <1>5 DEF DInv

\* The table stays; an upload goes on, requests start or end.
LEMMA UploadStep ==
    ASSUME DInv, UNCHANGED <<document, archivedDocs>>,
           stored \subseteq stored', stored' \cap Filed = stored \cap Filed, stored' \subseteq Docs,
           DOMAIN req' = Workers,
           \A w \in Workers : req'[w] = Idle \/ (req'[w] \in DocumentRequest /\ req'[w].row \in Filed),
           uploading' = NoUpload \/ uploading' \in
              [step : {"checked", "saved", "classify"}, doc : Docs, content : Contents,
               original : Docs \cup {Nobody}],
           UploadKnows', UploadClassifies'
    PROVE  DInv'
  <1>1. Filed' = Filed BY DEF Filed
  <1>2. DocumentsTypeOK' BY <1>1 DEF DInv, DocumentsTypeOK
  <1>3. HeldOnce' BY <1>1 DEF DInv, HeldOnce
  <1>4. DuplicateContentIsHeld' BY <1>1 DEF DInv, DuplicateContentIsHeld
  <1> QED BY <1>1, <1>2, <1>3, <1>4 DEF DInv

\* What requests in flight are, before and after a step.
Requests(q) ==
    /\ DOMAIN q = Workers
    /\ \A w \in Workers : q[w] = Idle \/ (q[w] \in DocumentRequest /\ q[w].row \in Filed)

LEMMA RequestTakes ==
    ASSUME DInv, NEW w \in Workers, NEW r \in DocumentRequest, r.row \in Filed, Take(w, r)
    PROVE  Requests(req')
  BY DEF DInv, Take, Requests

LEMMA RequestEnds ==
    ASSUME DInv, NEW w \in Workers, req' = [req EXCEPT ![w] = Idle]
    PROVE  Requests(req')
  BY DEF DInv, Requests

LEMMA RequestCommits ==
    ASSUME DInv, NEW w \in Workers, NEW decided, NEW written, Commit(w, decided, written, Idle)
    PROVE  Requests(req')
  <1>1. DOMAIN req' = Workers BY DEF Commit
  <1>2. ASSUME NEW v \in Workers
        PROVE  req'[v] = Idle \/ (req'[v] \in DocumentRequest /\ req'[v].row \in Filed)
    <2>1. req'[v] = IF v = w THEN Idle
                    ELSE IF req[v] = Idle THEN Idle
                    ELSE [req[v] EXCEPT !.stale = @ \cup (written \cap req[v].reads)]
          BY DEF Commit
    <2>2. CASE v = w \/ req[v] = Idle BY <2>1, <2>2
    <2>3. CASE v # w /\ req[v] # Idle
      <3> PICK q : q = req[v] OBVIOUS
      <3>1. q \in DocumentRequest /\ q.row \in Filed BY <2>3 DEF DInv
      <3>2. q.stale \cup (written \cap q.reads) \in SUBSET Docs
            BY <3>1 DEF DocumentRequest
      <3>3. PICK z \in SUBSET Docs : z = q.stale \cup (written \cap q.reads) BY <3>2
      <3>4. req'[v] = [q EXCEPT !.stale = z] BY <2>1, <2>3, <3>3
      <3> QED BY <3>1, <3>4 DEF DocumentRequest
    <2> QED BY <2>2, <2>3
  <1> QED BY <1>1, <1>2 DEF Requests

-----------------------------------------------------------------------------
(* The actions of an upload                                                 *)

UploadRecord ==
    [step : {"checked", "saved", "classify"}, doc : Docs, content : Contents,
     original : Docs \cup {Nobody}]

LEMMA BeginUploadKeeps ==
    ASSUME DInv, NEW d \in Docs, NEW c \in Contents, BeginUpload(d, c)
    PROVE  DInv'
  <1>1. PICK o \in Docs \cup {Nobody} :
           /\ IF Active(c) = {} THEN o = Nobody ELSE o \in Active(c)
           /\ uploading' = [step |-> "checked", doc |-> d, content |-> c, original |-> o]
        BY DEF BeginUpload
  <1>2. d \notin Filed \cup stored /\ UNCHANGED <<document, stored, archivedDocs, req>>
        BY DEF BeginUpload, session
  <1>3. uploading' \in UploadRecord BY <1>1 DEF UploadRecord
  <1>4. UploadKnows'
    <2>1. Filed' = Filed BY <1>2 DEF Filed
    <2>2. o = Nobody => \A x \in Filed : document[x].content = c => x \in archivedDocs
      <3>1. \A x \in Filed : document[x].status = "Archived" => x \in archivedDocs BY DEF DInv
      <3>2. o = Nobody => Active(c) = {}
            BY <1>1, DocumentsAssumption DEF Active, DInv, DocumentsTypeOK
      <3> QED BY <3>1, <3>2 DEF Active
    <2>3. o # Nobody => o \in Filed /\ document[o].content = c BY <1>1 DEF Active
    <2> QED BY <1>1, <1>2, <2>1, <2>2, <2>3 DEF UploadKnows
  <1>5. UploadClassifies' BY <1>1 DEF UploadClassifies
  <1> QED BY <1>2, <1>3, <1>4, <1>5, UploadStep DEF DInv, DocumentsTypeOK, UploadRecord

LEMMA SaveFileKeeps == ASSUME DInv, SaveFile PROVE DInv'
  <1>0. UNCHANGED <<document, archivedDocs, req>> BY DEF SaveFile, session
  <1>1. uploading # NoUpload BY DEF SaveFile, NoUpload
  <1>2. uploading \in UploadRecord BY <1>1 DEF DInv, DocumentsTypeOK, UploadRecord
  <1> PICK u : u = uploading OBVIOUS
  <1>3. /\ uploading' \in UploadRecord /\ uploading'.step = "saved"
        /\ uploading'.doc = u.doc /\ uploading'.content = u.content
        /\ uploading'.original = u.original
        BY <1>2 DEF SaveFile, UploadRecord
  <1>4. u.doc \in Docs /\ u.doc \notin Filed /\ u.doc \notin stored
        BY <1>1, <1>2 DEF DInv, UploadKnows, UploadRecord, SaveFile
  <1>5. stored' = IF u.original = Nobody THEN stored \cup {u.doc} ELSE stored BY DEF SaveFile
  <1>6. Filed' = Filed BY <1>0 DEF Filed
  <1>7. UploadKnows'
    <2>1. /\ u.original = Nobody =>
                 \A d \in Filed : document[d].content = u.content => d \in archivedDocs
          /\ u.original # Nobody =>
                 u.original \in Filed /\ document[u.original].content = u.content
          BY <1>1 DEF DInv, UploadKnows, SaveFile
    <2> QED BY <1>0, <1>3, <1>4, <1>5, <1>6, <2>1 DEF UploadKnows
  <1>8. UploadClassifies' BY <1>3 DEF UploadClassifies
  <1>9. stored \subseteq stored' /\ stored' \cap Filed = stored \cap Filed /\ stored' \subseteq Docs
        BY <1>4, <1>5 DEF DInv, DocumentsTypeOK
  <1> QED BY <1>0, <1>3, <1>7, <1>8, <1>9, UploadStep DEF DInv, UploadRecord

LEMMA InsertDocumentKeeps == ASSUME DInv, InsertDocument PROVE DInv'
  <1>0. UNCHANGED <<stored, archivedDocs, req>> BY DEF InsertDocument, session
  <1>1. uploading # NoUpload
    <2>1. uploading.step = "saved" BY DEF InsertDocument
    <2> QED BY <2>1 DEF NoUpload
  <1>2. uploading \in UploadRecord BY <1>1 DEF DInv, DocumentsTypeOK, UploadRecord
  <1> PICK u : u = uploading OBVIOUS
  <1> PICK new : new = [status |-> IF u.original = Nobody THEN "Needs Review" ELSE "Duplicate",
                        class |-> "pending", content |-> u.content, original |-> u.original]
      OBVIOUS
  <1>3. /\ u.step = "saved" /\ u.doc \in Docs /\ u.content \in Contents
        /\ u.original \in Docs \cup {Nobody}
        BY <1>2 DEF InsertDocument, UploadRecord
  <1>4. /\ u.doc \notin Filed /\ (u.doc \in stored <=> u.original = Nobody)
        /\ u.original = Nobody =>
              \A d \in Filed : document[d].content = u.content => d \in archivedDocs
        /\ u.original # Nobody => u.original \in Filed /\ document[u.original].content = u.content
        BY <1>1, <1>3 DEF DInv, UploadKnows
  <1>5. document' = [d \in Filed \cup {u.doc} |-> IF d = u.doc THEN new ELSE document[d]]
        BY DEF InsertDocument
  <1>6. /\ new \in DocumentRow /\ new.status # "Archived"
        /\ new.content = u.content /\ new.original = u.original
        BY <1>3 DEF DocumentRow
  <1>7. Filed' = Filed \cup {u.doc} BY <1>5 DEF Filed
  <1>8. document'[u.doc] = new /\ \A d \in Filed : document'[d] = document[d]
        BY <1>4, <1>5
  <1>9. /\ uploading' = NoUpload \/ uploading' \in UploadRecord
        /\ uploading' # NoUpload => uploading'.step = "classify" /\ uploading'.doc = u.doc
        BY <1>2 DEF InsertDocument, UploadRecord
  <1>10. DocumentsTypeOK'
    <2>1. \A d \in Filed : /\ d \in Docs /\ document[d] \in DocumentRow
                           /\ d \in stored <=> document[d].original = Nobody
          BY DEF DInv, DocumentsTypeOK
    <2>2. \A d \in Filed' : /\ d \in Docs /\ document'[d] \in DocumentRow
                            /\ d \in stored <=> document'[d].original = Nobody
          BY <1>3, <1>4, <1>6, <1>7, <1>8, <2>1
    <2> QED BY <1>0, <1>9, <2>2 DEF DInv, DocumentsTypeOK, UploadRecord
  <1>11. UploadKnows' BY <1>9 DEF UploadKnows
  <1>12. UploadClassifies' BY <1>7, <1>9 DEF UploadClassifies
  <1>13. HeldOnce'
    <2> SUFFICES ASSUME NEW d \in (Filed' \ archivedDocs) \cap stored,
                        NEW e \in (Filed' \ archivedDocs) \cap stored,
                        document'[d].content = document'[e].content
                 PROVE  d = e
        BY <1>0 DEF HeldOnce
    <2>1. CASE d \in Filed /\ e \in Filed
          BY <1>8, <2>1 DEF DInv, HeldOnce
    <2>2. CASE d = u.doc BY <1>4, <1>6, <1>7, <1>8, <2>2
    <2>3. CASE e = u.doc BY <1>4, <1>6, <1>7, <1>8, <2>3
    <2> QED BY <1>7, <2>1, <2>2, <2>3
  <1>14. DuplicateContentIsHeld'
    <2>1. \A d \in Filed : document[d].original # Nobody =>
              /\ document[d].original \in Filed
              /\ document[document[d].original].content = document[d].content
              /\ \E x \in Filed \cap stored : document[x].content = document[d].content
          BY DEF DInv, DuplicateContentIsHeld
    <2>2. u.original # Nobody => \E x \in Filed \cap stored : document[x].content = u.content
      <3>1. CASE u.original \in stored BY <1>4, <3>1
      <3>2. CASE u.original \notin stored BY <1>4, <2>1, <3>2 DEF DInv, DocumentsTypeOK
      <3> QED BY <3>1, <3>2
    <2> SUFFICES ASSUME NEW d \in Filed', document'[d].original # Nobody
                 PROVE  LET o == document'[d].original IN
                        /\ o \in Filed' /\ document'[o].content = document'[d].content
                        /\ \E y \in Filed' \cap stored' : document'[y].content = document'[d].content
        BY DEF DuplicateContentIsHeld
    <2>3. CASE d \in Filed
      <3>1. PICK x \in Filed \cap stored : document[x].content = document[d].content
            BY <1>8, <2>1, <2>3
      <3>2. document'[x].content = document'[d].content /\ x \in Filed' \cap stored'
            BY <1>0, <1>7, <1>8, <2>3, <3>1
      <3> PICK o : o = document[d].original OBVIOUS
      <3>3. document'[d].original = o BY <1>8, <2>3
      <3>4. o \in Filed /\ document[o].content = document[d].content
            BY <2>1, <2>3, <3>3
      <3>5. o \in Filed' /\ document'[o].content = document'[d].content
            BY <1>7, <1>8, <2>3, <3>4
      <3> QED BY <3>2, <3>3, <3>5
    <2>4. CASE d = u.doc BY <1>0, <1>4, <1>6, <1>7, <1>8, <2>2, <2>4
    <2> QED BY <1>7, <2>3, <2>4
  <1>15. \A d \in Filed' : document'[d].status = "Archived" => d \in archivedDocs'
        BY <1>0, <1>6, <1>7, <1>8 DEF DInv
  <1>16. Requests(req)' BY <1>0, <1>7 DEF DInv, Requests
  <1> QED BY <1>10, <1>11, <1>12, <1>13, <1>14, <1>15, <1>16 DEF DInv, Requests

\* What a classification writes is no archiving.
LEMMA ClassificationIsTouch ==
    ASSUME NEW row \in DocumentRow, NEW new \in Classifications(row)
    PROVE  /\ Changes(row, new) \in Touches
           /\ "status" \in DOMAIN Changes(row, new) => Changes(row, new)["status"] # "Archived"
  <1>1. /\ new \in DocumentRow /\ new.content = row.content /\ new.original = row.original
        /\ new.status # "Archived"
        BY DEF Classifications, DocumentRow
  <1> QED BY <1>1, TouchIsTouch DEF Changes

LEMMA ClassifyUploadKeeps == ASSUME DInv, ClassifyUpload PROVE DInv'
  <1>1. uploading # NoUpload /\ uploading.step = "classify" BY DEF ClassifyUpload, NoUpload
  <1> PICK d : d = uploading.doc OBVIOUS
  <1>2. d \in Filed /\ document[d] \in DocumentRow
        BY <1>1 DEF DInv, UploadClassifies, DocumentsTypeOK
  <1> PICK old \in DocumentRow : old = document[d] BY <1>2
  <1> PICK row : row = [old EXCEPT !.status = "Needs Review", !.class = "pending"] OBVIOUS
  <1>3. row \in DocumentRow BY DEF DocumentRow
  <1>4. PICK new \in Classifications(row) :
           document' = [document EXCEPT ![d] = Written(old, Changes(row, new))]
        BY <1>2 DEF ClassifyUpload, Filed
  <1>5. PICK ch \in Touches : ch = Changes(row, new) BY <1>3, ClassificationIsTouch
  <1>6. "status" \in DOMAIN ch => ch["status"] # "Archived" BY <1>3, <1>5, ClassificationIsTouch
  <1>7. PICK wr \in DocumentRow :
           /\ wr = Written(old, ch)
           /\ wr.content = old.content /\ wr.original = old.original
        BY WrittenTouch
  <1>8. wr.status = "Archived" => d \in archivedDocs
    <2>1. "status" \in DOMAIN old BY DEF DocumentRow
    <2>2. wr.status = "Archived" => old.status = "Archived" BY <1>6, <1>7, <2>1 DEF Written
    <2> QED BY <1>2, <2>2 DEF DInv
  <1>9. UNCHANGED <<stored, archivedDocs, req>> /\ uploading' = NoUpload
        BY DEF ClassifyUpload, session
  <1>10. archivedDocs \subseteq Docs BY DEF DInv, DocumentsTypeOK
  <1> QED BY <1>2, <1>4, <1>5, <1>7, <1>8, <1>9, <1>10, RowStep DEF DInv

LEMMA AbortUploadKeeps == ASSUME DInv, AbortUpload PROVE DInv'
  <1>1. UNCHANGED <<document, stored, archivedDocs, req>> /\ uploading' = NoUpload
        BY DEF AbortUpload, session
  <1>2. UploadKnows' /\ UploadClassifies' BY <1>1 DEF UploadKnows, UploadClassifies
  <1> QED BY <1>1, <1>2, UploadStep DEF DInv, DocumentsTypeOK

-----------------------------------------------------------------------------
(* The requests beside an upload                                            *)

\* A step of the requests that leaves the tables alone.
LEMMA RequestStep ==
    ASSUME DInv, UNCHANGED documentTables, Requests(req')
    PROVE  DInv'
  <1>1. UNCHANGED <<document, stored, archivedDocs, uploading>> BY DEF documentTables
  <1>2. UploadKnows' /\ UploadClassifies' BY <1>1 DEF DInv, UploadKnows, UploadClassifies, Filed
  <1> QED BY <1>1, <1>2, UploadStep DEF DInv, DocumentsTypeOK, Requests

LEMMA BeginDocumentKeeps ==
    ASSUME DInv, NEW w \in Workers, NEW op \in {"update", "auto", "forced"}, NEW d \in Filed,
           NEW new, Changes(document[d], new) \in Touches, BeginDocument(w, op, d, new)
    PROVE  DInv'
  <1> PICK ch \in Touches : ch = Changes(document[d], new) OBVIOUS
  <1> PICK r : r = [op |-> op, row |-> d, changes |-> ch, reads |-> {d}, stale |-> {}] OBVIOUS
  <1>1. d \in Docs BY DEF DInv, DocumentsTypeOK
  <1>2. r \in DocumentRequest /\ r.row \in Filed BY <1>1 DEF DocumentRequest
  <1>3. Take(w, r) /\ UNCHANGED documentTables BY DEF BeginDocument
  <1> QED BY <1>2, <1>3, RequestTakes, RequestStep

LEMMA BeginAutoKeeps ==
    ASSUME DInv, NEW w \in Workers, NEW d \in Filed, NEW op \in {"auto", "forced"},
           BeginAuto(w, d, op)
    PROVE  DInv'
  <1>1. PICK new \in Classifications(document[d]) : BeginDocument(w, op, d, new)
        BY DEF BeginAuto
  <1>2. document[d] \in DocumentRow BY DEF DInv, DocumentsTypeOK
  <1>3. Changes(document[d], new) \in Touches BY <1>2, ClassificationIsTouch
  <1> QED BY <1>1, <1>3, BeginDocumentKeeps

LEMMA BeginUpdateKeeps ==
    ASSUME DInv, NEW w \in Workers, NEW d \in Filed, BeginClassify(w, d) \/ BeginArchive(w, d)
    PROVE  DInv'
  <1>1. PICK row \in DocumentRow : row = document[d] BY DEF DInv, DocumentsTypeOK
  <1>2. CASE BeginClassify(w, d)
    <2>1. PICK s \in {"Uploaded", "Needs Review", row.status} :
             BeginDocument(w, "update", d,
                           [row EXCEPT !.status = s, !.class = "manually_classified"])
          BY <1>1, <1>2 DEF BeginClassify
    <2> PICK new : new = [row EXCEPT !.status = s, !.class = "manually_classified"] OBVIOUS
    <2>2. new \in DocumentRow /\ new.content = row.content /\ new.original = row.original
          BY DEF DocumentRow
    <2>3. Changes(document[d], new) \in Touches BY <1>1, <2>2, TouchIsTouch
    <2> QED BY <2>1, <2>3, BeginDocumentKeeps
  <1>3. CASE BeginArchive(w, d)
    <2> PICK new : new = [row EXCEPT !.status = "Archived"] OBVIOUS
    <2>1. new \in DocumentRow /\ new.content = row.content /\ new.original = row.original
          BY DEF DocumentRow
    <2>2. Changes(document[d], new) \in Touches BY <1>1, <2>1, TouchIsTouch
    <2>3. BeginDocument(w, "update", d, new) BY <1>1, <1>3 DEF BeginArchive
    <2> QED BY <2>2, <2>3, BeginDocumentKeeps
  <1> QED BY <1>2, <1>3

LEMMA CommitDocumentKeeps ==
    ASSUME DInv, NEW w \in Workers, CommitDocument(w)
    PROVE  DInv'
  <1> PICK r : r = req[w] OBVIOUS
  <1>1. r \in DocumentRequest /\ r.row \in Filed BY DEF DInv, CommitDocument, Idle
  <1> PICK x \in Filed : x = r.row BY <1>1
  <1> PICK ch \in Touches : ch = r.changes BY <1>1 DEF DocumentRequest
  <1> PICK old \in DocumentRow : old = document[x] BY DEF DInv, DocumentsTypeOK
  <1>2. PICK wr \in DocumentRow :
           /\ wr = Written(old, ch)
           /\ wr.content = old.content /\ wr.original = old.original
        BY WrittenTouch
  <1>3. /\ document' = [document EXCEPT ![x] = wr]
        /\ archivedDocs' = IF document'[x].status = "Archived"
                           THEN archivedDocs \cup {x} ELSE archivedDocs
        /\ Commit(w, {x}, {x}, Idle)
        /\ UNCHANGED <<stored, uploading>>
        BY <1>2 DEF CommitDocument, Filed
  <1>4. document'[x] = wr BY <1>3 DEF Filed
  <1>5. /\ archivedDocs \subseteq archivedDocs' /\ archivedDocs' \subseteq Docs
        /\ wr.status = "Archived" => x \in archivedDocs'
        BY <1>3, <1>4 DEF DInv, DocumentsTypeOK
  <1>6. Requests(req') BY <1>3, RequestCommits
  <1> QED BY <1>2, <1>3, <1>5, <1>6, RowStep DEF Requests

-----------------------------------------------------------------------------
(* The theorems                                                             *)

LEMMA InitHolds == DocumentsInit => DInv
  <1> SUFFICES ASSUME DocumentsInit PROVE DInv OBVIOUS
  <1>1. Filed = {} BY DEF DocumentsInit, Filed
  <1>2. DocumentsTypeOK BY <1>1 DEF DocumentsInit, DocumentsTypeOK
  <1>3. DOMAIN req = Workers /\ \A w \in Workers : req[w] = Idle
        BY DEF DocumentsInit, SessionInit
  <1>4. UploadKnows /\ UploadClassifies
        BY DEF DocumentsInit, UploadKnows, UploadClassifies
  <1>5. HeldOnce /\ DuplicateContentIsHeld BY <1>1 DEF HeldOnce, DuplicateContentIsHeld
  <1> QED BY <1>1, <1>2, <1>3, <1>4, <1>5 DEF DInv

LEMMA NextHolds == DInv /\ [DocumentsNext]_documentVars => DInv'
  <1> SUFFICES ASSUME DInv, [DocumentsNext]_documentVars PROVE DInv' OBVIOUS
  <1>1. CASE \E d \in Docs, c \in Contents : BeginUpload(d, c) BY <1>1, BeginUploadKeeps
  <1>2. CASE SaveFile BY <1>2, SaveFileKeeps
  <1>3. CASE InsertDocument BY <1>3, InsertDocumentKeeps
  <1>4. CASE ClassifyUpload BY <1>4, ClassifyUploadKeeps
  <1>5. CASE AbortUpload BY <1>5, AbortUploadKeeps
  <1>6. CASE \E w \in Workers, d \in Filed : BeginClassify(w, d) \/ BeginArchive(w, d)
        BY <1>6, BeginUpdateKeeps
  <1>7. CASE \E w \in Workers, d \in Filed, op \in {"auto", "forced"} : BeginAuto(w, d, op)
        BY <1>7, BeginAutoKeeps
  <1>8. CASE \E w \in Workers : CommitDocument(w) BY <1>8, CommitDocumentKeeps
  <1>9. CASE \E w \in Workers : Die(w) /\ UNCHANGED documentTables
        BY <1>9, RequestEnds, RequestStep DEF Die
  <1>10. CASE UNCHANGED documentVars
    <2>1. UNCHANGED <<documentTables, req>> BY <1>10 DEF documentVars, session
    <2>2. Requests(req') BY <2>1 DEF DInv, Requests
    <2> QED BY <2>1, <2>2, RequestStep
  <1> QED BY <1>1, <1>2, <1>3, <1>4, <1>5, <1>6, <1>7, <1>8, <1>9, <1>10 DEF DocumentsNext

\* Whatever uploads follow each other and whatever requests run beside them, what the
\* duplicate check of an upload saw holds until the row of the upload is inserted.
THEOREM DocumentsInvHolds == DocumentsSpec => []DInv
  <1>1. DocumentsInit => DInv BY InitHolds
  <1>2. DInv /\ [DocumentsNext]_documentVars => DInv' BY NextHolds
  <1> QED BY <1>1, <1>2, PTL DEF DocumentsSpec

\* A row has its own file exactly when it is no duplicate, at every moment.
THEOREM DocumentsTypes == DocumentsSpec => []DocumentsTypeOK
  <1>1. DInv => DocumentsTypeOK BY DEF DInv
  <1> QED BY <1>1, DocumentsInvHolds, PTL

\* No content is stored for two rows that were never archived.
THEOREM StoredOnce == DocumentsSpec => []ContentStoredOnce
  <1>1. ASSUME HeldOnce PROVE ContentStoredOnce
    <2> SUFFICES ASSUME NEW c \in Contents
                 PROVE  Cardinality({d \in Filed \ archivedDocs :
                                        document[d].content = c /\ d \in stored}) <= 1
        BY DEF ContentStoredOnce
    <2> DEFINE held == {d \in Filed \ archivedDocs : document[d].content = c /\ d \in stored}
    <2>1. \A d, e \in held : d = e BY <1>1 DEF HeldOnce
    <2>2. CASE held = {}
      <3>1. Cardinality(held) = 0 BY <2>2, FS_EmptySet
      <3> QED BY <3>1
    <2>3. CASE held # {}
      <3>1. PICK d : held = {d} BY <2>1, <2>3
      <3>2. Cardinality(held) = 1 BY <3>1, FS_Singleton
      <3> QED BY <3>2
    <2> QED BY <2>2, <2>3
  <1>2. DInv => ContentStoredOnce BY <1>1 DEF DInv
  <1> QED BY <1>2, DocumentsInvHolds, PTL

\* The content of a duplicate is held by a row with a file.
THEOREM DuplicatesAreHeld == DocumentsSpec => []DuplicateContentIsHeld
  <1>1. DInv => DuplicateContentIsHeld BY DEF DInv
  <1> QED BY <1>1, DocumentsInvHolds, PTL
=============================================================================
