------------------------------- MODULE Documents -------------------------------
(***************************************************************************)
(* The document repository of a bid: upload with duplicate detection,      *)
(* automatic and manual classification, archiving.  services/documents.py, *)
(* services/document_classification.py and the routes that call them.      *)
(*                                                                         *)
(* The upload route is a coroutine that never awaits between its first     *)
(* duplicate check and its last commit: it holds the event loop, so one    *)
(* upload runs at a time in the one API process.  All other routes run in  *)
(* threads, load their row and commit later what they changed.             *)
(***************************************************************************)
EXTENDS Session, FiniteSets

CONSTANTS
    Docs,           \* row ids a bid may use; the stored file has a uuid per row
    Contents,       \* byte contents; equal checksum means equal content
    MaxBeside       \* bound: requests in flight beside an upload

ASSUME DocumentsAssumption == Nobody \notin Docs /\ Docs \subseteq Nat

VARIABLES
    document,       \* documents: a function on the rows that exist
    stored,         \* rows whose file the storage provider holds
    uploading,      \* the upload the event loop executes
    archivedDocs    \* history: rows that have been archived

documentTables == <<document, stored, uploading, archivedDocs>>
documentVars == <<documentTables, session>>

Filed == DOMAIN document

\* document_status, classification_status, what the checksum stands for, and
\* duplicate_of_document_id; a row without the last has a storage_path.
DocumentRow ==
    [status : {"Uploaded", "Needs Review", "Duplicate", "Archived"},
     class : {"pending", "classified", "needs_review", "manually_classified"},
     content : Contents, original : Docs \cup {Nobody}]

NoUpload == [step |-> "idle"]

\* A row has its own file exactly when it is not a duplicate: a crash leaves a file
\* without a row, never a row without its file.
DocumentsTypeOK ==
    /\ Filed \subseteq Docs /\ \A d \in Filed : document[d] \in DocumentRow
    /\ \A d \in Filed : d \in stored <=> document[d].original = Nobody
    /\ stored \subseteq Docs /\ archivedDocs \subseteq Docs
    /\ uploading = NoUpload \/ uploading \in
          [step : {"checked", "saved", "classify"}, doc : Docs, content : Contents,
           original : Docs \cup {Nobody}]

DocumentsInit ==
    /\ document = <<>> /\ stored = {} /\ uploading = NoUpload /\ archivedDocs = {}
    /\ SessionInit

-----------------------------------------------------------------------------
(* upload_document                                                          *)

\* Mutant: the content is not compared.
ActiveAny(c) == {d \in Filed : document[d].status # "Archived"}

\* The rows the duplicate check may find; the SELECT has no order.
Active(c) == {d \in Filed : document[d].content = c /\ document[d].status # "Archived"}

\* Mutant: the check looks at classified documents only.
BeginUploadClassified(d, c) ==
    /\ uploading = NoUpload
    /\ d \notin Filed \cup stored /\ \A e \in Docs : e < d => e \in Filed \cup stored
    /\ \E o \in Docs \cup {Nobody} :
         /\ LET found == {x \in Active(c) : document[x].status = "Uploaded"}
            IN  IF found = {} THEN o = Nobody ELSE o \in found
         /\ uploading' = [step |-> "checked", doc |-> d, content |-> c, original |-> o]
    /\ UNCHANGED <<document, stored, archivedDocs, session>>

BeginUpload(d, c) ==
    /\ uploading = NoUpload
    /\ d \notin Filed \cup stored /\ \A e \in Docs : e < d => e \in Filed \cup stored
    /\ \E o \in Docs \cup {Nobody} :
         /\ IF Active(c) = {} THEN o = Nobody ELSE o \in Active(c)
         /\ uploading' = [step |-> "checked", doc |-> d, content |-> c, original |-> o]
    /\ UNCHANGED <<document, stored, archivedDocs, session>>

\* A file that is no duplicate is saved before its row is inserted.
SaveFile ==
    /\ uploading.step = "checked"
    /\ stored' = IF uploading.original = Nobody THEN stored \cup {uploading.doc} ELSE stored
    /\ uploading' = [uploading EXCEPT !.step = "saved"]
    /\ UNCHANGED <<document, archivedDocs, session>>

InsertDocument ==
    LET fresh == uploading.original = Nobody
        new == [status |-> IF fresh THEN "Needs Review" ELSE "Duplicate", class |-> "pending",
                content |-> uploading.content, original |-> uploading.original]
    IN  /\ uploading.step = "saved"
        /\ document' = [d \in Filed \cup {uploading.doc} |->
                           IF d = uploading.doc THEN new ELSE document[d]]
        /\ uploading' = IF fresh THEN [uploading EXCEPT !.step = "classify"] ELSE NoUpload
        /\ UNCHANGED <<stored, archivedDocs, session>>

\* The upload fails before its next commit.
AbortUpload ==
    /\ uploading # NoUpload
    /\ uploading' = NoUpload
    /\ UNCHANGED <<document, stored, archivedDocs, session>>

-----------------------------------------------------------------------------
(* auto_classify_document                                                   *)

\* What a classification makes of a row; one that fails gives the second.
Classifications(row) ==
    {[row EXCEPT !.status = "Uploaded", !.class = "classified"],
     [row EXCEPT !.status = "Needs Review", !.class = "needs_review"]}

\* The upload goes on with the row object it inserted.
ClassifyUpload ==
    LET d == uploading.doc
        inserted == [document[d] EXCEPT !.status = "Needs Review", !.class = "pending"]
    IN  /\ uploading.step = "classify"
        /\ \E new \in Classifications(inserted) :
             document' = [document EXCEPT ![d] = Written(@, Changes(inserted, new))]
        /\ uploading' = NoUpload
        /\ UNCHANGED <<stored, archivedDocs, session>>

\* The id of a row is not known before the upload that inserts it answers, and
\* meanwhile the event loop starts no request.
BeginDocument(w, op, d, new) ==
    /\ uploading # NoUpload => uploading.doc # d
    /\ Cardinality({v \in Workers : req[v] # Idle}) < MaxBeside
    /\ Take(w, [op |-> op, row |-> d, changes |-> Changes(document[d], new),
                reads |-> {d}, stale |-> {}])
    /\ UNCHANGED documentTables

\* The route: 422 without content, 409 on a manual classification unless forced.
BeginAuto(w, d, op) ==
    /\ op \in {"auto", "forced"}
    /\ document[d].original = Nobody
    /\ document[d].class = "manually_classified" => op = "forced"
    /\ \E new \in Classifications(document[d]) : BeginDocument(w, op, d, new)

-----------------------------------------------------------------------------
(* classify, update_document_metadata and archive                           *)

\* With a status that follows the new category, or as an update of the metadata
\* with a category; without one it touches no column modelled here.
BeginClassify(w, d) ==
    \E s \in {"Uploaded", "Needs Review", document[d].status} :
        BeginDocument(w, "update", d,
                      [document[d] EXCEPT !.status = s, !.class = "manually_classified"])

BeginArchive(w, d) ==
    BeginDocument(w, "update", d, [document[d] EXCEPT !.status = "Archived"])

CommitDocument(w) ==
    LET r == req[w] IN
    /\ r.op \in {"update", "auto", "forced"}
    /\ document' = [document EXCEPT ![r.row] = Written(@, r.changes)]
    /\ archivedDocs' = IF document'[r.row].status = "Archived"
                       THEN archivedDocs \cup {r.row} ELSE archivedDocs
    /\ Commit(w, {r.row}, {r.row}, Idle)
    /\ UNCHANGED <<stored, uploading>>

DocumentsNext ==
    \/ \E d \in Docs, c \in Contents : BeginUpload(d, c)
    \/ SaveFile \/ InsertDocument \/ ClassifyUpload \/ AbortUpload
    \/ \E w \in Workers, d \in Filed :
         \/ BeginClassify(w, d) \/ BeginArchive(w, d)
         \/ \E op \in {"auto", "forced"} : BeginAuto(w, d, op)
    \/ \E w \in Workers :
         \/ CommitDocument(w)
         \/ Die(w) /\ UNCHANGED documentTables

DocumentsSpec == DocumentsInit /\ [][DocumentsNext]_documentVars

-----------------------------------------------------------------------------
\* One content is stored for at most one row that was never archived: "no second
\* content blob" (docs/architecture.md, line 15), whatever runs beside uploads.
ContentStoredOnce ==
    \A c \in Contents :
        Cardinality({d \in Filed \ archivedDocs : document[d].content = c /\ d \in stored}) <= 1

\* The content of a duplicate is the content of the row it is linked to, and some
\* row of the bid still holds it, also after archiving.
DuplicateContentIsHeld ==
    \A d \in Filed : document[d].original # Nobody =>
        LET o == document[d].original IN
        /\ o \in Filed /\ document[o].content = document[d].content
        /\ \E x \in Filed \cap stored : document[x].content = document[d].content

\* "Duplicate: persist a flagged metadata record linked to the original"
\* (docs/architecture.md, line 15): the row a duplicate is linked to is no
\* duplicate itself.
LinkedToOriginal ==
    \A d \in Filed : document[d].original # Nobody => document[document[d].original].original = Nobody

\* "Manual classification must not be overwritten"
\* (services/document_classification.py, line 103) unless the request forces it.
ManualIsKept ==
    [][\A d \in Filed :
          document[d].class = "manually_classified" /\ document'[d].class # "manually_classified" =>
              \E w \in Workers : req[w].op = "forced" /\ req[w].row = d]_documentVars
=============================================================================
