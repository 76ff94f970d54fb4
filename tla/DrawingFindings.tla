--------------------------- MODULE DrawingFindings ---------------------------
(***************************************************************************)
(* Quantities read off drawings and their comparison with the bill of      *)
(* quantities: services/drawing_boq_verification.py and its routes.        *)
(* Observations are recorded once per signature; a verification compares   *)
(* every observation with the BOQ item it is most like and inserts or      *)
(* updates its finding; a finding is reviewed.                             *)
(*                                                                         *)
(* What is drawn stands for the page, the drawing, the item's name and the *)
(* method; how alike it and a BOQ item read is a number in thousandths; a  *)
(* quantity is counted in tenths of a millionth, one place more than the   *)
(* column keeps.  An observation is named <<signature, copy>>, by the      *)
(* signature it was recorded under, and its finding <<signature, copy,     *)
(* copy>>: nothing in the database keeps either unique.                    *)
(* The BOQ items are rows of the schedule scope, which others replace.     *)
(***************************************************************************)
EXTENDS Session, FiniteSets

CONSTANTS
    Observable,     \* what may be recorded: [drawn, quantity, unit]
    Likeness,       \* drawn -> BOQ item -> thousandths
    Boqs,           \* bills the bid may have: BOQ item -> [quantity, unit]
    DrawingDispositions,   \* what a reviewer may decide, "Escalate" among them
    MaxDrawingRows         \* bound: rows of the two tables

ASSUME DrawingAssumption ==
    /\ MaxDrawingRows \in Nat /\ Nobody \notin DrawingDispositions
    /\ \A o \in Observable : o.quantity \in Nat /\ o.drawn \in DOMAIN Likeness

VARIABLES
    boq,            \* the BOQ items of the bid
    observation,    \* drawing_quantity_observations: the rows
    drawing         \* drawing_boq_findings: row -> finding

drawingTables == <<boq, observation, drawing>>
drawingVars == <<drawingTables, session>>

\* The spellings of a unit that _unit brings together, as far as Observable goes.
Unit(u) == IF u \in {"no", "number", "each"} THEN "nos" ELSE u

Signature(o) == [o EXCEPT !.unit = Unit(@)]

\* What the row of an observation reads back: the column is Numeric(18, 6).
Rounded(q) == ((q + 5) \div 10) * 10
Stored(s) == [s EXCEPT !.quantity = Rounded(@)]
Exact(s) == Stored(s) = s

\* The observation a finding is of.
Observed(f) == <<f[1], f[2]>>

Verdicts == {"No BOQ Match", "BOQ Quantity Unavailable", "Unit Review", "Match", "Quantity Variance"}
Finding ==
    [verdict : Verdicts, status : {"Open", "Informational", "Closed"},
     disposition : DrawingDispositions \cup {Nobody}]

DrawingsTypeOK ==
    /\ boq \in Boqs
    /\ observation \subseteq {Signature(o) : o \in Observable} \X (1..MaxDrawingRows)
    /\ {Observed(f) : f \in DOMAIN drawing} \subseteq observation
    /\ \A f \in DOMAIN drawing : drawing[f] \in Finding

DrawingRoom(n) == Cardinality(observation) + Cardinality(DOMAIN drawing) + n <= MaxDrawingRows

DrawingsInit == boq \in Boqs /\ observation = {} /\ drawing = <<>>

\* Another request replaces the BOQ items (ingest_boq_scope).
ReplaceBoq ==
    /\ boq' \in Boqs \ {boq}
    /\ UNCHANGED <<observation, drawing, session>>

-----------------------------------------------------------------------------
(* record_drawing_observations                                              *)

\* The batch, once per signature, without what is recorded already: the quantity of
\* the batch is compared as it is written, that of a row as it was stored.
NewSignatures(batch) ==
    {s \in {Signature(o) : o \in batch} : ~\E x \in observation : Stored(x[1]) = s}

\* A batch with an invalid row is refused as a whole.
BeginRecord(w, batch) ==
    /\ Take(w, [op |-> "record", new |-> NewSignatures(batch), reads |-> {<<s>> : s \in NewSignatures(batch)}, stale |-> {}])
    /\ UNCHANGED drawingTables

Copies(s) == Cardinality({x \in observation : x[1] = s})

CommitRecord(w) ==
    LET r == req[w] IN
    /\ r.op = "record"
    /\ DrawingRoom(Cardinality(r.new))
    /\ observation' = observation \cup {<<s, Copies(s) + 1>> : s \in r.new}
    /\ Commit(w, {<<s>> : s \in r.new}, {<<s>> : s \in r.new}, Idle)
    /\ UNCHANGED <<boq, drawing>>

-----------------------------------------------------------------------------
(* verify_drawing_boq                                                       *)

\* The BOQ items an observation is most like: the query has no order, any of
\* them may be ranked first.
Best(s) == {b \in DOMAIN boq : \A c \in DOMAIN boq : Likeness[s.drawn][c] <= Likeness[s.drawn][b]}

\* Two quantities that differ by at most a millionth.
Near(p, q) == p <= q + 10 /\ q <= p + 10

Verdict(s, b) ==
    IF Likeness[s.drawn][b] < 350 THEN "No BOQ Match"
    ELSE IF boq[b].quantity = Nobody THEN "BOQ Quantity Unavailable"
    ELSE IF Unit(boq[b].unit) # s.unit THEN "Unit Review"
    ELSE IF Near(boq[b].quantity, Rounded(s.quantity)) THEN "Match" ELSE "Quantity Variance"

\* What a verification may compute for the observations.
Comparisons ==
    IF boq = <<>> THEN {[x \in observation |-> "No BOQ Match"]}
    ELSE {[x \in observation |-> Verdict(x[1], best[x])] :
        best \in {m \in [observation -> DOMAIN boq] : \A x \in observation : m[x] \in Best(x[1])}}

\* What a verification makes of the finding it loaded.
\* Mutant: an informational finding stays so.
VerifiedQuietly(f, v) ==
    [f EXCEPT !.verdict = v,
              !.status = IF @ = "Open" /\ v = "Match" /\ f.disposition = Nobody
                         THEN "Informational" ELSE @]

Verified(f, v) ==
    [f EXCEPT !.verdict = v,
              !.status = IF @ = "Informational" /\ v # "Match" THEN "Open"
                         ELSE IF @ = "Open" /\ v = "Match" /\ f.disposition = Nobody
                         THEN "Informational" ELSE @]

First(v) ==
    [verdict |-> v, status |-> IF v = "Match" THEN "Informational" ELSE "Open",
     disposition |-> Nobody]

\* Mutant: only findings that are not closed are loaded.
LoadedOpen == {f \in DOMAIN drawing : drawing[f].status # "Closed"}

Loaded == DOMAIN drawing

\* Of several findings of an observation the dictionary of a session keeps one,
\* any, and the others are as if not loaded: `chosen`.
\* The session loads observations, BOQ and findings, and computes what it changes:
\* per loaded finding its columns, per observation without one a finding.
BeginVerify(w, chosen, verdict) ==
    LET compared == {Observed(f) : f \in chosen}
        missing == observation \ compared
    IN
    /\ compared = {Observed(f) : f \in Loaded} /\ Cardinality(compared) = Cardinality(chosen)
    /\ Take(w, [op |-> "verify",
                new |-> [x \in missing |-> First(verdict[x])],
                changes |-> [f \in chosen |->
                                Changes(drawing[f], Verified(drawing[f], verdict[Observed(f)]))],
                reads |-> missing \cup chosen, stale |-> {}])
    /\ UNCHANGED drawingTables

CommitVerify(w) ==
    LET r == req[w]
        next(x) == <<x[1], x[2], 1 + Cardinality({f \in DOMAIN drawing : Observed(f) = x})>>
        inserted == {next(x) : x \in DOMAIN r.new}
        changed == {f \in DOMAIN r.changes : r.changes[f] # <<>>}
    IN
    /\ r.op = "verify"
    /\ DrawingRoom(Cardinality(inserted))
    /\ drawing' = [f \in DOMAIN drawing \cup inserted |->
                      IF f \in inserted THEN r.new[Observed(f)]
                      ELSE IF f \in changed THEN Written(drawing[f], r.changes[f])
                      ELSE drawing[f]]
    /\ Commit(w, DOMAIN r.new \cup changed, DOMAIN r.new \cup changed, Idle)
    /\ UNCHANGED <<boq, observation>>

-----------------------------------------------------------------------------
(* review_drawing_boq_finding; the audit event of its route is left out      *)

JudgedDrawing(f, d) ==
    [f EXCEPT !.disposition = d, !.status = IF d = "Escalate" THEN "Open" ELSE "Closed"]

\* Closing takes a comment, which is not modelled.
BeginJudgeDrawing(w, f, d) ==
    /\ Take(w, [op |-> "judge drawing", row |-> f,
                changes |-> Changes(drawing[f], JudgedDrawing(drawing[f], d)), reads |-> {f}, stale |-> {}])
    /\ UNCHANGED drawingTables

CommitJudgeDrawing(w) ==
    LET r == req[w] IN
    /\ r.op = "judge drawing"
    /\ drawing' = [drawing EXCEPT ![r.row] = Written(@, r.changes)]
    /\ Commit(w, {r.row}, {r.row}, Idle)
    /\ UNCHANGED <<boq, observation>>

DrawingsNext ==
    \/ ReplaceBoq
    \/ \E w \in Workers :
        \/ \E batch \in {b \in SUBSET Observable : IsFiniteSet(b)} : BeginRecord(w, batch)
        \/ CommitRecord(w)
        \/ \E chosen \in SUBSET Loaded, verdict \in Comparisons :
              BeginVerify(w, chosen, verdict)
        \/ CommitVerify(w)
        \/ \E f \in DOMAIN drawing, d \in DrawingDispositions : BeginJudgeDrawing(w, f, d)
        \/ CommitJudgeDrawing(w)
        \/ Die(w) /\ UNCHANGED drawingTables

DrawingsSpec == DrawingsInit /\ SessionInit /\ [][DrawingsNext]_drawingVars

-----------------------------------------------------------------------------
\* Two observations that read the same come of requests that overlapped, or of a
\* quantity longer than the column, which is recorded again every time; and an
\* observation has one finding, but for requests that overlapped.
ComparedOnce ==
    /\ \A x, y \in observation :
          x # y /\ Stored(x[1]) = Stored(y[1])
              => ~Exact(x[1]) \/ ~Exact(y[1]) \/ <<x[1]>> \in raced
    /\ \A f, g \in DOMAIN drawing : f # g /\ Observed(f) = Observed(g) => Observed(f) \in raced

\* Unless requests overlapped on it, a difference with the BOQ never passes in
\* silence: a finding that is no match is Open, or a reviewer closed it; and what is
\* informational is a match nobody decided about.
DifferencesAreSeen ==
    \A f \in DOMAIN drawing \ raced :
        /\ drawing[f].status = "Informational" =>
              drawing[f].verdict = "Match" /\ drawing[f].disposition = Nobody
        /\ drawing[f].status = "Closed" =>
              drawing[f].disposition \notin {Nobody, "Escalate"}
        /\ drawing[f].status = "Open" =>
              drawing[f].verdict # "Match" \/ drawing[f].disposition = "Escalate"
=============================================================================
