-------------------------- MODULE ExecutionLearning --------------------------
(***************************************************************************)
(* Execution actuals of a won bid and the lessons drawn from them:         *)
(* services/execution_learning.py and its routes, for one bid.  The        *)
(* actuals and each factor are rows that are saved, which makes them a     *)
(* Draft, and reviewed, which takes evidence; a factor is reviewed on      *)
(* Reviewed actuals.                                                       *)
(*                                                                         *)
(* A row keeps two of its columns of data: the source reference, and a     *)
(* value that stands for the actuals, or for the lesson of a factor.       *)
(***************************************************************************)
EXTENDS Session

CONSTANTS
    Factors,        \* ids of execution_learning_factors
    Values,         \* what the actuals, or a lesson, may say
    Sources         \* source references

ASSUME LearningAssumption ==
    Nobody \notin Values \cup Sources /\ "actuals" \notin Factors

VARIABLES
    won,            \* the recorded bid result is Won
    learning,       \* execution_outcomes and execution_learning_factors: name -> row
    seen            \* history: the data a reviewer read, by row

learningTables == <<won, learning, seen>>
learningVars == <<learningTables, session>>

Learned == {"actuals"} \cup Factors
Data == [value : Values \cup {Nobody}, source : Sources \cup {Nobody}]
LearningRow ==
    [value : Values \cup {Nobody}, source : Sources \cup {Nobody},
     status : {"Draft", "Reviewed"}, reviewedBy : Reviewers \cup {Nobody}]

LearningTypeOK ==
    /\ won \in BOOLEAN
    /\ DOMAIN learning \subseteq Learned /\ DOMAIN seen \subseteq Learned
    /\ \A x \in DOMAIN learning : learning[x] \in LearningRow
    /\ \A x \in DOMAIN seen : seen[x] \in Data

LearningInit == won = TRUE /\ learning = <<>> /\ seen = <<>>

DataOf(row) == [value |-> row.value, source |-> row.source]
Exists(x) == x \in DOMAIN learning

\* The bid result is recorded again (services/historical_bid_intelligence.py).
SetResult ==
    /\ won' = ~won
    /\ UNCHANGED <<learning, seen, session>>

-----------------------------------------------------------------------------
(* save_execution_outcome, create_execution_factor, update_execution_factor *)

\* Mutant: a change of the source alone keeps the review.
DraftOfKeeping(row, d) ==
    IF row.value = d.value THEN [row EXCEPT !.source = d.source]
    ELSE [value |-> d.value, source |-> d.source, status |-> "Draft", reviewedBy |-> Nobody]

DraftOf(row, d) == [value |-> d.value, source |-> d.source, status |-> "Draft", reviewedBy |-> Nobody]

FirstDraft(d) == [value |-> d.value, source |-> d.source, status |-> "Draft", reviewedBy |-> Nobody]

\* Actuals are saved for a won bid; a save that changes nothing returns at once.
BeginSave(w, x, d) ==
    /\ IF x = "actuals" THEN won ELSE Exists(x)
    /\ Exists(x) => DataOf(learning[x]) # d
    /\ Take(w, [op |-> "save", row |-> x, insert |-> ~Exists(x), data |-> d,
                changes |-> IF Exists(x) THEN Changes(learning[x], DraftOf(learning[x], d)) ELSE <<>>,
                reads |-> {x}, stale |-> {}])
    /\ UNCHANGED learningTables

\* One row of actuals per bid: an insert that meets another fails.
CommitSave(w) ==
    LET r == req[w]
        row == IF r.insert THEN FirstDraft(r.data) ELSE Written(learning[r.row], r.changes)
    IN
    /\ r.op = "save"
    /\ r.insert => ~Exists(r.row)
    /\ learning' = [x \in DOMAIN learning \cup {r.row} |-> IF x = r.row THEN row ELSE learning[x]]
    /\ Commit(w, {r.row}, {r.row}, Idle)
    /\ UNCHANGED <<won, seen>>

\* A factor is added to actuals that exist; nothing it read can change.
CreateFactor(f, d) ==
    /\ won /\ Exists("actuals") /\ ~Exists(f)
    /\ learning' = [x \in DOMAIN learning \cup {f} |-> IF x = f THEN FirstDraft(d) ELSE learning[x]]
    /\ UNCHANGED <<won, seen, session>>

-----------------------------------------------------------------------------
(* review_execution_outcome, review_execution_factor                        *)

Evidenced(row) == row.value # Nobody /\ row.source # Nobody

\* Mutant: the state of the actuals is not asked.
ReviewableAlone(x) == Evidenced(learning[x])

Reviewable(x) ==
    /\ Evidenced(learning[x])
    /\ IF x = "actuals" THEN won ELSE learning["actuals"].status = "Reviewed"

BeginLearningReview(w, u, x) ==
    /\ Reviewable(x)
    /\ Take(w, [op |-> "review", row |-> x, data |-> DataOf(learning[x]),
                changes |-> Changes(learning[x], [learning[x] EXCEPT !.status = "Reviewed", !.reviewedBy = u]),
                reads |-> {x, "actuals"}, stale |-> {}])
    /\ UNCHANGED learningTables

CommitLearningReview(w) ==
    LET r == req[w] IN
    /\ r.op = "review"
    /\ learning' = [learning EXCEPT ![r.row] = Written(@, r.changes)]
    /\ seen' = [x \in DOMAIN seen \cup {r.row} |-> IF x = r.row THEN r.data ELSE seen[x]]
    /\ Commit(w, {r.row}, {r.row}, Idle)
    /\ UNCHANGED won

LearningNext ==
    \/ SetResult
    \/ \E f \in Factors, d \in Data : CreateFactor(f, d)
    \/ \E w \in Workers :
        \/ \E x \in Learned, d \in Data : BeginSave(w, x, d)
        \/ CommitSave(w)
        \/ \E u \in Reviewers, x \in DOMAIN learning : BeginLearningReview(w, u, x)
        \/ CommitLearningReview(w)
        \/ Die(w) /\ UNCHANGED learningTables

LearningSpec == LearningInit /\ SessionInit /\ [][LearningNext]_learningVars

-----------------------------------------------------------------------------
(* execution_learning_intelligence                                          *)

\* What the portfolio counts: Reviewed actuals of a won bid, and Reviewed factors
\* whatever has become of the actuals they rest on.
Counted ==
    {x \in DOMAIN learning : learning[x].status = "Reviewed" /\ (x = "actuals" => won)}

\* What the portfolio counts is what a reviewer read, with its evidence, unless a
\* save and a review overlapped: every later save made the row a Draft again.
CountedAsReviewed ==
    \A x \in Counted \ raced :
        /\ x \in DOMAIN seen /\ DataOf(learning[x]) = seen[x]
        /\ Evidenced(learning[x]) /\ learning[x].reviewedBy # Nobody

\* A row becomes Reviewed only with its evidence, and a factor only on Reviewed
\* actuals, unless one of the two was saved under the review.
ReviewIsVetted ==
    [][\A x \in DOMAIN learning :
          learning[x].status = "Draft" /\ learning'[x].status = "Reviewed" =>
              \E w \in Workers :
                  /\ req[w].op = "review" /\ req[w].row = x
                  /\ req[w].stale = {} =>
                        /\ Evidenced(learning[x])
                        /\ learning["actuals"].status = "Reviewed" \/ x = "actuals"]_learningVars
=============================================================================
