----------------------------- MODULE ClauseRisks -----------------------------
(***************************************************************************)
(* The clause-risk register: services/clause_risk_intelligence.py and its  *)
(* routes.  A scan first writes the standard patterns of the firm library, *)
(* then matches every active pattern against the lines of a document and   *)
(* inserts a finding per match that has none.  A finding is reviewed, and  *)
(* one that was accepted or mitigated is promoted to a pattern of the      *)
(* library.                                                                *)
(*                                                                         *)
(* A pattern's terms are given by the lines they match, those with an      *)
(* exclusion term left out.  A line stands for its normalised text and its *)
(* page.  A row of the findings is named by its signature and a copy       *)
(* number, since nothing in the database keeps a signature unique.         *)
(***************************************************************************)
EXTENDS Session, FiniteSets

CONSTANTS
    Papers,         \* documents of the bid
    Lines,          \* lines of text of 25 characters or more
    LongLines,      \* those longer than the excerpt a finding keeps
    StandardCodes,  \* risk codes of DEFAULT_RISKS
    OtherCodes,     \* risk codes a user may give
    StandardTerms,  \* <<code, line>>: what the standard patterns match
    Unreadable,     \* documents that are duplicates or have no stored file
    Accepting,      \* dispositions Accept Risk, Mitigated / Qualified
    Dismissing,     \* dispositions Not Applicable, False Positive
    Deferring,      \* dispositions Open, Escalate
    TermChoices,    \* bound: what the terms of a promoted pattern may match
    MaxFindings     \* bound: rows of the findings

RiskDispositions == Accepting \cup Dismissing \cup Deferring

ASSUME RiskAssumption ==
    /\ Nobody \notin RiskDispositions \cup Papers
    /\ Accepting \cap Deferring = {} /\ Dismissing \cap Deferring = {}
    /\ Accepting \cap Dismissing = {}
    /\ StandardCodes \cap OtherCodes = {} /\ Unreadable \subseteq Papers
    /\ LongLines \subseteq Lines /\ TermChoices \subseteq SUBSET Lines /\ MaxFindings \in Nat
    /\ IsFiniteSet(Lines) /\ IsFiniteSet(StandardCodes)

VARIABLES
    pattern,        \* clause_risk_patterns: risk code -> where it came from and what it matches
    risk,           \* bid_clause_risk_findings: <<signature, copy>> -> its review
    riskEvents      \* rows with an audit event of a review

riskTables == <<pattern, risk, riskEvents>>
riskVars == <<riskTables, session>>

Codes == StandardCodes \cup OtherCodes
Signatures == Papers \X Codes \X Lines
RiskRows == Signatures \X (1..MaxFindings)
Pattern == [source : {"Firm Library", "Firm Reviewed Precedent"}, terms : SUBSET Lines]
Review ==
    [status : {"Open", "Closed"}, disposition : RiskDispositions \cup {Nobody},
     comment : BOOLEAN, reviewedBy : Reviewers \cup {Nobody}]

Unreviewed == [status |-> "Open", disposition |-> Nobody, comment |-> FALSE, reviewedBy |-> Nobody]

RisksTypeOK ==
    /\ DOMAIN pattern \subseteq Codes /\ \A c \in DOMAIN pattern : pattern[c] \in Pattern
    /\ \A x \in DOMAIN risk : x \in RiskRows /\ risk[x] \in Review
    /\ riskEvents \subseteq RiskRows

RisksInit == pattern = <<>> /\ risk = <<>> /\ riskEvents = {}

-----------------------------------------------------------------------------
(* ensure_default_risk_library, firm_risk_library, scan_document_clause_risks *)

Standard(c) ==
    [source |-> "Firm Library", terms |-> {l \in Lines : <<c, l>> \in StandardTerms}]

\* A scan of paper d, or for Nobody a reading of the library, loads the library.
BeginEnsure(w, d) ==
    /\ d \notin Unreadable
    /\ Take(w, [op |-> "ensure", paper |-> d, loaded |-> DOMAIN pattern, reads |-> {}, stale |-> {}])
    /\ UNCHANGED riskTables

\* The standard codes are written over what was loaded and the missing ones
\* inserted; risk_code is unique, so an insert that meets a new row fails.
CommitEnsure(w) ==
    LET r == req[w]
        missing == StandardCodes \ r.loaded
    IN
    /\ r.op = "ensure"
    /\ missing \cap DOMAIN pattern = {}
    /\ pattern' = [c \in DOMAIN pattern \cup missing |->
                      IF c \in StandardCodes THEN Standard(c) ELSE pattern[c]]
    /\ Commit(w, {}, {}, IF r.paper = Nobody THEN Idle
                     ELSE [op |-> "match", paper |-> r.paper, reads |-> {}, stale |-> {}])
    /\ UNCHANGED <<risk, riskEvents>>

\* The signature a scan reads back from a row: its excerpt is cut at 4000
\* characters, so the one of a long line is not the one a scan looks up.
ReadBack(s) == IF s[3] \in LongLines THEN <<s[1], s[2], "cut">> ELSE s

\* Mutant: findings a reviewer closed are not looked up.
KnownOpen(d) == {ReadBack(x[1]) : x \in {y \in DOMAIN risk : y[1][1] = d /\ risk[y].status = "Open"}}

Known(d) == {ReadBack(x[1]) : x \in {y \in DOMAIN risk : y[1][1] = d}}

\* The scan reads the active patterns and the findings of the paper.  A pattern
\* committed between the two reads is as one committed after both.
ReadScan(w) ==
    LET d == req[w].paper
        found == {s \in {d} \X (DOMAIN pattern) \X Lines : s[3] \in pattern[s[2]].terms}
    IN
    /\ req[w].op = "match"
    /\ Continue(w, [op |-> "scan", new |-> found \ Known(d), reads |-> found, stale |-> {}])
    /\ UNCHANGED riskTables

NextCopy(s) == 1 + Cardinality({x \in DOMAIN risk : x[1] = s})

\* One commit inserts the findings and the audit event of the scan.
CommitScan(w) ==
    LET r == req[w]
        inserted == {<<s, NextCopy(s)>> : s \in r.new}
    IN
    /\ r.op = "scan"
    /\ Cardinality(DOMAIN risk \cup inserted) <= MaxFindings
    /\ risk' = [x \in DOMAIN risk \cup inserted |-> IF x \in inserted THEN Unreviewed ELSE risk[x]]
    /\ Commit(w, r.new, r.new, Idle)
    /\ UNCHANGED <<pattern, riskEvents>>

-----------------------------------------------------------------------------
(* review_clause_risk and its route                                         *)

Judged(d, c, u) ==
    [status |-> IF d \in Deferring THEN "Open" ELSE "Closed",
     disposition |-> d, comment |-> c, reviewedBy |-> u]

BeginJudge(w, u, x, d, c) ==
    /\ d \notin Deferring => c
    /\ Take(w, [op |-> "judge", row |-> x, changes |-> Changes(risk[x], Judged(d, c, u)),
               reads |-> {}, stale |-> {}])
    /\ UNCHANGED riskTables

CommitJudge(w) ==
    LET r == req[w] IN
    /\ r.op = "judge"
    /\ risk' = [risk EXCEPT ![r.row] = Written(@, r.changes)]
    /\ Commit(w, {r.row}, {r.row}, [op |-> "judged", row |-> r.row, reads |-> {}, stale |-> {}])
    /\ UNCHANGED <<pattern, riskEvents>>

\* The route's audit event, in a commit of its own.
CommitJudged(w) ==
    LET r == req[w] IN
    /\ r.op = "judged"
    /\ riskEvents' = riskEvents \cup {r.row}
    /\ Commit(w, {}, {}, Idle)
    /\ UNCHANGED <<pattern, risk>>

-----------------------------------------------------------------------------
(* promote_finding_to_firm_pattern                                          *)

\* Mutant: any finding with a disposition is promoted.
PromotableReviewed(x) == risk[x].disposition # Nobody

Promotable(x) == risk[x].disposition \in Accepting

\* The user gives a code and terms, given by what they match.
BeginPromote(w, x, c, T) ==
    /\ Promotable(x)
    /\ c \notin DOMAIN pattern
    /\ Take(w, [op |-> "promote", row |-> x, code |-> c, terms |-> T,
               reads |-> {x}, stale |-> {}])
    /\ UNCHANGED riskTables

Precedent(T) == [source |-> "Firm Reviewed Precedent", terms |-> T]

\* risk_code is unique: of two promotions to one code the second fails.
CommitPromote(w) ==
    LET r == req[w] IN
    /\ r.op = "promote"
    /\ r.code \notin DOMAIN pattern
    /\ pattern' = [c \in DOMAIN pattern \cup {r.code} |->
                      IF c = r.code THEN Precedent(r.terms) ELSE pattern[c]]
    /\ Commit(w, {}, {}, Idle)
    /\ UNCHANGED <<risk, riskEvents>>

RisksNext ==
    \E w \in Workers :
        \/ \E d \in Papers \cup {Nobody} : BeginEnsure(w, d)
        \/ CommitEnsure(w) \/ ReadScan(w) \/ CommitScan(w)
        \/ \E u \in Reviewers, x \in DOMAIN risk, d \in RiskDispositions, c \in BOOLEAN :
              BeginJudge(w, u, x, d, c)
        \/ CommitJudge(w) \/ CommitJudged(w)
        \/ \E x \in DOMAIN risk, c \in Codes, T \in TermChoices : BeginPromote(w, x, c, T)
        \/ CommitPromote(w)
        \/ Die(w) /\ UNCHANGED riskTables

RisksSpec == RisksInit /\ SessionInit /\ [][RisksNext]_riskVars

-----------------------------------------------------------------------------
\* A match is raised once: two findings with one signature come of two scans that
\* overlapped, or of a line longer than the excerpt a finding keeps.
RaisedOnce ==
    \A x, y \in DOMAIN risk :
        x # y /\ x[1] = y[1] => x[1] \in raced \/ x[1][3] \in LongLines

\* The library only grows, and by a precedent only while the finding it came from
\* stands accepted or mitigated, unless a review changed it under the promotion.
LibraryIsReviewed ==
    [][\A c \in DOMAIN pattern' :
          IF c \in DOMAIN pattern THEN pattern'[c] = pattern[c]
          ELSE \/ c \in StandardCodes /\ pattern'[c] = Standard(c)
               \/ \E w \in Workers :
                     /\ req[w].op = "promote" /\ req[w].code = c
                     /\ \/ risk[req[w].row].disposition \in Accepting
                        \/ req[w].row \in req[w].stale]_riskVars
=============================================================================
