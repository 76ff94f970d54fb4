---------------------------- MODULE ScheduleScope ----------------------------
(***************************************************************************)
(* The catalog of activities a bid's schedule is expected to contain, and  *)
(* its coverage: services/schedule_scope_coverage.py and                   *)
(* services/boq_scope_adapter.py.  Items come from requirements, from the  *)
(* BOQ, from a library of the project type and from users; an evaluation   *)
(* matches them with the tasks of a schedule, reviewers explain what is    *)
(* not covered, and groups of alike items decide whether scope is ready.   *)
(*                                                                         *)
(* A request loads items and commits later.  What it will commit is known  *)
(* when it has loaded: the columns it changed, the rows it adds, the rows  *)
(* it deletes.  That is what a request in flight keeps here.               *)
(*                                                                         *)
(* A name stands for a class of similar activity names of one level: the   *)
(* similarity of names is taken to be transitive.  Sub-activities, which   *)
(* requirements and BOQ lines get besides their own item, are left out.    *)
(***************************************************************************)
EXTENDS Naturals, FiniteSets

CONSTANTS
    MaxItem,        \* bound: ids a run may assign
    Racing,         \* bound: ids assigned until requests that overlap are done
    Names,          \* activity names, up to similarity
    Requirements,   \* scope requirements of the bid
    References,     \* item numbers of the BOQ
    ProjectTypes,   \* what users make the type of the bid's project
    Explanations,   \* Covered Elsewhere, Not Applicable, Explained-Excluded
    Workers,        \* request threads
    Nobody          \* NULL

ASSUME BoundAssumption == MaxItem \in Nat
ASSUME FiniteAssumption == IsFiniteSet(Names) /\ IsFiniteSet(Requirements)
ASSUME NobodyAssumption == Nobody \notin Requirements \cup References
ASSUME ExplanationsAssumption ==
    Explanations \cap {"Unexplained", "Confirmed Covered", "To Be Added"} = {}

VARIABLES
    item,           \* the table: a function on the ids that have a row
    lastId,         \* the sequence ids are drawn from
    req,            \* per worker: the request in flight
    demanded,       \* history: what the last sync committed found in the requirements
    lost,           \* history: items an evaluation no longer covered, not dispositioned since
    raced           \* history: items changed between a request's load and its commit of them

vars == <<item, lastId, req, demanded, lost, raced>>

Ids == 1..MaxItem
Items == DOMAIN item

Dispositions == {"Unexplained", "Confirmed Covered", "To Be Added"} \cup Explanations

Row ==
    [source : {"BOQ", "Requirement", "Manual", "Knowledge"},
     ref : Requirements \cup References \cup ProjectTypes \cup {Nobody}, name : Names, parent : Ids \cup {0},
     mandatory : BOOLEAN, coverage : {"Not Checked", "Missing", "Possible Match", "Covered"},
     disposition : Dispositions]

NewRow(source, ref, name, parent, mandatory) ==
    [source |-> source, ref |-> ref, name |-> name, parent |-> parent, mandatory |-> mandatory,
     coverage |-> "Not Checked", disposition |-> "Unexplained"]

\* What the scope requirements say at some moment.
Demands == UNION {[R -> [name : Names, mandatory : BOOLEAN]] : R \in SUBSET Requirements}

Idle == [op |-> "idle"]
Ops == {"sync", "ingest", "evaluate", "disposition"}

\* A row with some of its columns written.
Written(row, columns) ==
    [c \in DOMAIN row |-> IF c \in DOMAIN columns THEN columns[c] ELSE row[c]]

\* Every row, and every row a request in flight will leave, is well-formed.
ScopeTypeOK ==
    /\ Items \subseteq 1..lastId /\ lastId \in 0..MaxItem
    /\ \A i \in Items : item[i] \in Row
    /\ \A w \in Workers : req[w] # Idle =>
          /\ req[w].op \in Ops
          /\ \A i \in DOMAIN req[w].writes \cap Items : Written(item[i], req[w].writes[i]) \in Row
          /\ req[w].inserts \subseteq Row /\ req[w].demands \in Demands
          /\ req[w].deletes \subseteq Ids /\ req[w].stale \subseteq Ids
    /\ demanded \in Demands
    /\ lost \subseteq Ids /\ raced \subseteq Ids

Init ==
    /\ item = <<>>
    /\ lastId = 0
    /\ req = [w \in Workers |-> Idle]
    /\ demanded = <<>>
    /\ lost = {}
    /\ raced = {}

-----------------------------------------------------------------------------
(* Loading and committing.                                                  *)

\* The columns in which a loaded row and the handler's row differ.
Changes(old, new) == [c \in {d \in DOMAIN old : old[d] # new[d]} |-> new[c]]

\* A request that makes of each loaded row i the row new[i]; `demands` is what a
\* sync read of the requirements, kept for the history of the model.
Begin(w, op, new, inserts, deletes, demands) ==
    /\ req[w] = Idle
    /\ \A v \in Workers : req[v] # Idle =>
          lastId + Cardinality(inserts) + Cardinality(req[v].inserts) <= Racing
    /\ req' = [req EXCEPT ![w] =
                  [op |-> op, inserts |-> inserts, deletes |-> deletes, demands |-> demands,
                   stale |-> {}, writes |-> [i \in DOMAIN new |-> Changes(item[i], new[i])]]]
    /\ UNCHANGED <<item, lastId, demanded, lost, raced>>

\* ON DELETE CASCADE of parent_id: an id is greater than its parent's.
Cascaded(deletes) ==
    LET gone[i \in 0..MaxItem] ==
            i \in deletes \/ (i \in Items /\ item[i].parent # 0 /\ gone[item[i].parent])
    IN  {i \in Items : gone[i]}

\* The table after request r, which inserts its rows with the ids of `at`.
Table(r, at) ==
    LET kept == Items \ Cascaded(r.deletes) IN
    [i \in kept \cup DOMAIN at |->
        IF i \in DOMAIN at THEN at[i]
        ELSE IF i \in DOMAIN r.writes THEN Written(item[i], r.writes[i]) ELSE item[i]]

\* An UPDATE of a row that is gone fails the request (Abort).
Commit(w) ==
    LET r == req[w]
        top == lastId + Cardinality(r.inserts)
    IN
    /\ \A i \in DOMAIN r.writes \ Items : r.writes[i] = <<>>
    /\ top <= MaxItem
    /\ \E at \in [lastId + 1..top -> r.inserts] :
         /\ \A row \in r.inserts : \E i \in DOMAIN at : at[i] = row
         /\ item' = Table(r, at)
    /\ lastId' = top
    /\ raced' = raced \cup (r.stale \cap DOMAIN r.writes)
    /\ demanded' = IF r.op = "sync" THEN r.demands ELSE demanded
    /\ LET changed == {i \in Items : i \notin DOMAIN item' \/ item'[i] # item[i]} IN
       req' = [v \in Workers |->
                  IF v = w THEN Idle
                  ELSE IF req[v] = Idle THEN Idle
                  ELSE [req[v] EXCEPT !.stale = @ \cup changed]]

\* The request fails before its commit.
Abort(w) ==
    /\ req[w] # Idle
    /\ req' = [req EXCEPT ![w] = Idle]
    /\ UNCHANGED <<item, lastId, demanded, lost, raced>>

-----------------------------------------------------------------------------
(* sync_scope_from_requirements, with sync_scope_from_project_type          *)

\* Mutant: the sync keeps the old mandatory flag of an item.
SyncedNameOnly(row, d) == [row EXCEPT !.name = d.name]

\* An item of a requirement follows its requirement.
Synced(row, d) == [row EXCEPT !.name = d.name, !.mandatory = d.mandatory]

\* Library items whose activity is no longer suggested.
Stale(suggested) == {i \in Items : item[i].source = "Knowledge" /\ item[i].name \notin suggested}

ItemsOf(r) == {i \in Items : item[i].source = "Requirement" /\ item[i].ref = r}

\* Of several items of one requirement the last of the SELECT is updated, and
\* the SELECT has no order.  A library item is looked up by its name and the type the
\* project has by now.
BeginSync(w, type, suggested, demands) ==
    LET listed == {r \in DOMAIN demands : ItemsOf(r) # {}}
        known == {item[i].name : i \in {j \in Items :
                     item[j].source = "Knowledge" /\ item[j].ref = type}}
        added == {NewRow("Requirement", r, demands[r].name, 0, demands[r].mandatory) :
                     r \in DOMAIN demands \ listed}
                 \cup {NewRow("Knowledge", type, n, 0, FALSE) : n \in suggested \ known}
    IN
    \E last \in [listed -> Items] :
      /\ \A r \in listed : last[r] \in ItemsOf(r)
      /\ Begin(w, "sync",
               [i \in {last[r] : r \in listed} |-> Synced(item[i], demands[item[i].ref])],
               added, Stale(suggested), demands)

CommitSync(w) == req[w].op = "sync" /\ Commit(w) /\ UNCHANGED lost

-----------------------------------------------------------------------------
(* ingest_boq_scope, for one line of the BOQ                                *)

LinesOf(b, n) == {i \in Items : item[i].source = "BOQ" /\ item[i].ref = b /\ item[i].name = n}

\* An item of the line follows its mandatory flag; a line without one gets it.
BeginIngest(w, b, n, mandatory) ==
    \/ /\ LinesOf(b, n) = {}
       /\ Begin(w, "ingest", <<>>, {NewRow("BOQ", b, n, 0, mandatory)}, {}, <<>>)
    \/ \E i \in LinesOf(b, n) :
          Begin(w, "ingest", [j \in {i} |-> [item[j] EXCEPT !.mandatory = mandatory]], {}, {}, <<>>)

CommitIngest(w) == req[w].op = "ingest" /\ Commit(w) /\ UNCHANGED lost

-----------------------------------------------------------------------------
(* add_scope_item, for items a user enters: source_type is left at its       *)
(* default, Manual.                                                         *)

Add(n, parent, mandatory) ==
    /\ lastId < MaxItem
    /\ parent \in Items \cup {0}
    /\ lastId' = lastId + 1
    /\ item' = [i \in Items \cup {lastId'} |->
                   IF i = lastId' THEN NewRow("Manual", Nobody, n, parent, mandatory) ELSE item[i]]
    /\ UNCHANGED <<req, demanded, lost, raced>>

-----------------------------------------------------------------------------
(* evaluate_scope_coverage_from_tables                                      *)

\* Mutant: an evaluation takes the word of the coverage for the disposition.
EvaluatedInOneWord(row, match) ==
    [row EXCEPT !.coverage = match,
                !.disposition = IF match = "Covered" THEN match ELSE row.disposition]

\* Mutant: losing cover leaves the disposition alone.
EvaluatedKeeping(row, match) ==
    IF match = "Covered"
    THEN [row EXCEPT !.coverage = match, !.disposition = "Confirmed Covered"]
    ELSE [row EXCEPT !.coverage = match]

\* Mutant: whatever is missing is unexplained again.
EvaluatedAfresh(row, match) ==
    IF match = "Covered"
    THEN [row EXCEPT !.coverage = match, !.disposition = "Confirmed Covered"]
    ELSE [row EXCEPT !.coverage = match, !.disposition = "Unexplained"]

\* The best match of an item, by the thresholds .72 and .42, is an input.
Evaluated(row, match) ==
    IF match = "Covered"
    THEN [row EXCEPT !.coverage = match, !.disposition = "Confirmed Covered"]
    ELSE IF row.coverage = "Covered"
         THEN [row EXCEPT !.coverage = match, !.disposition = "Unexplained"]
         ELSE [row EXCEPT !.coverage = match]

BeginEvaluate(w, matches) ==
    Begin(w, "evaluate", [i \in Items |-> Evaluated(item[i], matches[i])], {}, {}, <<>>)

CommitEvaluate(w) ==
    /\ req[w].op = "evaluate"
    /\ Commit(w)
    /\ LET uncovered == {i \in DOMAIN item' : item'[i].coverage # "Covered"} IN
       lost' = {i \in uncovered : i \in lost \/ item[i].coverage = "Covered"}

-----------------------------------------------------------------------------
(* disposition_scope_item                                                   *)

\* A disposition is refused without the reason it needs; the reason itself is
\* left out.
Acceptable(row, d) == d = "Confirmed Covered" => row.coverage \in {"Covered", "Possible Match"}

BeginDisposition(w, i, d) ==
    /\ Acceptable(item[i], d)
    /\ Begin(w, "disposition", [j \in {i} |-> [item[j] EXCEPT !.disposition = d]], {}, {}, <<>>)

CommitDisposition(w) ==
    /\ req[w].op = "disposition"
    /\ Commit(w)
    /\ lost' = lost \ DOMAIN req[w].writes

Next ==
    \/ \E n \in Names, parent \in Items \cup {0}, m \in BOOLEAN : Add(n, parent, m)
    \/ \E w \in Workers :
         \/ \E type \in ProjectTypes, S \in SUBSET Names, demands \in Demands :
               BeginSync(w, type, S, demands)
         \/ \E b \in References, n \in Names, m \in BOOLEAN : BeginIngest(w, b, n, m)
         \/ \E matches \in [Items -> {"Missing", "Possible Match", "Covered"}] : BeginEvaluate(w, matches)
         \/ \E i \in Items, d \in Dispositions : BeginDisposition(w, i, d)
         \/ CommitSync(w) \/ CommitIngest(w) \/ CommitEvaluate(w) \/ CommitDisposition(w) \/ Abort(w)

Spec == Init /\ [][Next]_vars

-----------------------------------------------------------------------------
(* _consolidate_rows: what decides whether scope is ready.                  *)

Authority == [BOQ |-> 0, Requirement |-> 1, Manual |-> 2, Knowledge |-> 3]

\* By authority, then mandatory items first.
Outranks(i, j) ==
    \/ Authority[item[i].source] < Authority[item[j].source]
    \/ item[i].source = item[j].source /\ item[i].mandatory /\ ~item[j].mandatory

\* `canonical`: of equals the lowest id.
Canonical(G) ==
    CHOOSE i \in G : \A j \in G \ {i} : Outranks(i, j) \/ (~Outranks(j, i) /\ i < j)

\* The rows that start the first cluster of each name.  `ordered` breaks ties by level
\* and spelling, which a name leaves open.
Seeds ==
    {seed \in [{item[i].name : i \in Items} -> Items] :
        \A n \in DOMAIN seed :
            /\ item[seed[n]].name = n
            /\ \A j \in Items : item[j].name = n => ~Outranks(j, seed[n])}

\* BOQ items of different references stay apart; the other items of the name
\* join the first cluster.
LeadRef(i, seed) ==
    LET lead == IF item[i].source = "BOQ" THEN i ELSE seed[item[i].name] IN
    IF item[lead].source = "BOQ" THEN item[lead].ref ELSE Nobody

Group(i, seed) ==
    {j \in Items : item[j].name = item[i].name /\ LeadRef(j, seed) = LeadRef(i, seed)}

GroupMandatory(G) == \E i \in G : item[i].mandatory

GroupCoverage(G) ==
    LET found == {item[i].coverage : i \in G} IN
    IF "Covered" \in found THEN "Covered"
    ELSE IF "Possible Match" \in found THEN "Possible Match"
    ELSE IF "Missing" \in found THEN "Missing" ELSE "Not Checked"

GroupBlocking(G) ==
    LET disposition == item[Canonical(G)].disposition
        coverage == GroupCoverage(G)
    IN
    /\ GroupMandatory(G)
    /\ coverage # "Covered"
    /\ coverage = "Possible Match" => disposition # "Confirmed Covered"
    /\ coverage = "Missing" => disposition \notin Explanations \cup {"Confirmed Covered"}

Ready(seed) == Items # {} /\ \A i \in Items : ~GroupBlocking(Group(i, seed))

-----------------------------------------------------------------------------
(* Properties                                                               *)

\* Unless the item changed under a request, an item that an evaluation no longer
\* covers is unexplained until a reviewer dispositions it again: an earlier
\* confirmation or explanation does not outlive the cover.
LostCoverIsUnexplained == \A i \in (lost \cap Items) \ raced : item[i].disposition = "Unexplained"

\* Unless items changed under a request, the catalog has an item for every
\* requirement the last sync found, with its name and mandatory flag.
LastSyncIsListed ==
    \A r \in DOMAIN demanded :
        \E i \in ItemsOf(r) :
            i \in raced \/ (item[i].name = demanded[r].name /\ item[i].mandatory = demanded[r].mandatory)

\* The disposition of an item changes only by a disposition, or by an evaluation
\* that finds the item covered or no longer covered; and only suggestions of the
\* library disappear, with what hangs below them.
ReviewsStand ==
    [][\A i \in Items :
         IF i \in DOMAIN item'
         THEN item'[i].disposition # item[i].disposition =>
                 \E w \in Workers :
                    \/ req[w].op = "disposition"
                    \/ req[w].op = "evaluate" /\
                       (i \in raced' \/ "Covered" \in {item[i].coverage, item'[i].coverage})
         ELSE item[i].source = "Knowledge" \/ item[i].parent \notin DOMAIN item' \cup {0}]_vars

\* "Missing or ambiguous coverage must be explained", says the note of the coverage
\* (schedule_scope_coverage.py, line 806): when scope is ready, a mandatory group
\* that the schedule misses has an explanation.
MissingIsExplained ==
    \A seed \in Seeds :
        Ready(seed) =>
            \A i \in Items \ raced :
                LET G == Group(i, seed) IN
                GroupMandatory(G) /\ GroupCoverage(G) = "Missing"
                    => item[Canonical(G)].disposition \in Explanations
=============================================================================
