------------------------- MODULE ScheduleScopeProofs -------------------------
(***************************************************************************)
(* Proofs about ScheduleScope, for every number of items, every set of      *)
(* names, requirements, references and explanations, and whatever requests  *)
(* overlap.                                                                 *)
(***************************************************************************)
EXTENDS ScheduleScope, FiniteSetTheorems, WellFoundedInduction, TLAPS

-----------------------------------------------------------------------------
(* The invariant                                                            *)

\* The columns a request of each kind may write, and what it may write there.
Writable(op) ==
    {c \in {"name", "mandatory", "coverage", "disposition"} :
        /\ c = "name" => op = "sync"
        /\ c = "mandatory" => op \in {"sync", "ingest"}
        /\ c = "coverage" => op = "evaluate"
        /\ c = "disposition" => op \in {"evaluate", "disposition"}}

Typed(op, columns) ==
    /\ DOMAIN columns \subseteq Writable(op)
    /\ "name" \in DOMAIN columns => columns["name"] \in Names
    /\ "mandatory" \in DOMAIN columns => columns["mandatory"] \in BOOLEAN
    /\ "coverage" \in DOMAIN columns =>
          columns["coverage"] \in {"Missing", "Possible Match", "Covered"}
    /\ "disposition" \in DOMAIN columns => columns["disposition"] \in Dispositions

\* A request in flight, by itself.
Fields == {"op", "inserts", "deletes", "demands", "stale", "writes"}

IsRequest(q) ==
    /\ DOMAIN q = Fields
    /\ q.op \in Ops /\ q.demands \in Demands
    /\ q.deletes \subseteq Ids /\ q.stale \subseteq Ids
    /\ IsFiniteSet(q.inserts) /\ q.inserts \subseteq Row
    /\ \A row \in q.inserts : row.source # "Manual" /\ row.parent = 0
    /\ q.op = "evaluate" => q.inserts = {}
    /\ \A i \in DOMAIN q.writes : Typed(q.op, q.writes[i])

\* A sync will have an item for requirement r: one it inserts, or one it loaded,
\* which nobody deletes, and which only others can keep from what r says.
WillList(table, q, r) ==
    \/ \E row \in q.inserts :
          /\ row.source = "Requirement" /\ row.ref = r
          /\ row.name = q.demands[r].name /\ row.mandatory = q.demands[r].mandatory
    \/ \E i \in DOMAIN table \cap DOMAIN q.writes :
          /\ table[i].source = "Requirement" /\ table[i].ref = r
          /\ \/ i \in q.stale
             \/ LET new == Written(table[i], q.writes[i])
                IN  new.name = q.demands[r].name /\ new.mandatory = q.demands[r].mandatory

\* A request in flight, in view of the table and the last id.
Pending(table, last, q) ==
    /\ q.deletes \subseteq 1..last /\ DOMAIN q.writes \subseteq 1..last
    /\ \A i \in q.deletes \cap DOMAIN table : table[i].source = "Knowledge"
    /\ q.op = "sync" => \A r \in DOMAIN q.demands : WillList(table, q, r)
    /\ q.op = "ingest" => \A i \in DOMAIN q.writes \cap DOMAIN table : table[i].source = "BOQ"
    /\ q.op = "evaluate" =>
          \A i \in (DOMAIN q.writes \cap DOMAIN table) \ q.stale :
             \E match \in {"Missing", "Possible Match", "Covered"} :
                Written(table[i], q.writes[i]) = Evaluated(table[i], match)

\* The table: only what users enter hangs below other items, and below older ones.
TableInv ==
    /\ lastId \in 0..MaxItem /\ Items \subseteq 1..lastId
    /\ \A i \in Items :
          /\ item[i] \in Row
          /\ item[i].parent < i
          /\ item[i].source # "Manual" => item[i].parent = 0

HistoryInv ==
    /\ demanded \in Demands
    /\ lost \subseteq 1..lastId /\ raced \subseteq Ids

SInv ==
    /\ TableInv
    /\ HistoryInv
    /\ DOMAIN req = Workers
    /\ \A w \in Workers : req[w] = Idle \/ (IsRequest(req[w]) /\ Pending(item, lastId, req[w]))
    /\ LostCoverIsUnexplained
    /\ LastSyncIsListed

-----------------------------------------------------------------------------
(* Rows                                                                     *)

Columns == {"source", "ref", "name", "parent", "mandatory", "coverage", "disposition"}

LEMMA RowColumns ==
    ASSUME NEW r
    PROVE  r \in Row <=>
              /\ r = [c \in Columns |-> r[c]]
              /\ r.source \in {"BOQ", "Requirement", "Manual", "Knowledge"}
              /\ r.ref \in Requirements \cup References \cup ProjectTypes \cup {Nobody}
              /\ r.name \in Names /\ r.parent \in Ids \cup {0} /\ r.mandatory \in BOOLEAN
              /\ r.coverage \in {"Not Checked", "Missing", "Possible Match", "Covered"}
              /\ r.disposition \in Dispositions
  <1>1. r \in Row => r = [c \in Columns |-> r[c]]
        BY DEF Row, Columns
  <1>2. ASSUME r = [c \in Columns |-> r[c]]
        PROVE  r = [source |-> r.source, ref |-> r.ref, name |-> r.name, parent |-> r.parent,
                    mandatory |-> r.mandatory, coverage |-> r.coverage,
                    disposition |-> r.disposition]
        BY <1>2 DEF Columns
  <1> QED BY <1>1, <1>2 DEF Row

\* A write changes columns of its kind only, to what they may hold.
LEMMA WrittenRow ==
    ASSUME NEW r \in Row, NEW op \in Ops, NEW columns, Typed(op, columns)
    PROVE  /\ Written(r, columns) \in Row
           /\ Written(r, columns).source = r.source /\ Written(r, columns).ref = r.ref
           /\ Written(r, columns).parent = r.parent
           /\ op # "sync" => Written(r, columns).name = r.name
           /\ op \in {"evaluate", "disposition"} =>
                 Written(r, columns).mandatory = r.mandatory
           /\ op \in {"sync", "ingest"} => Written(r, columns).disposition = r.disposition
           /\ op # "evaluate" => Written(r, columns).coverage = r.coverage
  <1> PICK new : new = Written(r, columns) OBVIOUS
  <1>1. r = [c \in Columns |-> r[c]] /\ DOMAIN r = Columns BY RowColumns DEF Row, Columns
  <1>2. new = [c \in Columns |-> IF c \in DOMAIN columns THEN columns[c] ELSE r[c]]
        BY <1>1 DEF Written
  <1>3. \A c \in Columns : new[c] = IF c \in DOMAIN columns THEN columns[c] ELSE r[c]
        BY <1>2
  <1>4. new = [c \in Columns |-> new[c]] BY <1>2
  <1>5. DOMAIN columns \subseteq {"name", "mandatory", "coverage", "disposition"}
        BY DEF Typed, Writable, Ops
  <1>6. /\ new.source = r.source /\ new.ref = r.ref /\ new.parent = r.parent
        BY <1>3, <1>5 DEF Columns
  <1>7. /\ op # "sync" => "name" \notin DOMAIN columns
        /\ op \in {"evaluate", "disposition"} => "mandatory" \notin DOMAIN columns
        /\ op \in {"sync", "ingest"} => "disposition" \notin DOMAIN columns
        /\ op # "evaluate" => "coverage" \notin DOMAIN columns
        BY DEF Typed, Writable, Ops
  <1>8. /\ op # "sync" => new.name = r.name
        /\ op \in {"evaluate", "disposition"} => new.mandatory = r.mandatory
        /\ op \in {"sync", "ingest"} => new.disposition = r.disposition
        /\ op # "evaluate" => new.coverage = r.coverage
        BY <1>3, <1>7 DEF Columns
  <1>9. new.name \in Names /\ new.mandatory \in BOOLEAN
        BY <1>3, RowColumns DEF Columns, Typed
  <1>10. /\ new.coverage \in {"Not Checked", "Missing", "Possible Match", "Covered"}
         /\ new.disposition \in Dispositions
        BY <1>3, RowColumns DEF Columns, Typed
  <1>11. new \in Row BY <1>4, <1>6, <1>9, <1>10, RowColumns
  <1> QED BY <1>6, <1>8, <1>11

\* A request that writes over the row it loaded leaves what it made of it.
LEMMA WrittenOver ==
    ASSUME NEW l \in Row, NEW n \in Row
    PROVE  Written(l, Changes(l, n)) = n
  <1>1. DOMAIN l = Columns /\ n = [c \in Columns |-> n[c]] BY RowColumns DEF Row, Columns
  <1>2. \A c \in Columns :
           (IF c \in DOMAIN Changes(l, n) THEN Changes(l, n)[c] ELSE l[c]) = n[c]
        BY <1>1 DEF Changes
  <1>3. Written(l, Changes(l, n)) =
           [c \in Columns |-> IF c \in DOMAIN Changes(l, n) THEN Changes(l, n)[c] ELSE l[c]]
        BY <1>1 DEF Written
  <1> QED BY <1>1, <1>2, <1>3

-----------------------------------------------------------------------------
(* Naturals, and what depends on smaller ones                               *)

LEMMA LeastNatural ==
    ASSUME NEW S, S \subseteq Nat, S # {}
    PROVE  \E m \in S : \A n \in S : m <= n
  <1>1. PICK m \in S : \A n \in S : ~(<<n, m>> \in OpToRel(<, Nat))
        BY NatLessThanWellFounded, WFMin
  <1>2. ASSUME NEW n \in S PROVE m <= n
    <2>1. ~(<<n, m>> \in OpToRel(<, Nat)) BY <1>1
    <2>2. n \in Nat /\ m \in Nat OBVIOUS
    <2>3. ~(n < m) BY <2>1, <2>2 DEF OpToRel
    <2> QED BY <2>2, <2>3
  <1> QED BY <1>2

LEMMA ItemsAreIds == TableInv => Items \subseteq Ids
  <1> SUFFICES ASSUME TableInv, NEW i \in Items PROVE i \in Ids OBVIOUS
  <1>1. i \in 1..lastId /\ lastId \in 0..MaxItem BY DEF TableInv
  <1> QED BY <1>1, BoundAssumption DEF Ids

\* The cascade reaches what hangs below something deleted, and nothing else.
LEMMA CascadeUnfolds ==
    ASSUME TableInv, NEW D, D \subseteq Ids
    PROVE  \A i \in Items : i \in Cascaded(D) <=> i \in D \/ item[i].parent \in D \cup Cascaded(D)
  <1> DEFINE Body(g, i) == i \in D \/ (i \in Items /\ item[i].parent # 0 /\ g[item[i].parent])
             Undefined == {n \in Nat : ~\E g : g = [i \in 0..n |-> Body(g, i)]}
  <1>1. /\ MaxItem \in Nat /\ 0 \notin D /\ Items \subseteq Ids
        /\ \A i \in Items : item[i].parent \in Nat /\ item[i].parent < i /\ i \in Nat
    <2>1. MaxItem \in Nat /\ 0 \notin D BY BoundAssumption DEF Ids
    <2>2. Items \subseteq Ids BY <2>1 DEF TableInv, Ids
    <2>3. ASSUME NEW i \in Items PROVE item[i].parent \in Nat /\ item[i].parent < i /\ i \in Nat
      <3>1. item[i].parent \in Ids \cup {0} /\ item[i].parent < i BY RowColumns DEF TableInv
      <3> QED BY <3>1, <2>1, <2>2 DEF Ids
    <2> QED BY <2>1, <2>2, <2>3
  <1>2. Undefined = {}
    <2>1. SUFFICES ASSUME Undefined # {} PROVE FALSE OBVIOUS
    <2>2. PICK m \in Undefined : \A n \in Undefined : m <= n
          BY <2>1, LeastNatural
    <2>3. m \in Nat /\ ~\E g : g = [i \in 0..m |-> Body(g, i)] OBVIOUS
    <2>4. CASE m = 0
      <3>1. PICK h : h = [i \in 0..0 |-> i \in D] OBVIOUS
      <3>2. \A i \in 0..0 : (i \in D) = Body(h, i) BY <1>1
      <3>3. h = [i \in 0..m |-> Body(h, i)] BY <2>4, <3>1, <3>2
      <3> QED BY <2>3, <3>3
    <2>5. CASE m # 0
      <3>1. m - 1 \in Nat /\ m - 1 \notin Undefined BY <2>2, <2>3, <2>5
      <3>2. PICK g : g = [i \in 0..(m - 1) |-> Body(g, i)] BY <3>1
      <3>3. PICK h : h = [i \in 0..m |-> Body(g, i)] OBVIOUS
      <3>4. \A i \in 0..(m - 1) : h[i] = g[i] BY <2>3, <3>2, <3>3
      <3>5. ASSUME NEW i \in 0..m PROVE Body(g, i) = Body(h, i)
        <4>1. i \in Items => item[i].parent \in 0..(m - 1) BY <1>1, <2>3
        <4> QED BY <4>1, <3>4
      <3>6. h = [i \in 0..m |-> Body(h, i)] BY <3>3, <3>5
      <3> QED BY <2>3, <3>6
    <2> QED BY <2>4, <2>5
  <1> DEFINE G == CHOOSE g : g = [i \in 0..MaxItem |-> Body(g, i)]
  <1>3. Cascaded(D) = {i \in Items : G[i]} BY DEF Cascaded
  <1>4. G = [i \in 0..MaxItem |-> Body(G, i)] BY <1>1, <1>2
  <1>5. \A i \in 0..MaxItem : G[i] <=> Body(G, i)
    <2> PICK g : g = G OBVIOUS
    <2>1. g = [i \in 0..MaxItem |-> Body(g, i)] BY <1>4
    <2>2. \A i \in 0..MaxItem : g[i] = Body(g, i) BY <2>1
    <2> QED BY <2>2
  <1>6. ASSUME NEW i \in Items PROVE Body(G, i) <=> i \in D \/ item[i].parent \in D \cup Cascaded(D)
    <2> PICK p : p = item[i].parent OBVIOUS
    <2>1. p \in Nat /\ p < i /\ i \in 0..MaxItem BY <1>1 DEF Ids
    <2>2. G[p] <=> Body(G, p)
      <3>1. p \in 0..MaxItem BY <1>1, <2>1
      <3> QED BY <3>1, <1>5
    <2>3. p \notin Items => (Body(G, p) <=> p \in D) OBVIOUS
    <2>4. p \in Items => (G[p] <=> p \in Cascaded(D)) BY <1>3
    <2>5. p \in Items /\ p \in D => Body(G, p) OBVIOUS
    <2>6. p = 0 => p \notin D \cup Cascaded(D) BY <1>1, <1>3 DEF Ids
    <2> QED BY <2>2, <2>3, <2>4, <2>5, <2>6, <1>3
  <1>7. Items \subseteq 0..MaxItem BY <1>1 DEF Ids
  <1> QED BY <1>3, <1>5, <1>6, <1>7

-----------------------------------------------------------------------------
(* What a commit does to the table, and what the others still know          *)

\* Rows keep their source and reference, ids are not used again, and no item of a
\* requirement is deleted.
Grown ==
    /\ lastId \in Nat /\ lastId' \in Nat /\ lastId <= lastId' /\ Items \subseteq 1..lastId
    /\ \A i \in Items' \ Items : i > lastId
    /\ \A i \in Items' \cap Items : item'[i].source = item[i].source /\ item'[i].ref = item[i].ref
    /\ \A i \in Items \ Items' : item[i].source # "Requirement"

Changed == {i \in Items : i \notin Items' \/ item'[i] # item[i]}

LEMMA StaysPending ==
    ASSUME Grown, NEW q, IsRequest(q), Pending(item, lastId, q),
           NEW next, DOMAIN next = Fields, next.stale \subseteq Ids,
           q.stale \cup Changed \subseteq next.stale,
           \A f \in Fields \ {"stale"} : next[f] = q[f]
    PROVE  IsRequest(next) /\ Pending(item', lastId', next)
  <1>1. /\ next.op = q.op /\ next.inserts = q.inserts /\ next.deletes = q.deletes
        /\ next.demands = q.demands /\ next.writes = q.writes
        BY DEF Fields
  <1>2. IsRequest(next) BY <1>1 DEF IsRequest
  <1>3. 1..lastId \subseteq 1..lastId' BY DEF Grown
  <1>4. \A i \in Items' : i \in 1..lastId => i \in Items BY DEF Grown
  <1>5. \A i \in Items \ next.stale : i \in Items' /\ item'[i] = item[i] BY DEF Changed
  <1>6. next.deletes \subseteq 1..lastId' /\ DOMAIN next.writes \subseteq 1..lastId'
        BY <1>1, <1>3 DEF Pending
  <1>7. \A i \in next.deletes \cap Items' : item'[i].source = "Knowledge"
        BY <1>1, <1>4 DEF Pending, Grown, Items
  <1>8. next.op = "ingest" => \A i \in DOMAIN next.writes \cap Items' : item'[i].source = "BOQ"
        BY <1>1, <1>4 DEF Pending, Grown, Items
  <1>9. next.op = "evaluate" =>
          \A i \in (DOMAIN next.writes \cap Items') \ next.stale :
             \E match \in {"Missing", "Possible Match", "Covered"} :
                Written(item'[i], next.writes[i]) = Evaluated(item'[i], match)
    <2> SUFFICES ASSUME next.op = "evaluate",
                        NEW i \in (DOMAIN next.writes \cap Items') \ next.stale
                 PROVE  \E match \in {"Missing", "Possible Match", "Covered"} :
                           Written(item'[i], next.writes[i]) = Evaluated(item'[i], match)
        OBVIOUS
    <2>1. i \in Items BY <1>1, <1>4 DEF Pending
    <2>2. item'[i] = item[i] /\ i \notin q.stale BY <1>5, <2>1
    <2> QED BY <1>1, <2>1, <2>2 DEF Pending, Items
  <1>10. ASSUME next.op = "sync", NEW r \in DOMAIN next.demands
         PROVE  WillList(item', next, r)
    <2>1. WillList(item, q, r) BY <1>1, <1>10 DEF Pending
    <2>2. CASE \E row \in q.inserts :
                  /\ row.source = "Requirement" /\ row.ref = r
                  /\ row.name = q.demands[r].name /\ row.mandatory = q.demands[r].mandatory
          BY <1>1, <2>2 DEF WillList
    <2>3. ASSUME NEW i \in Items \cap DOMAIN q.writes,
                 item[i].source = "Requirement", item[i].ref = r,
                 \/ i \in q.stale
                 \/ /\ Written(item[i], q.writes[i]).name = q.demands[r].name
                    /\ Written(item[i], q.writes[i]).mandatory = q.demands[r].mandatory
          PROVE  WillList(item', next, r)
      <3>1. i \in Items' /\ item'[i].source = "Requirement" /\ item'[i].ref = r
            BY <2>3 DEF Grown
      <3>2. i \in next.stale \/ item'[i] = item[i] BY <1>5
      <3>3. \/ i \in next.stale
            \/ /\ Written(item'[i], next.writes[i]).name = next.demands[r].name
               /\ Written(item'[i], next.writes[i]).mandatory = next.demands[r].mandatory
            BY <1>1, <2>3, <3>2
      <3> QED BY <1>1, <3>1, <3>3 DEF WillList, Items
    <2> QED BY <2>1, <2>2, <2>3 DEF WillList, Items
  <1> QED BY <1>2, <1>6, <1>7, <1>8, <1>9, <1>10 DEF Pending, Items

\* A commit writes and deletes rows that are there, and adds its own.
LEMMA CommitTable ==
    ASSUME TableInv, NEW w \in Workers, NEW q, q = req[w], IsRequest(q), Pending(item, lastId, q), Commit(w)
    PROVE  /\ lastId' \in lastId..MaxItem
           /\ Items' = (Items \ Cascaded(q.deletes)) \cup (lastId + 1)..lastId'
           /\ \A i \in Items' \ Items : item'[i] \in q.inserts
           /\ \A row \in q.inserts : \E i \in Items' \ Items : item'[i] = row
           /\ \A i \in Items' \cap Items :
                 item'[i] = IF i \in DOMAIN q.writes THEN Written(item[i], q.writes[i]) ELSE item[i]
  <1>1. lastId \in Nat /\ lastId <= MaxItem /\ MaxItem \in Nat /\ Items \subseteq 1..lastId
        BY BoundAssumption DEF TableInv
  <1>2. Cardinality(q.inserts) \in Nat BY FS_CardinalityType DEF IsRequest
  <1>3. lastId' = lastId + Cardinality(q.inserts) /\ lastId' <= MaxItem BY DEF Commit
  <1>4. PICK at \in [(lastId + 1)..lastId' -> q.inserts] :
          /\ \A row \in q.inserts : \E i \in DOMAIN at : at[i] = row
          /\ item' = Table(q, at)
        BY DEF Commit
  <1>5. DOMAIN at = (lastId + 1)..lastId' OBVIOUS
  <1>6. lastId' \in lastId..MaxItem BY <1>1, <1>2, <1>3
  <1>7. Items' = (Items \ Cascaded(q.deletes)) \cup (lastId + 1)..lastId'
        BY <1>4, <1>5 DEF Table, Items
  <1>8. \A i \in Items : i \notin DOMAIN at BY <1>1, <1>5, <1>6
  <1>9. \A i \in Items' \cap Items :
           item'[i] = IF i \in DOMAIN q.writes THEN Written(item[i], q.writes[i]) ELSE item[i]
        BY <1>4, <1>5, <1>7, <1>8 DEF Table
  <1>10. \A i \in DOMAIN at : i \in Items' \ Items /\ item'[i] = at[i]
        BY <1>4, <1>5, <1>7, <1>8 DEF Table
  <1>11. \A i \in Items' \ Items : i \in DOMAIN at BY <1>5, <1>7
  <1>12. \A i \in Items' \ Items : item'[i] \in q.inserts BY <1>4, <1>10, <1>11
  <1>13. \A row \in q.inserts : \E i \in Items' \ Items : item'[i] = row BY <1>4, <1>10
  <1> QED BY <1>6, <1>7, <1>9, <1>12, <1>13

\* What a commit deletes is of the library, or hangs below something that is gone.
LEMMA CommitDeletes ==
    ASSUME TableInv, NEW w \in Workers, NEW q, q = req[w], IsRequest(q), Pending(item, lastId, q), Commit(w),
           NEW i \in Items \ Items'
    PROVE  item[i].source = "Knowledge" \/ item[i].parent \notin Items' \cup {0}
  <1>1. i \in Cascaded(q.deletes) BY CommitTable
  <1>2. q.deletes \subseteq Ids /\ i \in Items BY DEF IsRequest
  <1>3. i \in q.deletes \/ item[i].parent \in q.deletes \cup Cascaded(q.deletes)
        BY <1>1, <1>2, CascadeUnfolds
  <1>4. CASE i \in q.deletes BY <1>2, <1>4 DEF Pending, Items
  <1>5. CASE item[i].parent \in q.deletes \cup Cascaded(q.deletes)
    <2> PICK p : p = item[i].parent OBVIOUS
    <2>1. p \in Cascaded(q.deletes) => p \in Ids BY BoundAssumption DEF Cascaded, TableInv, Ids
    <2>2. p \in Ids BY <1>2, <1>5, <2>1
    <2>3. p \in Items /\ p \in q.deletes => p \in Cascaded(q.deletes)
          BY <1>2, CascadeUnfolds
    <2>4. p < i /\ i \in 1..lastId BY DEF TableInv
    <2>5. p \notin (lastId + 1)..lastId'
          BY <2>2, <2>4 DEF TableInv, Ids
    <2>6. p \notin Items' BY <1>5, <2>3, <2>5, CommitTable
    <2> QED BY <2>2, <2>6 DEF Ids
  <1> QED BY <1>3, <1>4, <1>5

\* The rows a commit writes keep all but the columns of its kind.
LEMMA CommitRow ==
    ASSUME TableInv, NEW w \in Workers, NEW q, q = req[w], IsRequest(q), Pending(item, lastId, q), Commit(w),
           NEW i \in Items' \cap Items
    PROVE  /\ item'[i] \in Row
           /\ item'[i].source = item[i].source /\ item'[i].ref = item[i].ref
           /\ item'[i].parent = item[i].parent
           /\ q.op # "sync" => item'[i].name = item[i].name
           /\ q.op \in {"evaluate", "disposition"} => item'[i].mandatory = item[i].mandatory
           /\ q.op \in {"sync", "ingest"} => item'[i].disposition = item[i].disposition
           /\ q.op # "evaluate" => item'[i].coverage = item[i].coverage
           /\ i \notin DOMAIN q.writes => item'[i] = item[i]
  <1>1. item[i] \in Row BY DEF TableInv
  <1>2. item'[i] = IF i \in DOMAIN q.writes THEN Written(item[i], q.writes[i]) ELSE item[i]
        BY CommitTable
  <1>3. CASE i \notin DOMAIN q.writes BY <1>1, <1>2, <1>3
  <1>4. CASE i \in DOMAIN q.writes
    <2>1. PICK columns : columns = q.writes[i] OBVIOUS
    <2>2. Typed(q.op, columns) /\ q.op \in Ops BY <1>4, <2>1 DEF IsRequest
    <2>3. item'[i] = Written(item[i], columns) BY <1>2, <1>4, <2>1
    <2> QED BY <1>1, <1>4, <2>2, <2>3, WrittenRow
  <1> QED BY <1>3, <1>4

LEMMA CommitKeepsTable ==
    ASSUME TableInv, NEW w \in Workers, NEW q, q = req[w], IsRequest(q), Pending(item, lastId, q), Commit(w)
    PROVE  TableInv' /\ Grown
  <1>1. lastId \in Nat /\ lastId' \in lastId..MaxItem /\ Items \subseteq 1..lastId
        BY CommitTable DEF TableInv
  <1>2. lastId' \in Nat /\ lastId' \in 0..MaxItem /\ lastId <= lastId'
        BY <1>1, BoundAssumption
  <1>3. Items' \subseteq 1..lastId'
    <2>1. Items' \subseteq Items \cup (lastId + 1)..lastId' BY CommitTable
    <2> QED BY <1>1, <1>2, <2>1
  <1>4. \A i \in Items' \ Items : i > lastId
    <2>1. Items' \subseteq Items \cup (lastId + 1)..lastId' BY CommitTable
    <2> QED BY <1>1, <1>2, <2>1
  <1>5. ASSUME NEW i \in Items'
        PROVE  /\ item'[i] \in Row /\ item'[i].parent < i
               /\ item'[i].source # "Manual" => item'[i].parent = 0
    <2>1. CASE i \in Items
      <3>1. /\ item'[i] \in Row /\ item'[i].source = item[i].source
            /\ item'[i].parent = item[i].parent
            BY <2>1, CommitRow
      <3> QED BY <2>1, <3>1 DEF TableInv
    <2>2. CASE i \notin Items
      <3>1. PICK row : row = item'[i] OBVIOUS
      <3>2. row \in q.inserts BY <2>2, <3>1, CommitTable
      <3>3. row \in Row /\ row.source # "Manual" /\ row.parent = 0 BY <3>2 DEF IsRequest
      <3>4. 0 < i BY <1>1, <1>3, <1>2
      <3> QED BY <3>1, <3>3, <3>4
    <2> QED BY <2>1, <2>2
  <1>6. \A i \in Items' \cap Items : item'[i].source = item[i].source /\ item'[i].ref = item[i].ref
        BY CommitRow
  <1>7. \A i \in Items \ Items' : item[i].source # "Requirement"
        BY CommitDeletes DEF TableInv
  <1> QED BY <1>1, <1>2, <1>3, <1>4, <1>5, <1>6, <1>7 DEF TableInv, Grown

\* The other requests in flight learn that rows changed.
LEMMA CommitKeepsRequests ==
    ASSUME SInv, NEW w \in Workers, NEW q, q = req[w], IsRequest(q), Pending(item, lastId, q), Commit(w)
    PROVE  /\ DOMAIN req' = Workers
           /\ \A v \in Workers : req'[v] = Idle \/ (IsRequest(req'[v]) /\ Pending(item', lastId', req'[v]))
           /\ raced' = raced \cup (q.stale \cap DOMAIN q.writes)
  <1>1. TableInv /\ TableInv' /\ Grown BY CommitKeepsTable DEF SInv
  <1>2. DOMAIN req' = Workers BY DEF Commit
  <1>3. ASSUME NEW v \in Workers, req'[v] # Idle
        PROVE  IsRequest(req'[v]) /\ Pending(item', lastId', req'[v])
    <2>1. v # w /\ req[v] # Idle
          BY <1>3 DEF Commit
    <2>2. req'[v] = [req[v] EXCEPT !.stale = @ \cup Changed]
          BY <2>1 DEF Commit, Changed, Items
    <2> PICK p, next : p = req[v] /\ next = req'[v] OBVIOUS
    <2>3. IsRequest(p) /\ Pending(item, lastId, p) BY <2>1 DEF SInv
    <2>4. next = [p EXCEPT !.stale = p.stale \cup Changed] BY <2>2
    <2>5. DOMAIN p = Fields /\ p.stale \subseteq Ids BY <2>3 DEF IsRequest
    <2>6. Changed \subseteq Ids BY <1>1, ItemsAreIds DEF Changed
    <2>7. /\ DOMAIN next = Fields /\ next.stale = p.stale \cup Changed
          /\ \A f \in Fields \ {"stale"} : next[f] = p[f]
          BY <2>4, <2>5 DEF Fields
    <2>8. IsRequest(next) /\ Pending(item', lastId', next) BY <1>1, <2>3, <2>5, <2>6, <2>7, StaysPending
    <2> QED BY <2>8
  <1>4. raced' = raced \cup (q.stale \cap DOMAIN q.writes) BY DEF Commit
  <1> QED BY <1>2, <1>3, <1>4

-----------------------------------------------------------------------------
(* What the commits of each kind leave true                                 *)

\* Commits that neither evaluate nor disposition leave the dispositions alone.
LEMMA SyncedKeepsLost ==
    ASSUME SInv, NEW w \in Workers, NEW q, q = req[w], IsRequest(q), Pending(item, lastId, q),
           Commit(w), q.op \in {"sync", "ingest"}, UNCHANGED lost
    PROVE  LostCoverIsUnexplained' /\ lost' \subseteq 1..lastId'
  <1>1. TableInv /\ Grown BY CommitKeepsTable DEF SInv
  <1>2. raced \subseteq raced' BY CommitKeepsRequests
  <1>3. lost' \subseteq 1..lastId' BY <1>1 DEF SInv, HistoryInv, Grown
  <1>4. ASSUME NEW i \in (lost' \cap Items') \ raced' PROVE item'[i].disposition = "Unexplained"
    <2>1. i \in (lost \cap Items) \ raced BY <1>1, <1>2 DEF SInv, HistoryInv, Grown
    <2>2. item[i].disposition = "Unexplained" BY <2>1 DEF SInv, LostCoverIsUnexplained
    <2> QED BY <1>1, <2>1, <2>2, CommitRow
  <1> QED BY <1>3, <1>4 DEF LostCoverIsUnexplained

LEMMA DispositionKeepsLost ==
    ASSUME SInv, NEW w \in Workers, NEW q, q = req[w], IsRequest(q), Pending(item, lastId, q),
           Commit(w), lost' = lost \ DOMAIN q.writes
    PROVE  LostCoverIsUnexplained' /\ lost' \subseteq 1..lastId'
  <1>1. TableInv /\ Grown BY CommitKeepsTable DEF SInv
  <1>2. raced \subseteq raced' BY CommitKeepsRequests
  <1>3. lost' \subseteq 1..lastId'
    <2>1. lost \subseteq 1..lastId BY DEF SInv, HistoryInv
    <2>2. 1..lastId \subseteq 1..lastId' BY <1>1 DEF Grown
    <2> QED BY <2>1, <2>2
  <1>4. ASSUME NEW i \in (lost' \cap Items') \ raced' PROVE item'[i].disposition = "Unexplained"
    <2>1. i \in (lost \cap Items) \ raced /\ i \notin DOMAIN q.writes
          BY <1>1, <1>2 DEF SInv, HistoryInv, Grown
    <2>2. item[i].disposition = "Unexplained" BY <2>1 DEF SInv, LostCoverIsUnexplained
    <2> QED BY <1>1, <2>1, <2>2, CommitRow
  <1> QED BY <1>3, <1>4 DEF LostCoverIsUnexplained

\* What an evaluation makes of a row nobody changed under it.
LEMMA EvaluatedRow ==
    ASSUME NEW r \in Row, NEW match \in {"Missing", "Possible Match", "Covered"}
    PROVE  /\ Evaluated(r, match) \in Row
           /\ Evaluated(r, match).coverage = match
           /\ \A c \in Columns \ {"coverage", "disposition"} : Evaluated(r, match)[c] = r[c]
           /\ match # "Covered" =>
                 Evaluated(r, match).disposition =
                    IF r.coverage = "Covered" THEN "Unexplained" ELSE r.disposition
  BY DEF Evaluated, Row, Columns, Dispositions

\* An item without a race is left as evaluated, or as it was.
LEMMA CommittedEvaluation ==
    ASSUME TableInv, NEW w \in Workers, NEW q, q = req[w], IsRequest(q), Pending(item, lastId, q),
           Commit(w), q.op = "evaluate", NEW i \in Items' \cap Items
    PROVE  \/ i \in raced'
           \/ item'[i] = item[i]
           \/ \E match \in {"Missing", "Possible Match", "Covered"} :
                 item'[i] = Evaluated(item[i], match)
  <1>1. item'[i] = IF i \in DOMAIN q.writes THEN Written(item[i], q.writes[i]) ELSE item[i]
        BY CommitTable
  <1>2. CASE i \notin DOMAIN q.writes BY <1>1, <1>2
  <1>3. CASE i \in DOMAIN q.writes /\ i \in q.stale BY <1>3 DEF Commit
  <1>4. CASE i \in DOMAIN q.writes /\ i \notin q.stale BY <1>1, <1>4 DEF Pending, Items
  <1> QED BY <1>2, <1>3, <1>4

LEMMA EvaluateKeepsLost ==
    ASSUME SInv, NEW w \in Workers, NEW q, q = req[w], IsRequest(q), Pending(item, lastId, q),
           CommitEvaluate(w)
    PROVE  LostCoverIsUnexplained' /\ lost' \subseteq 1..lastId'
  <1>1. Commit(w) /\ q.op = "evaluate" BY DEF CommitEvaluate
  <1>2. TableInv /\ TableInv' /\ Grown BY <1>1, CommitKeepsTable DEF SInv
  <1>3. raced \subseteq raced' BY <1>1, CommitKeepsRequests
  <1>4. \A i \in lost' :
           /\ i \in Items' /\ item'[i].coverage # "Covered"
           /\ i \in lost \/ item[i].coverage = "Covered"
        BY DEF CommitEvaluate, Items
  <1>5. Items' \subseteq Items
        BY <1>1, <1>2, CommitTable DEF IsRequest
  <1>6. lost' \subseteq 1..lastId' BY <1>2, <1>4 DEF TableInv
  <1>7. ASSUME NEW i \in (lost' \cap Items') \ raced' PROVE item'[i].disposition = "Unexplained"
    <2>1. i \in Items' \cap Items /\ item[i] \in Row /\ i \notin raced
          BY <1>2, <1>3, <1>5 DEF TableInv
    <2>2. i \in lost => item[i].disposition = "Unexplained"
          BY <2>1 DEF SInv, LostCoverIsUnexplained
    <2>3. CASE item'[i] = item[i] BY <1>4, <2>2, <2>3
    <2>4. CASE \E match \in {"Missing", "Possible Match", "Covered"} :
                  item'[i] = Evaluated(item[i], match)
      <3>1. PICK match \in {"Missing", "Possible Match", "Covered"} :
                  item'[i] = Evaluated(item[i], match)
            BY <2>4
      <3> PICK r : r = item[i] OBVIOUS
      <3>2. /\ Evaluated(r, match).coverage = match
            /\ match # "Covered" =>
                  Evaluated(r, match).disposition =
                     IF r.coverage = "Covered" THEN "Unexplained" ELSE r.disposition
            BY <2>1, EvaluatedRow
      <3>3. match # "Covered" /\ (i \in lost \/ r.coverage = "Covered") BY <1>4, <3>1, <3>2
      <3> QED BY <2>2, <3>1, <3>2, <3>3
    <2> QED BY <1>1, <1>2, <2>1, <2>3, <2>4, CommittedEvaluation
  <1> QED BY <1>6, <1>7 DEF LostCoverIsUnexplained

\* Of an item of a requirement only a sync changes what the requirement says.
LEMMA OthersKeepList ==
    ASSUME SInv, NEW w \in Workers, NEW q, q = req[w], IsRequest(q), Pending(item, lastId, q),
           Commit(w), q.op # "sync"
    PROVE  LastSyncIsListed'
  <1>1. TableInv /\ Grown BY CommitKeepsTable DEF SInv
  <1>2. raced \subseteq raced' BY CommitKeepsRequests
  <1>3. demanded' = demanded BY DEF Commit
  <1>4. ASSUME NEW r \in DOMAIN demanded, NEW i \in ItemsOf(r)
        PROVE  /\ i \in ItemsOf(r)'
               /\ item'[i].name = item[i].name /\ item'[i].mandatory = item[i].mandatory
    <2>1. i \in Items /\ item[i].source = "Requirement" /\ item[i].ref = r BY DEF ItemsOf
    <2>2. i \in Items' \cap Items BY <1>1, <2>1 DEF Grown
    <2>3. item'[i].name = item[i].name /\ item'[i].source = item[i].source /\ item'[i].ref = item[i].ref
          BY <1>1, <2>2, CommitRow
    <2>4. CASE q.op = "ingest"
      <3>1. i \notin DOMAIN q.writes BY <2>1, <2>4 DEF Pending, Items
      <3> QED BY <1>1, <2>1, <2>2, <2>3, <3>1, CommitRow DEF ItemsOf
    <2>5. CASE q.op \in {"evaluate", "disposition"}
      <3>1. item'[i].mandatory = item[i].mandatory BY <1>1, <2>2, <2>5, CommitRow
      <3> QED BY <2>1, <2>2, <2>3, <3>1 DEF ItemsOf
    <2> QED BY <2>4, <2>5 DEF IsRequest, Ops
  <1>5. ASSUME NEW r \in DOMAIN demanded
        PROVE  \E i \in ItemsOf(r)' :
                  i \in raced' \/ (item'[i].name = demanded[r].name
                                   /\ item'[i].mandatory = demanded[r].mandatory)
    <2>1. PICK i \in ItemsOf(r) :
             i \in raced \/ (item[i].name = demanded[r].name
                             /\ item[i].mandatory = demanded[r].mandatory)
          BY DEF SInv, LastSyncIsListed
    <2> QED BY <1>2, <1>4, <2>1
  <1> QED BY <1>3, <1>5 DEF LastSyncIsListed

LEMMA SyncLists ==
    ASSUME SInv, NEW w \in Workers, NEW q, q = req[w], IsRequest(q), Pending(item, lastId, q),
           Commit(w), q.op = "sync"
    PROVE  LastSyncIsListed'
  <1>1. TableInv /\ Grown BY CommitKeepsTable DEF SInv
  <1>2. raced' = raced \cup (q.stale \cap DOMAIN q.writes) BY CommitKeepsRequests
  <1>3. demanded' = q.demands BY DEF Commit
  <1>4. ASSUME NEW r \in DOMAIN q.demands
        PROVE  \E i \in ItemsOf(r)' :
                  i \in raced' \/ (item'[i].name = q.demands[r].name
                                   /\ item'[i].mandatory = q.demands[r].mandatory)
    <2>1. WillList(item, q, r) BY DEF Pending
    <2>2. ASSUME NEW row \in q.inserts, row.source = "Requirement", row.ref = r,
                 row.name = q.demands[r].name, row.mandatory = q.demands[r].mandatory
          PROVE  \E i \in ItemsOf(r)' :
                    item'[i].name = q.demands[r].name /\ item'[i].mandatory = q.demands[r].mandatory
      <3>1. PICK i \in Items' \ Items : item'[i] = row BY <1>1, CommitTable
      <3> QED BY <2>2, <3>1 DEF ItemsOf
    <2>3. ASSUME NEW i \in Items \cap DOMAIN q.writes,
                 item[i].source = "Requirement", item[i].ref = r,
                 \/ i \in q.stale
                 \/ /\ Written(item[i], q.writes[i]).name = q.demands[r].name
                    /\ Written(item[i], q.writes[i]).mandatory = q.demands[r].mandatory
          PROVE  /\ i \in ItemsOf(r)'
                 /\ i \in raced' \/ (item'[i].name = q.demands[r].name
                                     /\ item'[i].mandatory = q.demands[r].mandatory)
      <3>1. i \in Items' /\ item'[i].source = "Requirement" /\ item'[i].ref = r
            BY <1>1, <2>3 DEF Grown
      <3>2. item'[i] = Written(item[i], q.writes[i]) BY <1>1, <3>1, CommitTable
      <3> QED BY <1>2, <2>3, <3>1, <3>2 DEF ItemsOf
    <2> QED BY <2>1, <2>2, <2>3 DEF WillList, Items
  <1> QED BY <1>3, <1>4 DEF LastSyncIsListed

-----------------------------------------------------------------------------
(* Requests begin                                                           *)

\* What a request that makes of each loaded row i the row new[i] will commit.
Loaded(op, new, inserts, deletes, demands) ==
    [op |-> op, inserts |-> inserts, deletes |-> deletes, demands |-> demands, stale |-> {},
     writes |-> [i \in DOMAIN new |-> Changes(item[i], new[i])]]

LEMMA BeginStep ==
    ASSUME SInv, NEW w \in Workers, NEW op, NEW new, NEW inserts, NEW deletes, NEW demands,
           Begin(w, op, new, inserts, deletes, demands),
           IsRequest(Loaded(op, new, inserts, deletes, demands)),
           Pending(item, lastId, Loaded(op, new, inserts, deletes, demands))
    PROVE  SInv'
  <1> PICK q : q = Loaded(op, new, inserts, deletes, demands) OBVIOUS
  <1>1. req' = [req EXCEPT ![w] = q] /\ UNCHANGED <<item, lastId, demanded, lost, raced>>
        BY DEF Begin, Loaded
  <1>2. TableInv' /\ HistoryInv' BY <1>1 DEF SInv, TableInv, HistoryInv, Items
  <1>3. LostCoverIsUnexplained' /\ LastSyncIsListed'
        BY <1>1 DEF SInv, LostCoverIsUnexplained, LastSyncIsListed, ItemsOf, Items
  <1>4. DOMAIN req' = Workers BY <1>1 DEF SInv
  <1>5. \A v \in Workers : req'[v] = IF v = w THEN q ELSE req[v] BY <1>1 DEF SInv
  <1>6. \A v \in Workers :
           req'[v] = Idle \/ (IsRequest(req'[v]) /\ Pending(item', lastId', req'[v]))
    <2> TAKE v \in Workers
    <2>1. CASE v = w BY <1>1, <1>5, <2>1
    <2>2. CASE v # w BY <1>1, <1>5, <2>2 DEF SInv
    <2> QED BY <2>1, <2>2
  <1> QED BY <1>2, <1>3, <1>4, <1>6 DEF SInv

\* A handler that changes columns of its kind writes columns of its kind.
LEMMA ChangesTyped ==
    ASSUME NEW old \in Row, NEW new \in Row, NEW op,
           \A c \in Columns \ Writable(op) : new[c] = old[c],
           new.coverage # "Not Checked" \/ new.coverage = old.coverage
    PROVE  Typed(op, Changes(old, new))
  <1> PICK columns : columns = Changes(old, new) OBVIOUS
  <1>1. DOMAIN old = Columns BY DEF Row, Columns
  <1>2. DOMAIN columns = {c \in Columns : old[c] # new[c]}
        /\ \A c \in DOMAIN columns : columns[c] = new[c]
        BY <1>1 DEF Changes
  <1>3. DOMAIN columns \subseteq Writable(op) BY <1>2
  <1>4. /\ new.name \in Names /\ new.mandatory \in BOOLEAN /\ new.disposition \in Dispositions
        /\ new.coverage \in {"Not Checked", "Missing", "Possible Match", "Covered"}
        BY RowColumns
  <1>5. "coverage" \in DOMAIN columns => new.coverage # "Not Checked" BY <1>2
  <1> QED BY <1>2, <1>3, <1>4, <1>5 DEF Typed

LEMMA NewRowRow ==
    ASSUME NEW source \in {"BOQ", "Requirement", "Manual", "Knowledge"},
           NEW ref \in Requirements \cup References \cup ProjectTypes \cup {Nobody},
           NEW n \in Names, NEW parent \in Ids \cup {0}, NEW mandatory \in BOOLEAN
    PROVE  /\ NewRow(source, ref, n, parent, mandatory) \in Row
           /\ NewRow(source, ref, n, parent, mandatory).source = source
           /\ NewRow(source, ref, n, parent, mandatory).ref = ref
           /\ NewRow(source, ref, n, parent, mandatory).name = n
           /\ NewRow(source, ref, n, parent, mandatory).parent = parent
           /\ NewRow(source, ref, n, parent, mandatory).mandatory = mandatory
  BY DEF NewRow, Row, Dispositions

LEMMA NoDemands == <<>> \in Demands
  <1> DEFINE none == [r \in {} |-> 0]
  <1>1. none \in [{} -> [name : Names, mandatory : BOOLEAN]] OBVIOUS
  <1>2. <<>> = none OBVIOUS
  <1> QED BY <1>1, <1>2 DEF Demands

LEMMA IngestStep ==
    ASSUME SInv, NEW w \in Workers, NEW b \in References, NEW n \in Names,
           NEW mandatory \in BOOLEAN, BeginIngest(w, b, n, mandatory)
    PROVE  SInv'
  <1>1. CASE Begin(w, "ingest", <<>>, {NewRow("BOQ", b, n, 0, mandatory)}, {}, <<>>)
    <2> PICK row : row = NewRow("BOQ", b, n, 0, mandatory) OBVIOUS
    <2> PICK q : q = Loaded("ingest", <<>>, {row}, {}, <<>>) OBVIOUS
    <2>0. /\ DOMAIN q = Fields /\ q.op = "ingest" /\ q.inserts = {row} /\ q.deletes = {}
          /\ q.demands = <<>> /\ q.stale = {} /\ DOMAIN q.writes = {}
          BY DEF Loaded, Fields
    <2>1. row \in Row /\ row.source = "BOQ" /\ row.parent = 0 BY NewRowRow
    <2>2. IsFiniteSet({row}) BY FS_Singleton
    <2>4. IsRequest(q) BY <2>0, <2>1, <2>2, NoDemands DEF IsRequest, Ops
    <2>5. Pending(item, lastId, q) BY <2>0 DEF Pending
    <2> QED BY <1>1, <2>4, <2>5, BeginStep
  <1>2. ASSUME NEW i \in LinesOf(b, n),
               Begin(w, "ingest", [j \in {i} |-> [item[j] EXCEPT !.mandatory = mandatory]], {}, {}, <<>>)
        PROVE  SInv'
    <2> PICK old, new : old = item[i] /\ new = [old EXCEPT !.mandatory = mandatory] OBVIOUS
    <2> PICK N : N = [j \in {i} |-> [item[j] EXCEPT !.mandatory = mandatory]] OBVIOUS
    <2> PICK q : q = Loaded("ingest", N, {}, {}, <<>>) OBVIOUS
    <2>0. /\ DOMAIN q = Fields /\ q.op = "ingest" /\ q.inserts = {} /\ q.deletes = {}
          /\ q.demands = <<>> /\ q.stale = {} /\ DOMAIN q.writes = DOMAIN N
          /\ \A j \in DOMAIN N : q.writes[j] = Changes(item[j], N[j])
          BY DEF Loaded, Fields
    <2>1. i \in Items /\ old.source = "BOQ" /\ old \in Row /\ i \in 1..lastId
          BY DEF LinesOf, SInv, TableInv
    <2>2. new \in Row /\ \A c \in Columns \ {"mandatory"} : new[c] = old[c]
          BY <2>1 DEF Row, Columns
    <2>3. "mandatory" \in Writable("ingest") BY DEF Writable
    <2>4. \A c \in Columns \ Writable("ingest") : new[c] = old[c] BY <2>2, <2>3
    <2>5. new.coverage = old.coverage BY <2>2 DEF Columns
    <2>6. Typed("ingest", Changes(old, new)) BY <2>1, <2>2, <2>4, <2>5, ChangesTyped
    <2>7. DOMAIN q.writes = {i} /\ q.writes[i] = Changes(old, new) BY <2>0
    <2>8. IsRequest(q) BY <2>0, <2>6, <2>7, NoDemands, FS_EmptySet DEF IsRequest, Ops
    <2>9. Pending(item, lastId, q) BY <2>0, <2>1, <2>7 DEF Pending, Items
    <2>10. Begin(w, "ingest", N, {}, {}, <<>>) BY <1>2
    <2> QED BY <2>8, <2>9, <2>10, BeginStep
  <1> QED BY <1>1, <1>2 DEF BeginIngest

LEMMA DispositionStep ==
    ASSUME SInv, NEW w \in Workers, NEW i \in Items, NEW d \in Dispositions,
           BeginDisposition(w, i, d)
    PROVE  SInv'
  <1> PICK old, new : old = item[i] /\ new = [old EXCEPT !.disposition = d] OBVIOUS
  <1> PICK N : N = [j \in {i} |-> [item[j] EXCEPT !.disposition = d]] OBVIOUS
  <1> PICK q : q = Loaded("disposition", N, {}, {}, <<>>) OBVIOUS
  <1>0. /\ DOMAIN q = Fields /\ q.op = "disposition" /\ q.inserts = {} /\ q.deletes = {}
        /\ q.demands = <<>> /\ q.stale = {} /\ DOMAIN q.writes = DOMAIN N
        /\ \A j \in DOMAIN N : q.writes[j] = Changes(item[j], N[j])
        BY DEF Loaded, Fields
  <1>1. old \in Row /\ i \in 1..lastId BY DEF SInv, TableInv
  <1>2. new \in Row /\ \A c \in Columns \ {"disposition"} : new[c] = old[c]
        BY <1>1 DEF Row, Columns
  <1>3. "disposition" \in Writable("disposition") BY DEF Writable
  <1>4. \A c \in Columns \ Writable("disposition") : new[c] = old[c] BY <1>2, <1>3
  <1>5. new.coverage = old.coverage BY <1>2 DEF Columns
  <1>6. Typed("disposition", Changes(old, new)) BY <1>1, <1>2, <1>4, <1>5, ChangesTyped
  <1>7. DOMAIN q.writes = {i} /\ q.writes[i] = Changes(old, new) BY <1>0
  <1>8. IsRequest(q) BY <1>0, <1>6, <1>7, NoDemands, FS_EmptySet DEF IsRequest, Ops
  <1>9. Pending(item, lastId, q) BY <1>0, <1>1, <1>7 DEF Pending
  <1>10. Begin(w, "disposition", N, {}, {}, <<>>) BY DEF BeginDisposition
  <1> QED BY <1>8, <1>9, <1>10, BeginStep

LEMMA EvaluateStep ==
    ASSUME SInv, NEW w \in Workers,
           NEW matches \in [Items -> {"Missing", "Possible Match", "Covered"}],
           BeginEvaluate(w, matches)
    PROVE  SInv'
  <1> PICK N : N = [i \in Items |-> Evaluated(item[i], matches[i])] OBVIOUS
  <1> PICK q : q = Loaded("evaluate", N, {}, {}, <<>>) OBVIOUS
  <1>0. /\ DOMAIN q = Fields /\ q.op = "evaluate" /\ q.inserts = {} /\ q.deletes = {}
        /\ q.demands = <<>> /\ q.stale = {} /\ DOMAIN q.writes = DOMAIN N
        /\ \A j \in DOMAIN N : q.writes[j] = Changes(item[j], N[j])
        BY DEF Loaded, Fields
  <1>1. DOMAIN q.writes = Items /\ Items \subseteq 1..lastId BY <1>0 DEF SInv, TableInv
  <1>2. ASSUME NEW i \in Items
        PROVE  /\ Typed("evaluate", q.writes[i])
               /\ Written(item[i], q.writes[i]) = Evaluated(item[i], matches[i])
    <2> PICK old, match : old = item[i] /\ match = matches[i] OBVIOUS
    <2> PICK new : new = Evaluated(old, match) OBVIOUS
    <2>1. old \in Row /\ match \in {"Missing", "Possible Match", "Covered"} BY DEF SInv, TableInv
    <2>2. /\ new \in Row /\ new.coverage = match
          /\ \A c \in Columns \ {"coverage", "disposition"} : new[c] = old[c]
          BY <2>1, EvaluatedRow
    <2>3. "coverage" \in Writable("evaluate") /\ "disposition" \in Writable("evaluate")
          BY DEF Writable
    <2>4. \A c \in Columns \ Writable("evaluate") : new[c] = old[c] BY <2>2, <2>3
    <2>5. Typed("evaluate", Changes(old, new)) BY <2>1, <2>2, <2>4, ChangesTyped
    <2>6. old \in Row /\ new \in Row BY <2>1, <2>2
    <2>7. Written(old, Changes(old, new)) = new BY <2>6, WrittenOver
    <2>8. q.writes[i] = Changes(old, new) BY <1>0
    <2> QED BY <2>5, <2>7, <2>8
  <1>3. \A i \in Items : matches[i] \in {"Missing", "Possible Match", "Covered"} OBVIOUS
  <1>4. IsRequest(q) BY <1>0, <1>1, <1>2, NoDemands, FS_EmptySet DEF IsRequest, Ops
  <1>5. Pending(item, lastId, q) BY <1>0, <1>1, <1>2, <1>3 DEF Pending, Items
  <1>6. Begin(w, "evaluate", N, {}, {}, <<>>) BY DEF BeginEvaluate
  <1> QED BY <1>4, <1>5, <1>6, BeginStep

LEMMA ImageIsFinite ==
    ASSUME NEW S, IsFiniteSet(S), NEW f, DOMAIN f = S
    PROVE  IsFiniteSet({f[x] : x \in S})
  <1> DEFINE T == {f[x] : x \in S}
  <1>1. PICK g : g = [x \in S |-> f[x]] OBVIOUS
  <1>2. g \in [S -> T] /\ \A t \in T : \E x \in S : g[x] = t BY <1>1
  <1>3. g \in Surjection(S, T) BY <1>2 DEF Surjection
  <1> QED BY <1>3, FS_Surjection

LEMMA DemandsAre ==
    ASSUME NEW demands \in Demands
    PROVE  /\ DOMAIN demands \subseteq Requirements
           /\ \A r \in DOMAIN demands :
                 demands[r].name \in Names /\ demands[r].mandatory \in BOOLEAN
  <1>1. PICK R \in SUBSET Requirements : demands \in [R -> [name : Names, mandatory : BOOLEAN]]
        BY DEF Demands
  <1>2. DOMAIN demands = R /\ \A r \in R : demands[r] \in [name : Names, mandatory : BOOLEAN]
        BY <1>1
  <1> QED BY <1>2

\* The rows a sync adds.
Added(listed, known, type, suggested, demands) ==
    {NewRow("Requirement", r, demands[r].name, 0, demands[r].mandatory) :
        r \in DOMAIN demands \ listed}
    \cup {NewRow("Knowledge", type, n, 0, FALSE) : n \in suggested \ known}

RequirementRow(r, n, m) == NewRow("Requirement", r, n, 0, m)
KnowledgeRow(t, n) == NewRow("Knowledge", t, n, 0, FALSE)

LEMMA AddedRow ==
    /\ \A r \in Requirements, n \in Names, m \in BOOLEAN :
          /\ RequirementRow(r, n, m) \in Row /\ RequirementRow(r, n, m).parent = 0
          /\ RequirementRow(r, n, m).source = "Requirement" /\ RequirementRow(r, n, m).ref = r
          /\ RequirementRow(r, n, m).name = n /\ RequirementRow(r, n, m).mandatory = m
    /\ \A t \in ProjectTypes, n \in Names :
          /\ KnowledgeRow(t, n) \in Row /\ KnowledgeRow(t, n).parent = 0
          /\ KnowledgeRow(t, n).source = "Knowledge"
  <1>1. ASSUME NEW r \in Requirements, NEW n \in Names, NEW m \in BOOLEAN
        PROVE  /\ RequirementRow(r, n, m) \in Row /\ RequirementRow(r, n, m).parent = 0
               /\ RequirementRow(r, n, m).source = "Requirement" /\ RequirementRow(r, n, m).ref = r
               /\ RequirementRow(r, n, m).name = n /\ RequirementRow(r, n, m).mandatory = m
        BY DEF RequirementRow, NewRow, Row, Dispositions
  <1>2. ASSUME NEW t \in ProjectTypes, NEW n \in Names
        PROVE  /\ KnowledgeRow(t, n) \in Row /\ KnowledgeRow(t, n).parent = 0
               /\ KnowledgeRow(t, n).source = "Knowledge"
        BY DEF KnowledgeRow, NewRow, Row, Dispositions
  <1> QED BY <1>1, <1>2

LEMMA AddedRows ==
    ASSUME NEW listed, NEW known, NEW type \in ProjectTypes, NEW suggested \in SUBSET Names,
           NEW demands \in Demands
    PROVE  /\ IsFiniteSet(Added(listed, known, type, suggested, demands))
           /\ \A row \in Added(listed, known, type, suggested, demands) :
                 row \in Row /\ row.source # "Manual" /\ row.parent = 0
           /\ \A r \in DOMAIN demands \ listed :
                 \E row \in Added(listed, known, type, suggested, demands) :
                    /\ row.source = "Requirement" /\ row.ref = r
                    /\ row.name = demands[r].name /\ row.mandatory = demands[r].mandatory
  <1> DEFINE R == DOMAIN demands \ listed
             L == suggested \ known
  <1>1. PICK f, g :
          /\ f = [r \in R |-> NewRow("Requirement", r, demands[r].name, 0, demands[r].mandatory)]
          /\ g = [n \in L |-> NewRow("Knowledge", type, n, 0, FALSE)]
        OBVIOUS
  <1>2. Added(listed, known, type, suggested, demands) = {f[r] : r \in R} \cup {g[n] : n \in L}
        BY <1>1 DEF Added
  <1>3. IsFiniteSet(R) /\ IsFiniteSet(L)
    <2>1. R \subseteq Requirements /\ L \subseteq Names BY DemandsAre
    <2> QED BY <2>1, FiniteAssumption, FS_Subset
  <1>4. DOMAIN f = R /\ DOMAIN g = L BY <1>1
  <1>5. IsFiniteSet({f[r] : r \in R}) /\ IsFiniteSet({g[n] : n \in L})
        BY <1>3, <1>4, ImageIsFinite
  <1>6. ASSUME NEW r \in R
        PROVE  /\ f[r] \in Row /\ f[r].parent = 0 /\ f[r].source = "Requirement" /\ f[r].ref = r
               /\ f[r].name = demands[r].name /\ f[r].mandatory = demands[r].mandatory
    <2>1. r \in Requirements /\ demands[r].name \in Names /\ demands[r].mandatory \in BOOLEAN
          BY DemandsAre
    <2>2. f[r] = NewRow("Requirement", r, demands[r].name, 0, demands[r].mandatory) BY <1>1
    <2>3. f[r] = RequirementRow(r, demands[r].name, demands[r].mandatory)
          BY <2>2 DEF RequirementRow
    <2> QED BY <2>1, <2>3, AddedRow
  <1>7. ASSUME NEW n \in L PROVE g[n] \in Row /\ g[n].parent = 0 /\ g[n].source = "Knowledge"
    <2>1. g[n] = KnowledgeRow(type, n) /\ n \in Names BY <1>1 DEF KnowledgeRow
    <2> QED BY <2>1, AddedRow
  <1>8. IsFiniteSet(Added(listed, known, type, suggested, demands)) BY <1>2, <1>5, FS_Union
  <1> QED BY <1>2, <1>6, <1>7, <1>8

\* A sync leaves a row with what the requirement says.
LEMMA SyncedRow ==
    ASSUME NEW old \in Row, NEW d, d.name \in Names, d.mandatory \in BOOLEAN
    PROVE  /\ Typed("sync", Changes(old, Synced(old, d)))
           /\ Written(old, Changes(old, Synced(old, d))).name = d.name
           /\ Written(old, Changes(old, Synced(old, d))).mandatory = d.mandatory
  <1> PICK new : new = Synced(old, d) OBVIOUS
  <1>1. /\ new \in Row /\ new.name = d.name /\ new.mandatory = d.mandatory
        /\ \A c \in Columns \ {"name", "mandatory"} : new[c] = old[c]
        BY DEF Synced, Row, Columns
  <1>2. "name" \in Writable("sync") /\ "mandatory" \in Writable("sync") BY DEF Writable
  <1>3. \A c \in Columns \ Writable("sync") : new[c] = old[c] BY <1>1, <1>2
  <1>4. new.coverage = old.coverage BY <1>1 DEF Columns
  <1>5. Typed("sync", Changes(old, new)) BY <1>1, <1>3, <1>4, ChangesTyped
  <1>6. Written(old, Changes(old, new)) = new BY <1>1, WrittenOver
  <1> QED BY <1>1, <1>5, <1>6

LEMMA SyncStep ==
    ASSUME SInv, NEW w \in Workers, NEW type \in ProjectTypes, NEW suggested \in SUBSET Names,
           NEW demands \in Demands, BeginSync(w, type, suggested, demands)
    PROVE  SInv'
  <1>1. PICK listed, known, added :
          /\ listed = {r \in DOMAIN demands : ItemsOf(r) # {}}
          /\ known = {item[i].name : i \in {j \in Items :
                                     item[j].source = "Knowledge" /\ item[j].ref = type}}
          /\ added = Added(listed, known, type, suggested, demands)
        OBVIOUS
  <1>2. PICK last \in [listed -> Items] :
          /\ \A r \in listed : last[r] \in ItemsOf(r)
          /\ Begin(w, "sync",
                   [i \in {last[r] : r \in listed} |-> Synced(item[i], demands[item[i].ref])],
                   added, Stale(suggested), demands)
        BY <1>1 DEF BeginSync, Added
  <1>3. PICK N : N = [i \in {last[r] : r \in listed} |-> Synced(item[i], demands[item[i].ref])]
        OBVIOUS
  <1>4. PICK q : q = Loaded("sync", N, added, Stale(suggested), demands) OBVIOUS
  <1>5. Begin(w, "sync", N, added, Stale(suggested), demands) BY <1>2, <1>3
  <1>6. /\ DOMAIN q = Fields /\ q.op = "sync" /\ q.inserts = added
        /\ q.deletes = Stale(suggested) /\ q.demands = demands /\ q.stale = {}
        /\ DOMAIN q.writes = DOMAIN N
        /\ \A j \in DOMAIN N : q.writes[j] = Changes(item[j], N[j])
        BY <1>4 DEF Loaded, Fields
  <1>7. /\ IsFiniteSet(added)
        /\ \A row \in added : row \in Row /\ row.source # "Manual" /\ row.parent = 0
        /\ \A r \in DOMAIN demands \ listed :
              \E row \in added :
                 /\ row.source = "Requirement" /\ row.ref = r
                 /\ row.name = demands[r].name /\ row.mandatory = demands[r].mandatory
    <2>1. added = Added(listed, known, type, suggested, demands) BY <1>1
    <2> QED BY <2>1, AddedRows
  <1>8. Items \subseteq Ids /\ Items \subseteq 1..lastId BY ItemsAreIds DEF SInv, TableInv
  <1>9. Stale(suggested) \subseteq Items /\ \A i \in Stale(suggested) : item[i].source = "Knowledge"
        BY DEF Stale
  <1>10. DOMAIN N = {last[r] : r \in listed} BY <1>3
  <1>11. ASSUME NEW r \in listed
         PROVE  /\ last[r] \in Items /\ last[r] \in DOMAIN N
                /\ item[last[r]].source = "Requirement" /\ item[last[r]].ref = r
                /\ Typed("sync", q.writes[last[r]])
                /\ Written(item[last[r]], q.writes[last[r]]).name = demands[r].name
                /\ Written(item[last[r]], q.writes[last[r]]).mandatory = demands[r].mandatory
    <2>1. PICK i : i = last[r] OBVIOUS
    <2>2. i \in Items /\ item[i].source = "Requirement" /\ item[i].ref = r
          BY <1>2, <2>1 DEF ItemsOf
    <2>3. i \in DOMAIN N BY <1>10, <2>1
    <2>4. N[i] = Synced(item[i], demands[r]) BY <1>3, <1>10, <2>2, <2>3
    <2>5. PICK old, d : old = item[i] /\ d = demands[r] OBVIOUS
    <2>6. old \in Row BY <2>2, <2>5 DEF SInv, TableInv
    <2>7. r \in DOMAIN demands BY <1>1
    <2>8. d.name \in Names /\ d.mandatory \in BOOLEAN BY <2>5, <2>7, DemandsAre
    <2>9. q.writes[i] = Changes(old, Synced(old, d)) BY <1>6, <2>3, <2>4, <2>5
    <2>10. /\ Typed("sync", q.writes[i])
           /\ Written(old, q.writes[i]).name = d.name
           /\ Written(old, q.writes[i]).mandatory = d.mandatory
           BY <2>6, <2>8, <2>9, SyncedRow
    <2> QED BY <2>1, <2>2, <2>3, <2>5, <2>10
  <1>12. ASSUME NEW i \in DOMAIN q.writes PROVE i \in Items /\ Typed("sync", q.writes[i])
    <2>1. PICK r \in listed : i = last[r] BY <1>6, <1>10
    <2> QED BY <1>11, <2>1
  <1>13. IsRequest(q)
    <2>1. q.op \in Ops /\ q.op # "evaluate" BY <1>6 DEF Ops
    <2>2. q.deletes \subseteq Ids /\ q.stale \subseteq Ids BY <1>6, <1>8, <1>9
    <2>3. \A i \in DOMAIN q.writes : Typed(q.op, q.writes[i]) BY <1>6, <1>12
    <2>4. IsFiniteSet(q.inserts) /\ q.inserts \subseteq Row BY <1>6, <1>7
    <2>5. \A row \in q.inserts : row.source # "Manual" /\ row.parent = 0 BY <1>6, <1>7
    <2>6. DOMAIN q = Fields /\ q.demands \in Demands BY <1>6
    <2> QED BY <2>1, <2>2, <2>3, <2>4, <2>5, <2>6 DEF IsRequest
  <1>14. ASSUME NEW r \in DOMAIN demands PROVE WillList(item, q, r)
    <2>1. CASE r \in listed
      <3>1. PICK i : i = last[r] OBVIOUS
      <3>2. /\ i \in Items \cap DOMAIN q.writes
            /\ item[i].source = "Requirement" /\ item[i].ref = r
            BY <1>6, <1>11, <2>1, <3>1
      <3>3. /\ Written(item[i], q.writes[i]).name = q.demands[r].name
            /\ Written(item[i], q.writes[i]).mandatory = q.demands[r].mandatory
            BY <1>6, <1>11, <2>1, <3>1
      <3> QED BY <3>2, <3>3 DEF WillList, Items
    <2>2. CASE r \notin listed
      <3>1. PICK row \in added :
               /\ row.source = "Requirement" /\ row.ref = r
               /\ row.name = demands[r].name /\ row.mandatory = demands[r].mandatory
            BY <1>7, <2>2
      <3> QED BY <1>6, <3>1 DEF WillList
    <2> QED BY <2>1, <2>2
  <1>15. Pending(item, lastId, q)
    <2>1. q.deletes \subseteq 1..lastId /\ DOMAIN q.writes \subseteq 1..lastId
          BY <1>6, <1>8, <1>9, <1>12
    <2>2. \A i \in q.deletes \cap DOMAIN item : item[i].source = "Knowledge" BY <1>6, <1>9
    <2>3. \A r \in DOMAIN q.demands : WillList(item, q, r) BY <1>6, <1>14
    <2>4. q.op = "sync" BY <1>6
    <2> QED BY <2>1, <2>2, <2>3, <2>4 DEF Pending
  <1> QED BY <1>4, <1>5, <1>13, <1>15, BeginStep

-----------------------------------------------------------------------------
(* Every step                                                               *)

LEMMA AddStep ==
    ASSUME SInv, NEW n \in Names, NEW parent \in Items \cup {0}, NEW m \in BOOLEAN,
           Add(n, parent, m)
    PROVE  SInv'
  <1>1. /\ lastId \in Nat /\ lastId < MaxItem /\ lastId' = lastId + 1 /\ MaxItem \in Nat
        /\ Items \subseteq 1..lastId
        BY BoundAssumption DEF Add, SInv, TableInv
  <1>2. UNCHANGED <<req, demanded, lost, raced>> BY DEF Add
  <1>3. Items' = Items \cup {lastId'} /\ lastId' \notin Items BY <1>1 DEF Add, Items
  <1>4. \A i \in Items : item'[i] = item[i] BY <1>3 DEF Add, Items
  <1>5. item'[lastId'] = NewRow("Manual", Nobody, n, parent, m) BY <1>3 DEF Add, Items
  <1>6. parent \in Ids \cup {0} /\ parent < lastId'
    <2>1. parent \in 0..lastId BY <1>1
    <2> QED BY <1>1, <2>1 DEF Ids
  <1>7. /\ item'[lastId'] \in Row /\ item'[lastId'].parent = parent
        /\ item'[lastId'].source = "Manual"
        BY <1>5, <1>6, NewRowRow
  <1>8. TableInv'
    <2>1. lastId' \in 0..MaxItem /\ Items' \subseteq 1..lastId' BY <1>1, <1>3
    <2>2. ASSUME NEW i \in Items'
          PROVE  /\ item'[i] \in Row /\ item'[i].parent < i
                 /\ item'[i].source # "Manual" => item'[i].parent = 0
      <3>1. CASE i \in Items BY <1>4, <3>1 DEF SInv, TableInv
      <3>2. CASE i = lastId' BY <1>6, <1>7, <3>2
      <3> QED BY <1>3, <3>1, <3>2
    <2> QED BY <2>1, <2>2 DEF TableInv
  <1>9. Grown
    <2>1. lastId' \in Nat /\ lastId <= lastId' BY <1>1
    <2>2. \A i \in Items' \ Items : i > lastId BY <1>1, <1>3
    <2> QED BY <1>1, <1>3, <1>4, <2>1, <2>2 DEF Grown
  <1>10. Changed = {} BY <1>3, <1>4 DEF Changed
  <1>11. ASSUME NEW v \in Workers
         PROVE  req'[v] = Idle \/ (IsRequest(req'[v]) /\ Pending(item', lastId', req'[v]))
    <2> PICK q : q = req[v] OBVIOUS
    <2>1. CASE q = Idle BY <1>2, <2>1
    <2>2. CASE q # Idle
      <3>1. IsRequest(q) /\ Pending(item, lastId, q) BY <2>2 DEF SInv
      <3>2. /\ DOMAIN q = Fields /\ q.stale \subseteq Ids /\ q.stale \cup Changed \subseteq q.stale
            /\ \A f \in Fields \ {"stale"} : q[f] = q[f]
            BY <1>10, <3>1 DEF IsRequest
      <3>3. Pending(item', lastId', q) BY <1>9, <3>1, <3>2, StaysPending
      <3> QED BY <1>2, <3>1, <3>3
    <2> QED BY <2>1, <2>2
  <1>12. HistoryInv'
    <2>1. lost \subseteq 1..lastId BY DEF SInv, HistoryInv
    <2>2. 1..lastId \subseteq 1..lastId' BY <1>1
    <2> QED BY <1>2, <2>1, <2>2 DEF SInv, HistoryInv
  <1>13. LostCoverIsUnexplained'
    <2> SUFFICES ASSUME NEW i \in (lost' \cap Items') \ raced'
                 PROVE  item'[i].disposition = "Unexplained"
        BY DEF LostCoverIsUnexplained
    <2>1. i \in Items BY <1>1, <1>2, <1>3 DEF SInv, HistoryInv
    <2> QED BY <1>2, <1>4, <2>1 DEF SInv, LostCoverIsUnexplained
  <1>14. LastSyncIsListed'
    <2>1. \A r : ItemsOf(r) \subseteq ItemsOf(r)' BY <1>3, <1>4 DEF ItemsOf
    <2>2. \A r : ItemsOf(r) \subseteq Items BY DEF ItemsOf
    <2>3. ASSUME NEW r \in DOMAIN demanded
          PROVE  \E i \in ItemsOf(r)' :
                    i \in raced \/ (item'[i].name = demanded[r].name
                                    /\ item'[i].mandatory = demanded[r].mandatory)
      <3>1. PICK i \in ItemsOf(r) :
               i \in raced \/ (item[i].name = demanded[r].name
                               /\ item[i].mandatory = demanded[r].mandatory)
            BY DEF SInv, LastSyncIsListed
      <3> QED BY <1>4, <2>1, <2>2, <3>1
    <2> QED BY <1>2, <2>3 DEF LastSyncIsListed
  <1> QED BY <1>2, <1>8, <1>11, <1>12, <1>13, <1>14 DEF SInv

LEMMA AbortStep ==
    ASSUME SInv, NEW w \in Workers, Abort(w)
    PROVE  SInv'
  <1>1. UNCHANGED <<item, lastId, demanded, lost, raced>> BY DEF Abort
  <1>2. DOMAIN req' = Workers /\ \A v \in Workers : req'[v] = Idle \/ req'[v] = req[v]
        BY DEF Abort, SInv
  <1>3. \A v \in Workers :
           req'[v] = Idle \/ (IsRequest(req'[v]) /\ Pending(item', lastId', req'[v]))
        BY <1>1, <1>2 DEF SInv
  <1>4. TableInv' /\ HistoryInv' BY <1>1 DEF SInv, TableInv, HistoryInv, Items
  <1>5. LostCoverIsUnexplained' /\ LastSyncIsListed'
        BY <1>1 DEF SInv, LostCoverIsUnexplained, LastSyncIsListed, ItemsOf, Items
  <1> QED BY <1>2, <1>3, <1>4, <1>5 DEF SInv

\* What every commit keeps, by the kind of the request.
LEMMA CommitStep ==
    ASSUME SInv, NEW w \in Workers, req[w] # Idle, Commit(w),
           LostCoverIsUnexplained' /\ lost' \subseteq 1..lastId',
           req[w].op # "sync" \/ LastSyncIsListed'
    PROVE  SInv'
  <1>1. PICK q : q = req[w] OBVIOUS
  <1>2. IsRequest(q) /\ Pending(item, lastId, q) BY <1>1 DEF SInv
  <1>3. TableInv' BY <1>1, <1>2, CommitKeepsTable DEF SInv
  <1>4. /\ DOMAIN req' = Workers
        /\ \A v \in Workers : req'[v] = Idle \/ (IsRequest(req'[v]) /\ Pending(item', lastId', req'[v]))
        /\ raced' = raced \cup (q.stale \cap DOMAIN q.writes)
        BY <1>1, <1>2, CommitKeepsRequests
  <1>5. LastSyncIsListed' BY <1>1, <1>2, OthersKeepList
  <1>6. demanded' \in Demands
    <2>1. demanded' = IF q.op = "sync" THEN q.demands ELSE demanded BY <1>1 DEF Commit
    <2> QED BY <1>2, <2>1 DEF IsRequest, SInv, HistoryInv
  <1>7. raced' \subseteq Ids BY <1>2, <1>4 DEF IsRequest, SInv, HistoryInv
  <1> QED BY <1>3, <1>4, <1>5, <1>6, <1>7 DEF SInv, HistoryInv

LEMMA IdleHasNoOp == ASSUME NEW q, q = Idle PROVE q.op \notin Ops
  BY DEF Idle, Ops

LEMMA CommitsStep ==
    ASSUME SInv, NEW w \in Workers,
           CommitSync(w) \/ CommitIngest(w) \/ CommitEvaluate(w) \/ CommitDisposition(w)
    PROVE  SInv'
  <1>1. PICK q : q = req[w] OBVIOUS
  <1>2. q.op \in Ops /\ Commit(w)
        BY <1>1 DEF CommitSync, CommitIngest, CommitEvaluate, CommitDisposition, Ops
  <1>3. req[w] # Idle BY <1>1, <1>2, IdleHasNoOp
  <1>4. IsRequest(q) /\ Pending(item, lastId, q) BY <1>1, <1>3 DEF SInv
  <1>5. CASE CommitSync(w)
    <2>1. q.op = "sync" /\ UNCHANGED lost BY <1>1, <1>5 DEF CommitSync
    <2>2. LastSyncIsListed' BY <1>1, <1>2, <1>4, <2>1, SyncLists
    <2>3. LostCoverIsUnexplained' /\ lost' \subseteq 1..lastId'
          BY <1>1, <1>2, <1>4, <2>1, SyncedKeepsLost
    <2> QED BY <1>2, <1>3, <2>2, <2>3, CommitStep
  <1>6. CASE CommitIngest(w)
    <2>1. q.op = "ingest" /\ UNCHANGED lost BY <1>1, <1>6 DEF CommitIngest
    <2>2. LostCoverIsUnexplained' /\ lost' \subseteq 1..lastId'
          BY <1>1, <1>2, <1>4, <2>1, SyncedKeepsLost
    <2> QED BY <1>1, <1>2, <1>3, <2>1, <2>2, CommitStep
  <1>7. CASE CommitEvaluate(w)
    <2>1. q.op = "evaluate" BY <1>1, <1>7 DEF CommitEvaluate
    <2>2. LostCoverIsUnexplained' /\ lost' \subseteq 1..lastId'
          BY <1>1, <1>4, <1>7, EvaluateKeepsLost
    <2> QED BY <1>1, <1>2, <1>3, <2>1, <2>2, CommitStep
  <1>8. CASE CommitDisposition(w)
    <2>1. q.op = "disposition" /\ lost' = lost \ DOMAIN q.writes
          BY <1>1, <1>8 DEF CommitDisposition
    <2>2. LostCoverIsUnexplained' /\ lost' \subseteq 1..lastId'
          BY <1>1, <1>2, <1>4, <2>1, DispositionKeepsLost
    <2> QED BY <1>1, <1>2, <1>3, <2>1, <2>2, CommitStep
  <1> QED BY <1>5, <1>6, <1>7, <1>8

LEMMA InitHolds == Init => SInv
  <1> SUFFICES ASSUME Init PROVE SInv OBVIOUS
  <1>1. Items = {} /\ DOMAIN demanded = {} BY DEF Init, Items
  <1>2. TableInv BY <1>1, BoundAssumption DEF Init, TableInv
  <1>3. HistoryInv BY NoDemands DEF Init, HistoryInv
  <1>4. DOMAIN req = Workers /\ \A w \in Workers : req[w] = Idle BY DEF Init
  <1>5. LostCoverIsUnexplained /\ LastSyncIsListed
        BY <1>1 DEF LostCoverIsUnexplained, LastSyncIsListed
  <1> QED BY <1>2, <1>3, <1>4, <1>5 DEF SInv

LEMMA NextHolds == SInv /\ [Next]_vars => SInv'
  <1> SUFFICES ASSUME SInv, [Next]_vars PROVE SInv' OBVIOUS
  <1>1. ASSUME NEW n \in Names, NEW parent \in Items \cup {0}, NEW m \in BOOLEAN, Add(n, parent, m)
        PROVE  SInv'
        BY <1>1, AddStep
  <1>2. ASSUME NEW w \in Workers, NEW type \in ProjectTypes, NEW S \in SUBSET Names,
               NEW demands \in Demands, BeginSync(w, type, S, demands)
        PROVE  SInv'
        BY <1>2, SyncStep
  <1>3. ASSUME NEW w \in Workers, NEW b \in References, NEW n \in Names, NEW m \in BOOLEAN,
               BeginIngest(w, b, n, m)
        PROVE  SInv'
        BY <1>3, IngestStep
  <1>4. ASSUME NEW w \in Workers,
               NEW matches \in [Items -> {"Missing", "Possible Match", "Covered"}],
               BeginEvaluate(w, matches)
        PROVE  SInv'
        BY <1>4, EvaluateStep
  <1>5. ASSUME NEW w \in Workers, NEW i \in Items, NEW d \in Dispositions, BeginDisposition(w, i, d)
        PROVE  SInv'
        BY <1>5, DispositionStep
  <1>6. ASSUME NEW w \in Workers,
               CommitSync(w) \/ CommitIngest(w) \/ CommitEvaluate(w) \/ CommitDisposition(w)
        PROVE  SInv'
        BY <1>6, CommitsStep
  <1>7. ASSUME NEW w \in Workers, Abort(w) PROVE SInv'
        BY <1>7, AbortStep
  <1>8. CASE UNCHANGED vars
    <2>1. UNCHANGED <<item, lastId, req, demanded, lost, raced>> BY <1>8 DEF vars
    <2>2. TableInv' /\ HistoryInv' BY <2>1 DEF SInv, TableInv, HistoryInv, Items
    <2>3. LostCoverIsUnexplained' /\ LastSyncIsListed'
          BY <2>1 DEF SInv, LostCoverIsUnexplained, LastSyncIsListed, ItemsOf, Items
    <2> QED BY <2>1, <2>2, <2>3 DEF SInv
  <1> QED BY <1>1, <1>2, <1>3, <1>4, <1>5, <1>6, <1>7, <1>8 DEF Next

-----------------------------------------------------------------------------
(* Theorems                                                                 *)

\* Every run of the catalog keeps the invariant.
THEOREM ScopeInvariant == Spec => []SInv
  <1>1. Init => SInv BY InitHolds
  <1>2. SInv /\ [Next]_vars => SInv' BY NextHolds
  <1> QED BY <1>1, <1>2, PTL DEF Spec

\* Every row of the catalog is well-formed, and so is every row that a request in
\* flight will leave.
THEOREM ScopeIsWellFormed == Spec => []ScopeTypeOK
  <1>1. SInv => ScopeTypeOK
    <2> SUFFICES ASSUME SInv PROVE ScopeTypeOK OBVIOUS
    <2>1. Items \subseteq 1..lastId /\ lastId \in 0..MaxItem /\ \A i \in Items : item[i] \in Row
          BY DEF SInv, TableInv
    <2>2. demanded \in Demands /\ raced \subseteq Ids /\ lost \subseteq Ids
      <3>1. 1..lastId \subseteq Ids BY <2>1, BoundAssumption DEF Ids
      <3> QED BY <3>1 DEF SInv, HistoryInv
    <2>3. ASSUME NEW w \in Workers, req[w] # Idle
          PROVE  /\ req[w].op \in Ops
                 /\ \A i \in DOMAIN req[w].writes \cap Items :
                       Written(item[i], req[w].writes[i]) \in Row
                 /\ req[w].inserts \subseteq Row /\ req[w].demands \in Demands
                 /\ req[w].deletes \subseteq Ids /\ req[w].stale \subseteq Ids
      <3>1. PICK q : q = req[w] OBVIOUS
      <3>2. IsRequest(q) BY <2>3, <3>1 DEF SInv
      <3>3. ASSUME NEW i \in DOMAIN q.writes \cap Items
            PROVE  Written(item[i], q.writes[i]) \in Row
        <4>1. item[i] \in Row /\ q.op \in Ops /\ Typed(q.op, q.writes[i])
              BY <2>1, <3>2 DEF IsRequest
        <4> QED BY <4>1, WrittenRow
      <3> QED BY <3>1, <3>2, <3>3 DEF IsRequest
    <2> QED BY <2>1, <2>2, <2>3 DEF ScopeTypeOK
  <1> QED BY <1>1, ScopeInvariant, PTL

\* Unless an item changed under a request, an item that lost its cover is
\* unexplained until a reviewer dispositions it again.
THEOREM LostCoverIsNotExplainedAway == Spec => []LostCoverIsUnexplained
  <1>1. SInv => LostCoverIsUnexplained BY DEF SInv
  <1> QED BY <1>1, ScopeInvariant, PTL

\* Unless items changed under a request, the catalog has what the last sync found
\* in the requirements.
THEOREM SyncIsListed == Spec => []LastSyncIsListed
  <1>1. SInv => LastSyncIsListed BY DEF SInv
  <1> QED BY <1>1, ScopeInvariant, PTL

\* The disposition of an item changes only by a disposition, or by an evaluation
\* that finds the item covered or no longer covered; and only suggestions of the
\* library disappear, with what hangs below them.
THEOREM ReviewsAreKept == Spec => ReviewsStand
  <1> DEFINE Stands ==
        \A i \in Items :
           IF i \in DOMAIN item'
           THEN item'[i].disposition # item[i].disposition =>
                   \E w \in Workers :
                      \/ req[w].op = "disposition"
                      \/ req[w].op = "evaluate" /\
                         (i \in raced' \/ "Covered" \in {item[i].coverage, item'[i].coverage})
           ELSE item[i].source = "Knowledge" \/ item[i].parent \notin DOMAIN item' \cup {0}
  <1>1. ASSUME SInv, Next PROVE Stands
    <2>1. CASE UNCHANGED item BY <2>1 DEF Items
    <2>2. ASSUME NEW n \in Names, NEW parent \in Items \cup {0}, NEW m \in BOOLEAN, Add(n, parent, m)
          PROVE  Stands
      <3>1. Items \subseteq 1..lastId /\ lastId' = lastId + 1 /\ lastId \in Nat
            BY <1>1, <2>2 DEF Add, SInv, TableInv
      <3>2. \A i \in Items : i # lastId' BY <3>1
      <3>3. \A i \in Items : i \in DOMAIN item' /\ item'[i] = item[i] BY <2>2, <3>2 DEF Add
      <3> QED BY <3>3
    <2>3. ASSUME NEW w \in Workers,
                 CommitSync(w) \/ CommitIngest(w) \/ CommitEvaluate(w) \/ CommitDisposition(w)
          PROVE  Stands
      <3>1. PICK q : q = req[w] OBVIOUS
      <3>2. q.op \in Ops /\ Commit(w)
            BY <2>3, <3>1 DEF CommitSync, CommitIngest, CommitEvaluate, CommitDisposition, Ops
      <3>3. req[w] # Idle BY <3>1, <3>2, IdleHasNoOp
      <3>4. IsRequest(q) /\ Pending(item, lastId, q) /\ TableInv BY <1>1, <3>1, <3>3 DEF SInv
      <3>5. ASSUME NEW i \in Items, i \notin Items'
            PROVE  item[i].source = "Knowledge" \/ item[i].parent \notin Items' \cup {0}
            BY <3>1, <3>2, <3>4, <3>5, CommitDeletes
      <3>6. ASSUME NEW i \in Items, i \in Items', item'[i].disposition # item[i].disposition
            PROVE  \/ q.op = "disposition"
                   \/ q.op = "evaluate" /\
                      (i \in raced' \/ "Covered" \in {item[i].coverage, item'[i].coverage})
        <4>1. q.op \notin {"sync", "ingest"} BY <3>1, <3>2, <3>4, <3>6, CommitRow
        <4>2. CASE q.op = "evaluate" /\ i \notin raced'
          <5>1. PICK match \in {"Missing", "Possible Match", "Covered"} :
                   item'[i] = Evaluated(item[i], match)
                BY <3>1, <3>2, <3>4, <3>6, <4>2, CommittedEvaluation
          <5>2. PICK r : r = item[i] /\ r \in Row BY <3>4 DEF TableInv
          <5>3. /\ Evaluated(r, match).coverage = match
                /\ match # "Covered" =>
                      Evaluated(r, match).disposition =
                         IF r.coverage = "Covered" THEN "Unexplained" ELSE r.disposition
                BY <5>2, EvaluatedRow
          <5>4. match = "Covered" \/ r.coverage = "Covered" BY <3>6, <5>1, <5>2, <5>3
          <5> QED BY <4>2, <5>1, <5>2, <5>3, <5>4
        <4> QED BY <3>2, <4>1, <4>2 DEF Ops
      <3> QED BY <3>1, <3>5, <3>6 DEF Items
    <2>4. ASSUME NEW w \in Workers,
                 \/ \E type \in ProjectTypes, S \in SUBSET Names, demands \in Demands :
                       BeginSync(w, type, S, demands)
                 \/ \E b \in References, n \in Names, m \in BOOLEAN : BeginIngest(w, b, n, m)
                 \/ \E matches \in [Items -> {"Missing", "Possible Match", "Covered"}] :
                       BeginEvaluate(w, matches)
                 \/ \E i \in Items, d \in Dispositions : BeginDisposition(w, i, d)
                 \/ Abort(w)
          PROVE  UNCHANGED item
          BY <2>4 DEF BeginSync, BeginIngest, BeginEvaluate, BeginDisposition, Begin, Abort
    <2> QED BY <1>1, <2>1, <2>2, <2>3, <2>4 DEF Next
  <1>2. ASSUME UNCHANGED vars PROVE Stands BY <1>2 DEF vars, Items
  <1>3. SInv /\ [Next]_vars => [Stands]_vars BY <1>1, <1>2
  <1> QED BY <1>3, ScopeInvariant, PTL DEF Spec, ReviewsStand
=============================================================================
