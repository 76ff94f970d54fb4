------------------------- MODULE FoundRegistersProofs -------------------------
(***************************************************************************)
(* Proofs about the registers whose rows a scan finds and users review:    *)
(* ClauseRisks, DrawingFindings and Requirements.  Nothing in the database *)
(* keeps what is found unique, and a session writes over whatever its rows *)
(* say by then: the invariants say what each request in flight knows of    *)
(* the tables, unless the rows changed since it loaded them.               *)
(***************************************************************************)
EXTENDS ClauseRisks, DrawingFindings, Requirements, FiniteSetTheorems, TLAPS

-----------------------------------------------------------------------------
(* Requests in flight                                                       *)

SessionInv ==
    /\ DOMAIN req = Workers
    /\ \A w \in Workers : req[w] = Idle \/ {"op", "reads", "stale"} \subseteq DOMAIN req[w]

\* What a commit of others makes of a request: of its fields only `stale` changes.
After(q, written, next) ==
    /\ DOMAIN next = DOMAIN q /\ {"op", "reads", "stale"} \subseteq DOMAIN q
    /\ \A k \in DOMAIN q \ {"stale"} : next[k] = q[k]
    /\ next.op = q.op /\ next.reads = q.reads
    /\ next.stale = q.stale \cup (written \cap q.reads)

LEMMA CommitOthers ==
    ASSUME SessionInv, NEW w \in Workers, NEW decided, NEW written, NEW next,
           Commit(w, decided, written, next),
           next = Idle \/ {"op", "reads", "stale"} \subseteq DOMAIN next
    PROVE  /\ SessionInv' /\ req'[w] = next
           /\ raced' = raced \cup (decided \cap req[w].stale)
           /\ \A v \in Workers \ {w} :
                 IF req[v] = Idle THEN req'[v] = Idle ELSE After(req[v], written, req'[v])
  <1>1. /\ raced' = raced \cup (decided \cap req[w].stale)
        /\ req' = [v \in Workers |->
                  IF v = w THEN next
                  ELSE IF req[v] = Idle THEN Idle
                  ELSE [req[v] EXCEPT !.stale = @ \cup (written \cap req[v].reads)]]
        BY DEF Commit
  <1>2. ASSUME NEW v \in Workers \ {w}, req[v] # Idle
        PROVE  After(req[v], written, req'[v])
    <2>1. PICK q, z : q = req[v] /\ z = q.stale \cup (written \cap q.reads) OBVIOUS
    <2>2. PICK n : n = [q EXCEPT !.stale = z] OBVIOUS
    <2>3. req'[v] = n BY <1>1, <1>2, <2>1, <2>2
    <2>4. {"op", "reads", "stale"} \subseteq DOMAIN q BY <1>2, <2>1 DEF SessionInv
    <2>5. After(q, written, n) BY <2>1, <2>2, <2>4 DEF After
    <2> QED BY <2>1, <2>3, <2>5
  <1>3. \A v \in Workers \ {w} : req[v] = Idle => req'[v] = Idle BY <1>1
  <1>4. DOMAIN req' = Workers /\ req'[w] = next BY <1>1
  <1>5. SessionInv' BY <1>2, <1>3, <1>4 DEF SessionInv, After
  <1> QED BY <1>1, <1>2, <1>3, <1>4, <1>5

LEMMA TakeOthers ==
    ASSUME SessionInv, NEW w \in Workers, NEW request, Take(w, request),
           {"op", "reads", "stale"} \subseteq DOMAIN request
    PROVE  /\ SessionInv' /\ raced' = raced
           /\ \A v \in Workers : req'[v] = IF v = w THEN request ELSE req[v]
  BY DEF SessionInv, Take

LEMMA DieOthers ==
    ASSUME SessionInv, NEW w \in Workers, Die(w)
    PROVE  /\ SessionInv' /\ raced' = raced
           /\ \A v \in Workers : req'[v] = IF v = w THEN Idle ELSE req[v]
  BY DEF SessionInv, Die

-----------------------------------------------------------------------------
(* Rows named by what they are of and a copy number                         *)

CopiesIn(D, s) == {x \in D : x[1] = s}

\* The copies are numbered from 1 on: the next number is not in use.
CopiesCounted(D) ==
    /\ IsFiniteSet(D)
    /\ \A x \in D : x[2] \in Nat /\ x[2] <= Cardinality(CopiesIn(D, x[1]))

NextIn(D, s) == <<s, 1 + Cardinality(CopiesIn(D, s))>>

LEMMA NextIsNew ==
    ASSUME NEW D, CopiesCounted(D), NEW s
    PROVE  /\ NextIn(D, s) \notin D
           /\ Cardinality(D) \in Nat
           /\ NextIn(D, s)[2] \in 1..(1 + Cardinality(D))
  <1>1. CopiesIn(D, s) \subseteq D BY DEF CopiesIn
  <1>2. /\ IsFiniteSet(CopiesIn(D, s)) /\ Cardinality(CopiesIn(D, s)) <= Cardinality(D)
        /\ Cardinality(CopiesIn(D, s)) \in Nat /\ Cardinality(D) \in Nat
        BY <1>1, FS_Subset, FS_CardinalityType DEF CopiesCounted
  <1>3. PICK n, k \in Nat : n = Cardinality(CopiesIn(D, s)) /\ k = Cardinality(D) BY <1>2
  <1>4. NextIn(D, s) = <<s, 1 + n>> BY <1>3 DEF NextIn
  <1>5. NextIn(D, s) \in D => 1 + n <= n
    <2> SUFFICES ASSUME NextIn(D, s) \in D PROVE 1 + n <= n OBVIOUS
    <2>1. PICK x \in D : x = <<s, 1 + n>> BY <1>4
    <2>2. x[1] = s /\ x[2] = 1 + n BY <2>1
    <2>3. x[2] <= Cardinality(CopiesIn(D, x[1])) BY DEF CopiesCounted
    <2> QED BY <1>3, <2>2, <2>3
  <1>6. 1 + n \in 1..(1 + k) BY <1>2, <1>3
  <1> QED BY <1>2, <1>3, <1>4, <1>5, <1>6

LEMMA CountedGrows ==
    ASSUME NEW D, CopiesCounted(D), NEW S, IsFiniteSet(S),
           NEW E, E = D \cup {NextIn(D, s) : s \in S}
    PROVE  CopiesCounted(E)
  <1>1. IsFiniteSet(E)
    <2>1. PICK f : f = [s \in S |-> NextIn(D, s)] OBVIOUS
    <2>2. PICK T : T = {NextIn(D, s) : s \in S} OBVIOUS
    <2>3. f \in [S -> T] /\ \A t \in T : \E s \in S : f[s] = t BY <2>1, <2>2
    <2>4. f \in Surjection(S, T) BY <2>3 DEF Surjection
    <2>5. IsFiniteSet(T) BY <2>4, FS_Surjection
    <2> QED BY <2>2, <2>5, FS_Union DEF CopiesCounted
  <1>2. ASSUME NEW x \in E PROVE x[2] \in Nat /\ x[2] <= Cardinality(CopiesIn(E, x[1]))
    <2>1. PICK s : s = x[1] OBVIOUS
    <2>2. PICK C, B : C = CopiesIn(D, s) /\ B = CopiesIn(E, s) OBVIOUS
    <2>3. C \subseteq B /\ B \subseteq E /\ C \subseteq D BY <2>2 DEF CopiesIn
    <2>4. IsFiniteSet(C) /\ IsFiniteSet(B) BY <1>1, <2>3, FS_Subset
    <2>5. PICK c, b \in Nat : c = Cardinality(C) /\ b = Cardinality(B) BY <2>4, FS_CardinalityType
    <2>6. c <= b BY <2>3, <2>4, <2>5, FS_Subset
    <2>7. CASE x \in D
      <3>1. x[2] \in Nat /\ x[2] <= c BY <2>1, <2>2, <2>5, <2>7 DEF CopiesCounted
      <3> QED BY <2>1, <2>2, <2>5, <2>6, <3>1
    <2>8. CASE x \notin D
      <3>1. PICK t \in S : x = NextIn(D, t) BY <2>8
      <3>2. t = s /\ x = <<s, 1 + c>> BY <2>1, <2>2, <2>5, <3>1 DEF NextIn
      <3>3. x \notin C /\ C \cup {x} \subseteq B BY <2>1, <2>2, <2>3, <2>8 DEF CopiesIn
      <3>4. Cardinality(C \cup {x}) = c + 1 /\ IsFiniteSet(C \cup {x})
            BY <2>4, <2>5, <3>3, FS_AddElement
      <3>5. c + 1 <= b BY <2>4, <2>5, <3>3, <3>4, FS_Subset
      <3>6. x[2] = 1 + c BY <3>2
      <3> QED BY <2>1, <2>2, <2>5, <3>5, <3>6
    <2> QED BY <2>7, <2>8
  <1> QED BY <1>1, <1>2 DEF CopiesCounted
-----------------------------------------------------------------------------
(* Columns                                                                  *)

\* The changes of columns, written over the row they were computed from.
LEMMA WrittenBack ==
    ASSUME NEW l, NEW n, n = [c \in DOMAIN l |-> n[c]]
    PROVE  /\ Written(l, Changes(l, n)) = n
           /\ DOMAIN Changes(l, n) = {c \in DOMAIN l : n[c] # l[c]}
           /\ \A c \in DOMAIN Changes(l, n) : Changes(l, n)[c] = n[c]
  <1>1. PICK ch : ch = Changes(l, n) OBVIOUS
  <1>2. DOMAIN ch = {c \in DOMAIN l : n[c] # l[c]} /\ \A c \in DOMAIN ch : ch[c] = n[c]
        BY <1>1 DEF Changes
  <1>3. Written(l, ch) = [c \in DOMAIN l |-> IF c \in DOMAIN ch THEN ch[c] ELSE l[c]]
        BY DEF Written
  <1>4. \A c \in DOMAIN l : (IF c \in DOMAIN ch THEN ch[c] ELSE l[c]) = n[c] BY <1>2
  <1> QED BY <1>1, <1>2, <1>3, <1>4

-----------------------------------------------------------------------------
(* Clause risks: the invariant                                              *)

RiskCopies(s) == {x \in DOMAIN risk : x[1] = s}

\* The copies of a signature are numbered from 1 on: the next number is not in use.
RisksAreCounted ==
    \A s : /\ IsFiniteSet(RiskCopies(s))
           /\ \A x \in RiskCopies(s) : x[2] \in Nat /\ x[2] <= Cardinality(RiskCopies(s))

\* A row is inserted by a scan, and a scan has written the standard patterns before.
LibraryIsThere ==
    /\ \A c \in DOMAIN pattern \cap StandardCodes : pattern[c] = Standard(c)
    /\ DOMAIN risk # {} => StandardCodes \subseteq DOMAIN pattern
    /\ \A w \in Workers : req[w].op \in {"match", "scan"} => StandardCodes \subseteq DOMAIN pattern

\* A promotion knows that its finding is accepted, or another request changed it since.
PromotionKnows(r) ==
    r.op = "promote" =>
        /\ {"row", "code"} \subseteq DOMAIN r
        /\ r.code \notin StandardCodes /\ r.row \in r.reads
        /\ r.row \in DOMAIN risk
        /\ risk[r.row].disposition \in Accepting \/ r.row \in r.stale

\* A scan knows that what it inserts is not there, or another scan inserted it since.
ScanKnows(r) ==
    r.op = "scan" =>
        /\ "new" \in DOMAIN r
        /\ r.new \subseteq r.reads
        /\ \A s \in r.new : RiskCopies(s) # {} => s \in r.stale \/ s[3] \in LongLines

\* The library only grows, so a scan still finds in it what it loaded.
EnsureKnows(r) == r.op = "ensure" => "loaded" \in DOMAIN r /\ r.loaded \subseteq DOMAIN pattern

RiskKnows(r) == PromotionKnows(r) /\ ScanKnows(r) /\ EnsureKnows(r)

RInv ==
    /\ DOMAIN req = Workers
    /\ \A w \in Workers : /\ req[w] = Idle \/ {"op", "reads", "stale"} \subseteq DOMAIN req[w]
                          /\ RiskKnows(req[w])
    /\ RisksAreCounted
    /\ LibraryIsThere
    /\ RaisedOnce

-----------------------------------------------------------------------------
(* Clause risks: steps                                                      *)

\* What a commit does to the other requests.
LEMMA RiskOthersAfter ==
    ASSUME RInv, NEW w \in Workers, NEW decided, NEW written, NEW next,
           Commit(w, decided, written, next)
    PROVE  /\ DOMAIN req' = Workers /\ req'[w] = next
           /\ \A v \in Workers \ {w} :
                 /\ req[v] = Idle => req'[v] = Idle
                 /\ req[v] # Idle =>
                       /\ DOMAIN req'[v] = DOMAIN req[v]
                       /\ {"op", "reads", "stale"} \subseteq DOMAIN req[v]
                       /\ \A k \in DOMAIN req[v] \ {"stale"} : req'[v][k] = req[v][k]
                       /\ req'[v].op = req[v].op /\ req'[v].reads = req[v].reads
                       /\ req'[v].stale = req[v].stale \cup (written \cap req[v].reads)
  <1>1. req' = [v \in Workers |->
                  IF v = w THEN next
                  ELSE IF req[v] = Idle THEN Idle
                  ELSE [req[v] EXCEPT !.stale = @ \cup (written \cap req[v].reads)]]
        BY DEF Commit
  <1>2. ASSUME NEW v \in Workers \ {w}, req[v] # Idle
        PROVE  /\ DOMAIN req'[v] = DOMAIN req[v]
               /\ {"op", "reads", "stale"} \subseteq DOMAIN req[v]
               /\ \A k \in DOMAIN req[v] \ {"stale"} : req'[v][k] = req[v][k]
               /\ req'[v].op = req[v].op /\ req'[v].reads = req[v].reads
               /\ req'[v].stale = req[v].stale \cup (written \cap req[v].reads)
    <2> PICK q : q = req[v] OBVIOUS
    <2> PICK z : z = q.stale \cup (written \cap q.reads) OBVIOUS
    <2>1. req'[v] = [q EXCEPT !.stale = z] BY <1>1, <1>2
    <2>2. {"op", "reads", "stale"} \subseteq DOMAIN q BY <1>2 DEF RInv
    <2> QED BY <2>1, <2>2
  <1> QED BY <1>1, <1>2

LEMMA IdleKnowsRisk == Idle.op = "idle" /\ RiskKnows(Idle) /\ RiskKnows(Idle)'
  <1>1. Idle.op = "idle" BY DEF Idle
  <1> QED BY <1>1 DEF RiskKnows, PromotionKnows, ScanKnows, EnsureKnows

\* The tables stay; one request goes on as `next`.
LEMMA RiskRequestStep ==
    ASSUME RInv, UNCHANGED <<riskTables, raced>>, NEW w \in Workers, NEW next,
           req' = [req EXCEPT ![w] = next],
           next = Idle \/ {"op", "reads", "stale"} \subseteq DOMAIN next,
           RiskKnows(next),
           next.op \in {"match", "scan"} => StandardCodes \subseteq DOMAIN pattern
    PROVE  RInv'
  <1>1. DOMAIN req' = Workers /\ \A v \in Workers : req'[v] = IF v = w THEN next ELSE req[v]
        BY DEF RInv
  <1>2. UNCHANGED <<pattern, risk, riskEvents, raced>> BY DEF riskTables
  <1>3. RisksAreCounted' /\ RaisedOnce'
        BY <1>2 DEF RInv, RisksAreCounted, RaisedOnce, RiskCopies
  <1>4. \A v \in Workers :
            /\ req'[v] = Idle \/ {"op", "reads", "stale"} \subseteq DOMAIN req'[v]
            /\ RiskKnows(req'[v])
        BY <1>1 DEF RInv
  <1>5. \A v \in Workers : RiskKnows(req[v])'
        BY <1>2, <1>4 DEF RiskKnows, PromotionKnows, ScanKnows, EnsureKnows, RiskCopies
  <1>6. LibraryIsThere' BY <1>1, <1>2 DEF RInv, LibraryIsThere, Standard
  <1> QED BY <1>1, <1>3, <1>4, <1>5, <1>6 DEF RInv

\* A commit of w after which it knows nothing the tables must keep; what the other
\* requests know, and the tables, are left to show.
LEMMA RiskCommitStep ==
    ASSUME RInv, NEW w \in Workers, NEW decided, NEW written, NEW next,
           Commit(w, decided, written, next),
           DOMAIN pattern \subseteq DOMAIN pattern',
           \A c \in DOMAIN pattern' \cap StandardCodes : pattern'[c] = Standard(c),
           DOMAIN risk' # {} => StandardCodes \subseteq DOMAIN pattern',
           next = Idle \/ {"op", "reads", "stale"} \subseteq DOMAIN next,
           next.op \in {"idle", "match", "judged"},
           next.op = "match" => StandardCodes \subseteq DOMAIN pattern',
           \A v \in Workers \ {w} : req[v] # Idle =>
               PromotionKnows(req[v])' /\ ScanKnows(req[v])',
           RisksAreCounted', RaisedOnce'
    PROVE  RInv'
  <1>1. /\ DOMAIN req' = Workers /\ req'[w] = next
        /\ \A v \in Workers \ {w} :
              /\ req[v] = Idle => req'[v] = Idle
              /\ req[v] # Idle =>
                    /\ DOMAIN req'[v] = DOMAIN req[v]
                    /\ {"op", "reads", "stale"} \subseteq DOMAIN req[v]
                    /\ req'[v].op = req[v].op
                    /\ \A k \in DOMAIN req[v] \ {"stale"} : req'[v][k] = req[v][k]
        BY RiskOthersAfter
  <1>2. \A v \in Workers \ {w} : req[v] # Idle => EnsureKnows(req[v])'
        BY <1>1 DEF RInv, RiskKnows, EnsureKnows
  <1>3. RiskKnows(req[w])' BY <1>1 DEF RiskKnows, PromotionKnows, ScanKnows, EnsureKnows
  <1>4. ASSUME NEW v \in Workers
        PROVE  /\ req'[v] = Idle \/ {"op", "reads", "stale"} \subseteq DOMAIN req'[v]
               /\ RiskKnows(req[v])'
    <2>1. CASE v = w BY <1>1, <1>3, <2>1
    <2>2. CASE v # w /\ req[v] = Idle
      <3>1. req'[v] = Idle BY <1>1, <2>2
      <3>2. req'[v].op = "idle" BY <3>1, IdleKnowsRisk
      <3>3. RiskKnows(req[v])' BY <3>2 DEF RiskKnows, PromotionKnows, ScanKnows, EnsureKnows
      <3> QED BY <3>1, <3>3
    <2>3. CASE v # w /\ req[v] # Idle BY <1>1, <1>2, <2>3 DEF RiskKnows
    <2> QED BY <2>1, <2>2, <2>3
  <1>5. LibraryIsThere'
    <2>1. \A v \in Workers : req'[v].op \in {"match", "scan"} =>
              StandardCodes \subseteq DOMAIN pattern'
          BY <1>1, IdleKnowsRisk DEF RInv, LibraryIsThere
    <2> QED BY <2>1 DEF LibraryIsThere, Standard
  <1> QED BY <1>1, <1>4, <1>5 DEF RInv

\* A commit that leaves the findings alone and only adds to the library.
LEMMA LibraryStep ==
    ASSUME RInv, UNCHANGED risk, NEW w \in Workers, NEW next, Commit(w, {}, {}, next),
           DOMAIN pattern \subseteq DOMAIN pattern',
           \A c \in DOMAIN pattern' \cap StandardCodes : pattern'[c] = Standard(c),
           next = Idle \/ {"op", "reads", "stale"} \subseteq DOMAIN next,
           next.op \in {"idle", "match"},
           next.op = "match" => StandardCodes \subseteq DOMAIN pattern'
    PROVE  RInv'
  <1>1. UNCHANGED raced BY DEF Commit
  <1>2. RisksAreCounted' /\ RaisedOnce'
        BY <1>1 DEF RInv, RisksAreCounted, RaisedOnce, RiskCopies
  <1>3. ASSUME NEW v \in Workers \ {w}, req[v] # Idle
        PROVE  PromotionKnows(req[v])' /\ ScanKnows(req[v])'
    <2>1. /\ DOMAIN req'[v] = DOMAIN req[v]
          /\ req'[v].op = req[v].op /\ req'[v].reads = req[v].reads
          /\ req'[v].stale = req[v].stale \cup ({} \cap req[v].reads)
          /\ \A k \in DOMAIN req[v] \ {"stale"} : req'[v][k] = req[v][k]
          BY <1>3, RiskOthersAfter
    <2>2. req'[v].stale = req[v].stale BY <2>1
    <2>3. PromotionKnows(req[v])' BY <2>1, <2>2 DEF RInv, RiskKnows, PromotionKnows
    <2>4. ScanKnows(req[v])' BY <2>1, <2>2 DEF RInv, RiskKnows, ScanKnows, RiskCopies
    <2> QED BY <2>3, <2>4
  <1>4. DOMAIN risk' # {} => StandardCodes \subseteq DOMAIN pattern' BY DEF RInv, LibraryIsThere
  <1> QED BY <1>2, <1>3, <1>4, RiskCommitStep

-----------------------------------------------------------------------------
(* Clause risks: the actions                                                *)

LEMMA BeginEnsureKeeps ==
    ASSUME RInv, NEW w \in Workers, NEW d \in Papers \cup {Nobody}, BeginEnsure(w, d)
    PROVE  RInv'
  <1> PICK r : r = [op |-> "ensure", paper |-> d, loaded |-> DOMAIN pattern, reads |-> {},
                    stale |-> {}]
      OBVIOUS
  <1>1. req' = [req EXCEPT ![w] = r] /\ UNCHANGED <<riskTables, raced>>
        BY DEF BeginEnsure, Take
  <1>2. /\ r.op = "ensure" /\ {"op", "reads", "stale", "loaded"} \subseteq DOMAIN r
        /\ r.loaded = DOMAIN pattern
        OBVIOUS
  <1>3. RiskKnows(r) BY <1>2 DEF RiskKnows, PromotionKnows, ScanKnows, EnsureKnows
  <1> QED BY <1>1, <1>2, <1>3, RiskRequestStep

LEMMA CommitEnsureKeeps ==
    ASSUME RInv, NEW w \in Workers, CommitEnsure(w)
    PROVE  RInv'
  <1> PICK missing : missing = StandardCodes \ req[w].loaded OBVIOUS
  <1>1. PICK next : next = IF req[w].paper = Nobody THEN Idle
                    ELSE [op |-> "match", paper |-> req[w].paper, reads |-> {}, stale |-> {}]
        OBVIOUS
  <1>2. /\ pattern' = [c \in DOMAIN pattern \cup missing |->
                          IF c \in StandardCodes THEN Standard(c) ELSE pattern[c]]
        /\ Commit(w, {}, {}, next) /\ UNCHANGED risk
        BY <1>1 DEF CommitEnsure
  <1>3. /\ next = Idle \/ {"op", "reads", "stale"} \subseteq DOMAIN next
        /\ next.op \in {"idle", "match"}
        BY <1>1 DEF Idle
  <1>4. StandardCodes \subseteq DOMAIN pattern'
    <2>1. req[w].loaded \subseteq DOMAIN pattern
          BY DEF RInv, RiskKnows, EnsureKnows, CommitEnsure
    <2> QED BY <1>2, <2>1
  <1>5. /\ DOMAIN pattern \subseteq DOMAIN pattern'
        /\ \A c \in DOMAIN pattern' \cap StandardCodes : pattern'[c] = Standard(c)
        BY <1>2
  <1> QED BY <1>2, <1>3, <1>4, <1>5, LibraryStep

LEMMA ReadScanKeeps ==
    ASSUME RInv, NEW w \in Workers, ReadScan(w)
    PROVE  RInv'
  <1> PICK d : d = req[w].paper OBVIOUS
  <1> PICK found : found = {s \in {d} \X (DOMAIN pattern) \X Lines : s[3] \in pattern[s[2]].terms}
      OBVIOUS
  <1> PICK r : r = [op |-> "scan", new |-> found \ Known(d), reads |-> found, stale |-> {}]
      OBVIOUS
  <1>1. req' = [req EXCEPT ![w] = r] /\ UNCHANGED <<riskTables, raced>>
        BY DEF ReadScan, Continue
  <1>2. /\ r.op = "scan" /\ {"op", "new", "reads", "stale"} \subseteq DOMAIN r
        /\ r.new = found \ Known(d) /\ r.reads = found
        OBVIOUS
  <1>3. ASSUME NEW s \in r.new, RiskCopies(s) # {} PROVE s[3] \in LongLines
    <2>1. PICK x \in DOMAIN risk : x[1] = s BY <1>3 DEF RiskCopies
    <2>2. s[1] = d BY <1>2
    <2>3. ReadBack(x[1]) \in Known(d) BY <2>1, <2>2 DEF Known
    <2> QED BY <1>2, <2>1, <2>3 DEF ReadBack
  <1>4. RiskKnows(r) BY <1>2, <1>3 DEF RiskKnows, PromotionKnows, ScanKnows, EnsureKnows
  <1>5. StandardCodes \subseteq DOMAIN pattern BY DEF RInv, LibraryIsThere, ReadScan
  <1> QED BY <1>1, <1>2, <1>4, <1>5, RiskRequestStep

\* The copies of a signature after a scan inserted one of each of the signatures S.
LEMMA RiskCopiesAfter ==
    ASSUME RInv, NEW S,
           DOMAIN risk' = DOMAIN risk \cup {<<s, NextCopy(s)>> : s \in S}
    PROVE  /\ \A s \in S : RiskCopies(s)' = RiskCopies(s) \cup {<<s, NextCopy(s)>>}
                           /\ <<s, NextCopy(s)>> \notin DOMAIN risk
           /\ \A s : s \notin S => RiskCopies(s)' = RiskCopies(s)
           /\ RisksAreCounted'
  <1>1. ASSUME NEW s \in S
        PROVE  RiskCopies(s)' = RiskCopies(s) \cup {<<s, NextCopy(s)>>}
        BY DEF RiskCopies
  <1>2. ASSUME NEW s, s \notin S PROVE RiskCopies(s)' = RiskCopies(s) BY <1>2 DEF RiskCopies
  <1>3. ASSUME NEW s
        PROVE  /\ NextCopy(s) = 1 + Cardinality(RiskCopies(s)) /\ Cardinality(RiskCopies(s)) \in Nat
               /\ <<s, NextCopy(s)>> \notin RiskCopies(s)
    <2>1. NextCopy(s) = 1 + Cardinality(RiskCopies(s)) BY DEF NextCopy, RiskCopies
    <2>2. /\ Cardinality(RiskCopies(s)) \in Nat
          /\ \A x \in RiskCopies(s) : x[2] \in Nat /\ x[2] <= Cardinality(RiskCopies(s))
          BY FS_CardinalityType DEF RInv, RisksAreCounted
    <2>3. PICK n \in Nat : n = Cardinality(RiskCopies(s)) BY <2>2
    <2>4. ~(1 + n <= n) OBVIOUS
    <2> QED BY <2>1, <2>2, <2>3, <2>4
  <1>4. ASSUME NEW s \in S
        PROVE  /\ IsFiniteSet(RiskCopies(s)')
               /\ \A x \in RiskCopies(s)' : x[2] \in Nat /\ x[2] <= Cardinality(RiskCopies(s)')
    <2>1. PICK T : T = RiskCopies(s) OBVIOUS
    <2>2. PICK t : t = <<s, NextCopy(s)>> OBVIOUS
    <2>3. IsFiniteSet(T) /\ t \notin T BY <1>3, <2>1, <2>2 DEF RInv, RisksAreCounted
    <2>4. IsFiniteSet(T \cup {t}) /\ Cardinality(T \cup {t}) = Cardinality(T) + 1
          BY <2>3, FS_AddElement
    <2>5. PICK n \in Nat : n = Cardinality(T) BY <1>3, <2>1
    <2>6. t[2] = 1 + n BY <1>3, <2>1, <2>2, <2>5
    <2>7. \A x \in T : x[2] \in Nat /\ x[2] <= n
          BY <2>1, <2>5 DEF RInv, RisksAreCounted
    <2>8. \A x \in T \cup {t} : x[2] \in Nat /\ x[2] <= n + 1 BY <2>6, <2>7
    <2> QED BY <1>1, <2>1, <2>2, <2>4, <2>5, <2>8
  <1>5. RisksAreCounted' BY <1>2, <1>4 DEF RInv, RisksAreCounted
  <1>6. \A s \in S : <<s, NextCopy(s)>> \notin DOMAIN risk BY <1>3 DEF RiskCopies
  <1> QED BY <1>1, <1>2, <1>5, <1>6

LEMMA CommitScanKeeps ==
    ASSUME RInv, NEW w \in Workers, CommitScan(w)
    PROVE  RInv'
  <1> PICK r : r = req[w] OBVIOUS
  <1> PICK inserted : inserted = {<<s, NextCopy(s)>> : s \in r.new} OBVIOUS
  <1>1. /\ risk' = [x \in DOMAIN risk \cup inserted |->
                       IF x \in inserted THEN Unreviewed ELSE risk[x]]
        /\ Commit(w, r.new, r.new, Idle) /\ UNCHANGED pattern /\ r.op = "scan"
        BY DEF CommitScan
  <1>2. DOMAIN risk' = DOMAIN risk \cup {<<s, NextCopy(s)>> : s \in r.new} BY <1>1
  <1>3. /\ \A s \in r.new : RiskCopies(s)' = RiskCopies(s) \cup {<<s, NextCopy(s)>>}
                            /\ <<s, NextCopy(s)>> \notin DOMAIN risk
        /\ \A s : s \notin r.new => RiskCopies(s)' = RiskCopies(s)
        /\ RisksAreCounted'
        BY <1>2, RiskCopiesAfter
  <1>4. \A x \in DOMAIN risk : x \in DOMAIN risk' /\ risk'[x] = risk[x] BY <1>1, <1>3
  <1>5. RaisedOnce'
    <2>1. raced' = raced \cup (r.new \cap r.stale) BY <1>1 DEF Commit
    <2>2. ScanKnows(r) BY DEF RInv, RiskKnows
    <2>3. ASSUME NEW x \in DOMAIN risk', NEW y \in DOMAIN risk', x # y, x[1] = y[1],
                 x[1][3] \notin LongLines
          PROVE  x[1] \in raced'
      <3> PICK s : s = x[1] OBVIOUS
      <3>1. x \in RiskCopies(s)' /\ y \in RiskCopies(s)' BY <2>3 DEF RiskCopies
      <3>2. CASE s \notin r.new
        <4>1. x \in RiskCopies(s) /\ y \in RiskCopies(s) BY <1>3, <3>1, <3>2
        <4>2. x \in DOMAIN risk /\ y \in DOMAIN risk BY <4>1 DEF RiskCopies
        <4> QED BY <2>1, <2>3, <4>2 DEF RInv, RaisedOnce
      <3>3. CASE s \in r.new
        <4>1. RiskCopies(s) # {}
          <5> PICK t : t = <<s, NextCopy(s)>> OBVIOUS
          <5>1. RiskCopies(s)' = RiskCopies(s) \cup {t} BY <1>3, <3>3
          <5> QED BY <2>3, <3>1, <5>1
        <4>2. s \in r.stale BY <1>1, <2>2, <2>3, <3>3, <4>1 DEF ScanKnows
        <4> QED BY <2>1, <3>3, <4>2
      <3> QED BY <3>2, <3>3
    <2> QED BY <2>3 DEF RaisedOnce
  <1>6. ASSUME NEW v \in Workers \ {w}, req[v] # Idle
        PROVE  PromotionKnows(req[v])' /\ ScanKnows(req[v])'
    <2> PICK q : q = req[v] OBVIOUS
    <2> PICK n : n = req'[v] OBVIOUS
    <2>1. /\ DOMAIN n = DOMAIN q /\ {"op", "reads", "stale"} \subseteq DOMAIN q
          /\ n.op = q.op /\ n.reads = q.reads
          /\ n.stale = q.stale \cup (r.new \cap q.reads)
          /\ \A k \in DOMAIN q \ {"stale"} : n[k] = q[k]
          BY <1>1, <1>6, RiskOthersAfter
    <2>2. RiskKnows(q) BY DEF RInv
    <2>3. PromotionKnows(req[v])' BY <1>4, <2>1, <2>2 DEF RiskKnows, PromotionKnows
    <2>4. n.op = "scan" => "new" \in DOMAIN n /\ n.new = q.new /\ n.new \subseteq n.reads
          BY <2>1, <2>2 DEF RiskKnows, ScanKnows
    <2>5. ASSUME n.op = "scan", NEW s \in n.new, RiskCopies(s)' # {}
          PROVE  s \in n.stale \/ s[3] \in LongLines
      <3>1. CASE s \in r.new BY <2>1, <2>4, <2>5, <3>1
      <3>2. CASE s \notin r.new BY <1>3, <2>1, <2>2, <2>4, <2>5, <3>2 DEF RiskKnows, ScanKnows
      <3> QED BY <3>1, <3>2
    <2>6. ScanKnows(req[v])' BY <2>4, <2>5 DEF ScanKnows
    <2> QED BY <2>3, <2>6
  <1>7. /\ StandardCodes \subseteq DOMAIN pattern
        /\ \A c \in DOMAIN pattern \cap StandardCodes : pattern[c] = Standard(c)
        BY <1>1 DEF RInv, LibraryIsThere
  <1> QED BY <1>1, <1>3, <1>5, <1>6, <1>7, IdleKnowsRisk, RiskCommitStep

LEMMA CommitJudgeKeeps ==
    ASSUME RInv, NEW w \in Workers, CommitJudge(w)
    PROVE  RInv'
  <1> PICK r : r = req[w] OBVIOUS
  <1> PICK next : next = [op |-> "judged", row |-> r.row, reads |-> {}, stale |-> {}] OBVIOUS
  <1>1. /\ DOMAIN risk' = DOMAIN risk
        /\ \A x \in DOMAIN risk : x # r.row => risk'[x] = risk[x]
        /\ Commit(w, {r.row}, {r.row}, next) /\ UNCHANGED pattern
        BY DEF CommitJudge
  <1>2. next.op = "judged" /\ {"op", "reads", "stale"} \subseteq DOMAIN next OBVIOUS
  <1>3. RisksAreCounted' BY <1>1 DEF RInv, RisksAreCounted, RiskCopies
  <1>4. RaisedOnce' BY <1>1 DEF RInv, RaisedOnce, Commit
  <1>5. ASSUME NEW v \in Workers \ {w}, req[v] # Idle
        PROVE  PromotionKnows(req[v])' /\ ScanKnows(req[v])'
    <2> PICK q : q = req[v] OBVIOUS
    <2> PICK n : n = req'[v] OBVIOUS
    <2>1. /\ DOMAIN n = DOMAIN q /\ {"op", "reads", "stale"} \subseteq DOMAIN q
          /\ n.op = q.op /\ n.reads = q.reads
          /\ n.stale = q.stale \cup ({r.row} \cap q.reads)
          /\ \A k \in DOMAIN q \ {"stale"} : n[k] = q[k]
          BY <1>1, <1>5, RiskOthersAfter
    <2>2. RiskKnows(q) BY DEF RInv
    <2>3. PromotionKnows(n)'
      <3> SUFFICES ASSUME n.op = "promote" PROVE PromotionKnows(n)' BY DEF PromotionKnows
      <3>1. /\ {"row", "code"} \subseteq DOMAIN q
            /\ q.code \notin StandardCodes /\ q.row \in q.reads /\ q.row \in DOMAIN risk
            /\ risk[q.row].disposition \in Accepting \/ q.row \in q.stale
            BY <2>1, <2>2 DEF RiskKnows, PromotionKnows
      <3>2. n.row = q.row /\ n.code = q.code BY <2>1, <3>1
      <3>3. risk'[q.row].disposition \in Accepting \/ q.row \in n.stale
            BY <1>1, <2>1, <3>1
      <3> QED BY <1>1, <2>1, <3>1, <3>2, <3>3 DEF PromotionKnows
    <2>4. ScanKnows(req[v])' BY <1>1, <2>1, <2>2 DEF RiskKnows, ScanKnows, RiskCopies
    <2> QED BY <2>3, <2>4 DEF PromotionKnows
  <1>6. /\ \A c \in DOMAIN pattern \cap StandardCodes : pattern[c] = Standard(c)
        /\ DOMAIN risk # {} => StandardCodes \subseteq DOMAIN pattern
        BY DEF RInv, LibraryIsThere
  <1> QED BY <1>1, <1>2, <1>3, <1>4, <1>5, <1>6, RiskCommitStep

LEMMA BeginJudgeKeeps ==
    ASSUME RInv, NEW w \in Workers, NEW u, NEW x, NEW d, NEW c, BeginJudge(w, u, x, d, c)
    PROVE  RInv'
  <1> PICK ch : ch = Changes(risk[x], Judged(d, c, u)) OBVIOUS
  <1> PICK r : r = [op |-> "judge", row |-> x, changes |-> ch, reads |-> {}, stale |-> {}]
      OBVIOUS
  <1>1. req' = [req EXCEPT ![w] = r] /\ UNCHANGED <<riskTables, raced>>
        BY DEF BeginJudge, Take
  <1>2. r.op = "judge" /\ {"op", "reads", "stale"} \subseteq DOMAIN r OBVIOUS
  <1>3. RiskKnows(r) BY <1>2 DEF RiskKnows, PromotionKnows, ScanKnows, EnsureKnows
  <1> QED BY <1>1, <1>2, <1>3, RiskRequestStep

LEMMA CommitJudgedKeeps ==
    ASSUME RInv, NEW w \in Workers, CommitJudged(w)
    PROVE  RInv'
  <1>1. Commit(w, {}, {}, Idle) /\ UNCHANGED <<pattern, risk>> BY DEF CommitJudged
  <1>2. \A c \in DOMAIN pattern \cap StandardCodes : pattern[c] = Standard(c)
        BY DEF RInv, LibraryIsThere
  <1> QED BY <1>1, <1>2, IdleKnowsRisk, LibraryStep

LEMMA BeginPromoteKeeps ==
    ASSUME RInv, NEW w \in Workers, NEW x \in DOMAIN risk, NEW c \in Codes, NEW T,
           BeginPromote(w, x, c, T)
    PROVE  RInv'
  <1> PICK r : r = [op |-> "promote", row |-> x, code |-> c, terms |-> T, reads |-> {x},
                    stale |-> {}]
      OBVIOUS
  <1>1. req' = [req EXCEPT ![w] = r] /\ UNCHANGED <<riskTables, raced>>
        BY DEF BeginPromote, Take
  <1>2. /\ r.op = "promote" /\ {"op", "row", "code", "reads", "stale"} \subseteq DOMAIN r
        /\ r.row = x /\ r.code = c /\ r.reads = {x}
        OBVIOUS
  <1>3. c \notin StandardCodes BY DEF BeginPromote, RInv, LibraryIsThere
  <1>4. RiskKnows(r)
        BY <1>2, <1>3 DEF RiskKnows, PromotionKnows, ScanKnows, EnsureKnows, BeginPromote, Promotable
  <1> QED BY <1>1, <1>2, <1>4, RiskRequestStep

LEMMA CommitPromoteKeeps ==
    ASSUME RInv, NEW w \in Workers, CommitPromote(w)
    PROVE  RInv'
  <1> PICK r : r = req[w] OBVIOUS
  <1>1. /\ pattern' = [c \in DOMAIN pattern \cup {r.code} |->
                          IF c = r.code THEN Precedent(r.terms) ELSE pattern[c]]
        /\ Commit(w, {}, {}, Idle) /\ UNCHANGED risk /\ r.op = "promote"
        BY DEF CommitPromote
  <1>2. r.code \notin StandardCodes BY <1>1 DEF RInv, RiskKnows, PromotionKnows
  <1>3. \A c \in DOMAIN pattern' \cap StandardCodes : pattern'[c] = Standard(c)
        BY <1>1, <1>2 DEF RInv, LibraryIsThere
  <1>4. DOMAIN pattern \subseteq DOMAIN pattern' BY <1>1
  <1> QED BY <1>1, <1>3, <1>4, IdleKnowsRisk, LibraryStep

LEMMA DieKeepsRisks ==
    ASSUME RInv, NEW w \in Workers, Die(w), UNCHANGED riskTables
    PROVE  RInv'
  BY IdleKnowsRisk, RiskRequestStep DEF Die

-----------------------------------------------------------------------------
(* Clause risks: the theorems                                               *)

LEMMA RisksInitHolds == RisksInit /\ SessionInit => RInv
  <1> SUFFICES ASSUME RisksInit, SessionInit PROVE RInv OBVIOUS
  <1>1. DOMAIN req = Workers /\ \A w \in Workers : req[w] = Idle BY DEF SessionInit
  <1>2. DOMAIN risk = {} /\ DOMAIN pattern = {} BY DEF RisksInit
  <1>3. \A s : RiskCopies(s) = {} BY <1>2 DEF RiskCopies
  <1>4. RisksAreCounted BY <1>3, FS_EmptySet DEF RisksAreCounted
  <1>5. LibraryIsThere BY <1>1, <1>2, IdleKnowsRisk DEF LibraryIsThere
  <1>6. RaisedOnce BY <1>2 DEF RaisedOnce
  <1> QED BY <1>1, <1>4, <1>5, <1>6, IdleKnowsRisk DEF RInv

LEMMA RisksNextHolds == RInv /\ [RisksNext]_riskVars => RInv'
  <1> SUFFICES ASSUME RInv, [RisksNext]_riskVars PROVE RInv' OBVIOUS
  <1>1. ASSUME NEW w \in Workers, NEW d \in Papers \cup {Nobody}, BeginEnsure(w, d)
        PROVE  RInv'
        BY <1>1, BeginEnsureKeeps
  <1>2. ASSUME NEW w \in Workers, CommitEnsure(w) \/ ReadScan(w) \/ CommitScan(w)
        PROVE  RInv'
        BY <1>2, CommitEnsureKeeps, ReadScanKeeps, CommitScanKeeps
  <1>3. ASSUME NEW w \in Workers, NEW u \in Reviewers, NEW x \in DOMAIN risk,
               NEW d \in RiskDispositions, NEW c \in BOOLEAN, BeginJudge(w, u, x, d, c)
        PROVE  RInv'
        BY <1>3, BeginJudgeKeeps
  <1>4. ASSUME NEW w \in Workers, CommitJudge(w) \/ CommitJudged(w) \/ CommitPromote(w)
        PROVE  RInv'
        BY <1>4, CommitJudgeKeeps, CommitJudgedKeeps, CommitPromoteKeeps
  <1>5. ASSUME NEW w \in Workers, NEW x \in DOMAIN risk, NEW c \in Codes, NEW T \in TermChoices,
               BeginPromote(w, x, c, T)
        PROVE  RInv'
        BY <1>5, BeginPromoteKeeps
  <1>6. ASSUME NEW w \in Workers, Die(w), UNCHANGED riskTables
        PROVE  RInv'
        BY <1>6, DieKeepsRisks
  <1>7. CASE UNCHANGED riskVars
    <2>1. UNCHANGED <<riskTables, pattern, risk, req, raced>>
          BY <1>7 DEF riskVars, riskTables, session
    <2>2. \A v \in Workers : RiskKnows(req[v])'
          BY <2>1 DEF RInv, RiskKnows, PromotionKnows, ScanKnows, EnsureKnows, RiskCopies
    <2>3. RisksAreCounted' /\ RaisedOnce' /\ LibraryIsThere'
          BY <2>1 DEF RInv, RisksAreCounted, RaisedOnce, RiskCopies, LibraryIsThere, Standard
    <2> QED BY <2>1, <2>2, <2>3 DEF RInv
  <1> QED BY <1>1, <1>2, <1>3, <1>4, <1>5, <1>6, <1>7 DEF RisksNext

\* However requests overlap, a promotion and a scan know what the tables say of their
\* rows, unless the rows changed since they were loaded.
THEOREM RisksInvHolds == RisksSpec => []RInv
  <1>1. RisksInit /\ SessionInit => RInv BY RisksInitHolds
  <1>2. RInv /\ [RisksNext]_riskVars => RInv' BY RisksNextHolds
  <1> QED BY <1>1, <1>2, PTL DEF RisksSpec

\* A match is raised twice only by scans that overlapped or for a long line.
THEOREM RaisedOnceOnly == RisksSpec => []RaisedOnce
  <1>1. RInv => RaisedOnce BY DEF RInv
  <1> QED BY <1>1, RisksInvHolds, PTL

\* The library only grows, by standard patterns and by precedents whose finding stood
\* accepted or was reviewed under the promotion.
THEOREM LibraryStaysReviewed == RisksSpec => LibraryIsReviewed
  <1> DEFINE Grows(c) ==
         IF c \in DOMAIN pattern THEN pattern'[c] = pattern[c]
         ELSE \/ c \in StandardCodes /\ pattern'[c] = Standard(c)
              \/ \E w \in Workers :
                    /\ req[w].op = "promote" /\ req[w].code = c
                    /\ \/ risk[req[w].row].disposition \in Accepting
                       \/ req[w].row \in req[w].stale
  <1>1. RInv /\ [RisksNext]_riskVars => [\A c \in DOMAIN pattern' : Grows(c)]_riskVars
    <2> SUFFICES ASSUME RInv, RisksNext, NEW c \in DOMAIN pattern' PROVE Grows(c)
        OBVIOUS
    <2>1. CASE UNCHANGED pattern BY <2>1
    <2>2. ASSUME NEW w \in Workers, CommitEnsure(w) PROVE Grows(c)
      <3>1. pattern' = [k \in DOMAIN pattern \cup (StandardCodes \ req[w].loaded) |->
                           IF k \in StandardCodes THEN Standard(k) ELSE pattern[k]]
            BY <2>2 DEF CommitEnsure
      <3> QED BY <3>1 DEF RInv, LibraryIsThere
    <2>3. ASSUME NEW w \in Workers, CommitPromote(w) PROVE Grows(c)
      <3>1. /\ pattern' = [k \in DOMAIN pattern \cup {req[w].code} |->
                              IF k = req[w].code THEN Precedent(req[w].terms) ELSE pattern[k]]
            /\ req[w].op = "promote" /\ req[w].code \notin DOMAIN pattern
            BY <2>3 DEF CommitPromote
      <3>2. PromotionKnows(req[w]) BY DEF RInv, RiskKnows
      <3> QED BY <3>1, <3>2 DEF PromotionKnows
    <2>4. \/ UNCHANGED pattern
          \/ \E w \in Workers : CommitEnsure(w) \/ CommitPromote(w)
          BY DEF RisksNext, BeginEnsure, ReadScan, CommitScan, BeginJudge, CommitJudge,
                 CommitJudged, BeginPromote, riskTables
    <2> QED BY <2>1, <2>2, <2>3, <2>4
  <1> QED BY <1>1, RisksInvHolds, PTL DEF RisksSpec, LibraryIsReviewed

-----------------------------------------------------------------------------
(* Clause risks: types                                                      *)

ReviewColumns == {"status", "disposition", "comment", "reviewedBy"}

ReviewChanges(ch) ==
    /\ DOMAIN ch \subseteq ReviewColumns
    /\ "status" \in DOMAIN ch => ch["status"] \in {"Open", "Closed"}
    /\ "disposition" \in DOMAIN ch => ch["disposition"] \in RiskDispositions \cup {Nobody}
    /\ "comment" \in DOMAIN ch => ch["comment"] \in BOOLEAN
    /\ "reviewedBy" \in DOMAIN ch => ch["reviewedBy"] \in Reviewers \cup {Nobody}

\* What a request carries is of the tables' types.
RiskRequestOK(rows, q) ==
    /\ q.op \in {"ensure", "match"} => "paper" \in DOMAIN q /\ q.paper \in Papers \cup {Nobody}
    /\ q.op = "match" => q.paper \in Papers
    /\ q.op = "scan" => "new" \in DOMAIN q /\ q.new \subseteq Signatures /\ IsFiniteSet(q.new)
    /\ q.op = "judge" => /\ {"row", "changes"} \subseteq DOMAIN q
                         /\ q.row \in rows /\ ReviewChanges(q.changes)
    /\ q.op = "judged" => "row" \in DOMAIN q /\ q.row \in rows
    /\ q.op = "promote" => /\ {"code", "terms"} \subseteq DOMAIN q
                           /\ q.code \in Codes /\ q.terms \in SUBSET Lines

RiskTypeInv ==
    /\ RInv
    /\ RisksTypeOK
    /\ IsFiniteSet(DOMAIN pattern) /\ IsFiniteSet(DOMAIN risk)
    /\ \A w \in Workers : RiskRequestOK(DOMAIN risk, req[w])

LEMMA ReviewColumnsOf ==
    ASSUME NEW r
    PROVE  r \in Review <=>
              /\ r = [c \in ReviewColumns |-> r[c]]
              /\ r["status"] \in {"Open", "Closed"}
              /\ r["disposition"] \in RiskDispositions \cup {Nobody}
              /\ r["comment"] \in BOOLEAN /\ r["reviewedBy"] \in Reviewers \cup {Nobody}
  <1>1. r \in Review => r = [c \in ReviewColumns |-> r[c]] BY DEF Review, ReviewColumns
  <1>2. ASSUME r = [c \in ReviewColumns |-> r[c]]
        PROVE  r = [status |-> r.status, disposition |-> r.disposition, comment |-> r.comment,
                    reviewedBy |-> r.reviewedBy]
        BY <1>2 DEF ReviewColumns
  <1> QED BY <1>1, <1>2 DEF Review

LEMMA WrittenReview ==
    ASSUME NEW r \in Review, NEW ch, ReviewChanges(ch)
    PROVE  Written(r, ch) \in Review
  <1>1. PICK n : n = Written(r, ch) OBVIOUS
  <1>2. DOMAIN r = ReviewColumns BY ReviewColumnsOf
  <1>3. n = [c \in ReviewColumns |-> IF c \in DOMAIN ch THEN ch[c] ELSE r[c]]
        BY <1>1, <1>2 DEF Written
  <1>4. n = [c \in ReviewColumns |-> n[c]] BY <1>3
  <1>5. \A c \in ReviewColumns : n[c] = IF c \in DOMAIN ch THEN ch[c] ELSE r[c] BY <1>3
  <1>6. /\ n["status"] \in {"Open", "Closed"}
        /\ n["disposition"] \in RiskDispositions \cup {Nobody}
        /\ n["reviewedBy"] \in Reviewers \cup {Nobody}
        BY <1>5, ReviewColumnsOf DEF ReviewChanges, ReviewColumns
  <1>7. n["comment"] \in BOOLEAN BY <1>5, ReviewColumnsOf DEF ReviewChanges, ReviewColumns
  <1> QED BY <1>1, <1>4, <1>6, <1>7, ReviewColumnsOf

LEMMA ChangedReview ==
    ASSUME NEW r \in Review, NEW n \in Review
    PROVE  ReviewChanges(Changes(r, n))
  <1>1. DOMAIN r = ReviewColumns /\ n = [k \in ReviewColumns |-> n[k]] BY ReviewColumnsOf
  <1>2. PICK ch : ch = Changes(r, n) OBVIOUS
  <1>3. /\ Written(r, ch) = n /\ DOMAIN ch = {k \in ReviewColumns : n[k] # r[k]}
        /\ \A k \in DOMAIN ch : ch[k] = n[k]
    <2>1. n = [c \in DOMAIN r |-> n[c]] BY <1>1
    <2>2. /\ Written(r, Changes(r, n)) = n
          /\ DOMAIN Changes(r, n) = {c \in DOMAIN r : n[c] # r[c]}
          /\ \A c \in DOMAIN Changes(r, n) : Changes(r, n)[c] = n[c]
          BY <2>1, WrittenBack
    <2> QED BY <1>1, <1>2, <2>2
  <1>4. /\ n["status"] \in {"Open", "Closed"}
        /\ n["disposition"] \in RiskDispositions \cup {Nobody}
        /\ n["comment"] \in BOOLEAN /\ n["reviewedBy"] \in Reviewers \cup {Nobody}
        BY ReviewColumnsOf
  <1>5. ReviewChanges(ch)
    <2>1. DOMAIN ch \subseteq ReviewColumns BY <1>3
    <2>2. "status" \in DOMAIN ch => ch["status"] \in {"Open", "Closed"} BY <1>3, <1>4
    <2>3. "disposition" \in DOMAIN ch => ch["disposition"] \in RiskDispositions \cup {Nobody}
          BY <1>3, <1>4
    <2>4. "comment" \in DOMAIN ch => ch["comment"] \in BOOLEAN BY <1>3, <1>4
    <2>5. "reviewedBy" \in DOMAIN ch => ch["reviewedBy"] \in Reviewers \cup {Nobody}
          BY <1>3, <1>4
    <2> QED BY <2>1, <2>2, <2>3, <2>4, <2>5 DEF ReviewChanges
  <1> QED BY <1>2, <1>5

LEMMA RiskRequestStays ==
    ASSUME NEW rows, NEW rowsAfter, rows \subseteq rowsAfter, NEW written, NEW q, NEW n,
           After(q, written, n), RiskRequestOK(rows, q)
    PROVE  RiskRequestOK(rowsAfter, n)
  <1>1. /\ DOMAIN n = DOMAIN q /\ n.op = q.op /\ \A k \in DOMAIN q \ {"stale"} : n[k] = q[k]
        BY DEF After
  <1>2. \A k \in {"paper", "new", "row", "changes", "code", "terms"} :
           k \in DOMAIN q => k \in DOMAIN n /\ n[k] = q[k]
        BY <1>1
  <1> QED BY <1>1, <1>2 DEF RiskRequestOK

LEMMA IdleIsOK == \A rows : RiskRequestOK(rows, Idle)
  <1>1. Idle.op = "idle" BY DEF Idle
  <1> QED BY <1>1 DEF RiskRequestOK

\* The tables stay; one request goes on as `next`.
LEMMA RequestTypes ==
    ASSUME RiskTypeInv, RInv', UNCHANGED riskTables, NEW w \in Workers, NEW next,
           req' = [req EXCEPT ![w] = next], RiskRequestOK(DOMAIN risk, next)
    PROVE  RiskTypeInv'
  <1>1. UNCHANGED <<pattern, risk, riskEvents>> BY DEF riskTables
  <1>2. DOMAIN req = Workers BY DEF RiskTypeInv, RInv
  <1>3. ASSUME NEW v \in Workers PROVE RiskRequestOK(DOMAIN risk', req'[v])
    <2>1. RiskRequestOK(DOMAIN risk, req[v]) BY DEF RiskTypeInv
    <2>2. req'[v] = IF v = w THEN next ELSE req[v] BY <1>2
    <2> QED BY <1>1, <2>1, <2>2
  <1>4. RisksTypeOK' /\ IsFiniteSet(DOMAIN pattern') /\ IsFiniteSet(DOMAIN risk')
        BY <1>1 DEF RiskTypeInv, RisksTypeOK
  <1> QED BY <1>3, <1>4 DEF RiskTypeInv

\* A commit leaves the requests well typed; the tables are left to show.
LEMMA CommitTypes ==
    ASSUME RiskTypeInv, RInv', NEW w \in Workers, NEW decided, NEW written, NEW next,
           Commit(w, decided, written, next), RiskRequestOK(DOMAIN risk', next),
           DOMAIN risk \subseteq DOMAIN risk', RisksTypeOK',
           IsFiniteSet(DOMAIN pattern'), IsFiniteSet(DOMAIN risk')
    PROVE  RiskTypeInv'
  <1>1. ASSUME NEW v \in Workers PROVE RiskRequestOK(DOMAIN risk', req'[v])
    <2>1. RiskRequestOK(DOMAIN risk, req[v]) BY DEF RiskTypeInv
    <2>2. CASE v = w BY <2>2 DEF Commit
    <2>3. CASE v # w /\ req[v] = Idle BY <2>3, IdleIsOK DEF Commit
    <2>4. CASE v # w /\ req[v] # Idle
      <3>1. After(req[v], written, req'[v])
            BY <2>4, RiskOthersAfter DEF RiskTypeInv, After
      <3>2. PICK rows, rowsAfter, q, n : /\ rows = DOMAIN risk /\ rowsAfter = DOMAIN risk'
                                         /\ q = req[v] /\ n = req'[v]
            OBVIOUS
      <3>3. RiskRequestOK(rowsAfter, n) BY <2>1, <3>1, <3>2, RiskRequestStays
      <3> QED BY <3>2, <3>3
    <2> QED BY <2>2, <2>3, <2>4
  <1> QED BY <1>1 DEF RiskTypeInv

\* What the scan of a paper can find is finite.
LEMMA FoundIsFinite ==
    ASSUME NEW d, NEW P, IsFiniteSet(P)
    PROVE  IsFiniteSet({d} \X P \X Lines)
  <1>1. PICK T : T = {d} \X P \X Lines OBVIOUS
  <1>2. PICK S : S = P \X Lines OBVIOUS
  <1>3. IsFiniteSet(S) BY <1>2, FS_Product, RiskAssumption
  <1>4. PICK f : f = [z \in S |-> <<d, z[1], z[2]>>] OBVIOUS
  <1>5. f \in [S -> T] BY <1>1, <1>2, <1>4
  <1>6. ASSUME NEW t \in T PROVE \E z \in S : f[z] = t
    <2>1. PICK p \in P, l \in Lines : t = <<d, p, l>> BY <1>1
    <2>2. <<p, l>> \in S /\ f[<<p, l>>] = t BY <1>2, <1>4, <2>1
    <2> QED BY <2>2
  <1>7. f \in Surjection(S, T) BY <1>5, <1>6 DEF Surjection
  <1> QED BY <1>1, <1>3, <1>7, FS_Surjection

\* The number a scan gives a finding is within the bound.
LEMMA NextCopyFits ==
    ASSUME RiskTypeInv, NEW S, IsFiniteSet(S), NEW s \in S, NEW E,
           E = DOMAIN risk \cup {<<t, NextCopy(t)>> : t \in S}, Cardinality(E) <= MaxFindings
    PROVE  IsFiniteSet(E) /\ NextCopy(s) \in 1..MaxFindings
  <1>1. IsFiniteSet(E)
    <2>1. PICK T : T = {<<t, NextCopy(t)>> : t \in S} OBVIOUS
    <2>2. PICK f : f = [t \in S |-> <<t, NextCopy(t)>>] OBVIOUS
    <2>3. f \in [S -> T] /\ \A x \in T : \E t \in S : f[t] = x BY <2>1, <2>2
    <2>4. f \in Surjection(S, T) BY <2>3 DEF Surjection
    <2>5. IsFiniteSet(T) BY <2>4, FS_Surjection
    <2> QED BY <2>1, <2>5, FS_Union DEF RiskTypeInv
  <1>2. PICK C : C = RiskCopies(s) OBVIOUS
  <1>3. PICK x : x = <<s, NextCopy(s)>> OBVIOUS
  <1>4. IsFiniteSet(C) BY <1>2 DEF RiskTypeInv, RInv, RisksAreCounted
  <1>5. PICK c, e \in Nat : c = Cardinality(C) /\ e = Cardinality(E)
        BY <1>1, <1>4, FS_CardinalityType
  <1>6. NextCopy(s) = 1 + c BY <1>2, <1>5 DEF NextCopy, RiskCopies
  <1>7. x \notin C
    <2>1. x[2] = 1 + c BY <1>3, <1>6
    <2>2. x \in C => x[2] <= c BY <1>2, <1>5 DEF RiskTypeInv, RInv, RisksAreCounted
    <2>3. ~(1 + c <= c) OBVIOUS
    <2> QED BY <2>1, <2>2, <2>3
  <1>8. C \cup {x} \subseteq E BY <1>2, <1>3 DEF RiskCopies
  <1>9. IsFiniteSet(C \cup {x}) /\ Cardinality(C \cup {x}) = c + 1
        BY <1>4, <1>5, <1>7, FS_AddElement
  <1>10. c + 1 <= e BY <1>1, <1>5, <1>8, <1>9, FS_Subset
  <1>11. MaxFindings \in Nat BY RiskAssumption
  <1>12. 1 + c \in 1..MaxFindings BY <1>5, <1>10, <1>11
  <1> QED BY <1>1, <1>6, <1>12

LEMMA ScanTypes ==
    ASSUME RiskTypeInv, RInv', NEW w \in Workers, ReadScan(w)
    PROVE  RiskTypeInv'
  <1>1. PICK d, P : d = req[w].paper /\ P = DOMAIN pattern OBVIOUS
  <1>2. PICK found : found = {s \in {d} \X P \X Lines : s[3] \in pattern[s[2]].terms} OBVIOUS
  <1>3. PICK r : r = [op |-> "scan", new |-> found \ Known(d), reads |-> found, stale |-> {}]
        OBVIOUS
  <1>4. req' = [req EXCEPT ![w] = r] /\ UNCHANGED riskTables /\ req[w].op = "match"
        BY <1>1, <1>2, <1>3 DEF ReadScan, Continue
  <1>5. r.op = "scan" /\ "new" \in DOMAIN r /\ r.new \subseteq {d} \X P \X Lines
        BY <1>2, <1>3
  <1>6. d \in Papers BY <1>1, <1>4 DEF RiskTypeInv, RiskRequestOK
  <1>7. P \subseteq Codes /\ IsFiniteSet(P) BY <1>1 DEF RiskTypeInv, RisksTypeOK
  <1>8. IsFiniteSet({d} \X P \X Lines) BY <1>7, FoundIsFinite
  <1>9. IsFiniteSet(r.new) BY <1>5, <1>8, FS_Subset
  <1>10. {d} \X P \X Lines \subseteq Signatures BY <1>6, <1>7 DEF Signatures
  <1>11. RiskRequestOK(DOMAIN risk, r) BY <1>5, <1>9, <1>10 DEF RiskRequestOK
  <1> QED BY <1>4, <1>11, RequestTypes

LEMMA CommitEnsureTypes ==
    ASSUME RiskTypeInv, RInv', NEW w \in Workers, CommitEnsure(w)
    PROVE  RiskTypeInv'
  <1>1. PICK missing : missing = StandardCodes \ req[w].loaded OBVIOUS
  <1>2. PICK next : next = IF req[w].paper = Nobody THEN Idle
                    ELSE [op |-> "match", paper |-> req[w].paper, reads |-> {}, stale |-> {}]
        OBVIOUS
  <1>3. /\ pattern' = [c \in DOMAIN pattern \cup missing |->
                          IF c \in StandardCodes THEN Standard(c) ELSE pattern[c]]
        /\ Commit(w, {}, {}, next) /\ risk' = risk /\ riskEvents' = riskEvents
        /\ req[w].op = "ensure"
        BY <1>1, <1>2 DEF CommitEnsure
  <1>4. req[w].paper \in Papers \cup {Nobody} BY <1>3 DEF RiskTypeInv, RiskRequestOK
  <1>5. RiskRequestOK(DOMAIN risk', next)
    <2>1. CASE req[w].paper = Nobody BY <1>2, <2>1, IdleIsOK
    <2>2. CASE req[w].paper # Nobody
      <3>1. PICK d \in Papers : d = req[w].paper BY <1>4, <2>2
      <3>2. next = [op |-> "match", paper |-> d, reads |-> {}, stale |-> {}] BY <1>2, <2>2, <3>1
      <3>3. next.op = "match" /\ "paper" \in DOMAIN next /\ next.paper = d BY <3>2
      <3> QED BY <3>3 DEF RiskRequestOK
    <2> QED BY <2>1, <2>2
  <1>6. \A c : Standard(c) \in Pattern BY DEF Standard, Pattern
  <1>7. RisksTypeOK' BY <1>1, <1>3, <1>6 DEF RiskTypeInv, RisksTypeOK, Codes
  <1>8. IsFiniteSet(DOMAIN pattern')
    <2>1. IsFiniteSet(missing) BY <1>1, FS_Subset, RiskAssumption
    <2>2. IsFiniteSet(DOMAIN pattern \cup missing) BY <2>1, FS_Union DEF RiskTypeInv
    <2> QED BY <1>3, <2>2
  <1>9. IsFiniteSet(DOMAIN risk') BY <1>3 DEF RiskTypeInv
  <1> QED BY <1>3, <1>5, <1>7, <1>8, <1>9, CommitTypes

LEMMA CommitPromoteTypes ==
    ASSUME RiskTypeInv, RInv', NEW w \in Workers, CommitPromote(w)
    PROVE  RiskTypeInv'
  <1>1. PICK r : r = req[w] OBVIOUS
  <1>2. /\ pattern' = [c \in DOMAIN pattern \cup {r.code} |->
                          IF c = r.code THEN Precedent(r.terms) ELSE pattern[c]]
        /\ Commit(w, {}, {}, Idle) /\ risk' = risk /\ riskEvents' = riskEvents
        /\ r.op = "promote"
        BY <1>1 DEF CommitPromote
  <1>3. r.code \in Codes /\ r.terms \in SUBSET Lines
        BY <1>1, <1>2 DEF RiskTypeInv, RiskRequestOK
  <1>4. Precedent(r.terms) \in Pattern BY <1>3 DEF Precedent, Pattern
  <1>5. RisksTypeOK' BY <1>2, <1>3, <1>4 DEF RiskTypeInv, RisksTypeOK
  <1>6. IsFiniteSet(DOMAIN pattern') /\ IsFiniteSet(DOMAIN risk')
    <2>1. IsFiniteSet({r.code}) BY FS_Singleton
    <2>2. IsFiniteSet(DOMAIN pattern \cup {r.code}) BY <2>1, FS_Union DEF RiskTypeInv
    <2> QED BY <1>2, <2>2 DEF RiskTypeInv
  <1> QED BY <1>2, <1>5, <1>6, IdleIsOK, CommitTypes

LEMMA CommitScanTypes ==
    ASSUME RiskTypeInv, RInv', NEW w \in Workers, CommitScan(w)
    PROVE  RiskTypeInv'
  <1>1. PICK r : r = req[w] OBVIOUS
  <1>2. PICK I : I = {<<s, NextCopy(s)>> : s \in r.new} OBVIOUS
  <1>3. /\ risk' = [x \in DOMAIN risk \cup I |-> IF x \in I THEN Unreviewed ELSE risk[x]]
        /\ Commit(w, r.new, r.new, Idle) /\ pattern' = pattern /\ riskEvents' = riskEvents
        /\ r.op = "scan" /\ Cardinality(DOMAIN risk \cup I) <= MaxFindings
        BY <1>1, <1>2 DEF CommitScan
  <1>4. r.new \subseteq Signatures /\ IsFiniteSet(r.new)
        BY <1>1, <1>3 DEF RiskTypeInv, RiskRequestOK
  <1>5. PICK E : E = DOMAIN risk \cup I OBVIOUS
  <1>6. \A s \in r.new : NextCopy(s) \in 1..MaxFindings BY <1>2, <1>3, <1>4, <1>5, NextCopyFits
  <1>7. IsFiniteSet(E)
    <2>1. CASE r.new = {} BY <1>2, <1>5, <2>1 DEF RiskTypeInv
    <2>2. CASE r.new # {} BY <1>2, <1>3, <1>4, <1>5, <2>2, NextCopyFits
    <2> QED BY <2>1, <2>2
  <1>8. I \subseteq RiskRows BY <1>2, <1>4, <1>6 DEF RiskRows
  <1>9. Unreviewed \in Review BY DEF Unreviewed, Review
  <1>10. RisksTypeOK' BY <1>3, <1>8, <1>9 DEF RiskTypeInv, RisksTypeOK
  <1>11. IsFiniteSet(DOMAIN pattern') /\ IsFiniteSet(DOMAIN risk') /\ DOMAIN risk \subseteq DOMAIN risk'
         BY <1>3, <1>5, <1>7 DEF RiskTypeInv
  <1> QED BY <1>3, <1>10, <1>11, IdleIsOK, CommitTypes

LEMMA CommitJudgeTypes ==
    ASSUME RiskTypeInv, RInv', NEW w \in Workers, CommitJudge(w)
    PROVE  RiskTypeInv'
  <1>1. PICK r : r = req[w] OBVIOUS
  <1>2. PICK next : next = [op |-> "judged", row |-> r.row, reads |-> {}, stale |-> {}] OBVIOUS
  <1>3. /\ risk' = [risk EXCEPT ![r.row] = Written(@, r.changes)] /\ r.op = "judge"
        /\ Commit(w, {r.row}, {r.row}, next) /\ pattern' = pattern /\ riskEvents' = riskEvents
        BY <1>1, <1>2 DEF CommitJudge
  <1>4. r.row \in DOMAIN risk /\ ReviewChanges(r.changes)
        BY <1>1, <1>3 DEF RiskTypeInv, RiskRequestOK
  <1>5. Written(risk[r.row], r.changes) \in Review
        BY <1>4, WrittenReview DEF RiskTypeInv, RisksTypeOK
  <1>6. RisksTypeOK' BY <1>3, <1>4, <1>5 DEF RiskTypeInv, RisksTypeOK
  <1>7. next.op = "judged" /\ "row" \in DOMAIN next /\ next.row = r.row BY <1>2
  <1>8. DOMAIN risk' = DOMAIN risk BY <1>3
  <1>9. RiskRequestOK(DOMAIN risk', next) BY <1>4, <1>7, <1>8 DEF RiskRequestOK
  <1>10. IsFiniteSet(DOMAIN pattern') /\ IsFiniteSet(DOMAIN risk') BY <1>3, <1>8 DEF RiskTypeInv
  <1> QED BY <1>3, <1>6, <1>8, <1>9, <1>10, CommitTypes

LEMMA CommitJudgedTypes ==
    ASSUME RiskTypeInv, RInv', NEW w \in Workers, CommitJudged(w)
    PROVE  RiskTypeInv'
  <1>1. PICK r : r = req[w] OBVIOUS
  <1>2. /\ riskEvents' = riskEvents \cup {r.row} /\ r.op = "judged"
        /\ Commit(w, {}, {}, Idle) /\ pattern' = pattern /\ risk' = risk
        BY <1>1 DEF CommitJudged
  <1>3. r.row \in DOMAIN risk BY <1>1, <1>2 DEF RiskTypeInv, RiskRequestOK
  <1>4. RisksTypeOK' BY <1>2, <1>3 DEF RiskTypeInv, RisksTypeOK
  <1> QED BY <1>2, <1>4, IdleIsOK, CommitTypes DEF RiskTypeInv

LEMMA BeginRiskTypes ==
    ASSUME RiskTypeInv, RInv', NEW w \in Workers,
           \/ \E d \in Papers \cup {Nobody} : BeginEnsure(w, d)
           \/ \E u \in Reviewers, x \in DOMAIN risk, d \in RiskDispositions, c \in BOOLEAN :
                 BeginJudge(w, u, x, d, c)
           \/ \E x \in DOMAIN risk, c \in Codes, T \in TermChoices : BeginPromote(w, x, c, T)
    PROVE  RiskTypeInv'
  <1>1. ASSUME NEW d \in Papers \cup {Nobody}, BeginEnsure(w, d) PROVE RiskTypeInv'
    <2>1. PICK r : r = [op |-> "ensure", paper |-> d, loaded |-> DOMAIN pattern, reads |-> {},
                        stale |-> {}]
          OBVIOUS
    <2>2. req' = [req EXCEPT ![w] = r] /\ UNCHANGED riskTables
          BY <1>1, <2>1 DEF BeginEnsure, Take
    <2>3. r.op = "ensure" /\ "paper" \in DOMAIN r /\ r.paper = d BY <2>1
    <2>4. RiskRequestOK(DOMAIN risk, r) BY <2>3 DEF RiskRequestOK
    <2> QED BY <2>2, <2>4, RequestTypes
  <1>2. ASSUME NEW u \in Reviewers, NEW x \in DOMAIN risk, NEW n \in Review,
               Take(w, [op |-> "judge", row |-> x, changes |-> Changes(risk[x], n),
                        reads |-> {}, stale |-> {}]),
               UNCHANGED riskTables
        PROVE  RiskTypeInv'
    <2>1. PICK ch : ch = Changes(risk[x], n) OBVIOUS
    <2>2. PICK r : r = [op |-> "judge", row |-> x, changes |-> ch, reads |-> {}, stale |-> {}]
          OBVIOUS
    <2>3. req' = [req EXCEPT ![w] = r] BY <1>2, <2>1, <2>2 DEF Take
    <2>4. risk[x] \in Review BY DEF RiskTypeInv, RisksTypeOK
    <2>5. ReviewChanges(ch) BY <2>1, <2>4, ChangedReview
    <2>6. r.op = "judge" /\ {"row", "changes"} \subseteq DOMAIN r /\ r.row = x /\ r.changes = ch
          BY <2>2
    <2>7. RiskRequestOK(DOMAIN risk, r) BY <2>5, <2>6 DEF RiskRequestOK
    <2> QED BY <1>2, <2>3, <2>7, RequestTypes
  <1>3. ASSUME NEW u \in Reviewers, NEW x \in DOMAIN risk, NEW d \in RiskDispositions,
               NEW c \in BOOLEAN, BeginJudge(w, u, x, d, c)
        PROVE  RiskTypeInv'
    <2>1. Judged(d, c, u) \in Review BY DEF Judged, Review
    <2> QED BY <1>2, <1>3, <2>1 DEF BeginJudge
  <1>4. ASSUME NEW x \in DOMAIN risk, NEW c \in Codes, NEW T \in TermChoices,
               BeginPromote(w, x, c, T)
        PROVE  RiskTypeInv'
    <2>1. PICK r : r = [op |-> "promote", row |-> x, code |-> c, terms |-> T, reads |-> {x},
                        stale |-> {}]
          OBVIOUS
    <2>2. req' = [req EXCEPT ![w] = r] /\ UNCHANGED riskTables
          BY <1>4, <2>1 DEF BeginPromote, Take
    <2>3. r.op = "promote" /\ {"code", "terms"} \subseteq DOMAIN r /\ r.code = c /\ r.terms = T
          BY <2>1
    <2>4. T \in SUBSET Lines BY RiskAssumption
    <2>5. RiskRequestOK(DOMAIN risk, r) BY <2>3, <2>4 DEF RiskRequestOK
    <2> QED BY <2>2, <2>5, RequestTypes
  <1> QED BY <1>1, <1>3, <1>4

LEMMA RisksTypesHold == RiskTypeInv /\ [RisksNext]_riskVars => RiskTypeInv'
  <1> SUFFICES ASSUME RiskTypeInv, [RisksNext]_riskVars PROVE RiskTypeInv' OBVIOUS
  <1>1. RInv' BY RisksNextHolds DEF RiskTypeInv
  <1>2. ASSUME NEW w \in Workers,
               \/ \E d \in Papers \cup {Nobody} : BeginEnsure(w, d)
               \/ \E u \in Reviewers, x \in DOMAIN risk, d \in RiskDispositions, c \in BOOLEAN :
                     BeginJudge(w, u, x, d, c)
               \/ \E x \in DOMAIN risk, c \in Codes, T \in TermChoices : BeginPromote(w, x, c, T)
        PROVE  RiskTypeInv'
        BY <1>1, <1>2, BeginRiskTypes
  <1>3. ASSUME NEW w \in Workers, CommitEnsure(w) \/ ReadScan(w) \/ CommitScan(w)
        PROVE  RiskTypeInv'
        BY <1>1, <1>3, CommitEnsureTypes, ScanTypes, CommitScanTypes
  <1>4. ASSUME NEW w \in Workers, CommitJudge(w) \/ CommitJudged(w) \/ CommitPromote(w)
        PROVE  RiskTypeInv'
        BY <1>1, <1>4, CommitJudgeTypes, CommitJudgedTypes, CommitPromoteTypes
  <1>5. ASSUME NEW w \in Workers, Die(w), UNCHANGED riskTables
        PROVE  RiskTypeInv'
        BY <1>1, <1>5, IdleIsOK, RequestTypes DEF Die
  <1>6. CASE UNCHANGED riskVars
    <2>1. UNCHANGED <<pattern, risk, riskEvents, req>> BY <1>6 DEF riskVars, riskTables, session
    <2>2. RisksTypeOK' BY <2>1 DEF RiskTypeInv, RisksTypeOK
    <2>3. /\ IsFiniteSet(DOMAIN pattern') /\ IsFiniteSet(DOMAIN risk')
          /\ \A w \in Workers : RiskRequestOK(DOMAIN risk', req'[w])
          BY <2>1 DEF RiskTypeInv
    <2> QED BY <1>1, <2>2, <2>3 DEF RiskTypeInv
  <1> QED BY <1>2, <1>3, <1>4, <1>5, <1>6 DEF RisksNext

LEMMA RisksTypesInit == RisksInit /\ SessionInit => RiskTypeInv
  <1> SUFFICES ASSUME RisksInit, SessionInit PROVE RiskTypeInv OBVIOUS
  <1>1. RInv BY RisksInitHolds
  <1>2. DOMAIN pattern = {} /\ DOMAIN risk = {} /\ riskEvents = {} BY DEF RisksInit
  <1>3. \A w \in Workers : RiskRequestOK(DOMAIN risk, req[w]) BY IdleIsOK DEF SessionInit
  <1> QED BY <1>1, <1>2, <1>3, FS_EmptySet DEF RiskTypeInv, RisksTypeOK

\* The library and the findings hold rows of their columns, whatever requests overlap,
\* and no finding is numbered beyond the bound.
THEOREM RisksAreWellFormed == RisksSpec => []RisksTypeOK
  <1>1. RisksInit /\ SessionInit => RiskTypeInv BY RisksTypesInit
  <1>2. RiskTypeInv /\ [RisksNext]_riskVars => RiskTypeInv' BY RisksTypesHold
  <1>3. RiskTypeInv => RisksTypeOK BY DEF RiskTypeInv
  <1> QED BY <1>1, <1>2, <1>3, PTL DEF RisksSpec

-----------------------------------------------------------------------------
(* Requirements: the invariant                                              *)

RequirementColumns == {"text", "review", "reviewedBy", "owner"}
InputColumns == {"status", "resolvedBy", "owner", "of"}

\* The changes of an edit are of the columns it may touch.
RequirementChanges(ch) ==
    /\ DOMAIN ch \subseteq RequirementColumns
    /\ "text" \in DOMAIN ch => ch["text"] \in Texts
    /\ "review" \in DOMAIN ch => ch["review"] \in ReviewStatuses
    /\ "reviewedBy" \in DOMAIN ch => ch["reviewedBy"] \in Reviewers \cup {Nobody}
    /\ "owner" \in DOMAIN ch => ch["owner"] \in Owners \cup {Nobody}

InputChanges(ch) ==
    /\ DOMAIN ch \subseteq InputColumns \ {"of"}
    /\ "status" \in DOMAIN ch => ch["status"] \in InputStatuses
    /\ "resolvedBy" \in DOMAIN ch => ch["resolvedBy"] \in Reviewers \cup {Nobody}
    /\ "owner" \in DOMAIN ch => ch["owner"] \in Owners \cup {Nobody}

\* All rows but the extracted ones whose text an edit changed: an extracted one
\* among them says what it was extracted as.
Standing == DOMAIN requirement \ retyped

StandsAsExtracted ==
    \A x \in Standing : x[1] \in Candidates => requirement[x].text = x[1]

\* An extraction knows of every row that stands as extracted, unless another one
\* inserted it since.
ExtractKnows(standing, q) ==
    q.op = "extract" =>
        /\ "new" \in DOMAIN q /\ q.new \subseteq Candidates
        /\ \A c \in Candidates : <<c>> \in q.reads
        /\ \A c \in q.new, x \in standing : x[1] = c => <<c>> \in q.stale

\* An edit leaves what it made of the row, unless the row changed since.
EditKnows(rows, q) ==
    q.op = "edit" =>
        /\ {"row", "changes"} \subseteq DOMAIN q
        /\ q.row \in DOMAIN rows /\ q.row \in q.reads /\ RequirementChanges(q.changes)
        /\ q.row \notin q.stale => \E u \in Reviewers :
              Written(rows[q.row], q.changes) \in Edits(rows[q.row], u)

EditInputKnows(inputs, q) ==
    q.op = "edit input" =>
        /\ {"row", "changes"} \subseteq DOMAIN q
        /\ q.row \in DOMAIN inputs /\ q.row \in q.reads /\ InputChanges(q.changes)
        /\ q.row \notin q.stale => \E u \in Reviewers :
              Written(inputs[q.row], q.changes) \in InputEdits(inputs[q.row], u)

\* The rows an assignment gives an owner have none, unless they changed since.
GivesOwners(table, owner, q) ==
    /\ DOMAIN owner \subseteq DOMAIN table \cap q.reads
    /\ \A x \in DOMAIN owner :
          /\ owner[x] \in Owners \cup {"suggested"}
          /\ x \notin q.stale => table[x].owner = Nobody

AssignKnows(rows, inputs, q) ==
    q.op = "assign" =>
        /\ {"owner", "inputOwner"} \subseteq DOMAIN q
        /\ GivesOwners(rows, q.owner, q) /\ GivesOwners(inputs, q.inputOwner, q)

RequirementKnows(rows, inputs, standing, q) ==
    /\ ExtractKnows(standing, q) /\ EditKnows(rows, q)
    /\ EditInputKnows(inputs, q) /\ AssignKnows(rows, inputs, q)

\* What an input is linked to is there.
LinksAreRows(rows, inputs) ==
    \A i \in DOMAIN inputs : inputs[i].of \in DOMAIN rows \cup {Nobody}

\* A row's verdict names who decided; `origin`: what the row was created as.
Attributed(row, origin) ==
    /\ row.review = "Reviewed" => row.reviewedBy # Nobody \/ origin = "Reviewed"
    /\ row.review # "Reviewed" => row.reviewedBy = Nobody

InputAttributed(row) == (row.status \in Resolved) <=> (row.resolvedBy # Nobody)

ReqInv ==
    /\ RequirementsTypeOK
    /\ CopiesCounted(DOMAIN requirement) /\ CopiesCounted(DOMAIN input)
    /\ LinksAreRows(requirement, input)
    /\ SessionInv
    /\ \A w \in Workers : RequirementKnows(requirement, input, Standing, req[w])
    /\ StandsAsExtracted
    /\ ExtractedOnce
    /\ VerdictsAreAttributed

-----------------------------------------------------------------------------
(* Requirements: rows                                                       *)

LEMMA RequirementColumnsOf ==
    ASSUME NEW r
    PROVE  r \in RequirementRow <=>
              /\ r = [c \in RequirementColumns |-> r[c]]
              /\ r["text"] \in Texts /\ r["review"] \in ReviewStatuses
              /\ r["reviewedBy"] \in Reviewers \cup {Nobody}
              /\ r["owner"] \in Owners \cup {"suggested", Nobody}
  <1>1. r \in RequirementRow => r = [c \in RequirementColumns |-> r[c]]
        BY DEF RequirementRow, RequirementColumns
  <1>2. ASSUME r = [c \in RequirementColumns |-> r[c]]
        PROVE  r = [text |-> r.text, review |-> r.review, reviewedBy |-> r.reviewedBy,
                    owner |-> r.owner]
        BY <1>2 DEF RequirementColumns
  <1> QED BY <1>1, <1>2 DEF RequirementRow

LEMMA InputColumnsOf ==
    ASSUME NEW r
    PROVE  r \in InputRow <=>
              /\ r = [c \in InputColumns |-> r[c]]
              /\ r["status"] \in InputStatuses /\ r["resolvedBy"] \in Reviewers \cup {Nobody}
              /\ r["owner"] \in Owners \cup {"suggested", Nobody}
              /\ r["of"] \in (Origins \X Nat) \cup {Nobody}
  <1>1. r \in InputRow => r = [c \in InputColumns |-> r[c]]
        BY DEF InputRow, InputColumns
  <1>2. ASSUME r = [c \in InputColumns |-> r[c]]
        PROVE  r = [status |-> r.status, resolvedBy |-> r.resolvedBy, owner |-> r.owner,
                    of |-> r.of]
        BY <1>2 DEF InputColumns
  <1> QED BY <1>1, <1>2 DEF InputRow

\* What an edit writes is a row, whatever the row says by then.
LEMMA WrittenRequirement ==
    ASSUME NEW r \in RequirementRow, NEW ch, RequirementChanges(ch)
    PROVE  /\ Written(r, ch) \in RequirementRow
           /\ "text" \notin DOMAIN ch => Written(r, ch)["text"] = r["text"]
  <1>1. PICK n : n = Written(r, ch) OBVIOUS
  <1>2. DOMAIN r = RequirementColumns BY RequirementColumnsOf
  <1>3. n = [c \in RequirementColumns |-> IF c \in DOMAIN ch THEN ch[c] ELSE r[c]]
        BY <1>1, <1>2 DEF Written
  <1>4. n = [c \in RequirementColumns |-> n[c]] BY <1>3
  <1>5. \A c \in RequirementColumns : n[c] = IF c \in DOMAIN ch THEN ch[c] ELSE r[c] BY <1>3
  <1>6. /\ "text" \notin DOMAIN ch => n["text"] = r["text"]
        /\ n["text"] \in Texts
        /\ n["review"] \in ReviewStatuses /\ n["reviewedBy"] \in Reviewers \cup {Nobody}
        /\ n["owner"] \in Owners \cup {"suggested", Nobody}
        BY <1>5, RequirementColumnsOf DEF RequirementChanges, RequirementColumns
  <1> QED BY <1>1, <1>4, <1>6, RequirementColumnsOf

LEMMA WrittenInput ==
    ASSUME NEW r \in InputRow, NEW ch, InputChanges(ch)
    PROVE  Written(r, ch) \in InputRow /\ Written(r, ch)["of"] = r["of"]
  <1>1. PICK n : n = Written(r, ch) OBVIOUS
  <1>2. DOMAIN r = InputColumns BY InputColumnsOf
  <1>3. n = [c \in InputColumns |-> IF c \in DOMAIN ch THEN ch[c] ELSE r[c]]
        BY <1>1, <1>2 DEF Written
  <1>4. n = [c \in InputColumns |-> n[c]] BY <1>3
  <1>5. \A c \in InputColumns : n[c] = IF c \in DOMAIN ch THEN ch[c] ELSE r[c] BY <1>3
  <1>6. /\ n["of"] = r["of"]
        /\ n["status"] \in InputStatuses /\ n["resolvedBy"] \in Reviewers \cup {Nobody}
        /\ n["owner"] \in Owners \cup {"suggested", Nobody}
        BY <1>5, InputColumnsOf DEF InputChanges, InputColumns
  <1>7. n["of"] \in (Origins \X Nat) \cup {Nobody} BY <1>6, InputColumnsOf
  <1> QED BY <1>1, <1>4, <1>6, <1>7, InputColumnsOf

\* What an edit makes of a requirement and of an input, said of their columns.
RequirementEdited(r, n, u) ==
    /\ DOMAIN n = RequirementColumns /\ n = [c \in RequirementColumns |-> n[c]]
    /\ n["text"] \in Texts /\ n["owner"] \in {r["owner"], Nobody} \cup Owners
    /\ n["review"] \in ReviewStatuses /\ n["reviewedBy"] \in Reviewers \cup {Nobody}
    /\ \/ n["review"] = r["review"] /\ n["reviewedBy"] = r["reviewedBy"]
       \/ n["reviewedBy"] = IF n["review"] = "Reviewed" THEN u ELSE Nobody

InputEdited(r, n, u) ==
    /\ DOMAIN n = InputColumns /\ n = [c \in InputColumns |-> n[c]]
    /\ n["of"] = r["of"] /\ n["owner"] \in {r["owner"], Nobody} \cup Owners
    /\ n["status"] \in InputStatuses /\ n["resolvedBy"] \in Reviewers \cup {Nobody}
    /\ \/ n["status"] = r["status"] /\ n["resolvedBy"] = r["resolvedBy"]
       \/ n["resolvedBy"] = IF n["status"] \in Resolved THEN u ELSE Nobody

\* What a user makes of a requirement: a row, whose verdict says who decided.
LEMMA EditedRequirement ==
    ASSUME NEW r \in RequirementRow, NEW u \in Reviewers, NEW n \in Edits(r, u)
    PROVE  /\ n \in RequirementRow
           /\ \A o : Attributed(r, o) => Attributed(n, o)
           /\ RequirementChanges(Changes(r, n)) /\ Written(r, Changes(r, n)) = n
  <1>1. DOMAIN r = RequirementColumns /\ r = [c \in RequirementColumns |-> r[c]]
        BY RequirementColumnsOf
  <1>2. RequirementEdited(r, n, u)
    <2>1. ASSUME NEW t \in Texts, n = [r EXCEPT !.text = t] PROVE RequirementEdited(r, n, u)
          BY <1>1, <2>1, RequirementColumnsOf DEF RequirementColumns, RequirementEdited
    <2>2. ASSUME NEW o \in Owners \cup {Nobody}, n = [r EXCEPT !.owner = o]
          PROVE  RequirementEdited(r, n, u)
          BY <1>1, <2>2, RequirementColumnsOf DEF RequirementColumns, RequirementEdited
    <2>3. ASSUME NEW status \in ReviewStatuses, n = ReviewedAs(r, status, u)
          PROVE  RequirementEdited(r, n, u)
      <3>1. PICK v : v = IF status = "Reviewed" THEN u ELSE Nobody OBVIOUS
      <3>2. n = [r EXCEPT !.review = status, !.reviewedBy = v] BY <2>3, <3>1 DEF ReviewedAs
      <3> QED BY <1>1, <3>1, <3>2, RequirementColumnsOf DEF RequirementColumns, RequirementEdited
    <2> QED BY <2>1, <2>2, <2>3 DEF Edits
  <1>3. n["owner"] \in Owners \cup {"suggested", Nobody}
        BY <1>2, RequirementColumnsOf DEF RequirementEdited
  <1>4. n \in RequirementRow BY <1>2, <1>3, RequirementColumnsOf DEF RequirementEdited
  <1>5. u # Nobody BY ReviewersAssumption
  <1>6. ASSUME NEW o, Attributed(r, o) PROVE Attributed(n, o)
        BY <1>2, <1>5, <1>6 DEF Attributed, RequirementEdited
  <1>7. PICK ch : ch = Changes(r, n) OBVIOUS
  <1>8. n = [c \in RequirementColumns |-> n[c]] /\ DOMAIN r = RequirementColumns
        BY <1>1, <1>2 DEF RequirementEdited
  <1>9. /\ Written(r, ch) = n /\ DOMAIN ch = {c \in RequirementColumns : n[c] # r[c]}
        /\ \A c \in DOMAIN ch : ch[c] = n[c]
    <2>1. n = [c \in DOMAIN r |-> n[c]] BY <1>8
    <2>2. /\ Written(r, Changes(r, n)) = n
          /\ DOMAIN Changes(r, n) = {c \in DOMAIN r : n[c] # r[c]}
          /\ \A c \in DOMAIN Changes(r, n) : Changes(r, n)[c] = n[c]
          BY <2>1, WrittenBack
    <2> QED BY <1>7, <1>8, <2>2
  <1>10. RequirementChanges(ch) BY <1>2, <1>9 DEF RequirementChanges, RequirementEdited
  <1> QED BY <1>2, <1>4, <1>6, <1>7, <1>9, <1>10 DEF RequirementEdited

LEMMA EditedInput ==
    ASSUME NEW r \in InputRow, NEW u \in Reviewers, NEW n \in InputEdits(r, u)
    PROVE  /\ n \in InputRow /\ n["of"] = r["of"]
           /\ InputAttributed(r) => InputAttributed(n)
           /\ InputChanges(Changes(r, n)) /\ Written(r, Changes(r, n)) = n
  <1>1. DOMAIN r = InputColumns /\ r = [c \in InputColumns |-> r[c]]
        BY InputColumnsOf
  <1>2. InputEdited(r, n, u)
    <2>1. ASSUME NEW o \in Owners \cup {Nobody}, n = [r EXCEPT !.owner = o]
          PROVE  InputEdited(r, n, u)
          BY <1>1, <2>1, InputColumnsOf DEF InputColumns, InputEdited
    <2>2. ASSUME NEW status \in InputStatuses, n = WithStatus(r, status, u)
          PROVE  InputEdited(r, n, u)
      <3>1. PICK v : v = IF status \in Resolved THEN u ELSE Nobody OBVIOUS
      <3>2. n = [r EXCEPT !.status = status, !.resolvedBy = v] BY <2>2, <3>1 DEF WithStatus
      <3> QED BY <1>1, <3>1, <3>2, InputColumnsOf DEF InputColumns, InputEdited
    <2> QED BY <2>1, <2>2 DEF InputEdits
  <1>3. /\ n["owner"] \in Owners \cup {"suggested", Nobody}
        /\ n["of"] \in (Origins \X Nat) \cup {Nobody}
        BY <1>2, InputColumnsOf DEF InputEdited
  <1>4. n \in InputRow BY <1>2, <1>3, InputColumnsOf DEF InputEdited
  <1>5. u # Nobody BY ReviewersAssumption
  <1>6. InputAttributed(r) => InputAttributed(n) BY <1>2, <1>5 DEF InputAttributed, InputEdited
  <1>7. PICK ch : ch = Changes(r, n) OBVIOUS
  <1>8. n = [c \in InputColumns |-> n[c]] /\ DOMAIN r = InputColumns BY <1>1, <1>2 DEF InputEdited
  <1>9. /\ Written(r, ch) = n /\ DOMAIN ch = {c \in InputColumns : n[c] # r[c]}
        /\ \A c \in DOMAIN ch : ch[c] = n[c]
    <2>1. n = [c \in DOMAIN r |-> n[c]] BY <1>8
    <2>2. /\ Written(r, Changes(r, n)) = n
          /\ DOMAIN Changes(r, n) = {c \in DOMAIN r : n[c] # r[c]}
          /\ \A c \in DOMAIN Changes(r, n) : Changes(r, n)[c] = n[c]
          BY <2>1, WrittenBack
    <2> QED BY <1>7, <1>8, <2>2
  <1>10. InputChanges(ch) BY <1>2, <1>9 DEF InputChanges, InputEdited, InputColumns
  <1> QED BY <1>2, <1>4, <1>6, <1>7, <1>9, <1>10 DEF InputEdited

-----------------------------------------------------------------------------
(* Requirements: what a request knows survives the steps of others          *)

TableKept(old, new, written) ==
    DOMAIN old \subseteq DOMAIN new /\ \A x \in DOMAIN old \ written : new[x] = old[x]

\* No row comes to stand as extracted, unless the step inserts it.
StandingKept(old, new, written) ==
    \A x \in new : x[1] \in Candidates => x \in old \/ <<x[1]>> \in written

LEMMA OwnersStay ==
    ASSUME NEW old, NEW new, NEW written, TableKept(old, new, written),
           NEW q, NEW n, After(q, written, n), NEW owner, GivesOwners(old, owner, q)
    PROVE  GivesOwners(new, owner, n)
  <1>1. n.reads = q.reads /\ n.stale = q.stale \cup (written \cap q.reads) BY DEF After
  <1>2. ASSUME NEW x \in DOMAIN owner, x \notin n.stale
        PROVE  new[x].owner = Nobody
    <2>1. x \in DOMAIN old /\ x \in q.reads BY DEF GivesOwners
    <2>2. x \notin q.stale /\ x \notin written BY <1>1, <1>2, <2>1
    <2> QED BY <2>1, <2>2 DEF GivesOwners, TableKept
  <1> QED BY <1>1, <1>2 DEF GivesOwners, TableKept

LEMMA RequirementStaysKnown ==
    ASSUME NEW rows, NEW rowsAfter, NEW inputs, NEW inputsAfter, NEW written,
           TableKept(rows, rowsAfter, written), TableKept(inputs, inputsAfter, written),
           NEW standing, NEW standingAfter, StandingKept(standing, standingAfter, written),
           NEW q, NEW n, After(q, written, n), RequirementKnows(rows, inputs, standing, q)
    PROVE  RequirementKnows(rowsAfter, inputsAfter, standingAfter, n)
  <1>1. /\ DOMAIN n = DOMAIN q /\ n.op = q.op /\ n.reads = q.reads
        /\ n.stale = q.stale \cup (written \cap q.reads)
        /\ \A k \in DOMAIN q \ {"stale"} : n[k] = q[k]
        BY DEF After
  <1>2. ExtractKnows(standingAfter, n)
    <2> SUFFICES ASSUME n.op = "extract" PROVE ExtractKnows(standingAfter, n) BY DEF ExtractKnows
    <2>1. ExtractKnows(standing, q) /\ q.op = "extract" BY <1>1 DEF RequirementKnows
    <2>2. "new" \in DOMAIN n /\ n.new = q.new /\ q.new \subseteq Candidates
          BY <1>1, <2>1 DEF ExtractKnows
    <2>3. ASSUME NEW c \in q.new, NEW x \in standingAfter, x[1] = c
          PROVE  <<c>> \in n.stale
      <3>1. x \in standing \/ <<c>> \in written BY <2>2, <2>3 DEF StandingKept
      <3>2. <<c>> \in q.reads BY <2>1, <2>2 DEF ExtractKnows
      <3> QED BY <1>1, <2>1, <2>3, <3>1, <3>2 DEF ExtractKnows
    <2> QED BY <1>1, <2>1, <2>2, <2>3 DEF ExtractKnows
  <1>3. EditKnows(rowsAfter, n)
    <2> SUFFICES ASSUME n.op = "edit" PROVE EditKnows(rowsAfter, n) BY DEF EditKnows
    <2>1. EditKnows(rows, q) /\ q.op = "edit" BY <1>1 DEF RequirementKnows
    <2>2. /\ {"row", "changes"} \subseteq DOMAIN n /\ n.row = q.row /\ n.changes = q.changes
          BY <1>1, <2>1 DEF EditKnows
    <2>3. q.row \in DOMAIN rows /\ q.row \in q.reads BY <2>1 DEF EditKnows
    <2>4. n.row \notin n.stale => q.row \notin q.stale /\ rowsAfter[q.row] = rows[q.row]
          BY <1>1, <2>2, <2>3 DEF TableKept
    <2>5. q.row \in DOMAIN rowsAfter BY <2>3 DEF TableKept
    <2> QED BY <1>1, <2>1, <2>2, <2>3, <2>4, <2>5 DEF EditKnows
  <1>4. EditInputKnows(inputsAfter, n)
    <2> SUFFICES ASSUME n.op = "edit input" PROVE EditInputKnows(inputsAfter, n)
        BY DEF EditInputKnows
    <2>1. EditInputKnows(inputs, q) /\ q.op = "edit input" BY <1>1 DEF RequirementKnows
    <2>2. /\ {"row", "changes"} \subseteq DOMAIN n /\ n.row = q.row /\ n.changes = q.changes
          BY <1>1, <2>1 DEF EditInputKnows
    <2>3. q.row \in DOMAIN inputs /\ q.row \in q.reads BY <2>1 DEF EditInputKnows
    <2>4. n.row \notin n.stale => q.row \notin q.stale /\ inputsAfter[q.row] = inputs[q.row]
          BY <1>1, <2>2, <2>3 DEF TableKept
    <2>5. q.row \in DOMAIN inputsAfter BY <2>3 DEF TableKept
    <2> QED BY <1>1, <2>1, <2>2, <2>3, <2>4, <2>5 DEF EditInputKnows
  <1>5. AssignKnows(rowsAfter, inputsAfter, n)
    <2> SUFFICES ASSUME n.op = "assign" PROVE AssignKnows(rowsAfter, inputsAfter, n)
        BY DEF AssignKnows
    <2>1. AssignKnows(rows, inputs, q) /\ q.op = "assign" BY <1>1 DEF RequirementKnows
    <2>2. /\ {"owner", "inputOwner"} \subseteq DOMAIN n /\ n.owner = q.owner
          /\ n.inputOwner = q.inputOwner
          BY <1>1, <2>1 DEF AssignKnows
    <2>3. GivesOwners(rowsAfter, q.owner, n) /\ GivesOwners(inputsAfter, q.inputOwner, n)
          BY <2>1, OwnersStay DEF AssignKnows
    <2> QED BY <2>2, <2>3 DEF AssignKnows
  <1> QED BY <1>2, <1>3, <1>4, <1>5 DEF RequirementKnows

LEMMA IdleKnowsRequirement ==
    \A rows, inputs, standing : RequirementKnows(rows, inputs, standing, Idle)
  <1>1. Idle.op = "idle" BY DEF Idle
  <1> QED BY <1>1 DEF RequirementKnows, ExtractKnows, EditKnows, EditInputKnows, AssignKnows

\* The tables stay; a worker takes a request.
LEMMA TakeRequirement ==
    ASSUME ReqInv, UNCHANGED requirementTables, NEW w \in Workers, NEW request, Take(w, request),
           {"op", "reads", "stale"} \subseteq DOMAIN request,
           RequirementKnows(requirement, input, Standing, request)
    PROVE  ReqInv'
  <1>1. /\ SessionInv' /\ raced' = raced /\ requirement' = requirement /\ input' = input
        /\ Standing' = Standing
        /\ \A v \in Workers : req'[v] = IF v = w THEN request ELSE req[v]
        BY TakeOthers DEF ReqInv, requirementTables, Standing
  <1>2. ASSUME NEW v \in Workers PROVE RequirementKnows(requirement', input', Standing', req'[v])
    <2>1. RequirementKnows(requirement, input, Standing, req[v]) BY DEF ReqInv
    <2> QED BY <1>1, <2>1
  <1>3. RequirementsTypeOK' /\ StandsAsExtracted' /\ ExtractedOnce' /\ VerdictsAreAttributed'
    <2>1. retyped' = retyped BY DEF requirementTables
    <2> QED BY <1>1, <2>1 DEF ReqInv, RequirementsTypeOK, StandsAsExtracted, ExtractedOnce,
               VerdictsAreAttributed
  <1>4. CopiesCounted(DOMAIN requirement') /\ CopiesCounted(DOMAIN input') /\ LinksAreRows(requirement', input')
        BY <1>1 DEF ReqInv
  <1> QED BY <1>1, <1>2, <1>3, <1>4 DEF ReqInv

\* A commit that says whom it met leaves everyone knowing what he must; the tables
\* are left to show.
LEMMA CommitRequirement ==
    ASSUME ReqInv, NEW w \in Workers, NEW decided, NEW written, Commit(w, decided, written, Idle),
           TableKept(requirement, requirement', written), TableKept(input, input', written),
           StandingKept(Standing, Standing', written)
    PROVE  /\ SessionInv' /\ raced' = raced \cup (decided \cap req[w].stale)
           /\ \A v \in Workers : RequirementKnows(requirement, input, Standing, req[v])'
  <1>1. /\ SessionInv' /\ req'[w] = Idle /\ raced' = raced \cup (decided \cap req[w].stale)
        /\ \A v \in Workers \ {w} :
                 IF req[v] = Idle THEN req'[v] = Idle ELSE After(req[v], written, req'[v])
    <2>1. SessionInv BY DEF ReqInv
    <2> QED BY <2>1, CommitOthers
  <1>2. ASSUME NEW v \in Workers PROVE RequirementKnows(requirement', input', Standing', req'[v])
    <2>1. CASE req'[v] = Idle BY <2>1, IdleKnowsRequirement
    <2>2. CASE req'[v] # Idle
      <3>1. After(req[v], written, req'[v]) BY <1>1, <2>2
      <3>2. RequirementKnows(requirement, input, Standing, req[v]) BY DEF ReqInv
      <3>3. PICK rows, rowsAfter, inputs, inputsAfter, standing, standingAfter, q, n :
               /\ rows = requirement /\ rowsAfter = requirement' /\ inputs = input
               /\ inputsAfter = input' /\ standing = Standing /\ standingAfter = Standing'
               /\ q = req[v] /\ n = req'[v]
            OBVIOUS
      <3>4. RequirementKnows(rowsAfter, inputsAfter, standingAfter, n)
            BY <3>1, <3>2, <3>3, RequirementStaysKnown
      <3> QED BY <3>3, <3>4
    <2> QED BY <2>1, <2>2
  <1> QED BY <1>1, <1>2

-----------------------------------------------------------------------------
(* Requirements: the actions                                                *)

LEMMA BeginExtractKeeps ==
    ASSUME ReqInv, NEW w \in Workers, BeginExtract(w)
    PROVE  ReqInv'
  <1>1. PICK q : q = [op |-> "extract", new |-> Candidates \ KnownTexts,
                      reads |-> {<<c>> : c \in Candidates}, stale |-> {}]
        OBVIOUS
  <1>2. Take(w, q) /\ UNCHANGED requirementTables BY <1>1 DEF BeginExtract
  <1>3. /\ q.op = "extract" /\ {"op", "new", "reads", "stale"} \subseteq DOMAIN q
        /\ q.new = Candidates \ KnownTexts /\ q.reads = {<<c>> : c \in Candidates}
        BY <1>1
  <1>4. \A c \in q.new, x \in Standing : x[1] # c
    <2>1. \A c \in q.new, x \in DOMAIN requirement : c \in Candidates /\ requirement[x].text # c
          BY <1>3 DEF KnownTexts
    <2> QED BY <2>1 DEF ReqInv, StandsAsExtracted, Standing
  <1>5. RequirementKnows(requirement, input, Standing, q)
        BY <1>3, <1>4 DEF RequirementKnows, ExtractKnows, EditKnows, EditInputKnows, AssignKnows
  <1> QED BY <1>2, <1>3, <1>5, TakeRequirement

LEMMA BeginEditKeeps ==
    ASSUME ReqInv, NEW w \in Workers, NEW x \in DOMAIN requirement, NEW u \in Reviewers,
           NEW new \in Edits(requirement[x], u), BeginEdit(w, x, new)
    PROVE  ReqInv'
  <1>1. PICK q : q = [op |-> "edit", row |-> x, changes |-> Changes(requirement[x], new),
                      reads |-> {x}, stale |-> {}]
        OBVIOUS
  <1>2. Take(w, q) /\ UNCHANGED requirementTables BY <1>1 DEF BeginEdit
  <1>3. /\ q.op = "edit" /\ {"op", "row", "changes", "reads", "stale"} \subseteq DOMAIN q
        /\ q.row = x /\ q.reads = {x} /\ q.changes = Changes(requirement[x], new)
        BY <1>1
  <1>4. requirement[x] \in RequirementRow BY DEF ReqInv, RequirementsTypeOK
  <1>5. /\ RequirementChanges(q.changes) /\ Written(requirement[x], q.changes) = new
        BY <1>3, <1>4, EditedRequirement
  <1>6. RequirementKnows(requirement, input, Standing, q)
        BY <1>3, <1>5 DEF RequirementKnows, ExtractKnows, EditKnows, EditInputKnows, AssignKnows
  <1> QED BY <1>2, <1>3, <1>6, TakeRequirement

LEMMA BeginEditInputKeeps ==
    ASSUME ReqInv, NEW w \in Workers, NEW i \in DOMAIN input, NEW u \in Reviewers,
           NEW new \in InputEdits(input[i], u), BeginEditInput(w, i, new)
    PROVE  ReqInv'
  <1>1. PICK q : q = [op |-> "edit input", row |-> i, changes |-> Changes(input[i], new),
                      reads |-> {i}, stale |-> {}]
        OBVIOUS
  <1>2. Take(w, q) /\ UNCHANGED requirementTables BY <1>1 DEF BeginEditInput
  <1>3. /\ q.op = "edit input" /\ {"op", "row", "changes", "reads", "stale"} \subseteq DOMAIN q
        /\ q.row = i /\ q.reads = {i} /\ q.changes = Changes(input[i], new)
        BY <1>1
  <1>4. input[i] \in InputRow BY DEF ReqInv, RequirementsTypeOK
  <1>5. /\ InputChanges(q.changes) /\ Written(input[i], q.changes) = new
        BY <1>3, <1>4, EditedInput
  <1>6. RequirementKnows(requirement, input, Standing, q)
        BY <1>3, <1>5 DEF RequirementKnows, ExtractKnows, EditKnows, EditInputKnows, AssignKnows
  <1> QED BY <1>2, <1>3, <1>6, TakeRequirement

LEMMA BeginAssignKeeps ==
    ASSUME ReqInv, NEW w \in Workers, BeginAssign(w)
    PROVE  ReqInv'
  <1>1. PICK o : o = [x \in {y \in DOMAIN requirement :
                                Assigned(requirement[y]) # requirement[y].owner}
                         |-> Assigned(requirement[x])]
        OBVIOUS
  <1>2. PICK p : p = [i \in {j \in DOMAIN input : AssignedInput(input[j]) # input[j].owner}
                         |-> AssignedInput(input[i])]
        OBVIOUS
  <1>3. PICK q : q = [op |-> "assign", owner |-> o, inputOwner |-> p,
                      reads |-> DOMAIN o \cup DOMAIN p, stale |-> {}]
        OBVIOUS
  <1>4. Take(w, q) /\ UNCHANGED requirementTables BY <1>1, <1>2, <1>3 DEF BeginAssign
  <1>5. /\ q.op = "assign" /\ {"op", "owner", "inputOwner", "reads", "stale"} \subseteq DOMAIN q
        /\ q.owner = o /\ q.inputOwner = p /\ q.reads = DOMAIN o \cup DOMAIN p
        BY <1>3
  <1>6. \A x \in DOMAIN requirement : /\ requirement[x].owner \in Owners \cup {"suggested", Nobody}
                                      /\ Assigned(requirement[x]) \in Owners \cup {"suggested"}
    <2> TAKE x \in DOMAIN requirement
    <2>1. requirement[x] \in RequirementRow BY DEF ReqInv, RequirementsTypeOK
    <2>2. requirement[x].owner \in Owners \cup {"suggested", Nobody} BY <2>1 DEF RequirementRow
    <2> QED BY <2>2 DEF Assigned
  <1>7. GivesOwners(requirement, o, q)
    <2>1. ASSUME NEW x \in DOMAIN o
          PROVE  /\ x \in DOMAIN requirement /\ o[x] \in Owners \cup {"suggested"}
                 /\ requirement[x].owner = Nobody
          BY <1>1, <1>6 DEF Assigned
    <2> QED BY <1>5, <2>1 DEF GivesOwners
  <1>8. GivesOwners(input, p, q)
    <2>1. ASSUME NEW i \in DOMAIN p
          PROVE  /\ i \in DOMAIN input /\ p[i] \in Owners \cup {"suggested"}
                 /\ input[i].owner = Nobody
      <3>1. /\ i \in DOMAIN input /\ p[i] = AssignedInput(input[i])
            /\ AssignedInput(input[i]) # input[i].owner
            BY <1>2
      <3>2. input[i].owner = Nobody BY <3>1 DEF AssignedInput, Assigned
      <3>3. input[i].of \in DOMAIN requirement \cup {Nobody} BY <3>1 DEF ReqInv, LinksAreRows
      <3>4. p[i] \in Owners \cup {"suggested"}
        <4>1. CASE input[i].of = Nobody BY <3>1, <3>2, <4>1 DEF AssignedInput, Assigned
        <4>2. CASE input[i].of # Nobody BY <1>6, <3>1, <3>2, <3>3, <4>2 DEF AssignedInput
        <4> QED BY <4>1, <4>2
      <3> QED BY <3>1, <3>2, <3>4
    <2> QED BY <1>5, <2>1 DEF GivesOwners
  <1>9. RequirementKnows(requirement, input, Standing, q)
        BY <1>5, <1>7, <1>8 DEF RequirementKnows, ExtractKnows, EditKnows, EditInputKnows, AssignKnows
  <1> QED BY <1>4, <1>5, <1>9, TakeRequirement

LEMMA VerdictsOfRows ==
    VerdictsAreAttributed <=>
        /\ \A x \in DOMAIN requirement \ raced : Attributed(requirement[x], x[1])
        /\ \A i \in DOMAIN input \ raced : InputAttributed(input[i])
  BY DEF VerdictsAreAttributed, Attributed, InputAttributed

\* A row each is inserted for the origins S.
InsertedOf(table, next, rows, S) ==
    /\ DOMAIN next = DOMAIN table \cup DOMAIN rows /\ CopiesCounted(DOMAIN next)
    /\ DOMAIN rows \cap DOMAIN table = {}
    /\ \A x \in DOMAIN rows : /\ next[x] = rows[x] /\ x[1] \in S
                              /\ x = <<x[1], x[2]>> /\ x = NextOf(table, x[1])
                              /\ x[2] \in 1..(1 + Cardinality(DOMAIN table))
    /\ \A x \in DOMAIN table : next[x] = table[x]

LEMMA InsertedRows ==
    ASSUME NEW table, CopiesCounted(DOMAIN table), NEW S, IsFiniteSet(S), NEW rows,
           DOMAIN rows = {NextOf(table, s) : s \in S}, NEW next, next = Inserted(table, rows)
    PROVE  InsertedOf(table, next, rows, S)
  <1>1. PICK D : D = DOMAIN table OBVIOUS
  <1>2. \A s : NextOf(table, s) = NextIn(D, s) BY <1>1 DEF NextOf, NextIn, CopiesIn
  <1>3. DOMAIN rows = {NextIn(D, s) : s \in S} BY <1>2
  <1>4. DOMAIN next = D \cup DOMAIN rows BY <1>1 DEF Inserted
  <1>5. CopiesCounted(DOMAIN next) BY <1>1, <1>3, <1>4, CountedGrows
  <1>6. ASSUME NEW x \in DOMAIN rows
        PROVE  /\ x[1] \in S /\ x = NextIn(D, x[1]) /\ x = <<x[1], x[2]>>
               /\ x \notin D /\ x[2] \in 1..(1 + Cardinality(D))
    <2>1. PICK s \in S : x = NextIn(D, s) BY <1>3
    <2>2. x[1] = s /\ x = <<x[1], x[2]>> BY <2>1 DEF NextIn
    <2> QED BY <1>1, <2>1, <2>2, NextIsNew
  <1>7. \A x \in DOMAIN next : next[x] = IF x \in DOMAIN rows THEN rows[x] ELSE table[x]
        BY DEF Inserted
  <1>8. DOMAIN rows \cap DOMAIN table = {} BY <1>1, <1>6
  <1>9. \A x \in DOMAIN table : next[x] = table[x] BY <1>1, <1>4, <1>7, <1>8
  <1>10. \A x \in DOMAIN rows : next[x] = rows[x] BY <1>4, <1>7
  <1> QED BY <1>1, <1>2, <1>4, <1>5, <1>6, <1>8, <1>9, <1>10 DEF InsertedOf

LEMMA RoomForCopies ==
    ASSUME ReqInv, NEW n \in Nat, n # 0, RequirementRoom(n)
    PROVE  /\ 1..(1 + Cardinality(DOMAIN requirement)) \subseteq 1..MaxRequirementRows
           /\ 1..(1 + Cardinality(DOMAIN input)) \subseteq 1..MaxRequirementRows
  <1>1. PICK a, b \in Nat : a = Cardinality(DOMAIN requirement) /\ b = Cardinality(DOMAIN input)
        BY FS_CardinalityType DEF ReqInv, CopiesCounted
  <1>2. a + b + n <= MaxRequirementRows /\ MaxRequirementRows \in Nat
        BY <1>1, RequirementAssumption DEF RequirementRoom
  <1>3. 1 + a <= MaxRequirementRows /\ 1 + b <= MaxRequirementRows BY <1>2
  <1> QED BY <1>1, <1>2, <1>3

LEMMA CommitExtractKeeps ==
    ASSUME ReqInv, NEW w \in Workers, CommitExtract(w)
    PROVE  ReqInv'
  <1>1. PICK q : q = req[w] OBVIOUS
  <1>2. PICK rows : rows = [x \in {NextOf(requirement, c) : c \in q.new} |-> Extracted(x[1])]
        OBVIOUS
  <1>3. PICK W : W = {<<c>> : c \in q.new} OBVIOUS
  <1>4. /\ q.op = "extract" /\ RequirementRoom(Cardinality(q.new)) /\ input' = input
        /\ retyped' = retyped
        /\ requirement' = Inserted(requirement, rows) /\ Commit(w, W, W, Idle)
        BY <1>1, <1>2, <1>3 DEF CommitExtract
  <1>5. ExtractKnows(Standing, q) BY <1>1 DEF ReqInv, RequirementKnows
  <1>6. q.new \subseteq Candidates /\ IsFiniteSet(q.new)
        BY <1>4, <1>5, FS_Subset, RequirementAssumption DEF ExtractKnows
  <1>7. DOMAIN rows = {NextOf(requirement, c) : c \in q.new} BY <1>2
  <1>8. /\ DOMAIN requirement' = DOMAIN requirement \cup DOMAIN rows /\ CopiesCounted(DOMAIN requirement')
        /\ \A x \in DOMAIN rows : /\ requirement'[x] = rows[x] /\ x[1] \in q.new
                                  /\ x = <<x[1], x[2]>> /\ x = NextOf(requirement, x[1])
                                  /\ x[2] \in 1..(1 + Cardinality(DOMAIN requirement))
        /\ DOMAIN rows \cap DOMAIN requirement = {}
        /\ \A x \in DOMAIN requirement : requirement'[x] = requirement[x]
        /\ TableKept(requirement, requirement', W)
    <2>1. CopiesCounted(DOMAIN requirement) BY DEF ReqInv
    <2>2. InsertedOf(requirement, requirement', rows, q.new)
          BY <1>4, <1>6, <1>7, <2>1, InsertedRows
    <2> QED BY <2>2 DEF InsertedOf, TableKept
  <1>9. TableKept(input, input', W) BY <1>4 DEF TableKept
  <1>10. StandingKept(Standing, Standing', W)
    <2>1. \A x \in DOMAIN rows : <<x[1]>> \in W BY <1>3, <1>8
    <2>2. Standing' \subseteq Standing \cup DOMAIN rows BY <1>4, <1>8 DEF Standing
    <2> QED BY <2>1, <2>2 DEF StandingKept
  <1>11. /\ SessionInv' /\ raced' = raced \cup (W \cap q.stale)
         /\ \A v \in Workers : RequirementKnows(requirement, input, Standing, req[v])'
         BY <1>1, <1>4, <1>8, <1>9, <1>10, CommitRequirement
  <1>12. \A x \in DOMAIN rows : requirement'[x] = Extracted(x[1]) BY <1>2, <1>8
  <1>13. RequirementsTypeOK'
    <2>1. ASSUME NEW x \in DOMAIN rows
          PROVE  /\ x \in Origins \X (1..MaxRequirementRows)
                 /\ requirement'[x] \in RequirementRow
      <3>1. x[1] \in Candidates /\ x[1] \in Origins BY <1>6, <1>8 DEF Origins
      <3>2. PICK c \in Candidates : c = x[1] BY <3>1
      <3>3. Extracted(c) \in RequirementRow
            BY RequirementAssumption DEF Extracted, RequirementRow, ReviewStatuses, Texts
      <3>4. PICK n \in Nat : n = Cardinality(q.new) BY <1>6, FS_CardinalityType
      <3>5. n # 0 BY <1>6, <1>8, <3>4, FS_EmptySet
      <3>6. x[2] \in 1..MaxRequirementRows BY <1>4, <1>8, <3>4, <3>5, RoomForCopies
      <3>7. x \in Origins \X (1..MaxRequirementRows) BY <1>8, <3>1, <3>6
      <3> QED BY <1>12, <3>2, <3>3, <3>7
    <2> QED BY <1>4, <1>8, <2>1 DEF ReqInv, RequirementsTypeOK
  <1>14. LinksAreRows(requirement', input') BY <1>4, <1>8 DEF ReqInv, LinksAreRows
  <1>15. StandsAsExtracted' /\ ExtractedOnce'
    <2>1. Standing' = Standing \cup DOMAIN rows
      <3>1. DOMAIN rows \cap retyped = {} BY <1>8 DEF ReqInv, RequirementsTypeOK
      <3> QED BY <1>4, <1>8, <3>1 DEF Standing
    <2>2. StandsAsExtracted'
      <3>1. \A c : Extracted(c).text = c BY DEF Extracted
      <3>2. \A x \in DOMAIN rows : requirement'[x].text = x[1] BY <1>12, <3>1
      <3>3. \A x \in Standing : requirement'[x] = requirement[x] BY <1>8 DEF Standing
      <3> QED BY <2>1, <3>2, <3>3 DEF ReqInv, StandsAsExtracted
    <2>3. SUFFICES ASSUME NEW x \in DOMAIN requirement', NEW y \in DOMAIN requirement',
                          x[1] = y[1], x[1] \in Candidates, x[2] < y[2], x \notin retyped
                   PROVE  <<x[1]>> \in raced'
          BY <1>4, <2>2 DEF ExtractedOnce
    <2>4. CASE x \in DOMAIN requirement /\ y \in DOMAIN requirement
          BY <1>11, <2>3, <2>4 DEF ReqInv, ExtractedOnce
    <2>5. CASE x \in DOMAIN requirement /\ y \in DOMAIN rows
      <3>1. x[1] \in q.new BY <1>8, <2>3, <2>5
      <3>2. x \in Standing BY <2>3, <2>5 DEF Standing
      <3>3. <<x[1]>> \in q.stale BY <1>4, <1>5, <3>1, <3>2 DEF ExtractKnows
      <3>4. <<x[1]>> \in W BY <1>3, <3>1
      <3> QED BY <1>11, <3>3, <3>4
    <2>6. ASSUME x \in DOMAIN rows PROVE FALSE
      <3>1. PICK D, c : D = DOMAIN requirement /\ c = x[1] OBVIOUS
      <3>2. x = NextIn(D, c) BY <1>8, <2>6, <3>1 DEF NextOf, NextIn, CopiesIn
      <3>3. PICK k \in Nat : k = Cardinality(CopiesIn(D, c))
        <4>1. IsFiniteSet(D) /\ CopiesIn(D, c) \subseteq D
              BY <3>1 DEF ReqInv, CopiesCounted, CopiesIn
        <4> QED BY <4>1, FS_Subset, FS_CardinalityType
      <3>4. x[2] = 1 + k BY <3>2, <3>3 DEF NextIn
      <3>5. CASE y \in DOMAIN rows BY <1>8, <2>3, <2>6, <3>5
      <3>6. CASE y \in D
        <4>1. y[2] \in Nat /\ y[2] <= k BY <2>3, <3>1, <3>3, <3>6 DEF ReqInv, CopiesCounted
        <4> QED BY <2>3, <3>4, <4>1
      <3> QED BY <1>8, <3>1, <3>5, <3>6
    <2> QED BY <1>8, <2>4, <2>5, <2>6
  <1>16. VerdictsAreAttributed'
    <2>1. \A c, o : Attributed(Extracted(c), o)
          BY RequirementAssumption DEF Extracted, Attributed
    <2>2. \A x \in DOMAIN requirement' \ raced' : Attributed(requirement'[x], x[1])
          BY <1>8, <1>11, <1>12, <2>1, VerdictsOfRows DEF ReqInv
    <2>3. \A i \in DOMAIN input' \ raced' : InputAttributed(input'[i])
          BY <1>4, <1>11, VerdictsOfRows DEF ReqInv
    <2>4. /\ \A x \in DOMAIN requirement' \ raced' :
                /\ requirement'[x].review = "Reviewed" =>
                      requirement'[x].reviewedBy # Nobody \/ x[1] = "Reviewed"
                /\ requirement'[x].review # "Reviewed" => requirement'[x].reviewedBy = Nobody
          /\ \A i \in DOMAIN input' \ raced' :
                (input'[i].status \in Resolved) <=> (input'[i].resolvedBy # Nobody)
          BY <2>2, <2>3 DEF Attributed, InputAttributed
    <2> QED BY <2>4 DEF VerdictsAreAttributed
  <1> QED BY <1>4, <1>8, <1>11, <1>13, <1>14, <1>15, <1>16 DEF ReqInv

\* What a step must leave of the verdicts.
LEMMA VerdictsAfter ==
    ASSUME \A x \in DOMAIN requirement' \ raced' : Attributed(requirement'[x], x[1]),
           \A i \in DOMAIN input' \ raced' : InputAttributed(input'[i])
    PROVE  VerdictsAreAttributed'
  BY DEF VerdictsAreAttributed, Attributed, InputAttributed

\* Nothing is inserted, and what stands as extracted did so before.
LEMMA ExtractedOnceAfter ==
    ASSUME ReqInv, raced \subseteq raced', DOMAIN requirement' = DOMAIN requirement,
           retyped \subseteq retyped',
           \A x \in DOMAIN requirement \ retyped' :
               x[1] \in Candidates => requirement'[x].text = requirement[x].text
    PROVE  StandsAsExtracted' /\ ExtractedOnce' /\ Standing' \subseteq Standing
  <1>1. Standing' \subseteq Standing BY DEF Standing
  <1>2. StandsAsExtracted' BY <1>1 DEF ReqInv, StandsAsExtracted, Standing
  <1>3. ExtractedOnce' BY DEF ReqInv, ExtractedOnce
  <1> QED BY <1>1, <1>2, <1>3

LEMMA CommitEditKeeps ==
    ASSUME ReqInv, NEW w \in Workers, CommitEdit(w)
    PROVE  ReqInv'
  <1>1. PICK q : q = req[w] OBVIOUS
  <1>2. /\ q.op = "edit" /\ input' = input /\ Commit(w, {q.row}, {q.row}, Idle)
        /\ requirement' = [requirement EXCEPT ![q.row] = Written(@, q.changes)]
        /\ retyped' = retyped
               \cup {x \in {q.row} : x[1] \in Candidates /\ "text" \in DOMAIN q.changes}
        BY <1>1 DEF CommitEdit
  <1>3. /\ q.row \in DOMAIN requirement /\ RequirementChanges(q.changes)
        /\ q.row \notin q.stale => \E u \in Reviewers :
              Written(requirement[q.row], q.changes) \in Edits(requirement[q.row], u)
        BY <1>1, <1>2 DEF ReqInv, RequirementKnows, EditKnows
  <1>4. PICK r, n : r = requirement[q.row] /\ n = Written(r, q.changes) OBVIOUS
  <1>5. /\ r \in RequirementRow /\ n \in RequirementRow
        /\ "text" \notin DOMAIN q.changes => n["text"] = r["text"]
        BY <1>3, <1>4, WrittenRequirement DEF ReqInv, RequirementsTypeOK
  <1>6. /\ DOMAIN requirement' = DOMAIN requirement /\ requirement'[q.row] = n
        /\ \A x \in DOMAIN requirement \ {q.row} : requirement'[x] = requirement[x]
        BY <1>2, <1>3, <1>4
  <1>7. /\ \A x \in DOMAIN requirement \ retyped' :
              x[1] \in Candidates => requirement'[x].text = requirement[x].text
        /\ retyped \subseteq retyped' /\ retyped' \subseteq retyped \cup {q.row}
        BY <1>2, <1>4, <1>5, <1>6
  <1>8. /\ TableKept(requirement, requirement', {q.row}) /\ TableKept(input, input', {q.row})
        /\ StandingKept(Standing, Standing', {q.row})
        BY <1>2, <1>6, <1>7 DEF TableKept, StandingKept, Standing
  <1>9. /\ SessionInv' /\ raced' = raced \cup ({q.row} \cap q.stale)
        /\ \A v \in Workers : RequirementKnows(requirement, input, Standing, req[v])'
        BY <1>1, <1>2, <1>8, CommitRequirement
  <1>10. RequirementsTypeOK' /\ CopiesCounted(DOMAIN requirement') /\ CopiesCounted(DOMAIN input')
         BY <1>2, <1>3, <1>5, <1>6, <1>7 DEF ReqInv, RequirementsTypeOK
  <1>11. LinksAreRows(requirement', input') BY <1>2, <1>6 DEF ReqInv, LinksAreRows
  <1>12. StandsAsExtracted' /\ ExtractedOnce' BY <1>6, <1>7, <1>9, ExtractedOnceAfter
  <1>13. VerdictsAreAttributed'
    <2>1. ASSUME q.row \notin raced' PROVE Attributed(n, q.row[1])
      <3>1. q.row \notin raced /\ q.row \notin q.stale BY <1>9, <2>1
      <3>2. Attributed(r, q.row[1]) BY <1>3, <1>4, <3>1, VerdictsOfRows DEF ReqInv
      <3>3. PICK u \in Reviewers : n \in Edits(r, u) BY <1>3, <1>4, <3>1
      <3> QED BY <1>5, <3>2, <3>3, EditedRequirement
    <2>2. \A x \in DOMAIN requirement' \ raced' : Attributed(requirement'[x], x[1])
          BY <1>6, <1>9, <2>1, VerdictsOfRows DEF ReqInv
    <2>3. \A i \in DOMAIN input' \ raced' : InputAttributed(input'[i])
          BY <1>2, <1>9, VerdictsOfRows DEF ReqInv
    <2> QED BY <2>2, <2>3, VerdictsAfter
  <1> QED BY <1>9, <1>10, <1>11, <1>12, <1>13 DEF ReqInv

LEMMA CommitEditInputKeeps ==
    ASSUME ReqInv, NEW w \in Workers, CommitEditInput(w)
    PROVE  ReqInv'
  <1>1. PICK q : q = req[w] OBVIOUS
  <1>2. /\ q.op = "edit input" /\ requirement' = requirement /\ retyped' = retyped
        /\ Commit(w, {q.row}, {q.row}, Idle)
        /\ input' = [input EXCEPT ![q.row] = Written(@, q.changes)]
        BY <1>1 DEF CommitEditInput
  <1>3. /\ q.row \in DOMAIN input /\ InputChanges(q.changes)
        /\ q.row \notin q.stale => \E u \in Reviewers :
              Written(input[q.row], q.changes) \in InputEdits(input[q.row], u)
        BY <1>1, <1>2 DEF ReqInv, RequirementKnows, EditInputKnows
  <1>4. PICK r, n : r = input[q.row] /\ n = Written(r, q.changes) OBVIOUS
  <1>5. r \in InputRow /\ n \in InputRow /\ n["of"] = r["of"]
        BY <1>3, <1>4, WrittenInput DEF ReqInv, RequirementsTypeOK
  <1>6. /\ DOMAIN input' = DOMAIN input /\ input'[q.row] = n
        /\ \A i \in DOMAIN input \ {q.row} : input'[i] = input[i]
        BY <1>2, <1>3, <1>4
  <1>7. /\ TableKept(requirement, requirement', {q.row}) /\ TableKept(input, input', {q.row})
        /\ StandingKept(Standing, Standing', {q.row})
        BY <1>2, <1>6 DEF TableKept, StandingKept, Standing
  <1>8. /\ SessionInv' /\ raced' = raced \cup ({q.row} \cap q.stale)
        /\ \A v \in Workers : RequirementKnows(requirement, input, Standing, req[v])'
        BY <1>1, <1>2, <1>7, CommitRequirement
  <1>9. RequirementsTypeOK' /\ CopiesCounted(DOMAIN requirement') /\ CopiesCounted(DOMAIN input')
        BY <1>2, <1>5, <1>6 DEF ReqInv, RequirementsTypeOK
  <1>10. LinksAreRows(requirement', input')
         BY <1>2, <1>3, <1>4, <1>5, <1>6 DEF ReqInv, LinksAreRows
  <1>11. StandsAsExtracted' /\ ExtractedOnce' BY <1>2, <1>8, ExtractedOnceAfter
  <1>12. VerdictsAreAttributed'
    <2>1. ASSUME q.row \notin raced' PROVE InputAttributed(n)
      <3>1. q.row \notin raced /\ q.row \notin q.stale BY <1>8, <2>1
      <3>2. InputAttributed(r) BY <1>3, <1>4, <3>1, VerdictsOfRows DEF ReqInv
      <3>3. PICK u \in Reviewers : n \in InputEdits(r, u) BY <1>3, <1>4, <3>1
      <3> QED BY <1>5, <3>2, <3>3, EditedInput
    <2>2. \A x \in DOMAIN requirement' \ raced' : Attributed(requirement'[x], x[1])
          BY <1>2, <1>8, VerdictsOfRows DEF ReqInv
    <2>3. \A i \in DOMAIN input' \ raced' : InputAttributed(input'[i])
          BY <1>6, <1>8, <2>1, VerdictsOfRows DEF ReqInv
    <2> QED BY <2>2, <2>3, VerdictsAfter
  <1> QED BY <1>8, <1>9, <1>10, <1>11, <1>12 DEF ReqInv

\* The owner is no part of what a row says or of its verdict.
LEMMA OwnedRow ==
    ASSUME NEW o \in Owners \cup {"suggested"}
    PROVE  /\ \A r \in RequirementRow :
                /\ [r EXCEPT !.owner = o] \in RequirementRow
                /\ [r EXCEPT !.owner = o].text = r.text
                /\ \A k : Attributed(r, k) => Attributed([r EXCEPT !.owner = o], k)
           /\ \A r \in InputRow :
                /\ [r EXCEPT !.owner = o] \in InputRow
                /\ [r EXCEPT !.owner = o].of = r.of
                /\ InputAttributed(r) => InputAttributed([r EXCEPT !.owner = o])
  <1>1. ASSUME NEW r \in RequirementRow
        PROVE  /\ [r EXCEPT !.owner = o] \in RequirementRow
               /\ [r EXCEPT !.owner = o].text = r.text
               /\ [r EXCEPT !.owner = o].review = r.review
               /\ [r EXCEPT !.owner = o].reviewedBy = r.reviewedBy
        BY DEF RequirementRow
  <1>2. ASSUME NEW r \in InputRow
        PROVE  /\ [r EXCEPT !.owner = o] \in InputRow
               /\ [r EXCEPT !.owner = o].of = r.of
               /\ [r EXCEPT !.owner = o].status = r.status
               /\ [r EXCEPT !.owner = o].resolvedBy = r.resolvedBy
        BY DEF InputRow
  <1> QED BY <1>1, <1>2 DEF Attributed, InputAttributed

LEMMA CommitAssignKeeps ==
    ASSUME ReqInv, NEW w \in Workers, CommitAssign(w)
    PROVE  ReqInv'
  <1>1. PICK q : q = req[w] OBVIOUS
  <1>2. PICK W : W = DOMAIN q.owner \cup DOMAIN q.inputOwner OBVIOUS
  <1>3. /\ q.op = "assign" /\ Commit(w, W, W, Idle) /\ retyped' = retyped
        /\ requirement' = WithOwners(requirement, q.owner)
        /\ input' = WithOwners(input, q.inputOwner)
        BY <1>1, <1>2 DEF CommitAssign
  <1>4. /\ \A x \in DOMAIN q.owner : q.owner[x] \in Owners \cup {"suggested"}
        /\ \A i \in DOMAIN q.inputOwner : q.inputOwner[i] \in Owners \cup {"suggested"}
        BY <1>1, <1>3 DEF ReqInv, RequirementKnows, AssignKnows, GivesOwners
  <1>5. /\ DOMAIN requirement' = DOMAIN requirement
        /\ \A x \in DOMAIN requirement : requirement'[x] =
              IF x \in DOMAIN q.owner THEN [requirement[x] EXCEPT !.owner = q.owner[x]]
              ELSE requirement[x]
        BY <1>3 DEF WithOwners
  <1>6. /\ DOMAIN input' = DOMAIN input
        /\ \A i \in DOMAIN input : input'[i] =
              IF i \in DOMAIN q.inputOwner THEN [input[i] EXCEPT !.owner = q.inputOwner[i]]
              ELSE input[i]
        BY <1>3 DEF WithOwners
  <1>7. ASSUME NEW x \in DOMAIN requirement
        PROVE  /\ requirement'[x] \in RequirementRow /\ requirement'[x].text = requirement[x].text
               /\ \A k : Attributed(requirement[x], k) => Attributed(requirement'[x], k)
    <2>1. requirement[x] \in RequirementRow BY DEF ReqInv, RequirementsTypeOK
    <2>2. CASE x \in DOMAIN q.owner
      <3>1. PICK o \in Owners \cup {"suggested"} : o = q.owner[x] BY <1>4, <2>2
      <3>2. requirement'[x] = [requirement[x] EXCEPT !.owner = o] BY <1>5, <2>2, <3>1
      <3> QED BY <2>1, <3>2, OwnedRow
    <2>3. CASE x \notin DOMAIN q.owner BY <1>5, <2>1, <2>3
    <2> QED BY <2>2, <2>3
  <1>8. ASSUME NEW i \in DOMAIN input
        PROVE  /\ input'[i] \in InputRow /\ input'[i].of = input[i].of
               /\ InputAttributed(input[i]) => InputAttributed(input'[i])
    <2>1. input[i] \in InputRow BY DEF ReqInv, RequirementsTypeOK
    <2>2. CASE i \in DOMAIN q.inputOwner
      <3>1. PICK o \in Owners \cup {"suggested"} : o = q.inputOwner[i] BY <1>4, <2>2
      <3>2. input'[i] = [input[i] EXCEPT !.owner = o] BY <1>6, <2>2, <3>1
      <3> QED BY <2>1, <3>2, OwnedRow
    <2>3. CASE i \notin DOMAIN q.inputOwner BY <1>6, <2>1, <2>3
    <2> QED BY <2>2, <2>3
  <1>9. /\ TableKept(requirement, requirement', W) /\ TableKept(input, input', W)
        /\ StandingKept(Standing, Standing', W)
        BY <1>2, <1>3, <1>5, <1>6, <1>7 DEF TableKept, StandingKept, Standing
  <1>10. /\ SessionInv' /\ raced' = raced \cup (W \cap q.stale)
         /\ \A v \in Workers : RequirementKnows(requirement, input, Standing, req[v])'
         BY <1>1, <1>3, <1>9, CommitRequirement
  <1>11. RequirementsTypeOK' /\ CopiesCounted(DOMAIN requirement') /\ CopiesCounted(DOMAIN input')
         BY <1>3, <1>5, <1>6, <1>7, <1>8 DEF ReqInv, RequirementsTypeOK
  <1>12. LinksAreRows(requirement', input')
         BY <1>5, <1>6, <1>8 DEF ReqInv, LinksAreRows
  <1>13. StandsAsExtracted' /\ ExtractedOnce' BY <1>3, <1>5, <1>7, <1>10, ExtractedOnceAfter
  <1>14. VerdictsAreAttributed'
    <2>1. \A x \in DOMAIN requirement' \ raced' : Attributed(requirement'[x], x[1])
          BY <1>5, <1>7, <1>10, VerdictsOfRows DEF ReqInv
    <2>2. \A i \in DOMAIN input' \ raced' : InputAttributed(input'[i])
          BY <1>6, <1>8, <1>10, VerdictsOfRows DEF ReqInv
    <2> QED BY <2>1, <2>2, VerdictsAfter
  <1> QED BY <1>10, <1>11, <1>12, <1>13, <1>14 DEF ReqInv

\* A step that commits nothing leaves everyone knowing what he must.
LEMMA QuietRequirement ==
    ASSUME ReqInv, UNCHANGED session, TableKept(requirement, requirement', {}),
           TableKept(input, input', {}), StandingKept(Standing, Standing', {})
    PROVE  SessionInv' /\ \A v \in Workers : RequirementKnows(requirement, input, Standing, req[v])'
  <1>1. req' = req BY DEF session
  <1>2. SessionInv' BY <1>1 DEF ReqInv, SessionInv
  <1>3. ASSUME NEW v \in Workers PROVE RequirementKnows(requirement', input', Standing', req[v])
    <2>1. CASE req[v] = Idle BY <2>1, IdleKnowsRequirement
    <2>2. CASE req[v] # Idle
      <3>1. {"op", "reads", "stale"} \subseteq DOMAIN req[v] BY <2>2 DEF ReqInv, SessionInv
      <3>2. After(req[v], {}, req[v]) BY <3>1 DEF After
      <3>3. RequirementKnows(requirement, input, Standing, req[v]) BY DEF ReqInv
      <3>4. PICK rows, rowsAfter, inputs, inputsAfter, standing, standingAfter, q :
               /\ rows = requirement /\ rowsAfter = requirement' /\ inputs = input
               /\ inputsAfter = input' /\ standing = Standing /\ standingAfter = Standing'
               /\ q = req[v]
            OBVIOUS
      <3>5. RequirementKnows(rowsAfter, inputsAfter, standingAfter, q)
            BY <3>2, <3>3, <3>4, RequirementStaysKnown
      <3> QED BY <3>4, <3>5
    <2> QED BY <2>1, <2>2
  <1> QED BY <1>1, <1>2, <1>3

LEMMA CreateRequirementKeeps ==
    ASSUME ReqInv, NEW status \in ReviewStatuses, NEW o \in Owners \cup {Nobody},
           NEW t \in Texts, CreateRequirement(status, o, t)
    PROVE  ReqInv'
  <1>1. PICK n : n = [text |-> t, review |-> status, reviewedBy |-> Nobody, owner |-> o]
        OBVIOUS
  <1>2. PICK rows : rows = [x \in {NextOf(requirement, status)} |-> n] OBVIOUS
  <1>3. /\ RequirementRoom(1) /\ input' = input /\ retyped' = retyped /\ UNCHANGED session
        /\ requirement' = Inserted(requirement, rows)
        BY <1>1, <1>2 DEF CreateRequirement
  <1>4. n \in RequirementRow /\ Attributed(n, status)
        BY <1>1 DEF RequirementRow, Attributed
  <1>5. /\ DOMAIN requirement' = DOMAIN requirement \cup DOMAIN rows /\ CopiesCounted(DOMAIN requirement')
        /\ \A x \in DOMAIN rows : /\ requirement'[x] = n /\ x[1] = status
                                  /\ x \in Origins \X (1..MaxRequirementRows)
        /\ \A x \in DOMAIN requirement : requirement'[x] = requirement[x]
    <2>1. PICK S : S = {status} OBVIOUS
    <2>2. IsFiniteSet(S) /\ DOMAIN rows = {NextOf(requirement, s) : s \in S}
      <3>1. IsFiniteSet(S) BY <2>1, FS_Singleton
      <3> QED BY <1>2, <2>1, <3>1
    <2>3. InsertedOf(requirement, requirement', rows, S)
          BY <1>3, <2>2, InsertedRows DEF ReqInv
    <2>4. 1..(1 + Cardinality(DOMAIN requirement)) \subseteq 1..MaxRequirementRows
          BY <1>3, RoomForCopies
    <2>5. status \in Origins BY DEF Origins
    <2> QED BY <1>2, <2>1, <2>3, <2>4, <2>5 DEF InsertedOf
  <1>6. /\ TableKept(requirement, requirement', {}) /\ TableKept(input, input', {})
        /\ StandingKept(Standing, Standing', {})
    <2>1. \A x \in DOMAIN rows : x[1] \notin Candidates
          BY <1>5, RequirementAssumption DEF ReviewStatuses
    <2>2. Standing' \subseteq Standing \cup DOMAIN rows BY <1>3, <1>5 DEF Standing
    <2> QED BY <1>3, <1>5, <2>1, <2>2 DEF TableKept, StandingKept
  <1>7. SessionInv' /\ \A v \in Workers : RequirementKnows(requirement, input, Standing, req[v])'
        BY <1>3, <1>6, QuietRequirement
  <1>8. raced' = raced BY <1>3 DEF session
  <1>9. RequirementsTypeOK' /\ CopiesCounted(DOMAIN input')
        BY <1>3, <1>4, <1>5 DEF ReqInv, RequirementsTypeOK
  <1>10. LinksAreRows(requirement', input') BY <1>3, <1>5 DEF ReqInv, LinksAreRows
  <1>11. StandsAsExtracted' /\ ExtractedOnce'
    <2>1. \A x \in DOMAIN rows : x[1] \notin Candidates
          BY <1>5, RequirementAssumption DEF ReviewStatuses
    <2>2. StandsAsExtracted'
      <3>1. Standing' \subseteq Standing \cup DOMAIN rows BY <1>3, <1>5 DEF Standing
      <3>2. \A x \in Standing : requirement'[x] = requirement[x] BY <1>5 DEF Standing
      <3> QED BY <2>1, <3>1, <3>2 DEF ReqInv, StandsAsExtracted
    <2>3. ExtractedOnce' BY <1>3, <1>5, <1>8, <2>1 DEF ReqInv, ExtractedOnce
    <2> QED BY <2>2, <2>3
  <1>12. VerdictsAreAttributed'
    <2>1. \A x \in DOMAIN requirement' \ raced' : Attributed(requirement'[x], x[1])
          BY <1>4, <1>5, <1>8, VerdictsOfRows DEF ReqInv
    <2>2. \A i \in DOMAIN input' \ raced' : InputAttributed(input'[i])
          BY <1>3, <1>8, VerdictsOfRows DEF ReqInv
    <2> QED BY <2>1, <2>2, VerdictsAfter
  <1> QED BY <1>5, <1>7, <1>9, <1>10, <1>11, <1>12 DEF ReqInv

LEMMA CreateInputKeeps ==
    ASSUME ReqInv, NEW u \in Reviewers, NEW status \in InputStatuses,
           NEW o \in Owners \cup {Nobody}, NEW x \in DOMAIN requirement \cup {Nobody},
           CreateInput(u, status, o, x)
    PROVE  ReqInv'
  <1>1. PICK p : p = IF o = Nobody THEN "suggested" ELSE o OBVIOUS
  <1>2. PICK v : v = IF status \in Resolved THEN u ELSE Nobody OBVIOUS
  <1>3. PICK b : b = [status |-> "Open", resolvedBy |-> Nobody, of |-> x, owner |-> p] OBVIOUS
  <1>4. PICK n : n = [b EXCEPT !.status = status, !.resolvedBy = v] OBVIOUS
  <1>5. PICK rows : rows = [i \in {NextOf(input, "input")} |-> n] OBVIOUS
  <1>6. /\ RequirementRoom(1) /\ requirement' = requirement /\ retyped' = retyped
        /\ UNCHANGED session
        /\ input' = Inserted(input, rows)
        BY <1>1, <1>2, <1>3, <1>4, <1>5 DEF CreateInput, WithStatus
  <1>7. n \in InputRow /\ n.of = x /\ InputAttributed(n)
    <2>1. x \in (Origins \X Nat) \cup {Nobody} BY DEF ReqInv, RequirementsTypeOK
    <2>2. p \in Owners \cup {"suggested", Nobody} /\ v \in Reviewers \cup {Nobody}
          BY <1>1, <1>2
    <2>3. b \in InputRow BY <1>3, <2>1, <2>2, RequirementAssumption DEF InputRow, InputStatuses
    <2>4. /\ n \in InputRow /\ n.of = b.of /\ n.status = status /\ n.resolvedBy = v
          BY <1>4, <2>2, <2>3 DEF InputRow
    <2>5. b.of = x BY <1>3
    <2> QED BY <1>2, <2>4, <2>5, ReviewersAssumption DEF InputAttributed
  <1>8. /\ DOMAIN input' = DOMAIN input \cup DOMAIN rows /\ CopiesCounted(DOMAIN input')
        /\ \A i \in DOMAIN rows : /\ input'[i] = n
                                  /\ i \in {"input"} \X (1..MaxRequirementRows)
        /\ \A i \in DOMAIN input : input'[i] = input[i]
    <2>1. PICK S : S = {"input"} OBVIOUS
    <2>2. IsFiniteSet(S) /\ DOMAIN rows = {NextOf(input, s) : s \in S}
      <3>1. IsFiniteSet(S) BY <2>1, FS_Singleton
      <3> QED BY <1>5, <2>1, <3>1
    <2>3. InsertedOf(input, input', rows, S)
          BY <1>6, <2>2, InsertedRows DEF ReqInv
    <2>4. 1..(1 + Cardinality(DOMAIN input)) \subseteq 1..MaxRequirementRows
          BY <1>6, RoomForCopies
    <2> QED BY <1>5, <2>1, <2>3, <2>4 DEF InsertedOf
  <1>9. /\ TableKept(requirement, requirement', {}) /\ TableKept(input, input', {})
        /\ StandingKept(Standing, Standing', {})
        BY <1>6, <1>8 DEF TableKept, StandingKept, Standing
  <1>10. SessionInv' /\ \A z \in Workers : RequirementKnows(requirement, input, Standing, req[z])'
         BY <1>6, <1>9, QuietRequirement
  <1>11. raced' = raced BY <1>6 DEF session
  <1>12. RequirementsTypeOK' /\ CopiesCounted(DOMAIN requirement')
         BY <1>6, <1>7, <1>8 DEF ReqInv, RequirementsTypeOK
  <1>13. LinksAreRows(requirement', input')
         BY <1>6, <1>7, <1>8 DEF ReqInv, LinksAreRows
  <1>14. StandsAsExtracted' /\ ExtractedOnce' BY <1>6, <1>11, ExtractedOnceAfter
  <1>15. VerdictsAreAttributed'
    <2>1. \A y \in DOMAIN requirement' \ raced' : Attributed(requirement'[y], y[1])
          BY <1>6, <1>11, VerdictsOfRows DEF ReqInv
    <2>2. \A i \in DOMAIN input' \ raced' : InputAttributed(input'[i])
          BY <1>7, <1>8, <1>11, VerdictsOfRows DEF ReqInv
    <2> QED BY <2>1, <2>2, VerdictsAfter
  <1> QED BY <1>8, <1>10, <1>12, <1>13, <1>14, <1>15 DEF ReqInv

LEMMA DieKeepsRequirements ==
    ASSUME ReqInv, NEW w \in Workers, Die(w), UNCHANGED requirementTables
    PROVE  ReqInv'
  <1>1. /\ SessionInv' /\ raced' = raced /\ requirement' = requirement /\ input' = input
        /\ Standing' = Standing
        /\ \A v \in Workers : req'[v] = IF v = w THEN Idle ELSE req[v]
        BY DieOthers DEF ReqInv, requirementTables, Standing
  <1>2. ASSUME NEW v \in Workers PROVE RequirementKnows(requirement', input', Standing', req'[v])
    <2>1. RequirementKnows(requirement, input, Standing, req[v]) BY DEF ReqInv
    <2> QED BY <1>1, <2>1, IdleKnowsRequirement
  <1>3. RequirementsTypeOK' /\ StandsAsExtracted' /\ ExtractedOnce' /\ VerdictsAreAttributed'
    <2>1. retyped' = retyped BY DEF requirementTables
    <2> QED BY <1>1, <2>1 DEF ReqInv, RequirementsTypeOK, StandsAsExtracted, ExtractedOnce,
               VerdictsAreAttributed
  <1>4. CopiesCounted(DOMAIN requirement') /\ CopiesCounted(DOMAIN input') /\ LinksAreRows(requirement', input')
        BY <1>1 DEF ReqInv
  <1> QED BY <1>1, <1>2, <1>3, <1>4 DEF ReqInv

-----------------------------------------------------------------------------
(* Requirements: the theorems                                               *)

LEMMA RequirementsInitHolds == RequirementsInit /\ SessionInit => ReqInv
  <1> SUFFICES ASSUME RequirementsInit, SessionInit PROVE ReqInv OBVIOUS
  <1>1. DOMAIN req = Workers /\ \A w \in Workers : req[w] = Idle BY DEF SessionInit
  <1>2. DOMAIN requirement = {} /\ DOMAIN input = {} /\ retyped = {} BY DEF RequirementsInit
  <1>3. CopiesCounted(DOMAIN requirement) /\ CopiesCounted(DOMAIN input)
        BY <1>2, FS_EmptySet DEF CopiesCounted
  <1>4. \A w \in Workers : RequirementKnows(requirement, input, Standing, req[w])
        BY <1>1, IdleKnowsRequirement
  <1> QED BY <1>1, <1>2, <1>3, <1>4 DEF ReqInv, SessionInv, RequirementsTypeOK, LinksAreRows,
          StandsAsExtracted, Standing, ExtractedOnce, VerdictsAreAttributed

LEMMA RequirementsNextHolds == ReqInv /\ [RequirementsNext]_requirementVars => ReqInv'
  <1> SUFFICES ASSUME ReqInv, [RequirementsNext]_requirementVars PROVE ReqInv' OBVIOUS
  <1>1. ASSUME NEW status \in ReviewStatuses, NEW o \in Owners \cup {Nobody}, NEW t \in Texts,
               CreateRequirement(status, o, t)
        PROVE  ReqInv'
        BY <1>1, CreateRequirementKeeps
  <1>2. ASSUME NEW u \in Reviewers, NEW status \in InputStatuses, NEW o \in Owners \cup {Nobody},
               NEW x \in DOMAIN requirement \cup {Nobody}, CreateInput(u, status, o, x)
        PROVE  ReqInv'
        BY <1>2, CreateInputKeeps
  <1>3. ASSUME NEW w \in Workers, BeginExtract(w) \/ CommitExtract(w) \/ CommitEdit(w)
                                   \/ CommitEditInput(w) \/ BeginAssign(w) \/ CommitAssign(w)
        PROVE  ReqInv'
        BY <1>3, BeginExtractKeeps, CommitExtractKeeps, CommitEditKeeps, CommitEditInputKeeps,
           BeginAssignKeeps, CommitAssignKeeps
  <1>4. ASSUME NEW w \in Workers, NEW u \in Reviewers, NEW x \in DOMAIN requirement,
               NEW new \in Edits(requirement[x], u), BeginEdit(w, x, new)
        PROVE  ReqInv'
        BY <1>4, BeginEditKeeps
  <1>5. ASSUME NEW w \in Workers, NEW u \in Reviewers, NEW i \in DOMAIN input,
               NEW new \in InputEdits(input[i], u), BeginEditInput(w, i, new)
        PROVE  ReqInv'
        BY <1>5, BeginEditInputKeeps
  <1>6. ASSUME NEW w \in Workers, Die(w), UNCHANGED requirementTables
        PROVE  ReqInv'
        BY <1>6, DieKeepsRequirements
  <1>7. CASE UNCHANGED requirementVars
    <2>1. UNCHANGED <<requirement, input, retyped, req, raced>>
          BY <1>7 DEF requirementVars, requirementTables, session
    <2>2. /\ \A w \in Workers : RequirementKnows(requirement', input', Standing', req'[w])
          /\ Standing' = Standing
          BY <2>1 DEF ReqInv, Standing
    <2>3. /\ RequirementsTypeOK' /\ SessionInv' /\ StandsAsExtracted' /\ ExtractedOnce'
          /\ VerdictsAreAttributed'
          BY <2>1, <2>2 DEF ReqInv, RequirementsTypeOK, SessionInv, StandsAsExtracted,
             ExtractedOnce, VerdictsAreAttributed
    <2>4. CopiesCounted(DOMAIN requirement') /\ CopiesCounted(DOMAIN input')
          /\ LinksAreRows(requirement', input')
          BY <2>1 DEF ReqInv
    <2> QED BY <2>2, <2>3, <2>4 DEF ReqInv
  <1> QED BY <1>1, <1>2, <1>3, <1>4, <1>5, <1>6, <1>7 DEF RequirementsNext

\* However extractions, edits and assignments overlap, each request knows what the
\* tables say of its rows, unless the rows changed since it loaded them.
THEOREM RequirementsInvHolds == RequirementsSpec => []ReqInv
  <1>1. RequirementsInit /\ SessionInit => ReqInv BY RequirementsInitHolds
  <1>2. ReqInv /\ [RequirementsNext]_requirementVars => ReqInv' BY RequirementsNextHolds
  <1> QED BY <1>1, <1>2, PTL DEF RequirementsSpec

\* A candidate whose requirement stands as extracted is not extracted again, unless two
\* extractions overlapped, whatever texts users write beside it.
THEOREM ExtractedOnceOnly == RequirementsSpec => []ExtractedOnce
  <1>1. ReqInv => ExtractedOnce BY DEF ReqInv
  <1> QED BY <1>1, RequirementsInvHolds, PTL

\* A review of a requirement and a resolution of an input name who decided, unless two
\* requests wrote the row at a time.
THEOREM VerdictsNameTheReviewer == RequirementsSpec => []VerdictsAreAttributed
  <1>1. ReqInv => VerdictsAreAttributed BY DEF ReqInv
  <1> QED BY <1>1, RequirementsInvHolds, PTL

\* The automatic assignment never takes a row from the owner a user gave it before.
THEOREM OwnersAreKept == RequirementsSpec => OwnerIsKept
  <1> DEFINE Kept(w) ==
         req[w].op = "assign" /\ req'[w] = Idle =>
            /\ \A x \in DOMAIN requirement \ req[w].stale :
                  requirement[x].owner # Nobody => requirement'[x].owner = requirement[x].owner
            /\ \A i \in DOMAIN input \ req[w].stale :
                  input[i].owner # Nobody => input'[i].owner = input[i].owner
  <1>1. ReqInv /\ [RequirementsNext]_requirementVars
            => [\A w \in Workers : Kept(w)]_requirementVars
    <2> SUFFICES ASSUME ReqInv, RequirementsNext, NEW w \in Workers,
                        req[w].op = "assign", req'[w] = Idle
                 PROVE  Kept(w)
        OBVIOUS
    <2>1. CASE UNCHANGED requirementTables BY <2>1 DEF requirementTables
    <2>2. CASE CommitAssign(w)
      <3>1. PICK q : q = req[w] OBVIOUS
      <3>2. GivesOwners(requirement, q.owner, q) /\ GivesOwners(input, q.inputOwner, q)
            BY <3>1 DEF ReqInv, RequirementKnows, AssignKnows
      <3>3. /\ requirement' = WithOwners(requirement, q.owner)
            /\ input' = WithOwners(input, q.inputOwner)
            BY <2>2, <3>1 DEF CommitAssign
      <3> QED BY <3>1, <3>2, <3>3 DEF WithOwners, GivesOwners
    <2>3. req[w] # Idle BY DEF Idle
    <2>4. ASSUME NEW v \in Workers, NEW W, Commit(v, W, W, Idle) PROVE v = w
      <3> SUFFICES ASSUME v # w PROVE FALSE OBVIOUS
      <3>1. After(req[w], W, req'[w]) BY <2>3, <2>4, CommitOthers DEF ReqInv
      <3>2. req'[w].op = "assign" BY <3>1 DEF After
      <3> QED BY <3>2 DEF Idle
    <2>5. ASSUME NEW v \in Workers, CommitExtract(v) PROVE Kept(w)
      <3>1. v = w BY <2>4, <2>5 DEF CommitExtract
      <3> QED BY <2>5, <3>1 DEF CommitExtract
    <2>6. ASSUME NEW v \in Workers, CommitEdit(v) PROVE Kept(w)
      <3>1. v = w BY <2>4, <2>6 DEF CommitEdit
      <3> QED BY <2>6, <3>1 DEF CommitEdit
    <2>7. ASSUME NEW v \in Workers, CommitEditInput(v) PROVE Kept(w)
      <3>1. v = w BY <2>4, <2>7 DEF CommitEditInput
      <3> QED BY <2>7, <3>1 DEF CommitEditInput
    <2>8. ASSUME NEW v \in Workers, CommitAssign(v) PROVE Kept(w)
      <3>1. v = w BY <2>4, <2>8 DEF CommitAssign
      <3> QED BY <2>2, <2>8, <3>1
    <2>9. CASE UNCHANGED session BY <2>3, <2>9 DEF session
    <2>10. \/ UNCHANGED requirementTables \/ UNCHANGED session
           \/ \E v \in Workers : CommitExtract(v) \/ CommitEdit(v) \/ CommitEditInput(v)
                                   \/ CommitAssign(v)
           BY DEF RequirementsNext, BeginExtract, BeginEdit, BeginEditInput, BeginAssign,
                  CreateRequirement, CreateInput
    <2> QED BY <2>1, <2>5, <2>6, <2>7, <2>8, <2>9, <2>10
  <1> QED BY <1>1, RequirementsInvHolds, PTL DEF RequirementsSpec, OwnerIsKept

-----------------------------------------------------------------------------
(* Drawing findings: the invariant                                          *)

DrawingColumns == {"verdict", "status", "disposition"}

DrawingChanges(ch) ==
    /\ DOMAIN ch \subseteq DrawingColumns
    /\ "verdict" \in DOMAIN ch => ch["verdict"] \in Verdicts
    /\ "status" \in DOMAIN ch => ch["status"] \in {"Open", "Informational", "Closed"}
    /\ "disposition" \in DOMAIN ch => ch["disposition"] \in DrawingDispositions \cup {Nobody}

\* The findings of an observation are numbered from 1 on.
FindingsOf(D, x) == {f \in D : Observed(f) = x}

NextFinding(D, x) == <<x[1], x[2], 1 + Cardinality(FindingsOf(D, x))>>

FindingsCounted(D) ==
    /\ IsFiniteSet(D)
    /\ \A f \in D : f[3] \in Nat /\ f[3] <= Cardinality(FindingsOf(D, Observed(f)))

\* What DifferencesAreSeen says of a finding, and that only "Escalate" leaves a
\* decided one Open.
Seen(f) ==
    /\ f.status = "Informational" => f.verdict = "Match" /\ f.disposition = Nobody
    /\ f.status = "Closed" => f.disposition \notin {Nobody, "Escalate"}
    /\ f.status = "Open" => /\ f.verdict # "Match" \/ f.disposition = "Escalate"
                            /\ f.disposition \in {Nobody, "Escalate"}

\* A recording knows of every observation of a signature it inserts, unless another
\* one inserted it since.
RecordKnows(observed, q) ==
    q.op = "record" =>
        /\ "new" \in DOMAIN q /\ IsFiniteSet(q.new) /\ q.new \subseteq {Signature(o) : o \in Observable}
        /\ \A s \in q.new : <<s>> \in q.reads
        /\ \A x \in observed : x[1] \in q.new /\ Exact(x[1]) => <<x[1]>> \in q.stale

\* A verification has a first finding for the observations it found without one, and
\* changes for the findings it loaded.
VerifyKnows(observed, rows, q) ==
    q.op = "verify" =>
        /\ {"new", "changes"} \subseteq DOMAIN q
        /\ DOMAIN q.new \subseteq observed \cap q.reads
        /\ \A x \in DOMAIN q.new : \E v \in Verdicts : q.new[x] = First(v)
        /\ \A f \in DOMAIN rows : Observed(f) \in DOMAIN q.new => Observed(f) \in q.stale
        /\ DOMAIN q.changes \subseteq DOMAIN rows \cap q.reads
        /\ \A f \in DOMAIN q.changes :
              /\ DrawingChanges(q.changes[f])
              /\ f \notin q.stale => \E v \in Verdicts :
                    Written(rows[f], q.changes[f]) = Verified(rows[f], v)

JudgeDrawingKnows(rows, q) ==
    q.op = "judge drawing" =>
        /\ {"row", "changes"} \subseteq DOMAIN q
        /\ q.row \in DOMAIN rows /\ q.row \in q.reads /\ DrawingChanges(q.changes)
        /\ q.row \notin q.stale => \E d \in DrawingDispositions :
              Written(rows[q.row], q.changes) = JudgedDrawing(rows[q.row], d)

DrawingKnows(observed, rows, q) ==
    RecordKnows(observed, q) /\ VerifyKnows(observed, rows, q) /\ JudgeDrawingKnows(rows, q)

DrawInv ==
    /\ DrawingsTypeOK
    /\ CopiesCounted(observation) /\ FindingsCounted(DOMAIN drawing)
    /\ \A x \in observation : x = <<x[1], x[2]>>
    /\ SessionInv
    /\ \A w \in Workers : DrawingKnows(observation, drawing, req[w])
    /\ ComparedOnce
    /\ \A f \in DOMAIN drawing \ raced : Seen(drawing[f])

-----------------------------------------------------------------------------
(* Drawing findings: rows                                                   *)

LEMMA DrawingColumnsOf ==
    ASSUME NEW r
    PROVE  r \in Finding <=>
              /\ r = [c \in DrawingColumns |-> r[c]]
              /\ r["verdict"] \in Verdicts /\ r["status"] \in {"Open", "Informational", "Closed"}
              /\ r["disposition"] \in DrawingDispositions \cup {Nobody}
  <1>1. r \in Finding => r = [c \in DrawingColumns |-> r[c]]
        BY DEF Finding, DrawingColumns
  <1>2. ASSUME r = [c \in DrawingColumns |-> r[c]]
        PROVE  r = [verdict |-> r.verdict, status |-> r.status, disposition |-> r.disposition]
        BY <1>2 DEF DrawingColumns
  <1> QED BY <1>1, <1>2 DEF Finding

LEMMA WrittenDrawing ==
    ASSUME NEW r \in Finding, NEW ch, DrawingChanges(ch)
    PROVE  Written(r, ch) \in Finding
  <1>1. PICK n : n = Written(r, ch) OBVIOUS
  <1>2. DOMAIN r = DrawingColumns BY DrawingColumnsOf
  <1>3. n = [c \in DrawingColumns |-> IF c \in DOMAIN ch THEN ch[c] ELSE r[c]]
        BY <1>1, <1>2 DEF Written
  <1>4. n = [c \in DrawingColumns |-> n[c]] BY <1>3
  <1>5. \A c \in DrawingColumns : n[c] = IF c \in DOMAIN ch THEN ch[c] ELSE r[c] BY <1>3
  <1>6. /\ n["verdict"] \in Verdicts /\ n["status"] \in {"Open", "Informational", "Closed"}
        /\ n["disposition"] \in DrawingDispositions \cup {Nobody}
        BY <1>5, DrawingColumnsOf DEF DrawingChanges, DrawingColumns
  <1> QED BY <1>1, <1>4, <1>6, DrawingColumnsOf

\* A finding made from a finding, column by column.
LEMMA ChangedDrawing ==
    ASSUME NEW r \in Finding, NEW n \in Finding
    PROVE  DrawingChanges(Changes(r, n)) /\ Written(r, Changes(r, n)) = n
  <1>1. DOMAIN r = DrawingColumns /\ n = [c \in DrawingColumns |-> n[c]] BY DrawingColumnsOf
  <1>2. PICK ch : ch = Changes(r, n) OBVIOUS
  <1>3. /\ Written(r, ch) = n /\ DOMAIN ch = {c \in DrawingColumns : n[c] # r[c]}
        /\ \A c \in DOMAIN ch : ch[c] = n[c]
    <2>1. n = [c \in DOMAIN r |-> n[c]] BY <1>1
    <2>2. /\ Written(r, Changes(r, n)) = n
          /\ DOMAIN Changes(r, n) = {c \in DOMAIN r : n[c] # r[c]}
          /\ \A c \in DOMAIN Changes(r, n) : Changes(r, n)[c] = n[c]
          BY <2>1, WrittenBack
    <2> QED BY <1>1, <1>2, <2>2
  <1>4. DrawingChanges(ch) BY <1>3, DrawingColumnsOf DEF DrawingChanges
  <1> QED BY <1>2, <1>3, <1>4

LEMMA FirstFinding ==
    ASSUME NEW v \in Verdicts
    PROVE  First(v) \in Finding /\ Seen(First(v))
  <1>1. PICK z : z = IF v = "Match" THEN "Informational" ELSE "Open" OBVIOUS
  <1>2. PICK f : f = [verdict |-> v, status |-> z, disposition |-> Nobody] OBVIOUS
  <1>3. f \in Finding /\ f.verdict = v /\ f.status = z /\ f.disposition = Nobody
        BY <1>1, <1>2 DEF Finding
  <1>4. Seen(f) BY <1>1, <1>3 DEF Seen
  <1> QED BY <1>1, <1>2, <1>3, <1>4 DEF First

\* A verification reopens what no longer matches, and a finding stays seen.
LEMMA VerifiedFinding ==
    ASSUME NEW r \in Finding, NEW v \in Verdicts
    PROVE  Verified(r, v) \in Finding /\ (Seen(r) => Seen(Verified(r, v)))
  <1>1. PICK z : z = IF r.status = "Informational" /\ v # "Match" THEN "Open"
                     ELSE IF r.status = "Open" /\ v = "Match" /\ r.disposition = Nobody
                     THEN "Informational" ELSE r.status
        OBVIOUS
  <1>2. PICK f : f = [r EXCEPT !.verdict = v, !.status = z] OBVIOUS
  <1>3. Verified(r, v) = f BY <1>1, <1>2 DEF Verified
  <1>4. r.status \in {"Open", "Informational", "Closed"} BY DEF Finding
  <1>5. f \in Finding /\ f.verdict = v /\ f.status = z /\ f.disposition = r.disposition
        BY <1>1, <1>2, <1>4 DEF Finding
  <1>6. Seen(r) => Seen(f) BY <1>1, <1>4, <1>5 DEF Seen
  <1> QED BY <1>3, <1>5, <1>6

LEMMA JudgedFinding ==
    ASSUME NEW r \in Finding, NEW d \in DrawingDispositions
    PROVE  JudgedDrawing(r, d) \in Finding /\ Seen(JudgedDrawing(r, d))
  <1>1. PICK z : z = IF d = "Escalate" THEN "Open" ELSE "Closed" OBVIOUS
  <1>2. PICK f : f = [r EXCEPT !.disposition = d, !.status = z] OBVIOUS
  <1>3. JudgedDrawing(r, d) = f BY <1>1, <1>2 DEF JudgedDrawing
  <1>4. f \in Finding /\ f.status = z /\ f.disposition = d
        BY <1>1, <1>2 DEF Finding
  <1>5. Seen(f) BY <1>1, <1>4, DrawingAssumption DEF Seen
  <1> QED BY <1>3, <1>4, <1>5

-----------------------------------------------------------------------------
(* Drawing findings: the next number of an observation's findings is free   *)

LEMMA NextFindingIsNew ==
    ASSUME NEW D, FindingsCounted(D), NEW x, x = <<x[1], x[2]>>
    PROVE  NextFinding(D, x) \notin D /\ Observed(NextFinding(D, x)) = x
  <1>1. FindingsOf(D, x) \subseteq D BY DEF FindingsOf
  <1>2. IsFiniteSet(FindingsOf(D, x)) /\ Cardinality(FindingsOf(D, x)) \in Nat
        BY <1>1, FS_Subset, FS_CardinalityType DEF FindingsCounted
  <1>3. PICK n \in Nat : n = Cardinality(FindingsOf(D, x)) BY <1>2
  <1>4. PICK f : f = <<x[1], x[2], 1 + n>> OBVIOUS
  <1>5. NextFinding(D, x) = f BY <1>3, <1>4 DEF NextFinding
  <1>6. f[3] = 1 + n /\ Observed(f) = x BY <1>4 DEF Observed
  <1>7. f \in D => 1 + n <= n BY <1>3, <1>6 DEF FindingsCounted
  <1> QED BY <1>5, <1>6, <1>7

LEMMA FindingsGrow ==
    ASSUME NEW D, FindingsCounted(D), NEW S, IsFiniteSet(S), \A x \in S : x = <<x[1], x[2]>>,
           NEW E, E = D \cup {NextFinding(D, x) : x \in S}
    PROVE  FindingsCounted(E)
  <1>1. IsFiniteSet(E)
    <2>1. PICK f : f = [x \in S |-> NextFinding(D, x)] OBVIOUS
    <2>2. PICK T : T = {NextFinding(D, x) : x \in S} OBVIOUS
    <2>3. f \in [S -> T] /\ \A t \in T : \E x \in S : f[x] = t BY <2>1, <2>2
    <2>4. f \in Surjection(S, T) BY <2>3 DEF Surjection
    <2>5. IsFiniteSet(T) BY <2>4, FS_Surjection
    <2> QED BY <2>2, <2>5, FS_Union DEF FindingsCounted
  <1>2. ASSUME NEW f \in E
        PROVE  f[3] \in Nat /\ f[3] <= Cardinality(FindingsOf(E, Observed(f)))
    <2>1. PICK x : x = Observed(f) OBVIOUS
    <2>2. PICK C, B : C = FindingsOf(D, x) /\ B = FindingsOf(E, x) OBVIOUS
    <2>3. C \subseteq B /\ B \subseteq E /\ C \subseteq D BY <2>2 DEF FindingsOf
    <2>4. IsFiniteSet(C) /\ IsFiniteSet(B) BY <1>1, <2>3, FS_Subset
    <2>5. PICK c, b \in Nat : c = Cardinality(C) /\ b = Cardinality(B) BY <2>4, FS_CardinalityType
    <2>6. c <= b BY <2>3, <2>4, <2>5, FS_Subset
    <2>7. CASE f \in D
      <3>1. f[3] \in Nat /\ f[3] <= c BY <2>1, <2>2, <2>5, <2>7 DEF FindingsCounted
      <3> QED BY <2>1, <2>2, <2>5, <2>6, <3>1
    <2>8. CASE f \notin D
      <3>1. PICK y \in S : f = NextFinding(D, y) BY <2>8
      <3>2. y = x BY <2>1, <3>1, NextFindingIsNew
      <3>3. f[3] = 1 + c BY <2>2, <2>5, <3>1, <3>2 DEF NextFinding
      <3>4. f \notin C /\ C \cup {f} \subseteq B BY <2>1, <2>2, <2>3, <2>8 DEF FindingsOf
      <3>5. Cardinality(C \cup {f}) = c + 1 /\ IsFiniteSet(C \cup {f})
            BY <2>4, <2>5, <3>4, FS_AddElement
      <3>6. c + 1 <= b BY <2>4, <2>5, <3>4, <3>5, FS_Subset
      <3> QED BY <2>1, <2>2, <2>5, <3>3, <3>6
    <2> QED BY <2>7, <2>8
  <1> QED BY <1>1, <1>2 DEF FindingsCounted

-----------------------------------------------------------------------------
(* Drawing findings: what a request knows survives the steps of others      *)

\* A step writes the signatures and observations it gives a row.
DrawingsKept(observed, observedAfter, rows, rowsAfter, written) ==
    /\ observed \subseteq observedAfter
    /\ \A x \in observedAfter \ observed : <<x[1]>> \in written
    /\ TableKept(rows, rowsAfter, written)
    /\ \A f \in DOMAIN rowsAfter \ DOMAIN rows : Observed(f) \in written

LEMMA DrawingStaysKnown ==
    ASSUME NEW observed, NEW observedAfter, NEW rows, NEW rowsAfter, NEW written,
           DrawingsKept(observed, observedAfter, rows, rowsAfter, written),
           NEW q, NEW n, After(q, written, n), DrawingKnows(observed, rows, q)
    PROVE  DrawingKnows(observedAfter, rowsAfter, n)
  <1>1. /\ DOMAIN n = DOMAIN q /\ n.op = q.op /\ n.reads = q.reads
        /\ n.stale = q.stale \cup (written \cap q.reads)
        /\ \A k \in DOMAIN q \ {"stale"} : n[k] = q[k]
        BY DEF After
  <1>2. RecordKnows(observedAfter, n)
    <2> SUFFICES ASSUME n.op = "record" PROVE RecordKnows(observedAfter, n) BY DEF RecordKnows
    <2>1. RecordKnows(observed, q) /\ q.op = "record" BY <1>1 DEF DrawingKnows
    <2>2. "new" \in DOMAIN n /\ n.new = q.new BY <1>1, <2>1 DEF RecordKnows
    <2>3. ASSUME NEW x \in observedAfter, x[1] \in q.new, Exact(x[1])
          PROVE  <<x[1]>> \in n.stale
      <3>1. <<x[1]>> \in q.reads BY <2>1, <2>3 DEF RecordKnows
      <3>2. CASE x \in observed BY <1>1, <2>1, <2>3, <3>2 DEF RecordKnows
      <3>3. CASE x \notin observed BY <1>1, <3>1, <3>3 DEF DrawingsKept
      <3> QED BY <3>2, <3>3
    <2> QED BY <1>1, <2>1, <2>2, <2>3 DEF RecordKnows
  <1>3. VerifyKnows(observedAfter, rowsAfter, n)
    <2> SUFFICES ASSUME n.op = "verify" PROVE VerifyKnows(observedAfter, rowsAfter, n)
        BY DEF VerifyKnows
    <2>1. VerifyKnows(observed, rows, q) /\ q.op = "verify" BY <1>1 DEF DrawingKnows
    <2>2. {"new", "changes"} \subseteq DOMAIN n /\ n.new = q.new /\ n.changes = q.changes
          BY <1>1, <2>1 DEF VerifyKnows
    <2>3. ASSUME NEW f \in DOMAIN rowsAfter, Observed(f) \in DOMAIN q.new
          PROVE  Observed(f) \in n.stale
      <3>1. Observed(f) \in q.reads BY <2>1, <2>3 DEF VerifyKnows
      <3>2. CASE f \in DOMAIN rows BY <1>1, <2>1, <2>3, <3>2 DEF VerifyKnows
      <3>3. CASE f \notin DOMAIN rows BY <1>1, <3>1, <3>3 DEF DrawingsKept
      <3> QED BY <3>2, <3>3
    <2>4. ASSUME NEW f \in DOMAIN q.changes, f \notin n.stale
          PROVE  f \notin q.stale /\ rowsAfter[f] = rows[f]
      <3>1. f \in DOMAIN rows /\ f \in q.reads BY <2>1 DEF VerifyKnows
      <3> QED BY <1>1, <2>4, <3>1 DEF DrawingsKept, TableKept
    <2>5. DOMAIN q.new \subseteq observedAfter /\ DOMAIN rows \subseteq DOMAIN rowsAfter
          BY <2>1 DEF VerifyKnows, DrawingsKept, TableKept
    <2>6. \A f \in DOMAIN q.changes :
              /\ DrawingChanges(q.changes[f])
              /\ f \notin n.stale => \E v \in Verdicts :
                    Written(rowsAfter[f], q.changes[f]) = Verified(rowsAfter[f], v)
          BY <2>1, <2>4 DEF VerifyKnows
    <2> QED BY <1>1, <2>1, <2>2, <2>3, <2>5, <2>6 DEF VerifyKnows
  <1>4. JudgeDrawingKnows(rowsAfter, n)
    <2> SUFFICES ASSUME n.op = "judge drawing" PROVE JudgeDrawingKnows(rowsAfter, n)
        BY DEF JudgeDrawingKnows
    <2>1. JudgeDrawingKnows(rows, q) /\ q.op = "judge drawing" BY <1>1 DEF DrawingKnows
    <2>2. /\ {"row", "changes"} \subseteq DOMAIN n /\ n.row = q.row /\ n.changes = q.changes
          BY <1>1, <2>1 DEF JudgeDrawingKnows
    <2>3. q.row \in DOMAIN rows /\ q.row \in q.reads BY <2>1 DEF JudgeDrawingKnows
    <2>4. n.row \notin n.stale => q.row \notin q.stale /\ rowsAfter[q.row] = rows[q.row]
          BY <1>1, <2>2, <2>3 DEF DrawingsKept, TableKept
    <2>5. q.row \in DOMAIN rowsAfter BY <2>3 DEF DrawingsKept, TableKept
    <2> QED BY <1>1, <2>1, <2>2, <2>3, <2>4, <2>5 DEF JudgeDrawingKnows
  <1> QED BY <1>2, <1>3, <1>4 DEF DrawingKnows

LEMMA IdleKnowsDrawing == \A observed, rows : DrawingKnows(observed, rows, Idle)
  <1>1. Idle.op = "idle" BY DEF Idle
  <1> QED BY <1>1 DEF DrawingKnows, RecordKnows, VerifyKnows, JudgeDrawingKnows

LEMMA TakeDrawing ==
    ASSUME DrawInv, UNCHANGED drawingTables, NEW w \in Workers, NEW request, Take(w, request),
           {"op", "reads", "stale"} \subseteq DOMAIN request,
           DrawingKnows(observation, drawing, request)
    PROVE  DrawInv'
  <1>1. /\ SessionInv' /\ raced' = raced /\ UNCHANGED <<boq, observation, drawing>>
        /\ \A v \in Workers : req'[v] = IF v = w THEN request ELSE req[v]
        BY TakeOthers DEF DrawInv, drawingTables
  <1>2. ASSUME NEW v \in Workers PROVE DrawingKnows(observation', drawing', req'[v])
    <2>1. DrawingKnows(observation, drawing, req[v]) BY DEF DrawInv
    <2> QED BY <1>1, <2>1
  <1>3. DrawingsTypeOK' /\ ComparedOnce' BY <1>1 DEF DrawInv, DrawingsTypeOK, ComparedOnce
  <1>4. /\ CopiesCounted(observation') /\ FindingsCounted(DOMAIN drawing')
        /\ \A x \in observation' : x = <<x[1], x[2]>>
        /\ \A f \in DOMAIN drawing' \ raced' : Seen(drawing'[f])
        BY <1>1 DEF DrawInv
  <1> QED BY <1>1, <1>2, <1>3, <1>4 DEF DrawInv

LEMMA CommitDrawing ==
    ASSUME DrawInv, NEW w \in Workers, NEW decided, NEW written, Commit(w, decided, written, Idle),
           DrawingsKept(observation, observation', drawing, drawing', written)
    PROVE  /\ SessionInv' /\ raced' = raced \cup (decided \cap req[w].stale)
           /\ \A v \in Workers : DrawingKnows(observation, drawing, req[v])'
  <1>1. /\ SessionInv' /\ req'[w] = Idle /\ raced' = raced \cup (decided \cap req[w].stale)
        /\ \A v \in Workers \ {w} :
                 IF req[v] = Idle THEN req'[v] = Idle ELSE After(req[v], written, req'[v])
    <2>1. SessionInv BY DEF DrawInv
    <2> QED BY <2>1, CommitOthers
  <1>2. ASSUME NEW v \in Workers PROVE DrawingKnows(observation', drawing', req'[v])
    <2>1. CASE req'[v] = Idle BY <2>1, IdleKnowsDrawing
    <2>2. CASE req'[v] # Idle
      <3>1. After(req[v], written, req'[v]) BY <1>1, <2>2
      <3>2. DrawingKnows(observation, drawing, req[v]) BY DEF DrawInv
      <3>3. PICK rows, rowsAfter, observed, observedAfter, q, n :
               /\ rows = drawing /\ rowsAfter = drawing' /\ observed = observation
               /\ observedAfter = observation' /\ q = req[v] /\ n = req'[v]
            OBVIOUS
      <3>4. DrawingKnows(observedAfter, rowsAfter, n)
            BY <3>1, <3>2, <3>3, DrawingStaysKnown
      <3> QED BY <3>3, <3>4
    <2> QED BY <2>1, <2>2
  <1> QED BY <1>1, <1>2

-----------------------------------------------------------------------------
(* Drawing findings: the actions                                            *)

LEMMA BeginRecordKeeps ==
    ASSUME DrawInv, NEW w \in Workers, NEW batch \in SUBSET Observable, IsFiniteSet(batch),
           BeginRecord(w, batch)
    PROVE  DrawInv'
  <1>1. PICK N : N = NewSignatures(batch) OBVIOUS
  <1>2. PICK q : q = [op |-> "record", new |-> N, reads |-> {<<s>> : s \in N}, stale |-> {}]
        OBVIOUS
  <1>3. Take(w, q) /\ UNCHANGED drawingTables BY <1>1, <1>2 DEF BeginRecord
  <1>4. /\ q.op = "record" /\ {"op", "new", "reads", "stale"} \subseteq DOMAIN q
        /\ q.new = N /\ q.reads = {<<s>> : s \in N}
        BY <1>2
  <1>5. /\ N \subseteq {Signature(o) : o \in batch}
        /\ \A x \in observation : Exact(x[1]) => x[1] \notin N
        BY <1>1 DEF NewSignatures, Exact
  <1>6. IsFiniteSet(N)
    <2>1. PICK T : T = {Signature(o) : o \in batch} OBVIOUS
    <2>2. PICK f : f = [o \in batch |-> Signature(o)] OBVIOUS
    <2>3. f \in [batch -> T] /\ \A t \in T : \E o \in batch : f[o] = t BY <2>1, <2>2
    <2>4. f \in Surjection(batch, T) BY <2>3 DEF Surjection
    <2>5. IsFiniteSet(T) BY <2>4, FS_Surjection
    <2> QED BY <1>5, <2>1, <2>5, FS_Subset
  <1>7. RecordKnows(observation, q) BY <1>4, <1>5, <1>6 DEF RecordKnows
  <1>8. DrawingKnows(observation, drawing, q)
        BY <1>4, <1>7 DEF DrawingKnows, VerifyKnows, JudgeDrawingKnows
  <1> QED BY <1>3, <1>4, <1>8, TakeDrawing

LEMMA ComparisonsAreVerdicts ==
    ASSUME NEW verdict \in Comparisons, NEW x \in observation
    PROVE  verdict[x] \in Verdicts
  <1>1. \A s, b : Verdict(s, b) \in Verdicts BY DEF Verdict, Verdicts
  <1>2. CASE boq = <<>> BY <1>2 DEF Comparisons, Verdicts
  <1>3. CASE boq # <<>>
    <2>1. PICK best : verdict = [y \in observation |-> Verdict(y[1], best[y])]
          BY <1>3 DEF Comparisons
    <2> QED BY <1>1, <2>1
  <1> QED BY <1>2, <1>3

LEMMA BeginVerifyKeeps ==
    ASSUME DrawInv, NEW w \in Workers, NEW chosen \in SUBSET Loaded, NEW verdict \in Comparisons,
           BeginVerify(w, chosen, verdict)
    PROVE  DrawInv'
  <1>1. PICK missing : missing = observation \ {Observed(f) : f \in chosen} OBVIOUS
  <1>2. PICK new : new = [x \in missing |-> First(verdict[x])] OBVIOUS
  <1>3. PICK ch : ch = [f \in chosen |-> Changes(drawing[f],
                                             Verified(drawing[f], verdict[Observed(f)]))]
        OBVIOUS
  <1>4. PICK q : q = [op |-> "verify", new |-> new, changes |-> ch,
                      reads |-> missing \cup chosen, stale |-> {}]
        OBVIOUS
  <1>5. /\ Take(w, q) /\ UNCHANGED drawingTables
        /\ {Observed(f) : f \in chosen} = {Observed(f) : f \in DOMAIN drawing}
        BY <1>1, <1>2, <1>3, <1>4 DEF BeginVerify, Loaded
  <1>6. /\ q.op = "verify" /\ {"op", "new", "changes", "reads", "stale"} \subseteq DOMAIN q
        /\ q.new = new /\ q.changes = ch /\ q.reads = missing \cup chosen /\ q.stale = {}
        BY <1>4
  <1>7. DOMAIN new = missing /\ \A x \in missing : \E v \in Verdicts : new[x] = First(v)
        BY <1>1, <1>2, ComparisonsAreVerdicts
  <1>8. \A f \in DOMAIN drawing : Observed(f) \notin missing BY <1>1, <1>5
  <1>9. ASSUME NEW f \in chosen
        PROVE  /\ f \in DOMAIN drawing /\ DrawingChanges(ch[f])
               /\ \E v \in Verdicts : Written(drawing[f], ch[f]) = Verified(drawing[f], v)
    <2>1. f \in DOMAIN drawing BY DEF Loaded
    <2>2. drawing[f] \in Finding /\ Observed(f) \in observation BY <2>1 DEF DrawInv, DrawingsTypeOK
    <2>3. PICK v \in Verdicts : v = verdict[Observed(f)] BY <2>2, ComparisonsAreVerdicts
    <2>4. ch[f] = Changes(drawing[f], Verified(drawing[f], v)) BY <1>3, <2>3
    <2>5. Verified(drawing[f], v) \in Finding BY <2>2, VerifiedFinding
    <2> QED BY <2>1, <2>2, <2>4, <2>5, ChangedDrawing
  <1>10. DOMAIN ch = chosen BY <1>3
  <1>11. VerifyKnows(observation, drawing, q)
         BY <1>1, <1>6, <1>7, <1>8, <1>9, <1>10 DEF VerifyKnows
  <1>12. DrawingKnows(observation, drawing, q)
         BY <1>6, <1>11 DEF DrawingKnows, RecordKnows, JudgeDrawingKnows
  <1> QED BY <1>5, <1>6, <1>12, TakeDrawing

LEMMA BeginJudgeDrawingKeeps ==
    ASSUME DrawInv, NEW w \in Workers, NEW f \in DOMAIN drawing, NEW d \in DrawingDispositions,
           BeginJudgeDrawing(w, f, d)
    PROVE  DrawInv'
  <1>1. PICK ch : ch = Changes(drawing[f], JudgedDrawing(drawing[f], d)) OBVIOUS
  <1>2. PICK q : q = [op |-> "judge drawing", row |-> f, changes |-> ch, reads |-> {f}, stale |-> {}]
        OBVIOUS
  <1>3. Take(w, q) /\ UNCHANGED drawingTables BY <1>1, <1>2 DEF BeginJudgeDrawing
  <1>4. /\ q.op = "judge drawing" /\ {"op", "row", "changes", "reads", "stale"} \subseteq DOMAIN q
        /\ q.row = f /\ q.reads = {f} /\ q.changes = ch
        BY <1>2
  <1>5. drawing[f] \in Finding BY DEF DrawInv, DrawingsTypeOK
  <1>6. DrawingChanges(ch) /\ Written(drawing[f], ch) = JudgedDrawing(drawing[f], d)
        BY <1>1, <1>5, JudgedFinding, ChangedDrawing
  <1>7. JudgeDrawingKnows(drawing, q) BY <1>4, <1>6 DEF JudgeDrawingKnows
  <1>8. DrawingKnows(observation, drawing, q)
        BY <1>4, <1>7 DEF DrawingKnows, RecordKnows, VerifyKnows
  <1> QED BY <1>3, <1>4, <1>8, TakeDrawing

LEMMA CommitRecordKeeps ==
    ASSUME DrawInv, NEW w \in Workers, CommitRecord(w)
    PROVE  DrawInv'
  <1>1. PICK q : q = req[w] OBVIOUS
  <1>2. PICK W : W = {<<s>> : s \in q.new} OBVIOUS
  <1>3. PICK I : I = {NextIn(observation, s) : s \in q.new} OBVIOUS
  <1>4. /\ q.op = "record" /\ DrawingRoom(Cardinality(q.new)) /\ Commit(w, W, W, Idle)
        /\ boq' = boq /\ drawing' = drawing
        /\ observation' = observation \cup {<<s, Copies(s) + 1>> : s \in q.new}
        BY <1>1, <1>2 DEF CommitRecord
  <1>5. CopiesCounted(observation) BY DEF DrawInv
  <1>6. \A s : <<s, Copies(s) + 1>> = NextIn(observation, s)
    <2> TAKE s
    <2>1. CopiesIn(observation, s) \subseteq observation BY DEF CopiesIn
    <2>2. PICK n \in Nat : n = Cardinality(CopiesIn(observation, s))
          BY <1>5, <2>1, FS_Subset, FS_CardinalityType DEF CopiesCounted
    <2>3. Copies(s) = n BY <2>2 DEF Copies, CopiesIn
    <2> QED BY <2>2, <2>3 DEF NextIn
  <1>7. observation' = observation \cup I BY <1>3, <1>4, <1>6
  <1>8. RecordKnows(observation, q) BY <1>1 DEF DrawInv, DrawingKnows
  <1>9. /\ IsFiniteSet(q.new) /\ q.new \subseteq {Signature(o) : o \in Observable}
        /\ \A x \in observation : x[1] \in q.new /\ Exact(x[1]) => <<x[1]>> \in q.stale
        BY <1>4, <1>8 DEF RecordKnows
  <1>10. CopiesCounted(observation') BY <1>3, <1>5, <1>7, <1>9, CountedGrows
  <1>11. ASSUME NEW x \in I
         PROVE  /\ x = <<x[1], x[2]>> /\ x[1] \in q.new /\ x = NextIn(observation, x[1])
                /\ <<x[1]>> \in W
                /\ x \in {Signature(o) : o \in Observable} \X (1..MaxDrawingRows)
    <2>1. PICK s \in q.new : x = NextIn(observation, s) BY <1>3
    <2>2. x[1] = s /\ x = <<x[1], x[2]>> BY <2>1 DEF NextIn
    <2>3. x[2] \in 1..(1 + Cardinality(observation)) BY <1>5, <2>1, NextIsNew
    <2>4. PICK a, b, n \in Nat : /\ a = Cardinality(observation) /\ b = Cardinality(DOMAIN drawing)
                                 /\ n = Cardinality(q.new)
          BY <1>9, FS_CardinalityType DEF DrawInv, CopiesCounted, FindingsCounted
    <2>5. n # 0 BY <1>9, <2>4, FS_EmptySet
    <2>6. a + b + n <= MaxDrawingRows /\ MaxDrawingRows \in Nat
          BY <1>4, <2>4, DrawingAssumption DEF DrawingRoom
    <2>7. 1 + a <= MaxDrawingRows BY <2>5, <2>6
    <2>8. x[2] \in 1..MaxDrawingRows BY <2>3, <2>4, <2>6, <2>7
    <2> QED BY <1>2, <1>9, <2>1, <2>2, <2>8
  <1>12. DrawingsKept(observation, observation', drawing, drawing', W)
         BY <1>4, <1>7, <1>11 DEF DrawingsKept, TableKept
  <1>13. /\ SessionInv' /\ raced' = raced \cup (W \cap q.stale)
         /\ \A v \in Workers : DrawingKnows(observation, drawing, req[v])'
         BY <1>1, <1>4, <1>12, CommitDrawing
  <1>14. DrawingsTypeOK' BY <1>4, <1>7, <1>11 DEF DrawInv, DrawingsTypeOK
  <1>15. ComparedOnce'
    <2>1. ASSUME NEW x \in observation', NEW y \in observation', x # y,
                 Stored(x[1]) = Stored(y[1]), Exact(x[1]), Exact(y[1])
          PROVE  <<x[1]>> \in raced'
      <3>4. x[1] = y[1] BY <2>1 DEF Exact
      <3>1. CASE x \in observation /\ y \in observation
            BY <1>13, <2>1, <3>1 DEF DrawInv, ComparedOnce
      <3>2. CASE x \in I /\ y \in I BY <1>11, <2>1, <3>2, <3>4
      <3>3. ASSUME NEW o \in observation, NEW i \in I, o[1] = i[1], Exact(o[1])
            PROVE  <<o[1]>> \in raced'
            BY <1>9, <1>11, <1>13, <3>3
      <3> QED BY <1>7, <2>1, <3>1, <3>2, <3>3, <3>4
    <2>2. \A f, g \in DOMAIN drawing' :
              f # g /\ Observed(f) = Observed(g) => Observed(f) \in raced'
          BY <1>4, <1>13 DEF DrawInv, ComparedOnce
    <2> QED BY <2>1, <2>2 DEF ComparedOnce
  <1>16. /\ FindingsCounted(DOMAIN drawing')
         /\ \A x \in observation' : x = <<x[1], x[2]>>
         /\ \A f \in DOMAIN drawing' \ raced' : Seen(drawing'[f])
         BY <1>4, <1>7, <1>11, <1>13 DEF DrawInv
  <1> QED BY <1>10, <1>13, <1>14, <1>15, <1>16 DEF DrawInv

LEMMA CommitVerifyKeeps ==
    ASSUME DrawInv, NEW w \in Workers, CommitVerify(w)
    PROVE  DrawInv'
  <1>1. PICK q : q = req[w] OBVIOUS
  <1>2. PICK D : D = DOMAIN drawing OBVIOUS
  <1>3. PICK I : I = {NextFinding(D, x) : x \in DOMAIN q.new} OBVIOUS
  <1>4. PICK changed : changed = {f \in DOMAIN q.changes : q.changes[f] # <<>>} OBVIOUS
  <1>5. PICK W : W = DOMAIN q.new \cup changed OBVIOUS
  <1>6. /\ q.op = "verify" /\ Commit(w, W, W, Idle) /\ boq' = boq /\ observation' = observation
        /\ drawing' = [f \in D \cup I |->
                          IF f \in I THEN q.new[Observed(f)]
                          ELSE IF f \in changed THEN Written(drawing[f], q.changes[f])
                          ELSE drawing[f]]
        BY <1>1, <1>2, <1>3, <1>4, <1>5 DEF CommitVerify, NextFinding, FindingsOf
  <1>7. VerifyKnows(observation, drawing, q) BY <1>1 DEF DrawInv, DrawingKnows
  <1>8. /\ DOMAIN q.new \subseteq observation
        /\ \A x \in DOMAIN q.new : \E v \in Verdicts : q.new[x] = First(v)
        /\ \A f \in D : Observed(f) \in DOMAIN q.new => Observed(f) \in q.stale
        /\ DOMAIN q.changes \subseteq D
        /\ \A f \in DOMAIN q.changes :
              /\ DrawingChanges(q.changes[f])
              /\ f \notin q.stale => \E v \in Verdicts :
                    Written(drawing[f], q.changes[f]) = Verified(drawing[f], v)
        BY <1>2, <1>6, <1>7 DEF VerifyKnows
  <1>9. FindingsCounted(D) /\ IsFiniteSet(observation)
        BY <1>2 DEF DrawInv, CopiesCounted
  <1>10. IsFiniteSet(DOMAIN q.new) /\ \A x \in DOMAIN q.new : x = <<x[1], x[2]>>
         BY <1>8, <1>9, FS_Subset DEF DrawInv
  <1>11. DOMAIN drawing' = D \cup I /\ FindingsCounted(DOMAIN drawing')
         BY <1>3, <1>6, <1>9, <1>10, FindingsGrow
  <1>12. ASSUME NEW f \in I
         PROVE  /\ f \notin D /\ Observed(f) \in DOMAIN q.new /\ f = NextFinding(D, Observed(f))
                /\ drawing'[f] \in Finding /\ Seen(drawing'[f])
    <2>1. PICK x \in DOMAIN q.new : f = NextFinding(D, x) BY <1>3
    <2>2. f \notin D /\ Observed(f) = x BY <1>9, <1>10, <2>1, NextFindingIsNew
    <2>3. drawing'[f] = q.new[x] BY <1>6, <2>2
    <2>4. PICK v \in Verdicts : drawing'[f] = First(v) BY <1>8, <2>3
    <2>5. drawing'[f] \in Finding /\ Seen(drawing'[f]) BY <2>4, FirstFinding
    <2> QED BY <2>1, <2>2, <2>5
  <1>13. ASSUME NEW f \in D
         PROVE  /\ drawing'[f] \in Finding
                /\ f \notin W => drawing'[f] = drawing[f]
                /\ f \notin raced \cup (W \cap q.stale) => Seen(drawing'[f])
    <2>1. drawing[f] \in Finding /\ (f \notin raced => Seen(drawing[f]))
          BY <1>2 DEF DrawInv, DrawingsTypeOK
    <2>2. f \notin I BY <1>12
    <2>3. CASE f \in changed
      <3>1. PICK r, c, n : r = drawing[f] /\ c = q.changes[f] /\ n = Written(r, c) OBVIOUS
      <3>2. drawing'[f] = n BY <1>6, <2>2, <2>3, <3>1
      <3>3. DrawingChanges(c) /\ f \in W BY <1>4, <1>5, <1>8, <2>3, <3>1
      <3>4. n \in Finding BY <2>1, <3>1, <3>3, WrittenDrawing
      <3>5. ASSUME f \notin raced, f \notin q.stale PROVE Seen(n)
        <4>1. PICK v \in Verdicts : n = Verified(r, v) BY <1>4, <1>8, <2>3, <3>1, <3>5
        <4> QED BY <2>1, <3>1, <3>5, <4>1, VerifiedFinding
      <3> QED BY <3>2, <3>3, <3>4, <3>5
    <2>4. CASE f \notin changed
      <3>1. drawing'[f] = drawing[f] BY <1>6, <2>2, <2>4
      <3> QED BY <2>1, <3>1
    <2> QED BY <2>3, <2>4
  <1>14. DrawingsKept(observation, observation', drawing, drawing', W)
    <2>1. \A f \in I : Observed(f) \in W BY <1>5, <1>12
    <2> QED BY <1>2, <1>6, <1>11, <1>13, <2>1 DEF DrawingsKept, TableKept
  <1>15. /\ SessionInv' /\ raced' = raced \cup (W \cap q.stale)
         /\ \A v \in Workers : DrawingKnows(observation, drawing, req[v])'
         BY <1>1, <1>6, <1>14, CommitDrawing
  <1>16. DrawingsTypeOK'
    <2>1. \A f \in D \cup I : Observed(f) \in observation /\ drawing'[f] \in Finding
          BY <1>2, <1>8, <1>12, <1>13 DEF DrawInv, DrawingsTypeOK
    <2> QED BY <1>6, <1>11, <2>1 DEF DrawInv, DrawingsTypeOK
  <1>17. ComparedOnce'
    <2>1. \A x, y \in observation' :
              x # y /\ Stored(x[1]) = Stored(y[1])
                  => ~Exact(x[1]) \/ ~Exact(y[1]) \/ <<x[1]>> \in raced'
          BY <1>6, <1>15 DEF DrawInv, ComparedOnce
    <2>2. ASSUME NEW f \in DOMAIN drawing', NEW g \in DOMAIN drawing', f # g,
                 Observed(f) = Observed(g)
          PROVE  Observed(f) \in raced'
      <3>1. CASE f \in D /\ g \in D
            BY <1>2, <1>15, <2>2, <3>1 DEF DrawInv, ComparedOnce
      <3>2. CASE f \in I /\ g \in I BY <1>12, <2>2, <3>2
      <3>3. ASSUME NEW o \in D, NEW i \in I, Observed(o) = Observed(i) PROVE Observed(o) \in raced'
        <4>1. Observed(o) \in DOMAIN q.new BY <1>12, <3>3
        <4>2. Observed(o) \in q.stale BY <1>8, <4>1
        <4>3. Observed(o) \in W BY <1>5, <4>1
        <4> QED BY <1>15, <4>2, <4>3
      <3> QED BY <1>11, <2>2, <3>1, <3>2, <3>3
    <2> QED BY <2>1, <2>2 DEF ComparedOnce
  <1>18. \A f \in DOMAIN drawing' \ raced' : Seen(drawing'[f])
         BY <1>11, <1>12, <1>13, <1>15
  <1>19. CopiesCounted(observation') /\ \A x \in observation' : x = <<x[1], x[2]>>
         BY <1>6 DEF DrawInv
  <1> QED BY <1>11, <1>15, <1>16, <1>17, <1>18, <1>19 DEF DrawInv

LEMMA CommitJudgeDrawingKeeps ==
    ASSUME DrawInv, NEW w \in Workers, CommitJudgeDrawing(w)
    PROVE  DrawInv'
  <1>1. PICK q : q = req[w] OBVIOUS
  <1>2. /\ q.op = "judge drawing" /\ Commit(w, {q.row}, {q.row}, Idle)
        /\ boq' = boq /\ observation' = observation
        /\ drawing' = [drawing EXCEPT ![q.row] = Written(@, q.changes)]
        BY <1>1 DEF CommitJudgeDrawing
  <1>3. /\ q.row \in DOMAIN drawing /\ DrawingChanges(q.changes)
        /\ q.row \notin q.stale => \E d \in DrawingDispositions :
              Written(drawing[q.row], q.changes) = JudgedDrawing(drawing[q.row], d)
        BY <1>1, <1>2 DEF DrawInv, DrawingKnows, JudgeDrawingKnows
  <1>4. PICK r, n : r = drawing[q.row] /\ n = Written(r, q.changes) OBVIOUS
  <1>5. r \in Finding /\ n \in Finding
        BY <1>3, <1>4, WrittenDrawing DEF DrawInv, DrawingsTypeOK
  <1>6. /\ DOMAIN drawing' = DOMAIN drawing /\ drawing'[q.row] = n
        /\ \A f \in DOMAIN drawing \ {q.row} : drawing'[f] = drawing[f]
        BY <1>2, <1>3, <1>4
  <1>7. DrawingsKept(observation, observation', drawing, drawing', {q.row})
        BY <1>2, <1>6 DEF DrawingsKept, TableKept
  <1>8. /\ SessionInv' /\ raced' = raced \cup ({q.row} \cap q.stale)
        /\ \A v \in Workers : DrawingKnows(observation, drawing, req[v])'
        BY <1>1, <1>2, <1>7, CommitDrawing
  <1>9. DrawingsTypeOK' /\ ComparedOnce'
        BY <1>2, <1>5, <1>6, <1>8 DEF DrawInv, DrawingsTypeOK, ComparedOnce
  <1>10. ASSUME q.row \notin raced' PROVE Seen(n)
    <2>1. q.row \notin q.stale BY <1>8, <1>10
    <2>2. PICK d \in DrawingDispositions : n = JudgedDrawing(r, d) BY <1>3, <1>4, <2>1
    <2> QED BY <1>5, <2>2, JudgedFinding
  <1>11. \A f \in DOMAIN drawing' \ raced' : Seen(drawing'[f])
         BY <1>6, <1>8, <1>10 DEF DrawInv
  <1>12. /\ CopiesCounted(observation') /\ FindingsCounted(DOMAIN drawing')
         /\ \A x \in observation' : x = <<x[1], x[2]>>
         BY <1>2, <1>6 DEF DrawInv
  <1> QED BY <1>8, <1>9, <1>11, <1>12 DEF DrawInv

LEMMA ReplaceBoqKeeps ==
    ASSUME DrawInv, ReplaceBoq
    PROVE  DrawInv'
  <1>1. boq' \in Boqs /\ UNCHANGED <<observation, drawing, req, raced>>
        BY DEF ReplaceBoq, session
  <1>2. DrawingsTypeOK' /\ ComparedOnce' /\ SessionInv'
        BY <1>1 DEF DrawInv, DrawingsTypeOK, ComparedOnce, SessionInv
  <1>3. /\ CopiesCounted(observation') /\ FindingsCounted(DOMAIN drawing')
        /\ \A x \in observation' : x = <<x[1], x[2]>>
        /\ \A w \in Workers : DrawingKnows(observation', drawing', req'[w])
        /\ \A f \in DOMAIN drawing' \ raced' : Seen(drawing'[f])
        BY <1>1 DEF DrawInv
  <1> QED BY <1>2, <1>3 DEF DrawInv

LEMMA DieKeepsDrawings ==
    ASSUME DrawInv, NEW w \in Workers, Die(w), UNCHANGED drawingTables
    PROVE  DrawInv'
  <1>1. /\ SessionInv' /\ raced' = raced /\ UNCHANGED <<boq, observation, drawing>>
        /\ \A v \in Workers : req'[v] = IF v = w THEN Idle ELSE req[v]
        BY DieOthers DEF DrawInv, drawingTables
  <1>2. ASSUME NEW v \in Workers PROVE DrawingKnows(observation', drawing', req'[v])
    <2>1. DrawingKnows(observation, drawing, req[v]) BY DEF DrawInv
    <2> QED BY <1>1, <2>1, IdleKnowsDrawing
  <1>3. DrawingsTypeOK' /\ ComparedOnce' BY <1>1 DEF DrawInv, DrawingsTypeOK, ComparedOnce
  <1>4. /\ CopiesCounted(observation') /\ FindingsCounted(DOMAIN drawing')
        /\ \A x \in observation' : x = <<x[1], x[2]>>
        /\ \A f \in DOMAIN drawing' \ raced' : Seen(drawing'[f])
        BY <1>1 DEF DrawInv
  <1> QED BY <1>1, <1>2, <1>3, <1>4 DEF DrawInv

-----------------------------------------------------------------------------
(* Drawing findings: the theorems                                           *)

LEMMA DrawingsInitHolds == DrawingsInit /\ SessionInit => DrawInv
  <1> SUFFICES ASSUME DrawingsInit, SessionInit PROVE DrawInv OBVIOUS
  <1>1. DOMAIN req = Workers /\ \A w \in Workers : req[w] = Idle BY DEF SessionInit
  <1>2. boq \in Boqs /\ observation = {} /\ DOMAIN drawing = {} BY DEF DrawingsInit
  <1>3. CopiesCounted(observation) /\ FindingsCounted(DOMAIN drawing)
        BY <1>2, FS_EmptySet DEF CopiesCounted, FindingsCounted
  <1>4. \A w \in Workers : DrawingKnows(observation, drawing, req[w])
        BY <1>1, IdleKnowsDrawing
  <1> QED BY <1>1, <1>2, <1>3, <1>4 DEF DrawInv, SessionInv, DrawingsTypeOK, ComparedOnce

LEMMA DrawingsNextHolds == DrawInv /\ [DrawingsNext]_drawingVars => DrawInv'
  <1> SUFFICES ASSUME DrawInv, [DrawingsNext]_drawingVars PROVE DrawInv' OBVIOUS
  <1>1. CASE ReplaceBoq BY <1>1, ReplaceBoqKeeps
  <1>2. ASSUME NEW w \in Workers, NEW batch \in SUBSET Observable, IsFiniteSet(batch),
               BeginRecord(w, batch)
        PROVE  DrawInv'
        BY <1>2, BeginRecordKeeps
  <1>3. ASSUME NEW w \in Workers, CommitRecord(w) \/ CommitVerify(w) \/ CommitJudgeDrawing(w)
        PROVE  DrawInv'
        BY <1>3, CommitRecordKeeps, CommitVerifyKeeps, CommitJudgeDrawingKeeps
  <1>4. ASSUME NEW w \in Workers, NEW chosen \in SUBSET Loaded, NEW verdict \in Comparisons,
               BeginVerify(w, chosen, verdict)
        PROVE  DrawInv'
        BY <1>4, BeginVerifyKeeps
  <1>5. ASSUME NEW w \in Workers, NEW f \in DOMAIN drawing, NEW d \in DrawingDispositions,
               BeginJudgeDrawing(w, f, d)
        PROVE  DrawInv'
        BY <1>5, BeginJudgeDrawingKeeps
  <1>6. ASSUME NEW w \in Workers, Die(w), UNCHANGED drawingTables
        PROVE  DrawInv'
        BY <1>6, DieKeepsDrawings
  <1>7. CASE UNCHANGED drawingVars
    <2>1. UNCHANGED <<boq, observation, drawing, req, raced>>
          BY <1>7 DEF drawingVars, drawingTables, session
    <2>2. DrawingsTypeOK' /\ ComparedOnce' /\ SessionInv'
          BY <2>1 DEF DrawInv, DrawingsTypeOK, ComparedOnce, SessionInv
    <2>3. /\ CopiesCounted(observation') /\ FindingsCounted(DOMAIN drawing')
          /\ \A x \in observation' : x = <<x[1], x[2]>>
          /\ \A w \in Workers : DrawingKnows(observation', drawing', req'[w])
          /\ \A f \in DOMAIN drawing' \ raced' : Seen(drawing'[f])
          BY <2>1 DEF DrawInv
    <2> QED BY <2>2, <2>3 DEF DrawInv
  <1> QED BY <1>1, <1>2, <1>3, <1>4, <1>5, <1>6, <1>7 DEF DrawingsNext

\* However recordings, verifications and reviews overlap, each knows what the tables
\* say of its rows, unless the rows changed since it loaded them.
THEOREM DrawingsInvHolds == DrawingsSpec => []DrawInv
  <1>1. DrawingsInit /\ SessionInit => DrawInv BY DrawingsInitHolds
  <1>2. DrawInv /\ [DrawingsNext]_drawingVars => DrawInv' BY DrawingsNextHolds
  <1> QED BY <1>1, <1>2, PTL DEF DrawingsSpec

\* An observation is recorded twice, or has two findings, only after requests that
\* overlapped.
THEOREM ComparedOnceOnly == DrawingsSpec => []ComparedOnce
  <1>1. DrawInv => ComparedOnce BY DEF DrawInv
  <1> QED BY <1>1, DrawingsInvHolds, PTL

\* Whatever bills replace one another, a difference is Open until a reviewer closes it,
\* and informational is only a match nobody decided about.
THEOREM NoDifferencePassesUnseen == DrawingsSpec => []DifferencesAreSeen
  <1>1. DrawInv => DifferencesAreSeen BY DEF DrawInv, Seen, DifferencesAreSeen
  <1> QED BY <1>1, DrawingsInvHolds, PTL
=============================================================================
