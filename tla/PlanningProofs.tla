---------------------------- MODULE PlanningProofs ----------------------------
(***************************************************************************)
(* Proofs about the three desks that say what is left to plan and to do,   *)
(* for any schedules, plans, requirements, registers and dates:            *)
(*   ScheduleDesk: what is found at an activity is advised on, and what a  *)
(*     source leaves out is no defect.  What the analysis decides is a     *)
(*     function of the file, so the invariant is that the file is one.     *)
(*   PlanningReadiness: a Ready planning left nothing open.  The invariant *)
(*     is that the findings say what the last refresh detected.            *)
(*   DepartmentWorkflow: no view of the open work loses a row.  The        *)
(*     invariant is that every row is one its register can hold: no        *)
(*     assignment takes a row out of the statuses of its kind, gives a     *)
(*     finding another function, or loses the row another refers to.       *)
(***************************************************************************)
EXTENDS ScheduleDesk, PlanningReadiness, DepartmentWorkflow, FiniteSetTheorems, TLAPS

-----------------------------------------------------------------------------
(* The larger and the smaller of two numbers                                *)

LEMMA MinOfTwo ==
    ASSUME NEW x \in Int, NEW y \in Int
    PROVE  Min({x, y}) = IF x <= y THEN x ELSE y
  <1> DEFINE m == IF x <= y THEN x ELSE y
  <1>1. m \in {x, y} /\ \A z \in {x, y} : m <= z OBVIOUS
  <1>2. \A n \in {x, y} : (\A z \in {x, y} : n <= z) => n = m OBVIOUS
  <1> QED BY <1>1, <1>2 DEF Min

LEMMA MaxOfTwo ==
    ASSUME NEW x \in Int, NEW y \in Int
    PROVE  Max({x, y}) = IF x >= y THEN x ELSE y
  <1> DEFINE m == IF x >= y THEN x ELSE y
  <1>1. m \in {x, y} /\ \A z \in {x, y} : m >= z OBVIOUS
  <1>2. \A n \in {x, y} : (\A z \in {x, y} : n >= z) => n = m OBVIOUS
  <1> QED BY <1>1, <1>2 DEF Max

-----------------------------------------------------------------------------
(* ScheduleDesk: the file                                                   *)

FileOK(f) ==
    /\ DOMAIN f = {"kind", "rows", "links", "loaded", "calendars", "planned"}
    /\ f.kind \in Kinds
    /\ IsFiniteSet(DOMAIN f.rows) /\ \A a \in DOMAIN f.rows : f.rows[a] \in SourceRow
    /\ IsFiniteSet(f.links)

FileInv == FileOK(file)

LEMMA FileBegins == ScheduleInit => FileInv
  BY FS_EmptySet DEF ScheduleInit, FileInv, FileOK

LEMMA FileStepKeeps == FileInv /\ [ScheduleNext]_file => FileInv'
  <1> SUFFICES ASSUME FileInv, [ScheduleNext]_file PROVE FileInv'
      OBVIOUS
  <1>1. PICK f, g : f = file /\ g = file' OBVIOUS
  <1>2. FileOK(f) BY <1>1 DEF FileInv
  <1>3. ASSUME NEW a \in DOMAIN SourceRows, NEW new \in SourceRows[a], WriteActivity(a, new)
        PROVE  FileOK(g)
    <2>1. g = [f EXCEPT !.rows = [b \in DOMAIN f.rows \cup {a} |->
                                     IF b = a THEN new ELSE f.rows[b]]]
          BY <1>1, <1>3 DEF WriteActivity
    <2>2. IsFiniteSet(DOMAIN f.rows \cup {a}) BY <1>2, FS_AddElement DEF FileOK
    <2>3. new \in SourceRow BY <1>3, SourceAssumption
    <2> QED BY <1>2, <2>1, <2>2, <2>3 DEF FileOK
  <1>4. ASSUME NEW l \in SourceLinks, WriteLink(l) PROVE FileOK(g)
    <2>1. g = [f EXCEPT !.links = f.links \cup {l}] BY <1>1, <1>4 DEF WriteLink
    <2>2. IsFiniteSet(f.links \cup {l}) BY <1>2, FS_AddElement DEF FileOK
    <2> QED BY <1>2, <2>1, <2>2 DEF FileOK
  <1>5. ASSUME NEW a \in DOMAIN SourceRows, WriteResource(a) PROVE FileOK(g)
    <2>1. g = [f EXCEPT !.loaded = f.loaded \cup {a}] BY <1>1, <1>5 DEF WriteResource
    <2> QED BY <1>2, <2>1 DEF FileOK
  <1> QED BY <1>1, <1>2, <1>3, <1>4, <1>5 DEF ScheduleNext, FileInv

\* FileInv holds in every state of every behaviour.
THEOREM FileInvHolds == ScheduleSpec => []FileInv
  BY FileBegins, FileStepKeeps, PTL DEF ScheduleSpec

-----------------------------------------------------------------------------
(* What the advisor weighs                                                  *)

\* Tables whose numbers are numbers.
TablesOK(t) ==
    /\ IsFiniteSet(DOMAIN t.task) /\ IsFiniteSet(t.links)
    /\ \A a \in DOMAIN t.task :
          /\ t.task[a].float \in Int \cup {None, NaN, Infinity, MinusInfinity}
          /\ t.task[a].hours \in Nat

LEMMA TaskKeeps ==
    ASSUME NEW kind, NEW r
    PROVE  /\ Task(kind, r).float = r.float
           /\ Task(kind, r).hours = (IF r.hours = None THEN 0 ELSE r.hours)
  BY DEF Task

LEMMA TablesAreNumbers ==
    ASSUME NEW f, FileOK(f)
    PROVE  TablesOK(Tables(f))
  <1>1. /\ DOMAIN Tables(f).task = DOMAIN f.rows /\ Tables(f).links = f.links
        /\ \A a \in DOMAIN f.rows : Tables(f).task[a] = Task(f.kind, f.rows[a])
        BY DEF Tables
  <1>2. ASSUME NEW a \in DOMAIN f.rows
        PROVE  /\ Tables(f).task[a].float \in Int \cup {None, NaN, Infinity, MinusInfinity}
               /\ Tables(f).task[a].hours \in Nat
    <2>1. f.rows[a] \in SourceRow BY DEF FileOK
    <2>2. /\ f.rows[a].float \in Int \cup {None, NaN, Infinity, MinusInfinity}
          /\ f.rows[a].hours \in Nat \cup {None}
          BY <2>1 DEF SourceRow
    <2>3. Tables(f).task[a] = Task(f.kind, f.rows[a]) BY <1>1
    <2> QED BY <2>2, <2>3, TaskKeeps
  <1> QED BY <1>1, <1>2 DEF TablesOK, FileOK

\* The reasons an activity is reviewed for, without their weights.
Weighed(t, a) ==
    \/ t.logic /\ ~t.task[a].milestone /\ (Preds(t, a) = {} \/ Succs(t, a) = {})
    \/ t.float /\ AtMost(TotalFloat(t, a), SensitiveHours)
    \/ Lengthy(t, a)
    \/ Lagged(t, a) # {}
    \/ t.task[a].constrained
    \/ t.loaded # {} /\ a \notin t.loaded /\ ~t.task[a].milestone
    \/ Dense(t, a)

LEMMA LagsCount ==
    ASSUME NEW t, NEW a, TablesOK(t)
    PROVE  /\ Cardinality(Lagged(t, a)) \in Nat
           /\ Cardinality(Lagged(t, a)) = 0 <=> Lagged(t, a) = {}
  <1>1. IsFiniteSet(Lagged(t, a)) BY FS_Subset DEF Lagged, Preds, TablesOK
  <1> QED BY <1>1, FS_CardinalityType, FS_EmptySet

LEMMA WeightsOf ==
    ASSUME NEW t, NEW a \in DOMAIN t.task, TablesOK(t)
    PROVE  ReviewWeights(t, a) # {} <=> Weighed(t, a)
  <1> DEFINE float == TotalFloat(t, a)
             lags == Cardinality(Lagged(t, a))
             judged == t.logic /\ ~t.task[a].milestone
  <1>1. lags \in Nat /\ (lags = 0 <=> Lagged(t, a) = {}) BY LagsCount
  <1>2. Capped(15, 5 * lags) = IF 15 <= 5 * lags THEN 15 ELSE 5 * lags
        BY <1>1, MinOfTwo DEF Capped
  <1>3. Capped(15, 5 * lags) > 0 <=> Lagged(t, a) # {} BY <1>1, <1>2
  <1>4. Below(float, 0) => AtMost(float, SensitiveHours)
        BY DEF Below, AtMost, SensitiveHours
  <1>5. (IF ~t.float THEN 0 ELSE IF Below(float, 0) THEN 28
         ELSE IF AtMost(float, SensitiveHours) THEN 18 ELSE 0) > 0
            <=> (t.float /\ AtMost(float, SensitiveHours))
        BY <1>4
  <1>6. PICK n1, n2, n3, n4, n5, n6, n7, n8 :
            /\ n1 = (IF judged /\ Preds(t, a) = {} THEN 22 ELSE 0)
            /\ n2 = (IF judged /\ Succs(t, a) = {} THEN 22 ELSE 0)
            /\ n3 = (IF ~t.float THEN 0 ELSE IF Below(float, 0) THEN 28
                     ELSE IF AtMost(float, SensitiveHours) THEN 18 ELSE 0)
            /\ n4 = (IF Lengthy(t, a) THEN 16 ELSE 0)
            /\ n5 = Capped(15, 5 * lags)
            /\ n6 = (IF t.task[a].constrained THEN 14 ELSE 0)
            /\ n7 = (IF t.loaded # {} /\ a \notin t.loaded /\ ~t.task[a].milestone
                     THEN 10 ELSE 0)
            /\ n8 = (IF Dense(t, a) THEN 8 ELSE 0)
        OBVIOUS
  <1>7. ReviewWeights(t, a) =
            {x \in {<<"open start", n1>>, <<"open finish", n2>>, <<"float", n3>>,
                    <<"long", n4>>, <<"lag", n5>>, <<"constraint", n6>>,
                    <<"unloaded", n7>>, <<"density", n8>>} : x[2] > 0}
        BY <1>6 DEF ReviewWeights
  <1> HIDE DEF float, lags, judged
  <1>8. ReviewWeights(t, a) # {} =>
            n1 > 0 \/ n2 > 0 \/ n3 > 0 \/ n4 > 0 \/ n5 > 0 \/ n6 > 0 \/ n7 > 0 \/ n8 > 0
    <2> SUFFICES ASSUME NEW x \in ReviewWeights(t, a)
                 PROVE  n1 > 0 \/ n2 > 0 \/ n3 > 0 \/ n4 > 0 \/ n5 > 0 \/ n6 > 0 \/ n7 > 0
                            \/ n8 > 0
        OBVIOUS
    <2>0. x[2] > 0 BY <1>7
    <2>1. CASE x = <<"open start", n1>> BY <2>0, <2>1
    <2>2. CASE x = <<"open finish", n2>> BY <2>0, <2>2
    <2>3. CASE x = <<"float", n3>> BY <2>0, <2>3
    <2>4. CASE x = <<"long", n4>> BY <2>0, <2>4
    <2>5. CASE x = <<"lag", n5>> BY <2>0, <2>5
    <2>6. CASE x = <<"constraint", n6>> BY <2>0, <2>6
    <2>7. CASE x = <<"unloaded", n7>> BY <2>0, <2>7
    <2>8. CASE x = <<"density", n8>> BY <2>0, <2>8
    <2> QED BY <1>7, <2>1, <2>2, <2>3, <2>4, <2>5, <2>6, <2>7, <2>8
  <1>9. (n1 > 0 \/ n2 > 0 \/ n3 > 0 \/ n4 > 0 \/ n5 > 0 \/ n6 > 0 \/ n7 > 0 \/ n8 > 0) =>
             ReviewWeights(t, a) # {}
    <2>1. n1 > 0 => <<"open start", n1>> \in ReviewWeights(t, a) BY <1>7
    <2>2. n2 > 0 => <<"open finish", n2>> \in ReviewWeights(t, a) BY <1>7
    <2>3. n3 > 0 => <<"float", n3>> \in ReviewWeights(t, a) BY <1>7
    <2>4. n4 > 0 => <<"long", n4>> \in ReviewWeights(t, a) BY <1>7
    <2>5. n5 > 0 => <<"lag", n5>> \in ReviewWeights(t, a) BY <1>7
    <2>6. n6 > 0 => <<"constraint", n6>> \in ReviewWeights(t, a) BY <1>7
    <2>7. n7 > 0 => <<"unloaded", n7>> \in ReviewWeights(t, a) BY <1>7
    <2>8. n8 > 0 => <<"density", n8>> \in ReviewWeights(t, a) BY <1>7
    <2> QED BY <2>1, <2>2, <2>3, <2>4, <2>5, <2>6, <2>7, <2>8
  <1>10. n1 > 0 <=> (judged /\ Preds(t, a) = {}) BY <1>6
  <1>11. n2 > 0 <=> (judged /\ Succs(t, a) = {}) BY <1>6
  <1>12. n3 > 0 <=> (t.float /\ AtMost(float, SensitiveHours)) BY <1>5, <1>6
  <1>13. n4 > 0 <=> Lengthy(t, a) BY <1>6
  <1>14. n5 > 0 <=> Lagged(t, a) # {} BY <1>3, <1>6
  <1>15. n6 > 0 <=> t.task[a].constrained BY <1>6
  <1>16. n7 > 0 <=> (t.loaded # {} /\ a \notin t.loaded /\ ~t.task[a].milestone) BY <1>6
  <1>17. n8 > 0 <=> Dense(t, a) BY <1>6
  <1> QED BY <1>8, <1>9, <1>10, <1>11, <1>12, <1>13, <1>14, <1>15, <1>16, <1>17
      DEF Weighed, float, judged

-----------------------------------------------------------------------------
(* Adjustability                                                            *)

Slack(t, a) == t.float /\ Above(TotalFloat(t, a), SensitiveHours)
Tight(t, a) ==
    IF ~t.float THEN 0 ELSE IF AtMost(TotalFloat(t, a), 0) THEN 20
    ELSE IF AtMost(TotalFloat(t, a), SensitiveHours) THEN 10 ELSE 0
LagGain(t, a) == IF 12 <= 4 * Cardinality(Lagged(t, a)) THEN 12 ELSE 4 * Cardinality(Lagged(t, a))
Gains(t, a) ==
    (IF Slack(t, a) THEN 20 ELSE 0) + (IF Lengthy(t, a) THEN 16 ELSE 0)
    + LagGain(t, a)
    + (IF Slack(t, a) /\ a \in t.loaded THEN 10 ELSE 0) + (IF Dense(t, a) THEN 6 ELSE 0)

\* Where the advisor lists an activity for its adjustability.
LEMMA AdjustedOf ==
    ASSUME NEW t, NEW a \in DOMAIN t.task, TablesOK(t)
    PROVE  /\ Adjustability(t, a) >= 8 <=>
                /\ ~t.task[a].milestone
                /\ Gains(t, a) - Tight(t, a) - (IF t.task[a].constrained THEN 8 ELSE 0) >= 8
           /\ Gains(t, a) \in Nat /\ Tight(t, a) \in {0, 10, 20} /\ LagGain(t, a) \in Nat
  <1>1. Cardinality(Lagged(t, a)) \in Nat BY LagsCount
  <1>2. LagGain(t, a) \in Nat /\ Capped(12, 4 * Cardinality(Lagged(t, a))) = LagGain(t, a)
        BY <1>1, MinOfTwo DEF Capped, LagGain
  <1>3. Tight(t, a) \in {0, 10, 20} BY DEF Tight
  <1>4. Gains(t, a) \in Nat BY <1>2 DEF Gains
  <1>5. PICK g, h, c : /\ g = Gains(t, a) /\ h = Tight(t, a)
                       /\ c = (IF t.task[a].constrained THEN 8 ELSE 0)
        OBVIOUS
  <1>6. g \in Nat /\ h \in {0, 10, 20} /\ c \in {0, 8} BY <1>3, <1>4, <1>5
  <1>7. Adjustability(t, a) =
            IF t.task[a].milestone THEN 0 ELSE Max({0, Max({0, g - h}) - c})
    <2> DEFINE float == TotalFloat(t, a)
               slack == t.float /\ Above(float, SensitiveHours)
    <2>2. PICK gains, tight :
              /\ gains = (IF slack THEN 20 ELSE 0) + (IF Lengthy(t, a) THEN 16 ELSE 0)
                         + Capped(12, 4 * Cardinality(Lagged(t, a)))
                         + (IF slack /\ a \in t.loaded THEN 10 ELSE 0)
                         + (IF Dense(t, a) THEN 6 ELSE 0)
              /\ tight = IF ~t.float THEN 0 ELSE IF AtMost(float, 0) THEN 20
                         ELSE IF AtMost(float, SensitiveHours) THEN 10 ELSE 0
          OBVIOUS
    <2>3. gains = g BY <1>2, <1>5, <2>2 DEF Gains, Slack
    <2>4. tight = h BY <1>5, <2>2 DEF Tight
    <2>5. Adjustability(t, a) =
              IF t.task[a].milestone THEN 0 ELSE Max({0, Max({0, gains - tight}) - c})
          BY <1>5, <2>2 DEF Adjustability
    <2> QED BY <2>3, <2>4, <2>5
  <1>8. Max({0, g - h}) = (IF 0 >= g - h THEN 0 ELSE g - h) BY <1>6, MaxOfTwo
  <1>9. PICK m : m = Max({0, g - h}) OBVIOUS
  <1>10. Max({0, m - c}) = (IF 0 >= m - c THEN 0 ELSE m - c)
        BY <1>6, <1>8, <1>9, MaxOfTwo
  <1>11. Max({0, m - c}) >= 8 <=> g - h - c >= 8 BY <1>6, <1>8, <1>9, <1>10
  <1>12. Adjustability(t, a) >= 8 <=> (~t.task[a].milestone /\ g - h - c >= 8)
        BY <1>7, <1>9, <1>11
  <1> QED BY <1>2, <1>3, <1>4, <1>5, <1>12

-----------------------------------------------------------------------------
(* What the screening finds, the advisor lists                              *)

\* How the two readings of a float compare.
LEMMA ReadingsOfFloat ==
    ASSUME NEW t, NEW a \in DOMAIN t.task, TablesOK(t), Float(t, a) <= NearCriticalHours
    PROVE  \/ AtMost(TotalFloat(t, a), SensitiveHours)
           \/ t.task[a].float = NaN
           \/ t.task[a].float = Infinity /\ TotalFloat(t, a) = Infinity
  <1>1. t.task[a].float \in Int \cup {None, NaN, Infinity, MinusInfinity} BY DEF TablesOK
  <1>2. CASE t.task[a].float \in Int
    <2>1. TotalFloat(t, a) = t.task[a].float BY <1>2, CellsDiffer DEF TotalFloat
    <2>2. Float(t, a) = t.task[a].float BY <1>2 DEF Float
    <2> QED BY <1>2, <2>1, <2>2 DEF AtMost, SensitiveHours, NearCriticalHours
  <1>3. CASE t.task[a].float = None
        BY <1>3 DEF TotalFloat, AtMost, SensitiveHours
  <1>4. CASE t.task[a].float = MinusInfinity
        BY <1>4, CellsDiffer DEF TotalFloat, AtMost
  <1>5. CASE t.task[a].float = Infinity BY <1>5, CellsDiffer DEF TotalFloat
  <1> QED BY <1>1, <1>2, <1>3, <1>4, <1>5

\* A float of more than any limit makes an activity adjustable.
LEMMA InfinityIsAdjustable ==
    ASSUME NEW t, NEW a \in DOMAIN t.task, TablesOK(t), t.float,
           TotalFloat(t, a) = Infinity, ~t.task[a].milestone
    PROVE  Adjustability(t, a) >= 8
  <1>1. Slack(t, a) BY DEF Slack, Above
  <1>2. Tight(t, a) = 0 BY CellsDiffer DEF Tight, AtMost
  <1>3. LagGain(t, a) \in Nat BY AdjustedOf
  <1>4. Gains(t, a) \in Nat /\ Gains(t, a) >= 20 BY <1>1, <1>3 DEF Gains
  <1>5. Gains(t, a) - Tight(t, a) - (IF t.task[a].constrained THEN 8 ELSE 0) >= 8
        BY <1>2, <1>4
  <1> QED BY <1>5, AdjustedOf

\* The analysis of p6_xer.py and the advisor of p6_schedule_optimizer.py state their
\* conditions twice and read floats each in its way: what the first finds at an activity
\* still to do, the second lists, a float of `nan` or a milestone's of `inf` excepted.
THEOREM WhatIsFoundIsAdvised == ScheduleSpec => []IssuesAreAdvised
  <1>1. ASSUME NEW t, TablesOK(t), NEW a \in Active(t),
               \/ a \in OpenStart(t) \cup OpenFinish(t) \cup LongDuration(t) \cup Constrained(t)
               \/ Lagged(t, a) # {}
               \/ /\ \/ a \in Critical(t) \cup NearCritical(t) \cup NegativeFloat(t)
                     \/ a \in MilestonesAtRisk(t) /\ t.float
                  /\ t.task[a].float # NaN
                  /\ t.task[a].milestone => t.task[a].float # Infinity
        PROVE  a \in AdvisedOf(t)
    <2>1. a \in DOMAIN t.task /\ a \in Weighable(t)
          BY <1>1 DEF Active, Listed, Weighable
    <2>2. Weighed(t, a) => a \in AdvisedOf(t) BY <1>1, <2>1, WeightsOf DEF AdvisedOf
    <2>3. CASE a \in OpenStart(t) \cup OpenFinish(t) \cup LongDuration(t)
      <3>1. Weighed(t, a)
            BY <2>3 DEF Weighed, OpenStart, OpenFinish, Executable, LongDuration, Lengthy,
                        LongHours, LengthyHours
      <3> QED BY <2>2, <3>1
    <2>4. CASE a \in Constrained(t) \/ Lagged(t, a) # {}
      <3>1. Weighed(t, a) BY <2>4 DEF Weighed, Constrained
      <3> QED BY <2>2, <3>1
    <2>5. CASE /\ \/ a \in Critical(t) \cup NearCritical(t) \cup NegativeFloat(t)
                  \/ a \in MilestonesAtRisk(t) /\ t.float
               /\ t.task[a].float # NaN
               /\ t.task[a].milestone => t.task[a].float # Infinity
      <3>1. Float(t, a) \in Int BY DEF Float
      <3>2. t.float /\ Float(t, a) <= NearCriticalHours
            BY <2>5, <3>1 DEF Critical, NoFloatLeft, NearCritical, NegativeFloat,
                              MilestonesAtRisk, NearCriticalHours
      <3>3. \/ AtMost(TotalFloat(t, a), SensitiveHours)
            \/ t.task[a].float = Infinity /\ TotalFloat(t, a) = Infinity
            BY <1>1, <2>1, <2>5, <3>2, ReadingsOfFloat
      <3>4. CASE AtMost(TotalFloat(t, a), SensitiveHours)
        <4>1. Weighed(t, a) BY <3>2, <3>4 DEF Weighed
        <4> QED BY <2>2, <4>1
      <3>5. CASE t.task[a].float = Infinity /\ TotalFloat(t, a) = Infinity
        <4>1. Adjustability(t, a) >= 8
              BY <1>1, <2>1, <2>5, <3>2, <3>5, InfinityIsAdjustable
        <4> QED BY <2>1, <4>1 DEF AdvisedOf
      <3> QED BY <3>3, <3>4, <3>5
    <2> QED BY <1>1, <2>3, <2>4, <2>5
  <1>2. FileInv => IssuesAreAdvised
    <2> SUFFICES ASSUME FileInv PROVE IssuesAreAdvised
        OBVIOUS
    <2>1. PICK t : t = Tables(file) OBVIOUS
    <2>2. TablesOK(t) BY <2>1, TablesAreNumbers DEF FileInv
    <2> QED BY <1>1, <2>1, <2>2 DEF IssuesAreAdvised
  <1> QED BY <1>2, FileInvHolds, PTL

-----------------------------------------------------------------------------
(* The health of a schedule that states less                                *)

\* The tables p are those of t without the floats, or without the logic.
Poorer(p, t) ==
    /\ DOMAIN p.task = DOMAIN t.task /\ p.loaded = t.loaded
    /\ \A a \in DOMAIN t.task :
          \A c \in {"milestone", "status", "hours", "started", "finished", "constrained"} :
              p.task[a][c] = t.task[a][c]
    /\ \/ /\ p.links = t.links /\ p.logic = t.logic /\ p.float = FALSE
       \/ /\ p.links = {} /\ p.logic = FALSE /\ p.float = t.float
          /\ \A a \in DOMAIN t.task : p.task[a].float = t.task[a].float

LEMMA PoorerSets ==
    ASSUME NEW p, NEW t, Poorer(p, t)
    PROVE  /\ Listed(p) = Listed(t) /\ Active(p) = Active(t) /\ Executable(p) = Executable(t)
           /\ Weighable(p) = Weighable(t)
           /\ LongDuration(p) = LongDuration(t) /\ Constrained(p) = Constrained(t)
           /\ StatusDateIssues(p) = StatusDateIssues(t)
           /\ OpenStart(p) \subseteq OpenStart(t) /\ OpenFinish(p) \subseteq OpenFinish(t)
           /\ NegativeFloat(p) \subseteq NegativeFloat(t)
           /\ Dangling(p) = {} \/ Dangling(p) = Dangling(t)
  <1>1. /\ DOMAIN p.task = DOMAIN t.task
        /\ \A a \in DOMAIN t.task :
              /\ p.task[a].milestone = t.task[a].milestone
              /\ p.task[a].status = t.task[a].status
              /\ p.task[a].hours = t.task[a].hours
              /\ p.task[a].started = t.task[a].started
              /\ p.task[a].finished = t.task[a].finished
              /\ p.task[a].constrained = t.task[a].constrained
        BY DEF Poorer
  <1>2. /\ Listed(p) = Listed(t) /\ Active(p) = Active(t) /\ Executable(p) = Executable(t)
        /\ Weighable(p) = Weighable(t)
        BY <1>1 DEF Listed, Active, Executable, Weighable
  <1>3. LongDuration(p) = LongDuration(t) /\ Constrained(p) = Constrained(t)
        BY <1>1, <1>2 DEF Listed, LongDuration, Constrained
  <1>4. StatusDateIssues(p) = StatusDateIssues(t)
        BY <1>1, <1>2 DEF Listed, StatusDateIssues
  <1>5. OpenStart(p) \subseteq OpenStart(t) /\ OpenFinish(p) \subseteq OpenFinish(t)
        BY <1>2 DEF OpenStart, OpenFinish, Preds, Succs, Poorer
  <1>6. NegativeFloat(p) \subseteq NegativeFloat(t)
        BY <1>2 DEF NegativeFloat, Listed, Poorer, Float
  <1>7. Dangling(p) = {} \/ Dangling(p) = Dangling(t) BY <1>2 DEF Dangling, Poorer
  <1> QED BY <1>2, <1>3, <1>4, <1>5, <1>6, <1>7

LEMMA PoorerWeighs ==
    ASSUME NEW p, NEW t, Poorer(p, t), NEW a \in DOMAIN t.task
    PROVE  /\ Lagged(p, a) = {} \/ Lagged(p, a) = Lagged(t, a)
           /\ Dense(p, a) => Dense(t, a)
           /\ Slack(p, a) => Slack(t, a)
           /\ Lengthy(p, a) <=> Lengthy(t, a)
           /\ Weighed(p, a) => Weighed(t, a)
  <1>1. \/ Preds(p, a) = {} /\ Succs(p, a) = {}
        \/ Preds(p, a) = Preds(t, a) /\ Succs(p, a) = Succs(t, a)
        BY DEF Poorer, Preds, Succs
  <1>2. Lagged(p, a) = {} \/ Lagged(p, a) = Lagged(t, a) BY <1>1 DEF Lagged
  <1>3. Dense(p, a) => Dense(t, a) BY <1>1, FS_EmptySet DEF Dense
  <1>4. \/ p.float = FALSE
        \/ p.float = t.float /\ TotalFloat(p, a) = TotalFloat(t, a)
        BY DEF Poorer, TotalFloat
  <1>5. Slack(p, a) => Slack(t, a) BY <1>4 DEF Slack
  <1>6. p.float /\ AtMost(TotalFloat(p, a), SensitiveHours) =>
            t.float /\ AtMost(TotalFloat(t, a), SensitiveHours)
        BY <1>4
  <1>7. /\ p.task[a].milestone = t.task[a].milestone /\ p.loaded = t.loaded
        /\ p.task[a].constrained = t.task[a].constrained /\ p.task[a].hours = t.task[a].hours
        BY DEF Poorer
  <1>8. Lengthy(p, a) <=> Lengthy(t, a) BY <1>7 DEF Lengthy
  <1>9. p.logic => t.logic /\ Preds(p, a) = Preds(t, a) /\ Succs(p, a) = Succs(t, a)
        BY DEF Poorer, Preds, Succs
  <1>10. Weighed(p, a) => Weighed(t, a)
         BY <1>2, <1>3, <1>6, <1>7, <1>8, <1>9 DEF Weighed
  <1> QED BY <1>2, <1>3, <1>5, <1>8, <1>10

LEMMA PoorerAdvised ==
    ASSUME NEW p, NEW t, Poorer(p, t), TablesOK(p), TablesOK(t)
    PROVE  AdvisedOf(p) \subseteq AdvisedOf(t)
  <1> SUFFICES ASSUME NEW a \in AdvisedOf(p) PROVE a \in AdvisedOf(t)
      OBVIOUS
  <1>1. a \in Weighable(t) /\ a \in DOMAIN t.task /\ a \in DOMAIN p.task
        BY PoorerSets DEF AdvisedOf, Weighable, Listed
  <1>2. CASE Weighed(t, a) BY <1>1, <1>2, WeightsOf DEF AdvisedOf
  <1>3. CASE ~Weighed(t, a)
    <2>1. Adjustability(p, a) >= 8
          BY <1>1, <1>3, WeightsOf, PoorerWeighs DEF AdvisedOf
    <2>2. /\ ~p.task[a].milestone
          /\ Gains(p, a) - Tight(p, a) - (IF p.task[a].constrained THEN 8 ELSE 0) >= 8
          /\ Tight(p, a) \in {0, 10, 20} /\ Gains(p, a) \in Nat /\ LagGain(p, a) \in Nat
          BY <1>1, <2>1, AdjustedOf
    <2>3. Gains(t, a) \in Nat /\ LagGain(t, a) \in Nat BY <1>1, AdjustedOf
    <2>4. AtMost(TotalFloat(t, a), 0) => AtMost(TotalFloat(t, a), SensitiveHours)
          BY DEF AtMost, SensitiveHours
    <2>5. Tight(t, a) = 0 BY <1>3, <2>4 DEF Weighed, Tight
    <2>6. LagGain(p, a) <= LagGain(t, a)
      <3>1. CASE Lagged(p, a) = {}
        <4>1. LagGain(p, a) = 0 BY <3>1, FS_EmptySet DEF LagGain
        <4> QED BY <2>3, <4>1
      <3>2. CASE Lagged(p, a) = Lagged(t, a) BY <2>3, <3>2 DEF LagGain
      <3> QED BY <1>1, <3>1, <3>2, PoorerWeighs
    <2>7. /\ (IF Slack(p, a) THEN 20 ELSE 0) <= (IF Slack(t, a) THEN 20 ELSE 0)
          /\ (IF Lengthy(p, a) THEN 16 ELSE 0) <= (IF Lengthy(t, a) THEN 16 ELSE 0)
          /\ (IF Slack(p, a) /\ a \in p.loaded THEN 10 ELSE 0)
                <= (IF Slack(t, a) /\ a \in t.loaded THEN 10 ELSE 0)
          /\ (IF Dense(p, a) THEN 6 ELSE 0) <= (IF Dense(t, a) THEN 6 ELSE 0)
      <3>1. /\ Slack(p, a) => Slack(t, a)
            /\ Dense(p, a) => Dense(t, a)
            BY <1>1, PoorerWeighs
      <3>2. Lengthy(p, a) <=> Lengthy(t, a) BY <1>1, PoorerWeighs
      <3>3. p.loaded = t.loaded BY DEF Poorer
      <3> QED BY <3>1, <3>2, <3>3
    <2>8. Gains(p, a) <= Gains(t, a) BY <2>2, <2>3, <2>6, <2>7 DEF Gains
    <2>9. /\ p.task[a].milestone = t.task[a].milestone
          /\ p.task[a].constrained = t.task[a].constrained
          BY <1>1 DEF Poorer
    <2>10. Gains(t, a) - Tight(t, a) - (IF t.task[a].constrained THEN 8 ELSE 0) >= 8
           BY <2>2, <2>3, <2>5, <2>8, <2>9
    <2>11. Adjustability(t, a) >= 8 BY <1>1, <2>2, <2>9, <2>10, AdjustedOf
    <2> QED BY <1>1, <2>11 DEF AdvisedOf
  <1> QED BY <1>2, <1>3

LEMMA CappedGrows ==
    ASSUME NEW limit \in Nat, NEW x \in Nat, NEW y \in Nat, x <= y
    PROVE  Capped(limit, x) \in Nat /\ Capped(limit, y) \in Nat
           /\ Capped(limit, x) <= Capped(limit, y)
  BY MinOfTwo DEF Capped

LEMMA PoorerScores ==
    ASSUME NEW p, NEW t, Poorer(p, t), TablesOK(p), TablesOK(t)
    PROVE  HealthScore(p) >= HealthScore(t)
  <1>1. /\ IsFiniteSet(Listed(t)) /\ IsFiniteSet(OpenStart(t)) /\ IsFiniteSet(OpenFinish(t))
        /\ IsFiniteSet(NegativeFloat(t)) /\ IsFiniteSet(StatusDateIssues(t))
        /\ IsFiniteSet(Constrained(t)) /\ IsFiniteSet(Dangling(t))
    <2>1. IsFiniteSet(Listed(t)) BY DEF TablesOK, Listed
    <2>2. /\ OpenStart(t) \subseteq Listed(t) /\ OpenFinish(t) \subseteq Listed(t)
          /\ NegativeFloat(t) \subseteq Listed(t) /\ StatusDateIssues(t) \subseteq Listed(t)
          /\ Constrained(t) \subseteq Listed(t) /\ Dangling(t) \subseteq t.links
          BY DEF OpenStart, OpenFinish, Executable, Active, NegativeFloat, StatusDateIssues,
                 Constrained, Dangling
    <2> QED BY <2>1, <2>2, FS_Subset DEF TablesOK
  <1>2. PICK n : n = Max({1, Cardinality(Listed(t))}) OBVIOUS
  <1>3. n \in Nat /\ n = Max({1, Cardinality(Listed(p))})
        BY <1>1, <1>2, FS_CardinalityType, MaxOfTwo, PoorerSets
  <1>4. PICK s, f, g, d, i, c :
            /\ s = Cardinality(OpenStart(t)) /\ f = Cardinality(OpenFinish(t))
            /\ g = Cardinality(NegativeFloat(t)) /\ d = Cardinality(Dangling(t))
            /\ i = Cardinality(StatusDateIssues(t)) /\ c = Cardinality(Constrained(t))
        OBVIOUS
  <1>5. PICK s2, f2, g2, d2 :
            /\ s2 = Cardinality(OpenStart(p)) /\ f2 = Cardinality(OpenFinish(p))
            /\ g2 = Cardinality(NegativeFloat(p)) /\ d2 = Cardinality(Dangling(p))
        OBVIOUS
  <1>6. /\ s \in Nat /\ f \in Nat /\ g \in Nat /\ d \in Nat /\ i \in Nat /\ c \in Nat
        /\ s2 \in Nat /\ f2 \in Nat /\ g2 \in Nat
        /\ s2 <= s /\ f2 <= f /\ g2 <= g /\ d2 \in {0, d}
    <2>1. /\ s \in Nat /\ f \in Nat /\ g \in Nat /\ d \in Nat /\ i \in Nat /\ c \in Nat
          BY <1>1, <1>4, FS_CardinalityType
    <2>2. s2 \in Nat /\ s2 <= s
          BY <1>1, <1>4, <1>5, PoorerSets, FS_Subset, FS_CardinalityType
    <2>3. f2 \in Nat /\ f2 <= f
          BY <1>1, <1>4, <1>5, PoorerSets, FS_Subset, FS_CardinalityType
    <2>4. g2 \in Nat /\ g2 <= g
          BY <1>1, <1>4, <1>5, PoorerSets, FS_Subset, FS_CardinalityType
    <2>5. d2 \in {0, d} BY <1>4, <1>5, PoorerSets, FS_EmptySet
    <2> QED BY <2>1, <2>2, <2>3, <2>4, <2>5
  <1>7. PICK k1, k2, k3, k4, k5, k6 :
            /\ k1 = Capped(25 * n, 50 * s) /\ k2 = Capped(25 * n, 50 * f)
            /\ k3 = Capped(20 * n, 40 * g) /\ k4 = Capped(10 * n, 2 * n * d)
            /\ k5 = Capped(10 * n, 30 * i) /\ k6 = Capped(10 * n, 15 * c)
        OBVIOUS
  <1>8. PICK m1, m2, m3, m4 :
            /\ m1 = Capped(25 * n, 50 * s2) /\ m2 = Capped(25 * n, 50 * f2)
            /\ m3 = Capped(20 * n, 40 * g2) /\ m4 = Capped(10 * n, 2 * n * d2)
        OBVIOUS
  <1>9. m1 \in Nat /\ k1 \in Nat /\ m1 <= k1
    <2>1. 50 * s2 \in Nat /\ 50 * s \in Nat /\ 50 * s2 <= 50 * s /\ 25 * n \in Nat
          BY <1>3, <1>6
    <2> QED BY <1>7, <1>8, <2>1, CappedGrows
  <1>10. m2 \in Nat /\ k2 \in Nat /\ m2 <= k2
    <2>1. 50 * f2 \in Nat /\ 50 * f \in Nat /\ 50 * f2 <= 50 * f /\ 25 * n \in Nat
          BY <1>3, <1>6
    <2> QED BY <1>7, <1>8, <2>1, CappedGrows
  <1>11. m3 \in Nat /\ k3 \in Nat /\ m3 <= k3
    <2>1. 40 * g2 \in Nat /\ 40 * g \in Nat /\ 40 * g2 <= 40 * g /\ 20 * n \in Nat
          BY <1>3, <1>6
    <2> QED BY <1>7, <1>8, <2>1, CappedGrows
  <1>12. m4 \in Nat /\ k4 \in Nat /\ m4 <= k4
    <2>1. 2 * n * d \in Nat /\ 2 * n * 0 = 0 /\ 10 * n \in Nat BY <1>3, <1>6
    <2>2. 2 * n * d2 \in Nat /\ 2 * n * d2 <= 2 * n * d BY <1>6, <2>1
    <2> QED BY <1>7, <1>8, <2>1, <2>2, CappedGrows
  <1>13. k5 \in Nat /\ k6 \in Nat
    <2>1. 30 * i \in Nat /\ 15 * c \in Nat /\ 10 * n \in Nat BY <1>3, <1>6
    <2> QED BY <1>7, <2>1, CappedGrows
  <1>14. HealthScore(t) = Max({0, 100 * n - (k1 + k2 + k3 + k4 + k5 + k6)})
         BY <1>2, <1>4, <1>7 DEF HealthScore
  <1>15. HealthScore(p) = Max({0, 100 * n - (m1 + m2 + m3 + m4 + k5 + k6)})
    <2>1. Constrained(p) = Constrained(t) /\ StatusDateIssues(p) = StatusDateIssues(t)
          BY PoorerSets
    <2> QED BY <1>3, <1>4, <1>5, <1>7, <1>8, <2>1 DEF HealthScore
  <1>16. PICK x, y : /\ x = 100 * n - (k1 + k2 + k3 + k4 + k5 + k6)
                     /\ y = 100 * n - (m1 + m2 + m3 + m4 + k5 + k6)
         OBVIOUS
  <1>17. x \in Int /\ y \in Int /\ x <= y BY <1>3, <1>9, <1>10, <1>11, <1>12, <1>13, <1>16
  <1> QED BY <1>14, <1>15, <1>16, <1>17, MaxOfTwo

LEMMA PoorerScreened ==
    ASSUME NEW p, NEW t, Poorer(p, t)
    PROVE  \A k \in DOMAIN Screened(t) : Screened(p)[k] \subseteq Screened(t)[k]
  <1>1. /\ NoFloatLeft(p) \subseteq NoFloatLeft(t)
        /\ NearCritical(p) \subseteq NearCritical(t)
    <2>1. Listed(p) = Listed(t) /\ Active(p) = Active(t) /\ Active(t) \subseteq DOMAIN t.task
          BY PoorerSets DEF Active, Listed
    <2>2. CASE p.float = FALSE BY <2>2 DEF NoFloatLeft, NearCritical
    <2>3. CASE /\ p.float = t.float
               /\ \A a \in DOMAIN t.task : p.task[a].float = t.task[a].float
      <3>1. \A a \in DOMAIN t.task : Float(p, a) = Float(t, a) BY <2>3 DEF Float
      <3> QED BY <2>1, <2>3, <3>1 DEF NoFloatLeft, NearCritical, Listed
    <2> QED BY <2>2, <2>3 DEF Poorer
  <1>2. Critical(p) \subseteq Critical(t) BY <1>1, PoorerSets DEF Critical
  <1>3. {l \in p.links : l.lag} \subseteq {l \in t.links : l.lag} BY DEF Poorer
  <1> QED BY <1>1, <1>2, <1>3, PoorerSets DEF Screened

LEMMA TaskWithoutFloat ==
    ASSUME NEW kind, NEW r \in SourceRow, NEW q, q = [r EXCEPT !.float = None],
           NEW c \in {"milestone", "status", "hours", "started", "finished", "constrained"}
    PROVE  Task(kind, q)[c] = Task(kind, r)[c] /\ q \in SourceRow /\ q.float = None
  <1>1. /\ q \in SourceRow /\ q.float = None
        /\ q.type = r.type /\ q.status = r.status /\ q.hours = r.hours /\ q.percent = r.percent
        /\ q.started = r.started /\ q.finished = r.finished /\ q.constrained = r.constrained
        BY DEF SourceRow
  <1>2. Milestone(kind, q) = Milestone(kind, r) BY <1>1 DEF Milestone
  <1>3. Status(kind, q) = Status(kind, r) BY <1>1 DEF Status
  <1> QED BY <1>1, <1>2, <1>3 DEF Task

\* A source without float or without logic scores no lower than the schedule with them and
\* has no further issue listed (p6_xer.py, line 244: "Unavailable logic or float data is
\* not treated as a defect"), nor, where the advisor answers, anything more to review.
THEOREM UnavailableCostsNothing == ScheduleSpec => []UnavailableScoresNoLower
  <1>1. ASSUME NEW f, FileOK(f)
        PROVE  /\ FileOK(WithoutFloat(f)) /\ FileOK(WithoutLogic(f))
               /\ Poorer(Tables(WithoutFloat(f)), Tables(f))
               /\ Poorer(Tables(WithoutLogic(f)), Tables(f))
    <2>1. PICK g, h : g = WithoutFloat(f) /\ h = WithoutLogic(f) OBVIOUS
    <2>2. /\ DOMAIN h = DOMAIN f /\ h.kind = f.kind /\ h.rows = f.rows
          /\ h.links = {} /\ h.loaded = f.loaded
          BY <1>1, <2>1 DEF WithoutLogic, FileOK
    <2>3. /\ DOMAIN g = DOMAIN f /\ g.kind = f.kind /\ g.links = f.links /\ g.loaded = f.loaded
          /\ DOMAIN g.rows = DOMAIN f.rows
          /\ \A a \in DOMAIN f.rows : g.rows[a] = [f.rows[a] EXCEPT !.float = None]
          BY <1>1, <2>1 DEF WithoutFloat, FileOK
    <2>4. FileOK(h) BY <1>1, <2>2, FS_EmptySet DEF FileOK
    <2>5. \A a \in DOMAIN f.rows : g.rows[a] \in SourceRow /\ g.rows[a].float = None
          BY <1>1, <2>3, TaskWithoutFloat DEF FileOK
    <2>6. FileOK(g) BY <1>1, <2>3, <2>5 DEF FileOK
    <2>7. /\ Tables(h).task = Tables(f).task /\ Tables(h).loaded = Tables(f).loaded
          /\ Tables(h).links = {} /\ Tables(h).logic = FALSE
          /\ Tables(h).float = Tables(f).float
          BY <2>2 DEF Tables, Loads
    <2>8. Poorer(Tables(h), Tables(f)) BY <2>7 DEF Poorer
    <2>9. /\ DOMAIN Tables(g).task = DOMAIN f.rows /\ DOMAIN Tables(f).task = DOMAIN f.rows
          /\ \A a \in DOMAIN f.rows : /\ Tables(g).task[a] = Task(f.kind, g.rows[a])
                                       /\ Tables(f).task[a] = Task(f.kind, f.rows[a])
          /\ Tables(g).loaded = Tables(f).loaded
          /\ Tables(g).links = Tables(f).links /\ Tables(g).logic = Tables(f).logic
          BY <2>3 DEF Tables, Loads
    <2>10. Tables(g).float = FALSE BY <2>3, <2>5 DEF Tables
    <2>11. \A a \in DOMAIN f.rows :
              \A c \in {"milestone", "status", "hours", "started", "finished", "constrained"} :
                  Tables(g).task[a][c] = Tables(f).task[a][c]
      <3> TAKE a \in DOMAIN f.rows
      <3> TAKE c \in {"milestone", "status", "hours", "started", "finished", "constrained"}
      <3>1. PICK kind, r, q : kind = f.kind /\ r = f.rows[a] /\ q = g.rows[a] OBVIOUS
      <3>2. r \in SourceRow BY <1>1, <3>1 DEF FileOK
      <3>3. q = [r EXCEPT !.float = None] BY <2>3, <3>1
      <3>4. Task(kind, q)[c] = Task(kind, r)[c] BY <3>2, <3>3, TaskWithoutFloat
      <3> QED BY <2>9, <3>1, <3>4
    <2>12. Poorer(Tables(g), Tables(f)) BY <2>9, <2>10, <2>11 DEF Poorer
    <2> QED BY <2>1, <2>4, <2>6, <2>8, <2>12
  <1>2. FileInv => UnavailableScoresNoLower
    <2> SUFFICES ASSUME FileInv, NEW poorer \in {Tables(WithoutFloat(file)), Tables(WithoutLogic(file))}
                 PROVE  /\ HealthScore(poorer) >= HealthScore(Tables(file))
                        /\ \A k \in DOMAIN Screened(Tables(file)) :
                              Screened(poorer)[k] \subseteq Screened(Tables(file))[k]
                        /\ ~AdvisorFails(poorer) => ~AdvisorFails(Tables(file))
                        /\ AdvisedOf(poorer) \subseteq AdvisedOf(Tables(file))
        BY DEF UnavailableScoresNoLower
    <2>1. PICK f : f = file OBVIOUS
    <2>2. FileOK(f) BY <2>1 DEF FileInv
    <2>3. Poorer(poorer, Tables(f)) /\ TablesOK(poorer) /\ TablesOK(Tables(f))
          BY <1>1, <2>1, <2>2, TablesAreNumbers
    <2>4. AdvisorFails(Tables(f)) => AdvisorFails(poorer)
          BY <2>3, PoorerSets DEF AdvisorFails, Poorer
    <2> QED BY <2>1, <2>3, <2>4, PoorerScores, PoorerAdvised, PoorerScreened
  <1> QED BY <1>2, FileInvHolds, PTL

-----------------------------------------------------------------------------
(* PlanningReadiness: what a ready planning rests on                        *)

\* The findings of the schedule refreshed last, while nothing changed since.
Told(s) ==
    /\ \A k \in High(s) :
          k \in DOMAIN finding /\ finding[k].severity = "High"
          /\ finding[k].status \in {"Open", "Closed"}
    /\ \A k \in Medium(s) \ High(s) :
          k \in DOMAIN finding /\ finding[k].severity = "Medium"
          /\ finding[k].status \in {"Open", "Closed"}

DeskInv ==
    /\ serial \in 0 .. MaxEntries /\ DOMAIN entry \subseteq 1 .. serial
    /\ \A k \in DOMAIN finding : DOMAIN finding[k] = {"status", "severity"}
    /\ current # None => current \in DOMAIN Schedules /\ Told(current)

LEMMA DeskBegins == PlanningInit => DeskInv
  BY PlanningAssumption DEF PlanningInit, DeskInv

LEMMA IngestKeeps ==
    ASSUME DeskInv, NEW doc \in DOMAIN PlanDocuments, NEW rows \in PlanDocuments[doc],
           IngestPlan(doc, rows)
    PROVE  DeskInv'
  <1>1. Len(rows) \in Nat BY PlanningAssumption
  <1>2. /\ serial + Len(rows) <= MaxEntries /\ serial' = serial + Len(rows)
        /\ current' = None /\ finding' = finding
        /\ DOMAIN entry' \subseteq DOMAIN entry \cup (serial + 1 .. serial + Len(rows))
        BY DEF IngestPlan
  <1>3. serial \in Nat /\ MaxEntries \in Nat BY PlanningAssumption DEF DeskInv
  <1>4. serial' \in 0 .. MaxEntries BY <1>1, <1>2, <1>3
  <1>5. DOMAIN entry' \subseteq 1 .. serial' BY <1>1, <1>2, <1>3 DEF DeskInv
  <1> QED BY <1>2, <1>4, <1>5 DEF DeskInv

LEMMA RefreshTells ==
    ASSUME DeskInv, NEW s \in DOMAIN Schedules, RefreshFindings(s)
    PROVE  DeskInv'
  <1>1. /\ finding' = [k \in DOMAIN finding \cup High(s) \cup Medium(s) |->
                          IF k \in High(s) THEN Redetected(k, "High")
                          ELSE IF k \in Medium(s) THEN Redetected(k, "Medium")
                          ELSE Undetected(finding[k])]
        /\ current' = s /\ UNCHANGED <<entry, serial, demand>>
        BY DEF RefreshFindings
  <1>2. High(s)' = High(s) /\ Medium(s)' = Medium(s)
        BY <1>1 DEF High, Medium, Plan, RequiredRoles
  <1>3. \A k, severity :
            /\ DOMAIN Redetected(k, severity) = {"status", "severity"}
            /\ Redetected(k, severity).severity = severity
            /\ Redetected(k, severity).status \in {"Open", "Closed"}
        BY DEF Redetected
  <1>4. \A k \in DOMAIN finding : DOMAIN Undetected(finding[k]) = {"status", "severity"}
        BY DEF Undetected, DeskInv
  <1>5. \A k \in DOMAIN finding' : DOMAIN finding'[k] = {"status", "severity"}
        BY <1>1, <1>3, <1>4
  <1>6. Told(s)' BY <1>1, <1>2, <1>3 DEF Told
  <1>7. serial' \in 0 .. MaxEntries /\ DOMAIN entry' \subseteq 1 .. serial'
        BY <1>1 DEF DeskInv
  <1> QED BY <1>1, <1>5, <1>6, <1>7 DEF DeskInv

LEMMA ReviewKeepsTold ==
    ASSUME DeskInv, NEW k \in DOMAIN finding, NEW status, ReviewFinding(k, status)
    PROVE  DeskInv'
  <1>1. /\ status \in {"Open", "Closed"}
        /\ finding' = [finding EXCEPT ![k].status = status]
        /\ UNCHANGED <<entry, serial, demand, current>>
        BY DEF ReviewFinding
  <1>2. \A j \in DOMAIN finding : DOMAIN finding[j] = {"status", "severity"} BY DEF DeskInv
  <1>3. /\ DOMAIN finding' = DOMAIN finding
        /\ \A j \in DOMAIN finding :
              /\ DOMAIN finding'[j] = {"status", "severity"}
              /\ finding'[j].severity = finding[j].severity
              /\ finding'[j].status \in {finding[j].status, "Open", "Closed"}
        BY <1>1, <1>2
  <1>4. \A s : High(s)' = High(s) /\ Medium(s)' = Medium(s)
        BY <1>1 DEF High, Medium, Plan, RequiredRoles
  <1>5. \A s : Told(s) => Told(s)' BY <1>3, <1>4 DEF Told
  <1>6. serial' \in 0 .. MaxEntries /\ DOMAIN entry' \subseteq 1 .. serial'
        BY <1>1 DEF DeskInv
  <1> QED BY <1>1, <1>3, <1>5, <1>6 DEF DeskInv

LEMMA DeskStepKeeps == DeskInv /\ [PlanningNext]_planningTables => DeskInv'
  <1> SUFFICES ASSUME DeskInv, [PlanningNext]_planningTables PROVE DeskInv'
      OBVIOUS
  <1>1. ASSUME NEW d \in Demands, ChangeDemand(d) PROVE DeskInv'
        BY <1>1 DEF DeskInv, ChangeDemand
  <1>2. CASE UNCHANGED planningTables
        BY <1>2 DEF planningTables, DeskInv, Told, High, Medium, Plan, RequiredRoles
  <1> QED BY <1>1, <1>2, IngestKeeps, RefreshTells, ReviewKeepsTold DEF PlanningNext

\* DeskInv holds in every state of every behaviour.
THEOREM DeskInvHolds == PlanningSpec => []DeskInv
  BY DeskBegins, DeskStepKeeps, PTL DEF PlanningSpec

-----------------------------------------------------------------------------
(* A planning that is graded Ready.                                         *)

\* Where no work is left to an uncovered activity, all work is covered.
LEMMA FullyCovered ==
    ASSUME NEW t, NEW e, IsFiniteSet(Listed(t)), Executable(t) # {}, Uncovered(t, e) = {}
    PROVE  ~CoveredBelow(t, e, 60) /\ ~CoveredBelow(t, e, 90)
  <1>1. IsFiniteSet(Executable(t)) BY FS_Subset DEF Executable, Active
  <1>2. PICK n : n = Cardinality(Executable(t)) OBVIOUS
  <1>3. n \in Nat \ {0} BY <1>1, <1>2, FS_CardinalityType, FS_EmptySet
  <1>4. Max({1, n}) = n BY <1>3, MaxOfTwo
  <1>5. Executable(t) \ Uncovered(t, e) = Executable(t) OBVIOUS
  <1>6. \A percent : CoveredBelow(t, e, percent) <=> 2000 * n < (20 * percent - 1) * n
        BY <1>2, <1>4, <1>5 DEF CoveredBelow
  <1>7. ~(2000 * n < (20 * 60 - 1) * n) /\ ~(2000 * n < (20 * 90 - 1) * n) BY <1>3
  <1> QED BY <1>6, <1>7

\* Where there is nothing to do every entry is at no activity.
LEMMA NothingToDo ==
    ASSUME NEW t, NEW e, Executable(t) = {}
    PROVE  Unlinked(t, e) = External(e) /\ ScheduleLoaded(t) = {} /\ ~BroadlyLoaded(t)
  <1>1. \A x : MatchOf(t, x) = None BY DEF MatchOf, BestMatch
  <1>2. ScheduleLoaded(t) = {} BY DEF ScheduleLoaded
  <1>3. Max({1, Cardinality(Executable(t))}) = 1 BY FS_EmptySet, MaxOfTwo
  <1>4. ~BroadlyLoaded(t) BY <1>2, <1>3, FS_EmptySet DEF BroadlyLoaded
  <1> QED BY <1>1, <1>2, <1>4 DEF Unlinked, Known

\* What the grade asks leaves an analysis only what is left to the findings.
LEMMA ClearOfHigh ==
    ASSUME NEW t, NEW scope, IsFiniteSet(Listed(t)), ~Blocked(t, scope), ~Warned(t, scope)
    PROVE  HighIssues(t, Plan, RequiredRoles) \subseteq {"Staff Phase Timing"}
  <1>1. /\ SourceMode(t, Plan) \notin {"No Resource Basis Available", "Partially Schedule Loaded"}
        /\ Uncovered(t, Plan) = {} /\ MissingRoles(Plan, RequiredRoles) = {}
        /\ Shortfalls(t, Plan) = {}
        BY DEF Blocked
  <1>2. Unlinked(t, Plan) = {} /\ (Staff(Plan) # {} \/ RequiredRoles # {}) BY DEF Warned
  <1>3. BroadlyLoaded(t) \/ External(Plan) # {} BY <1>1 DEF SourceMode
  <1>4. Executable(t) # {} BY <1>2, <1>3, NothingToDo
  <1>5. ~CoveredBelow(t, Plan, 60) BY <1>1, <1>4, FullyCovered
  <1>6. Staff(Plan) # {} BY <1>1, <1>2 DEF MissingRoles
  <1>7. \A x \in HighIssues(t, Plan, RequiredRoles) :
            \/ x = "Schedule" /\ Executable(t) = {}
            \/ x = "Resource Coverage" /\ CoveredBelow(t, Plan, 60)
            \/ x = "Missing Resource Plan" /\ ~BroadlyLoaded(t) /\ External(Plan) = {}
            \/ x = "Missing Staff Plan" /\ Staff(Plan) = {}
            \/ x = "Productivity Feasibility" /\ Shortfalls(t, Plan) # {}
            \/ x = "Contract Staff Requirement" /\ MissingRoles(Plan, RequiredRoles) # {}
            \/ x = "Staff Phase Timing"
        BY DEF HighIssues
  <1>8. \A x \in HighIssues(t, Plan, RequiredRoles) : x = "Staff Phase Timing"
        BY <1>1, <1>3, <1>4, <1>5, <1>6, <1>7
  <1> QED BY <1>8

LEMMA ClearOfMedium ==
    ASSUME NEW t, NEW scope, IsFiniteSet(Listed(t)), ~Blocked(t, scope), ~Warned(t, scope)
    PROVE  MediumIssues(t, Plan) \subseteq
               {"Staff Timing", "Work Front Alignment", "Work Front Evidence"}
  <1>1. Uncovered(t, Plan) = {} BY DEF Blocked
  <1>2. Unlinked(t, Plan) = {} /\ Mistimed(t, Plan) = {} BY DEF Warned
  <1>5. \A x \in MediumIssues(t, Plan) :
            \/ x = "Resource Coverage" /\ CoveredBelow(t, Plan, 90)
            \/ x \in {"Staff Timing", "Work Front Alignment", "Work Front Evidence"}
            \/ x = "Resource Timing" /\ Mistimed(t, Plan) # {}
            \/ x = "Unlinked Resources" /\ Unlinked(t, Plan) # {}
        BY DEF MediumIssues
  <1>3. CASE Executable(t) # {}
    <2>1. ~CoveredBelow(t, Plan, 90) BY <1>1, <1>3, FullyCovered
    <2> QED BY <1>2, <1>5, <2>1
  <1>4. CASE Executable(t) = {}
    <2>1. External(Plan) = {} BY <1>2, <1>4, NothingToDo
    <2>2. SourceMode(t, Plan) = "No Resource Basis Available"
          BY <1>4, <2>1, NothingToDo DEF SourceMode
    <2> QED BY <2>2 DEF Blocked
  <1> QED BY <1>3, <1>4

LEMMA LeftOver ==
    ASSUME DeskInv, NEW t, NEW scope, IsFiniteSet(Listed(t)), ~Blocked(t, scope), ~Warned(t, scope)
    PROVE  HighKeys(t, Plan, RequiredRoles) \cup MediumKeys(t, Plan) \subseteq LeftToFindings
  <1>1. /\ Uncovered(t, Plan) = {} /\ MissingRoles(Plan, RequiredRoles) = {}
        /\ Shortfalls(t, Plan) = {}
        BY DEF Blocked
  <1>2. Unlinked(t, Plan) = {} /\ Mistimed(t, Plan) = {} BY DEF Warned
  <1>3. \A k \in HighKeys(t, Plan, RequiredRoles) : k = <<"issue", "Staff Phase Timing">>
        BY <1>1, ClearOfHigh DEF HighKeys
  <1>4. External(Plan) \subseteq 1 .. MaxEntries
        BY PlanningAssumption DEF External, Plan, DeskInv
  <1>5. \A status : FrontChecks(t, Plan, status) \subseteq (DOMAIN Boqs) \X (1 .. MaxEntries)
        BY <1>4 DEF FrontChecks
  <1>6. MediumKeys(t, Plan) \subseteq
            {<<"issue", x>> : x \in MediumIssues(t, Plan)}
            \cup {<<"work front", c>> : c \in (DOMAIN Boqs) \X (1 .. MaxEntries)}
        BY <1>2, <1>5 DEF MediumKeys
  <1>7. MediumIssues(t, Plan) \subseteq
            {"Staff Timing", "Work Front Alignment", "Work Front Evidence"}
        BY ClearOfMedium
  <1>8. MediumKeys(t, Plan) \subseteq LeftToFindings
    <2> SUFFICES ASSUME NEW k \in MediumKeys(t, Plan) PROVE k \in LeftToFindings
        OBVIOUS
    <2>1. CASE \E x \in MediumIssues(t, Plan) : k = <<"issue", x>>
          BY <1>7, <2>1 DEF LeftToFindings
    <2>2. CASE \E c \in (DOMAIN Boqs) \X (1 .. MaxEntries) : k = <<"work front", c>>
          BY <2>2 DEF LeftToFindings
    <2> QED BY <1>6, <2>1, <2>2
  <1> QED BY <1>3, <1>8 DEF LeftToFindings

\* Ready rests on more than the grade looks at: what the reconciliation would still
\* detect was closed by a reviewer (planning_readiness.py with the findings of
\* planning_package_findings.py).
THEOREM ReadyRests == PlanningSpec => []ReadyIsSupported
  <1>1. ASSUME DeskInv, NEW s \in DOMAIN Schedules, Grade(s, "clear") = "Ready"
        PROVE  /\ High(s) \cup Medium(s) \subseteq LeftToFindings
               /\ current = s => \A k \in High(s) \cup Medium(s) : finding[k].status = "Closed"
    <2>1. PICK t : t = Read[s] OBVIOUS
    <2>2. Analysed(s) /\ ~Blocked(t, "clear") /\ ~Warned(t, "clear") BY <1>1, <2>1 DEF Grade
    <2>3. Listed(t) = DOMAIN Schedules[s].rows BY <2>1 DEF Read, Tables, Listed
    <2>4. IsFiniteSet(Listed(t)) BY <2>3, PlanningAssumption
    <2>5. High(s) \cup Medium(s) \subseteq LeftToFindings
          BY <1>1, <2>1, <2>2, <2>4, LeftOver DEF High, Medium
    <2>6. Open("High") = {} /\ Open("Medium") = {} BY <2>2 DEF Blocked, Warned
    <2>7. ASSUME current = s, NEW k \in High(s) \cup Medium(s)
          PROVE  finding[k].status = "Closed"
      <3>1. Told(s) BY <1>1, <2>7, PlanningAssumption DEF DeskInv
      <3>2. /\ k \in DOMAIN finding /\ finding[k].severity \in {"High", "Medium"}
            /\ finding[k].status \in {"Open", "Closed"}
            BY <2>7, <3>1 DEF Told
      <3> QED BY <2>6, <3>2 DEF Open
    <2> QED BY <2>5, <2>7
  <1>2. DeskInv => ReadyIsSupported BY <1>1 DEF ReadyIsSupported
  <1> QED BY <1>2, DeskInvHolds, PTL

-----------------------------------------------------------------------------
(* DepartmentWorkflow: the open work                                        *)

RowOK(i) ==
    /\ work[i] \in WorkRow /\ WellFormed(work[i])
    /\ work[i].about # 0 => work[i].about \in DOMAIN work

WorkInv ==
    /\ today \in Nat
    /\ \A i \in DOMAIN work : RowOK(i)

-----------------------------------------------------------------------------
(* The invariant.                                                           *)

\* What a request does to a row, of the columns the invariant speaks of.
SameRow(new, old) ==
    /\ new \in WorkRow
    /\ \A column \in {"kind", "status", "about"} : new[column] = old[column]
    /\ new.kind \notin Dated => new.owner = old.owner

LEMMA SameRowsKeep ==
    ASSUME WorkInv, DOMAIN work' = DOMAIN work, UNCHANGED today,
           \A i \in DOMAIN work : SameRow(work'[i], work[i])
    PROVE  WorkInv'
  <1>1. SUFFICES ASSUME NEW i \in DOMAIN work
                 PROVE  RowOK(i)'
    BY DEF WorkInv
  <1>2. RowOK(i) /\ SameRow(work'[i], work[i])
    BY DEF WorkInv
  <1>3. /\ work'[i].kind = work[i].kind /\ work'[i].status = work[i].status
        /\ work'[i].about = work[i].about
    BY <1>2 DEF SameRow
  <1> QED
    BY <1>2, <1>3 DEF RowOK, SameRow, WellFormed

LEMMA InitEstablishes == WorkInit => WorkInv
  BY DEF WorkInit, WorkInv

LEMMA WriteKeeps ==
    ASSUME WorkInv, NEW i \in WorkItems, NEW r \in WorkRows, WriteRow(i, r)
    PROVE  WorkInv'
  <1>1. r \in WorkRow /\ WellFormed(r)
    BY RowsAssumption
  <1>2. /\ work' = [j \in DOMAIN work \cup {i} |-> IF j = i THEN r ELSE work[j]]
        /\ r.about # 0 => r.about \in DOMAIN work
        /\ UNCHANGED today
    BY DEF WriteRow
  <1>3. ASSUME NEW j \in DOMAIN work'
        PROVE  RowOK(j)'
    <2>1. CASE j = i
      BY <1>1, <1>2, <2>1 DEF RowOK, WellFormed
    <2>2. CASE j # i
      <3>1. j \in DOMAIN work /\ work'[j] = work[j]
        BY <1>2, <1>3, <2>2
      <3>2. RowOK(j)
        BY <3>1 DEF WorkInv
      <3> QED
        BY <1>2, <3>1, <3>2 DEF RowOK, WellFormed
    <2> QED
      BY <2>1, <2>2
  <1> QED
    BY <1>2, <1>3 DEF WorkInv

LEMMA AssignKeeps ==
    ASSUME WorkInv, NEW i \in DOMAIN work, NEW person \in People \cup {Nobody},
           AssignPerson(i, person)
    PROVE  WorkInv'
  <1>1. work' = [work EXCEPT ![i].person = person] /\ UNCHANGED today
    BY DEF AssignPerson
  <1>3. ASSUME NEW j \in DOMAIN work
        PROVE  SameRow(work'[j], work[j])
    <2>1. work[j] \in WorkRow
      BY <1>3 DEF WorkInv, RowOK
    <2>2. CASE j # i
      BY <1>1, <2>1, <2>2 DEF SameRow
    <2>3. CASE j = i
      <3>1. work'[j] = [work[j] EXCEPT !.person = person]
        BY <1>1, <2>3
      <3> QED
        BY <2>1, <3>1 DEF SameRow, WorkRow
    <2> QED
      BY <2>2, <2>3
  <1>4. DOMAIN work' = DOMAIN work
    BY <1>1
  <1> QED
    BY <1>1, <1>3, <1>4, SameRowsKeep

\* Whom AutoAssign makes responsible is always a function.
LEMMA OwnersAreFunctions ==
    ASSUME WorkInv, NEW i \in DOMAIN work
    PROVE  /\ RequirementOwner(work[i]) \in STRING
           /\ InputOwner(work[i]) \in STRING
           /\ QueryOwner(work[i]) \in STRING
  <1>1. ASSUME NEW j \in DOMAIN work
        PROVE  RequirementOwner(work[j]) \in STRING
    BY <1>1 DEF WorkInv, RowOK, WorkRow, RequirementOwner
  <1>2. ASSUME NEW j \in DOMAIN work
        PROVE  InputOwner(work[j]) \in STRING
    <2>1. work[j] \in WorkRow /\ (work[j].about # 0 => work[j].about \in DOMAIN work)
      BY <1>2 DEF WorkInv, RowOK
    <2>2. work[j].about # 0 => RequirementOwner(work[work[j].about]) \in STRING
      BY <1>1, <2>1
    <2> QED
      BY <2>1, <2>2 DEF InputOwner, WorkRow
  <1>3. QueryOwner(work[i]) \in STRING
    <2>1. work[i].about # 0 => work[i].about \in DOMAIN work
      BY DEF WorkInv, RowOK
    <2>2. /\ RequirementOwner(work[i]) \in STRING
          /\ work[i].about # 0 => /\ RequirementOwner(work[work[i].about]) \in STRING
                                  /\ InputOwner(work[work[i].about]) \in STRING
      BY <1>1, <1>2, <2>1
    <2> QED
      BY <2>2 DEF QueryOwner
  <1> QED
    BY <1>1, <1>2, <1>3

\* The function AutoAssign gives a row.
OwnerAfter(r) ==
    CASE r.kind = "Requirement"   -> RequirementOwner(r)
      [] r.kind = "Missing Input" -> InputOwner(r)
      [] r.kind = "Pre-Bid Query" -> QueryOwner(r)
      [] r.kind \notin Dated      -> r.owner

LEMMA AutoAssignKeeps ==
    ASSUME WorkInv, AutoAssign
    PROVE  WorkInv'
  <1>1. /\ work' = [i \in DOMAIN work |-> [work[i] EXCEPT !.owner = OwnerAfter(work[i])]]
        /\ UNCHANGED today
    BY DEF AutoAssign, OwnerAfter
  <1>2. ASSUME NEW i \in DOMAIN work
        PROVE  SameRow(work'[i], work[i])
    <2>1. work[i] \in WorkRow
      BY <1>2 DEF WorkInv, RowOK
    <2>2. /\ OwnerAfter(work[i]) \in STRING
          /\ work[i].kind \notin Dated => OwnerAfter(work[i]) = work[i].owner
      BY <1>2, <2>1, OwnersAreFunctions DEF OwnerAfter, Dated, WorkRow
    <2>3. PICK owner \in STRING : owner = OwnerAfter(work[i])
      BY <2>2
    <2>4. work'[i] = [work[i] EXCEPT !.owner = owner]
      BY <1>1, <1>2, <2>3
    <2> QED
      BY <2>1, <2>2, <2>3, <2>4 DEF SameRow, WorkRow
  <1>3. DOMAIN work' = DOMAIN work
    BY <1>1
  <1> QED
    BY <1>1, <1>2, <1>3, SameRowsKeep

LEMMA StepKeeps == WorkInv /\ [WorkNext]_workTables => WorkInv'
  <1> SUFFICES ASSUME WorkInv, [WorkNext]_workTables
               PROVE  WorkInv'
    OBVIOUS
  <1>1. CASE \E i \in WorkItems, r \in WorkRows : WriteRow(i, r)
    BY <1>1, WriteKeeps
  <1>2. CASE \E i \in DOMAIN work, person \in People \cup {Nobody} : AssignPerson(i, person)
    BY <1>2, AssignKeeps
  <1>3. CASE AutoAssign
    BY <1>3, AutoAssignKeeps
  <1>4. CASE NextDay
    BY <1>4 DEF NextDay, WorkInv, RowOK, WellFormed
  <1>5. CASE UNCHANGED workTables
    BY <1>5 DEF workTables, WorkInv, RowOK, WellFormed
  <1> QED
    BY <1>1, <1>2, <1>3, <1>4, <1>5 DEF WorkNext

THEOREM WorkInvHolds == WorkSpec => []WorkInv
  BY InitEstablishes, StepKeeps, PTL DEF WorkSpec

-----------------------------------------------------------------------------
(* The views.  A row is left over by its function's progress exactly when   *)
(* its function's queue shows it, or it is an open risk of lower severity.  *)

LowRisk(r) ==
    r.kind = "Clause Risk" /\ r.status # "Closed" /\ r.priority \in {"Medium", "Low"}

LEMMA OneQueue ==
    ASSUME NEW r \in WorkRow, WellFormed(r)
    PROVE  CountedFor(r) = OwnerOf(r) /\ (r.kind = "Clause Risk" => OwnerOf(r) = "Contracts")
  <1>1. r.kind \in WorkKinds
    BY DEF WorkRow
  <1>2. CASE r.kind \in Dated
    BY <1>2 DEF CountedFor, Dated
  <1>3. CASE r.kind \notin Dated
    <2>1. r.owner = Nobody
      BY <1>3 DEF WellFormed
    <2> QED
      BY <1>1, <1>3, <2>1 DEF CountedFor, OwnerOf, WorkKinds, Dated
  <1> QED
    BY <1>2, <1>3

LEMMA LeftIsQueued ==
    ASSUME NEW r \in WorkRow, WellFormed(r)
    PROVE  ~Completed(r) <=> Queued(r) \/ LowRisk(r)
  <1>1. /\ r.kind \in WorkKinds /\ r.status \in Statuses[r.kind] /\ r.assessed \in BOOLEAN
        /\ r.reviewed \in {"Not Reviewed", "Reviewed", "Needs Clarification"}
        /\ r.priority \in {"Critical", "High", "Medium", "Low"}
    BY DEF WorkRow, WellFormed
  <1>2. CASE r.kind = "Requirement"
    BY <1>1, <1>2 DEF Completed, Queued, LowRisk, Ended, WorkKinds, Dated
  <1>3. CASE r.kind = "Missing Input"
    BY <1>1, <1>3 DEF Completed, Queued, LowRisk, Ended, WorkKinds, Dated
  <1>4. CASE r.kind = "Pre-Bid Query"
    BY <1>1, <1>4 DEF Completed, Queued, LowRisk, Ended, WorkKinds, Dated
  <1>5. CASE r.kind = "Clause Risk"
    BY <1>1, <1>5 DEF Completed, Queued, LowRisk, Ended, WorkKinds, Dated
  <1>6. CASE r.kind = "Planning Package"
    <2>1. r.status \in {"Open", "Closed", "Cleared by Re-analysis"}
      BY <1>1, <1>6 DEF Statuses, WorkKinds, Dated
    <2> QED
      BY <1>6, <2>1 DEF Completed, Queued, LowRisk, Ended, WorkKinds, Dated
  <1>7. CASE r.kind = "Drawing BOQ"
    <2>1. r.status \in {"Open", "Closed", "Informational"}
      BY <1>1, <1>7 DEF Statuses, WorkKinds, Dated
    <2> QED
      BY <1>7, <2>1 DEF Completed, Queued, LowRisk, Ended, WorkKinds, Dated
  <1>8. CASE r.kind = "Schedule Scope"
    <2>1. r.status \in {"Blocking", "Covered"}
      BY <1>1, <1>8 DEF Statuses, WorkKinds, Dated
    <2> QED
      BY <1>8, <2>1 DEF Completed, Queued, LowRisk, Ended, WorkKinds, Dated
  <1> QED
    BY <1>1, <1>2, <1>3, <1>4, <1>5, <1>6, <1>7, <1>8 DEF WorkKinds, Dated

LEMMA ProgressFollows == WorkInv => ProgressAgrees
  <1> SUFFICES ASSUME WorkInv
               PROVE  ProgressAgrees
    OBVIOUS
  <1>1. ASSUME NEW f, NEW i \in DOMAIN work
        PROVE  CountedFor(work[i]) = f /\ ~Completed(work[i])
               <=> \/ Queued(work[i]) /\ OwnerOf(work[i]) = f
                   \/ LowRisk(work[i]) /\ f = "Contracts"
    <2>1. work[i] \in WorkRow /\ WellFormed(work[i])
      BY <1>1 DEF WorkInv, RowOK
    <2>2. LowRisk(work[i]) => OwnerOf(work[i]) = "Contracts"
      BY <2>1, OneQueue DEF LowRisk
    <2> QED
      BY <2>1, <2>2, OneQueue, LeftIsQueued
  <1>2. ASSUME NEW f
        PROVE  Remaining(f) =
                   Queue(f) \cup {i \in DOMAIN work :
                                     /\ work[i].kind = "Clause Risk" /\ f = "Contracts"
                                     /\ work[i].status # "Closed"
                                     /\ work[i].priority \in {"Medium", "Low"}}
    <2>1. \A i \in DOMAIN work :
            i \in Remaining(f) <=> i \in Queue(f) \/ (LowRisk(work[i]) /\ f = "Contracts")
      BY <1>1 DEF Remaining, Queue
    <2> QED
      BY <2>1 DEF Remaining, Queue, LowRisk
  <1> QED
    BY <1>2 DEF ProgressAgrees

LEMMA ActionPlanFollows == WorkInv => ActionPlanAgrees
  <1> SUFFICES ASSUME WorkInv
               PROVE  ActionPlanAgrees
    OBVIOUS
  <1> DEFINE queued == {i \in DOMAIN work :
                          work[i].kind \in {"Requirement", "Missing Input"} /\ Queued(work[i])}
  <1>1. ASSUME NEW i \in DOMAIN work
        PROVE  work[i].reviewed \in {"Not Reviewed", "Reviewed", "Needs Clarification"}
    BY <1>1 DEF WorkInv, RowOK, WorkRow
  <1>2. ASSUME NEW i \in DOMAIN work, work[i].kind = "Requirement"
        PROVE  Queued(work[i]) <=> /\ i \in OpenRequirements
                                   /\ work[i].reviewed # "Reviewed" \/ ~work[i].assessed
    BY <1>2 DEF Queued, Ended, OpenRequirements, WorkKinds, Dated
  <1>3. ASSUME NEW i \in DOMAIN work, work[i].kind = "Missing Input"
        PROVE  Queued(work[i]) <=> i \in OpenGaps
    BY <1>3 DEF Queued, Ended, OpenGaps, WorkKinds, Dated
  <1>4. ActionPlan \subseteq queued
    BY <1>2, <1>3 DEF ActionPlan, CandidateGaps, OpenRequirements, OpenGaps
  <1>5. ASSUME NEW i \in queued \ ActionPlan
        PROVE  \E g \in OpenGaps : work[g].about = i
    <2>1. work[i].kind = "Requirement"
      BY <1>3, <1>5 DEF ActionPlan
    <2>2. i \in OpenRequirements /\ work[i].reviewed = "Needs Clarification"
      BY <1>1, <1>2, <1>5, <2>1 DEF ActionPlan
    <2> QED
      BY <1>5, <2>2 DEF ActionPlan, CandidateGaps
  <1> QED
    BY <1>4, <1>5 DEF ActionPlanAgrees

\* Whatever the registers hold and whoever is assigned, the queue, the progress of the
\* functions and the action plan of the estimate show the same open work.
THEOREM OpenWorkIsSeen == WorkSpec => []ViewsAgree
  BY WorkInvHolds, ProgressFollows, ActionPlanFollows, PTL DEF ViewsAgree

-----------------------------------------------------------------------------
(* Deadlines.                                                               *)

LEMMA DayEscalates ==
    ASSUME NEW r \in WorkRow, NEW day \in Nat, Counts(r)
    PROVE  Escalation(r, day + 1) >= Escalation(r, day)
  <1>1. ASSUME NEW d \in Nat
        PROVE  Overdue(r, d) <=> r.due # NoDay /\ r.due < d
    BY Zenon DEF Overdue, Counts
  <1>2. PICK due \in Int : r.due = due
    BY DEF WorkRow
  <1>3. Overdue(r, day) => Overdue(r, day + 1)
    <2>1. due < day => due < day + 1
      OBVIOUS
    <2> QED
      BY <1>1, <1>2, <2>1
  <1>4. DueSoon(r, day) => DueSoon(r, day + 1) \/ Overdue(r, day + 1)
    <2>1. due \in day .. day + 3 => due \in day + 1 .. day + 1 + 3 \/ (due # NoDay /\ due < day + 1)
      BY DEF NoDay
    <2> QED
      BY <1>1, <1>2, <2>1 DEF DueSoon
  <1> QED
    BY <1>3, <1>4 DEF Escalation

\* A day that passes lowers the escalation of no queued row whose date counts, whatever
\* the rows and the dates.
THEOREM DeadlinesOnlyEscalate == WorkSpec => DeadlinesEscalate
  <1>1. ASSUME WorkInv, [WorkNext]_workTables, today' # today,
               NEW i \in DOMAIN work, Counts(work[i])
        PROVE  Escalation(work'[i], today') >= Escalation(work[i], today)
    <2>1. NextDay
      BY <1>1 DEF WorkNext, WriteRow, AssignPerson, AutoAssign, workTables
    <2>2. today' = today + 1 /\ work' = work
      BY <2>1 DEF NextDay
    <2>3. today \in Nat /\ work[i] \in WorkRow
      BY <1>1 DEF WorkInv, RowOK
    <2> QED
      BY <1>1, <2>2, <2>3, DayEscalates
  <1>2. WorkInv /\ [WorkNext]_workTables =>
          [today' # today =>
              \A i \in DOMAIN work :
                  Counts(work[i]) => Escalation(work'[i], today') >= Escalation(work[i], today)]_workTables
    BY <1>1
  <1> QED
    BY <1>2, WorkInvHolds, PTL DEF WorkSpec, DeadlinesEscalate
===============================================================================
