---------------------------- MODULE MCPlanningDesk ----------------------------
(* PlanningReadiness for TLC: two activities, an equipment and a staff plan. *)
EXTENDS PlanningReadiness, TLC

CONSTANTS a1, a2, begin, end

Row ==
    [type |-> "TT_Task", percent |-> None, status |-> "", hours |-> 80, float |-> 60,
     started |-> FALSE, finished |-> FALSE, constrained |-> FALSE, start |-> 1, finish |-> 9]

Mile == [Row EXCEPT !.type = "TT_Mile", !.hours = 0, !.start = None]

\* From a milestone through two activities to a milestone.
Sound ==
    [kind |-> "xml",
     rows |-> (begin :> Mile @@ a1 :> Row @@ a2 :> [Row EXCEPT !.start = 5, !.finish = 20]
               @@ end :> [Mile EXCEPT !.finish = 20]),
     links |-> {[pred |-> l[1], succ |-> l[2], lag |-> FALSE] :
                   l \in {<<begin, a1>>, <<a1, a2>>, <<a2, end>>}},
     loaded |-> {}, calendars |-> TRUE, planned |-> 100]

\* Loaded not at all, in part, and throughout; nothing left to do; late, with dangling
\* ends; not readable.
TheSchedules ==
    ("unloaded" :> Sound)
    @@ ("partly loaded" :> [Sound EXCEPT !.loaded = {a1}])
    @@ ("loaded" :> [Sound EXCEPT !.loaded = {a1, a2}])
    @@ ("complete" :> [Sound EXCEPT !.rows = [a \in DOMAIN @ |->
                          [@[a] EXCEPT !.status = "Complete", !.finished = TRUE]]])
    @@ ("late" :> [Sound EXCEPT !.loaded = {a1, a2}, !.planned = 102, !.links = {}])
    @@ ("image" :> [Sound EXCEPT !.kind = "binary"])

TheLikeness ==
    [r \in {"first", "second", "neither", None} \X {"north", "south", None} |->
        [a \in Activities |->
            IF r[1] = "first" /\ a = a1 THEN 900
            ELSE IF r[1] = "second" /\ a = a2 THEN 900 ELSE 100]]

TheFrontLikeness ==
    [p \in {"north", "south"} \X {"north", "south"} |-> IF p[1] = p[2] THEN 1000 ELSE 0]

TheBoqs ==
    [b \in {"bill"} |-> [alike |-> [a \in Activities |-> IF a = a1 THEN 800 ELSE 100],
                         quantity |-> 100, unit |-> "m3", front |-> "north"]]

ThePhaseTasks == [r \in {"Survey"} |-> {a1}]

Gang ==
    [staff |-> FALSE, role |-> None, label |-> "gang", reference |-> "first",
     front |-> "north", start |-> 1, finish |-> 30, rate |-> 10, rateUnit |-> "m3",
     perResource |-> TRUE, quantity |-> 1]

Surveyor ==
    [staff |-> TRUE, role |-> "Survey", label |-> "surveyor", reference |-> None,
     front |-> None, start |-> 1, finish |-> 30, rate |-> None, rateUnit |-> None,
     perResource |-> FALSE, quantity |-> 1]

\* A gang that suffices, one that is slow, elsewhere with a rate of no unit, late without a
\* front or a number, at no activity, and at two.
ThePlanDocuments ==
    ("equipment" :>
        {<<Gang>>, <<[Gang EXCEPT !.rate = 9]>>, <<[Gang EXCEPT !.front = "south", !.rateUnit = ""]>>,
         <<[Gang EXCEPT !.front = None, !.start = 4, !.quantity = None]>>,
         <<[Gang EXCEPT !.reference = "neither"]>>,
         <<Gang, [Gang EXCEPT !.reference = "second"]>>})
    @@ ("staff" :> {<<Surveyor>>, <<[Surveyor EXCEPT !.start = None, !.finish = None]>>,
                    <<[Surveyor EXCEPT !.finish = 3]>>})

Nowhere == [a \in Activities |-> 0]

TheDemands ==
    {[asks |-> "staff", limit |-> None, role |-> "Survey", alike |-> Nowhere],
     [asks |-> "loading", limit |-> None, role |-> None, alike |-> Nowhere],
     [asks |-> "duration", limit |-> 100, role |-> None, alike |-> Nowhere],
     [asks |-> "milestone", limit |-> 20, role |-> None, alike |-> [Nowhere EXCEPT ![end] = 400]]}
Having(status) == {k \in DOMAIN finding : finding[k].status = status}

\* Bounds of the run: requirements open at once, findings ever, and of each status at once.
Bounded ==
    /\ Cardinality(demand) <= 1
    /\ Cardinality(DOMAIN finding) <= 3
    /\ Cardinality(Having("Open")) <= 2 /\ Cardinality(Having("Closed")) <= 2
    /\ Cardinality(Having("Cleared by Re-analysis")) <= 1
=============================================================================
