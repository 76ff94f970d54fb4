------------------------------ MODULE MCSchedule ------------------------------
(* ScheduleDesk for TLC: one row of each kind the rules tell apart.          *)
EXTENDS ScheduleDesk, TLC

\* A row of a plain activity with float to spare, and what else a row may say.
Plain ==
    [type |-> "TT_Task", percent |-> None, status |-> "", hours |-> 40, float |-> 60,
     started |-> FALSE, finished |-> FALSE, constrained |-> FALSE,
     start |-> None, finish |-> None]

Representatives ==
    {Plain,
     [Plain EXCEPT !.float = -1],
     [Plain EXCEPT !.float = 20, !.constrained = TRUE],
     [Plain EXCEPT !.float = None, !.percent = 100],
     [Plain EXCEPT !.float = None, !.hours = 200],
     [Plain EXCEPT !.float = 0, !.status = "Complete"],
     [Plain EXCEPT !.status = "In Progress"],
     [Plain EXCEPT !.float = NaN],
     [Plain EXCEPT !.float = Infinity, !.constrained = TRUE],
     [Plain EXCEPT !.float = Infinity, !.percent = 0],
     [Plain EXCEPT !.type = "TT_Mile", !.float = MinusInfinity],
     [Plain EXCEPT !.type = "", !.hours = 0, !.float = None],
     [Plain EXCEPT !.type = "TT_Mile", !.float = 20]}

\* Any row for any activity, and any link between two.
AnyRow == [a \in Activities |-> Representatives]
AnyLink == {l \in Link : l.pred # l.succ}
Symmetry == Permutations(Activities)
=============================================================================
