\* One gang on two activities at once.
SPECIFICATION PlanningSpec
CONSTANTS
    a1 = a1
    a2 = a2
    begin = begin
    end = end
    Activities = {a1, a2, begin, end}
    None = None
    NaN = NaN
    Infinity = Infinity
    MinusInfinity = MinusInfinity
    Likeness <- TheLikeness
    FrontLikeness <- TheFrontLikeness
    Boqs <- TheBoqs
    PhaseTasks <- ThePhaseTasks
    Schedules <- TheSchedules
    PlanDocuments <- ThePlanDocuments
    Demands <- TheDemands
    MaxEntries = 2
INVARIANT ConcurrencyIsReviewed
