\* Schedules analysed and advised on, planning packages graded, work queued.
SPECIFICATION Spec
CONSTANTS
    a1 = a1
    a2 = a2
    begin = begin
    end = end
    None = None
    NaN = NaN
    Infinity = Infinity
    MinusInfinity = MinusInfinity
    Activities = {a1, a2, begin, end}
    SourceRows <- RowsOfTwo
    SourceLinks <- LinksOfTwo
    MaxLinks = 2
    Likeness <- TheLikeness
    FrontLikeness <- TheFrontLikeness
    Boqs <- TheBoqs
    PhaseTasks <- ThePhaseTasks
    Schedules <- TheSchedules
    PlanDocuments <- ThePlanDocuments
    Demands <- TheDemands
    MaxEntries = 2
    WorkItems = {1, 2}
    WorkRows <- TheWorkRows
    People = {"ann"}
    MaxDay = 5
INVARIANTS
    UnavailableScoresNoLower
    
    ReadyIsSupported
    ViewsAgree
PROPERTIES
    DeadlinesEscalate
    OverdueIsSeen
CHECK_DEADLOCK FALSE
