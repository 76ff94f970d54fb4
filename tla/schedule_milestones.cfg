\* What the analysis says of a milestone of a source without total float.
SPECIFICATION ScheduleSpec
CONSTANTS
    Activities = {a1, a2}
    SourceRows <- AnyRow
    SourceLinks <- AnyLink
    MaxLinks = 1
    None = None
    NaN = NaN
    Infinity = Infinity
    MinusInfinity = MinusInfinity
SYMMETRY Symmetry
INVARIANT CriticalityIsNotInferred
CHECK_DEADLOCK FALSE
