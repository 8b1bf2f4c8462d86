SPECIFICATION TicksSpec
CONSTANTS
    Base = 40
    Ticks = 512
    Minute = 256
    Second = 128
    Decimals <- MCDecimals
    MaxSteps = 2
    Moved <- MCMoved
    Movements <- MCMovements
    Compared <- MCCompared
    Operators <- MCOperators
    p1 = p1
    p2 = p2
    p3 = p3
    v1 = v1
    v2 = v2
    Proc = {p1, p2, p3}
    NoOwner = NoOwner
    Value = {v1, v2}
    Zero = v1
    NoValue = NoValue
    HasInit = TRUE
INVARIANT MonthsKept
INVARIANT PeriodEnds
INVARIANT MovableAgain
INVARIANT WhenIsConjunction
INVARIANT Guarded
PROPERTY LocalSpec
SYMMETRY Alike
