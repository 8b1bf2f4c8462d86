SPECIFICATION Spec
CONSTANTS
    Base = 40
    Ticks = 512
    Minute = 256
    Second = 128
    Decimals <- MCDecimals
    MaxSteps = 2
    Moved <- MCMoved
    Movements <- MCMovements
    Compared <- MCCompared
    Operators <- MCOperators
INVARIANT CNWeekEnds
