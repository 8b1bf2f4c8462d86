SPECIFICATION Spec
CONSTANTS
    StackLimit = 12
    Graphs <- MCSelfHolding
INVARIANT CyclesHandled
CHECK_DEADLOCK FALSE
