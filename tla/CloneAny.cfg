SPECIFICATION Spec
CONSTANTS
    StackLimit = 12
    Graphs <- MCGraphs
INVARIANT AnyObjectCloned
CHECK_DEADLOCK FALSE
