SPECIFICATION ObjectSpec
CONSTANTS
    StackLimit = 12
    Graphs <- MCGraphs
    Calls <- MCCalls
    p1 = p1
    p2 = p2
    Proc = {p1, p2}
    Wide = 4
    Types <- MCTypes
    Loads <- MCLoads
INVARIANTS CopyIsFaithful OneCopyPerAddress
INVARIANTS PickAnswers ParsesAsWritten PanicsExplained
INVARIANTS FieldMapsComplete ErrorsChangeNothing CastPanicsExplained OrderIrrelevant
PROPERTIES Terminates MapsGoBack
CHECK_DEADLOCK FALSE
