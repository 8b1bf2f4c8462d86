SPECIFICATION ListsSpec
CONSTANTS
  MaxLen = 3
  Limit = 2
  nilv = nilv
  zero = zero
  one = one
  Val = {nilv, zero, one}
  Zero = zero
  NilVals = {nilv}
  EmptyVals = {nilv, zero}
  FlatAnswers <- MCFlatAnswers
  Uncalled = uncalled
  Panicked = panicked
  MinRun = 2
  Elem = {0, 1, 2}
  NilElems = {0}
  ZeroElems = {0, 1}
  MaxInput = 9
INVARIANTS Joined ReturnsWanted LimitKept PanicAsAsked SortIsStable 
PROPERTIES Ends
CHECK_DEADLOCK FALSE
