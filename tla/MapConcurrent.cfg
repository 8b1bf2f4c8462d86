SPECIFICATION FairSpec
CONSTANTS
  Proc = {p1, p2}
  Key = {k1, k2}
  Val = {v1, v2}
  Nil = nil
  NoOwner = none
  Ops = {"look", "rget", "forEach", "fork", "set", "rset", "rdel", "del", "clear", "sortByKey", "sortByValue", "marshal", "unmarshal"}
  Modes = {TRUE, FALSE}
  MaxItems = 2
INVARIANTS KeysMatch WalkInOrder
PROPERTIES OnlySelfLocks DictSpec
CHECK_DEADLOCK FALSE
