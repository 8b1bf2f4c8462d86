SPECIFICATION Spec
CONSTANTS
  Proc = {p1}
  Key = {k1, k2, k3}
  Elem = {e1, e2, e3, e4}
  Root = root
  Nil = nil
  NoOwner = none
  Size = {1, 2}
  Limit = {0, 3}
  InitLimit = {3}
  MaxSize = 3
  DefaultTTL = FALSE
  CleanupPart = 1
  Word = 64
  MemBound = 3
  Ops = {"set", "setMap", "get", "getOrSet", "del", "clear", "limit", "destroy"}
SYMMETRY Symmetry
VIEW View
PROPERTY LruSpec
CHECK_DEADLOCK FALSE
