SPECIFICATION FairSpec
CONSTANTS
  Proc = {p1, p2}
  Key = {k1, k2}
  Elem = {e1, e2, e3}
  Root = root
  Nil = nil
  NoOwner = none
  Size = {2}
  Limit = {0, 3}
  InitLimit = {3}
  MaxSize = 2
  DefaultTTL = TRUE
  CleanupPart = 1
  Word = 64
  MemBound = 3
  Ops = {"set", "get", "getOrSet", "del"}
VIEW View
PROPERTY Finishes
