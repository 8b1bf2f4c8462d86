SPECIFICATION Spec
CONSTANTS
  Proc = {p1, p2}
  Key = {k1, k2}
  Elem = {e1, e2, e3, e4}
  Root = root
  Nil = nil
  NoOwner = none
  Size = {1, 2}
  Limit = {0, 3}
  InitLimit = {0, 3}
  MaxSize = 2
  DefaultTTL = FALSE
  CleanupPart = 1
  Word = 64
  MemBound = 4
  Ops = {"set", "get", "getOrSet"}
SYMMETRY Symmetry
VIEW View
INVARIANTS RingLinked MapInRing OneEntryPerKey  SizeBound MemCovers
