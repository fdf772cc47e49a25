SPECIFICATION Spec
CONSTANTS
  Threads = {t1, t2}
  Reapers = {r1, r2}
  Ids = {u1, u2}
  InitResults <- AnyInit
  Lifetime = 1
  MaxRequests = 3
  MaxTime = 1
INVARIANTS
  TypeOK
  TableConsistent
  Armed
  ReplyIsTrue
PROPERTIES
  NeverReplaced
SYMMETRY Symmetry
