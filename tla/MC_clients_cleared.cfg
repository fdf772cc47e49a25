SPECIFICATION Spec
CONSTANTS
  Threads = {t1, t2}
  Reapers = {r1}
  Ids = {u1}
  InitResults <- GoodInit
  Lifetime = 1
  MaxRequests = 3
  MaxTime = 1
PROPERTIES
  EventuallyCleared
