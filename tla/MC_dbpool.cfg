SPECIFICATION Spec
CONSTANTS
  Threads = {t1, t2, t3, t4}
  N = 2
INVARIANTS
  TypeOK
  OneHome
  RoomForReturn
  NoLostWakeup
PROPERTIES
  ImplementsConnLease
  AllFinished
