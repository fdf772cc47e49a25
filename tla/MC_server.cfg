SPECIFICATION Spec
CONSTANTS
  PoolSize = 3
  Main = m
  Acceptors = {a1, a2}
  Callers = {a1, a2, m}
  MaxSessions = 6
INVARIANTS
  TypeOK
  OneTaker
  AcceptChain
  SessionsAreServed
PROPERTIES
  Starts
  AcceptedIsClosed
