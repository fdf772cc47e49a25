SPECIFICATION Spec
CONSTANTS
  Streams <- AllStreams
  ULLONG_MAX = 63
  HTTP_MAX_HEADER_SIZE = 72
INVARIANTS
  TypeOK
  AssertionsHold
  ParsesWhatWasSent
  HeaderBounded
PROPERTIES
  LengthsNeverWrap
  ImplementsCallbacks
  CallsReturn
CHECK_DEADLOCK FALSE
