SPECIFICATION Spec
CONSTANTS
  MaxLength = 6
  Streams <- SingleStreams
  RespSizes = {1, 2}
  WholeSend = TRUE
  Timeout = 2
  MaxTime = 3
INVARIANTS
  BodyIsWhole
