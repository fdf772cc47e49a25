SPECIFICATION Spec
CONSTANTS
  MaxLength = 6
  Streams <- PipelinedStreams
  RespSizes = {1, 2}
  WholeSend = TRUE
  Timeout = 2
  MaxTime = 4
INVARIANTS
  BodyIsOwn
  ResponsesInOrder
PROPERTIES
  InvokeWhileRegistered
