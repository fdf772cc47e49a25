SPECIFICATION Spec
CONSTANTS
  MaxLength = 6
  Streams <- SingleStreams
  RespSizes = {1, 2}
  WholeSend = FALSE
  Timeout = 2
  MaxTime = 3
INVARIANTS
  TypeOK
  NeverLeaked
  NeverDormant
  ReadDiscipline
  NothingMissed
  FullMeansTooLong
  AnswerDelivered
PROPERTIES
  Released
  ImplementsSessionLife
