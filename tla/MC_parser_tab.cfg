SPECIFICATION Spec
CONSTANTS
  Streams <- TabStreams
  ULLONG_MAX = 63
  HTTP_MAX_HEADER_SIZE = 72
PROPERTIES
  SkipsLws
CHECK_DEADLOCK FALSE
