SPECIFICATION Spec
CONSTANTS
  Beginnings <- UrlBeginnings
  Pieces <- UrlPieces
  MaxPieces = 5
  Fields <- SomeFields
  Counts <- SomeCounts
  Bytes <- SomeBytes
  MaxBytes = 5
INVARIANTS
  UrlDivided
  UrlAccepted
  Base64RoundTrip

CHECK_DEADLOCK FALSE
