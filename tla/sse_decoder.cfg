\* Finite instance of SseDecoder.
SPECIFICATION FairSpec
CONSTANTS
  Upstreams <- MCUpstreams
  MaxFrame = 10
  MaxChunk = 4
INVARIANT TypeOK
INVARIANT NothingInvented
INVARIANT NothingMissed
PROPERTY Terminates
CHECK_DEADLOCK FALSE
