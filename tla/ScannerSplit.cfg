\* Every split of every stream of up to two messages into reads.
SPECIFICATION Spec
CONSTANTS
  Payloads = {0}
  Messages <- MCMessages
  MaxMessages = 2
INVARIANT ScanReportsEveryIdle
\* The stream is finite.
CHECK_DEADLOCK FALSE
