\* Every split of every stream of up to three messages into reads, whenever they are sent.
SPECIFICATION Spec
CONSTANTS
  Payloads = {0, 1, 6}
  Messages <- MCMessages
  MaxMessages = 3
INVARIANTS InSync ScanReportsIdle
\* The stream is finite.
CHECK_DEADLOCK FALSE
