SPECIFICATION Spec
CONSTANTS
  Kinds = {"write", "parse", "sync", "terminate"}
  MaxSends = 3
  MaxSessions = 1
  Polite = FALSE
  AllowShrink = TRUE
CHECK_DEADLOCK FALSE
INVARIANTS ServerGetsAll ClientGetsAll ScannerAligned
