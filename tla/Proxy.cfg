SPECIFICATION FairSpec
CONSTANTS
  Kinds = {"write", "begin", "end", "latin"}
  MaxSends = 3
  MaxSessions = 2
  Polite = TRUE
  AllowShrink = TRUE
CHECK_DEADLOCK FALSE
INVARIANTS ServerGetsAll ClientGetsAll ScannerAligned NeverMisread Enforced OwnAnswers
PROPERTIES SwitchIdle Answered ResetDecides
