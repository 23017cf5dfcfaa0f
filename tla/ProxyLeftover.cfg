SPECIFICATION FairSpec
CONSTANTS
  Kinds = {"write"}
  MaxSends = 3
  MaxSessions = 1
  Polite = FALSE
  AllowShrink = TRUE
CHECK_DEADLOCK FALSE
PROPERTY LeftoverForwarded
