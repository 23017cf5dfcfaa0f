SPECIFICATION Spec
CONSTANTS
  Kinds = {"write", "shrink", "begin", "end"}
  MaxSends = 3
  MaxSessions = 1
  Polite = TRUE
  AllowShrink = TRUE
CHECK_DEADLOCK FALSE
INVARIANT ShrinkPermitted
