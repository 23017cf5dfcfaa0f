SPECIFICATION Spec
CONSTANTS
  Kinds = {"write"}
  MaxSends = 2
  MaxSessions = 2
  Polite = FALSE
  AllowShrink = TRUE
CHECK_DEADLOCK FALSE
INVARIANT ResetCleans
