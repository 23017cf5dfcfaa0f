\* One client, every kind of startup message, every authentication method.
SPECIFICATION FairSpec
CONSTANTS
  Sizes <- MCSizes
  Options <- MCOptions
  None = None
  Kilo = 4
  Word = 64
  DefaultLimit = 7
\* A session ends.
CHECK_DEADLOCK FALSE
INVARIANTS HandoverClean LimitHonoured
PROPERTY ClientAnswered
