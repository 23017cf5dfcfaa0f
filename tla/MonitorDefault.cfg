\* One session that relies on the default limit of 1 byte.
SPECIFICATION FairSpec
CONSTANTS
  Sessions = {s1}
  Databases = {d1}
  None = None
  MaxBytes = 2
  DefaultLimit = 1
PROPERTY DefaultEnforced
