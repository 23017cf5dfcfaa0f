\* Two sessions on one database that grows and shrinks between 0 and 2 bytes;
\* every session chooses its limit, none, 0, 1 or 2.
SPECIFICATION FairSpec
CONSTANTS
  Sessions = {s1, s2}
  Databases = {d1}
  None = None
  MaxBytes = 2
  DefaultLimit = 0
INVARIANTS TypeOK UnlimitedNeverFlagged FlagWitnessed
PROPERTIES FlagRaised FlagCleared ImplementsGauge
