\* Two clients and two pools of at most one connection under a global limit of
\* two: pooled connections of both keys, the races on both limits, and every way
\* to wait for them.
SPECIFICATION FairSpec
CONSTANTS
  Clients = {t1, t2}
  Keys = {k1, k2}
  Conns = {c1, c2}
  NoConn = NoConn
  NoKey = NoKey
  MaxPerPool = 1
  MaxTotal = 2
INVARIANTS TypeOK Ownership Accounting PerPoolOvershoot GlobalOvershoot
PROPERTIES ImplementsLease AcquireDecides
