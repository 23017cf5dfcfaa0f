SPECIFICATION Spec
CONSTANTS
  Clients = {t1, t2, t3, t4}
  Keys = {k1}
  Conns = {c1, c2}
  NoConn = NoConn
  NoKey = NoKey
  MaxPerPool = 2
  MaxTotal = 2
SYMMETRY Sym
INVARIANT NoStrandedWaiter
