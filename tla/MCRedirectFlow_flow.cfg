CONSTANTS
  NoDst = NoDst
  Threads = {t1}
  Addrs = {a, b}
  Ports = {1}
  Dests = {d1, px}
  Proxy = px
  Conns = {c1, c2}
  RingSize = 1
  Collected = TRUE
  Datagrams = TRUE
  Resets = TRUE
SYMMETRY Symmetric
SPECIFICATION Spec
INVARIANTS TypeOK CtxOwned ExactTarget NoOrphan
CONSTRAINT NoStray
CHECK_DEADLOCK FALSE
