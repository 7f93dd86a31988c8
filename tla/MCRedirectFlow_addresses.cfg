CONSTANTS
  NoDst = NoDst
  Threads = {t1, t2}
  Addrs = {a, b}
  Ports = {1}
  Dests = {d1, d2, px}
  Proxy = px
  Conns = {c1, c2}
  RingSize = 3
  Collected = TRUE
  Datagrams = FALSE
  Resets = FALSE
SYMMETRY Symmetric
SPECIFICATION Spec
INVARIANT HandedToGoal
CHECK_DEADLOCK FALSE
