CONSTANTS
  NoDst = NoDst
  Threads = {t1}
  Addrs = {a}
  Ports = {1}
  Dests = {d1, px}
  Proxy = px
  Conns = {c1}
  RingSize = 2
  Collected = FALSE
  Datagrams = FALSE
  Resets = FALSE
SYMMETRY Symmetric
SPECIFICATION Spec
INVARIANT AlwaysFound
CHECK_DEADLOCK FALSE
