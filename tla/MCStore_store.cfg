CONSTANTS
  None = None  NoLabel = None
  Pids = {p1, p2}
  Comms = {sh}
  Domains = {d1, d2}
  IPs = {i1, i2}
  Ports = {80}
  TTLs = {1}
  MaxTime = 2
  MaxAnswers = 2
  Skew = 1
  MaxOps = 3
SYMMETRY Symmetric
SPECIFICATION Spec
INVARIANTS TypeOK NoDanglingEdge GraphMirrors Attributed IndexesAgree
PROPERTY OnlyExpiredForgotten
CHECK_DEADLOCK FALSE
