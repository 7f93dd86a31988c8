CONSTANTS
  self = self  worker = worker  curl = curl  long = long  other = other
  i = i  j = j  l = l
  Connects = {c1}
  Pids = {self, other}
  Self = self
  CommOf <- Named
  LongComms = {}
  IPs = {i, j}
  Reversed <- MCReversed
  Ports = {80}
  AnyPort = 0
  Domains = {d}
  RulePids = {}
  RuleComms = {}
  RuleIPs <- OneIPRule
  DomainRules <- BothPorts
  Capacity = 1
  TTLs = {1}
  MaxTime = 2
  MaxReplies = 0
SPECIFICATION Spec
INVARIANT GivenAddressOnly
CHECK_DEADLOCK FALSE
