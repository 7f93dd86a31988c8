CONSTANTS
  self = self  worker = worker  curl = curl  long = long  other = other
  i = i  j = j  l = l
  Connects = {c1}
  Pids = {self, other}
  Self = self
  CommOf <- Named
  LongComms = {}
  IPs = {l}
  Reversed <- MCReversed
  Ports = {80}
  AnyPort = 0
  Domains = {d}
  RulePids = {}
  RuleComms = {}
  RuleIPs = {}
  DomainRules <- OnePort
  Capacity = 2
  TTLs = {1, 2}
  MaxTime = 2
  MaxReplies = 2
SPECIFICATION Spec
INVARIANT LastsItsTTL
CHECK_DEADLOCK FALSE
