CONSTANTS
  self = self  worker = worker  curl = curl  long = long  other = other
  i = i  j = j  l = l
  Connects = {c1}
  Pids = {self, worker, curl, long}
  Self = self
  CommOf <- Named
  LongComms = {long}
  IPs = {i, j, l}
  Reversed <- MCReversed
  Ports = {80}
  AnyPort = 0
  Domains = {d}
  RulePids = {worker}
  RuleComms = {curl, long}
  RuleIPs <- OneIPRule
  DomainRules <- BothPorts
  Capacity = 3
  TTLs = {1, 2}
  MaxTime = 2
  MaxReplies = 2
SPECIFICATION Spec
INVARIANTS TypeOK Justified RulesHold LatestReplyDecides
CHECK_DEADLOCK FALSE
