SPECIFICATION HSpec
CONSTANTS
  t1 = t1  t2 = t2
  s1 = s1  s2 = s2  s3 = s3
  loop = loop  loopRule = loopRule
  Unlimited = Unlimited  NoPolicy = NoPolicy
  Idle = Idle  Live = Live
  NoSession = NoSession  NoVersion = NoVersion
  Threads = {t1}
  Role <- Guarded1
  Sessions = {s1}
  Costs = {1}
  MaxSessions = Unlimited
  Policies <- OneRulePattern
  MaxCalls = 2
  Patterns = {loop}
  RuleNames = {loopRule}
  RuleOf <- MCRuleOf
  FailureMode = "open"
  CostCeiling = 2
  SessionCeiling = 2
  OrgCeiling = 3
CHECK_DEADLOCK FALSE
INVARIANTS SeenPatternStopsNextCall
