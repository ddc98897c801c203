CONSTANTS
  c1 = c1
  c2 = c2
  k1 = k1
  k2 = k2
  a = a
  Callers <- MCCallers
  Keys <- MCKeys
  Agents <- MCAgents
  AgentOf <- MCAgentOf
  None = None
  TTL = 1
  Timeout = 1
  MaxTime = 3
  MaxDeletes = 1
SPECIFICATION FairSpec
INVARIANTS CacheTypeOK OlderOnlyIfOverlapped
PROPERTIES AnswersAreRecent EveryCallReturns
CHECK_DEADLOCK FALSE
