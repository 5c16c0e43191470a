SPECIFICATION ServiceSpec
CONSTANTS
  s1 = s1
  s2 = s2
  Parts = {"delivery", "webhooks", "locks", "limiter", "admission", "gateway"}
  Clients = {"s", "w", "v"}
  Kind <- MCKind
  HubCap = 1
  BroadcastCap = 1
  BufferCap = 1
  MaxEvents = 3
  MaxPrompts = 2
  QueueCap = 1
  Permits = 2
  Retries = 1
  FailureLimit = 2
  MaxJobs = 4
  Requests <- Three
  Sessions <- MCSessions
  Traffic <- MCTraffic
  Callers = {"a", "b"}
  Rate = 1
  Burst = 2
  Stale = 3
  CleanEvery = 2
  MaxAge = 5
  Asks = {"a", "b"}
  Tokens = {"t"}
  CacheTTL = 2
  RegistryTTL = 2
  Introspects = 2
  TokenBudget = 1
  CpuBudget = 1
  Slow = 1
  MaxUse = 3
  Askers = {"c", "d"}
  RouteCalls <- MCRouteCalls
  MaxSessions = 2
  MaxBatch = 2
  MaxRequests = 3
  MaxFailures = 1
INVARIANT SubscriberSeesRun
INVARIANT DisableJustified
INVARIANT RateBounded
INVARIANT CpuOverrunBounded
PROPERTY GatewayKept
PROPERTY RequestsEnd
CHECK_DEADLOCK FALSE
