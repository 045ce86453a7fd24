CONSTANTS
  User = {u1, u2}
  Clearer = {c1}
  Sweeper = {}
  Addr = {a1}
  NShards = 1
  ShardOf <- OneShard
  PoolId = {p1, p2}
  StreamId = {s1, s2}
  NoAddr = NoAddr
  NoPool = NoPool
  NoStream = NoStream
  MaxConnectionsPerHost = 1
  MaxIdleTime = 0
  MaxLifetime = 0
  EnableKeepAlive = TRUE
  AgeCap = 1
  CounterMod = 3
  Workers = 3
  CoopYield = TRUE
SPECIFICATION RuntimeFairSpec
INVARIANTS NoThreadDeadlock CapacityRespected ActiveDrift
PROPERTY GuardsAreReleased
