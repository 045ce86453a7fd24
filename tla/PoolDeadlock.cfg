CONSTANTS
  User = {u1}
  Clearer = {c1, c2}
  Sweeper = {w1}
  Addr = {a1}
  NShards = 1
  ShardOf <- OneShard
  PoolId = {p1, p2}
  StreamId = {s1, s2, s3}
  NoAddr = NoAddr
  NoPool = NoPool
  NoStream = NoStream
  MaxConnectionsPerHost = 1
  MaxIdleTime = 0
  MaxLifetime = 0
  EnableKeepAlive = TRUE
  AgeCap = 1
  CounterMod = 1
  Workers = 2
  CoopYield = FALSE
SPECIFICATION RuntimeSpec
INVARIANT NoThreadDeadlock
