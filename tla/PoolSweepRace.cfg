CONSTANTS
  User = {u1, u2}
  Clearer = {}
  Sweeper = {w1}
  Addr = {a1}
  NShards = 1
  ShardOf <- OneShard
  PoolId = {p1, p2, p3}
  StreamId = {s1, s2, s3}
  NoAddr = NoAddr
  NoPool = NoPool
  NoStream = NoStream
  MaxConnectionsPerHost = 1
  MaxIdleTime = 0
  MaxLifetime = 1
  EnableKeepAlive = TRUE
  AgeCap = 2
  CounterMod = 1
SPECIFICATION Spec
PROPERTY RemovesOnlyEmpty
