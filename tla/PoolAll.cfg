CONSTANTS
  User = {u1, u2}
  Clearer = {c1}
  Sweeper = {w1}
  Addr = {a1, a2}
  NShards = 1
  ShardOf <- OneShard
  PoolId = {p1, p2, p3, p4}
  StreamId = {s1, s2, s3}
  NoAddr = NoAddr
  NoPool = NoPool
  NoStream = NoStream
  MaxConnectionsPerHost = 2
  MaxIdleTime = 0
  MaxLifetime = 0
  EnableKeepAlive = TRUE
  AgeCap = 1
  CounterMod = 1
SPECIFICATION Spec
SYMMETRY Symmetry
INVARIANTS TypeOK ExpiredInFront GuardPinsDeque
PROPERTIES LeavesForCause KeepsPromise
