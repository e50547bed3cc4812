\* One request more than worker threads: the pool is exhausted.
SPECIFICATION FairSpec
CONSTANTS
  Requests = {r1, r2, r3}
  PoolSize = 2
  MaxChunks = 1
PROPERTY EveryResponseEnds
