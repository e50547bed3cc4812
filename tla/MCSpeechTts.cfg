\* As many requests as worker threads.
SPECIFICATION FairSpec
CONSTANTS
  Requests = {r1, r2, r3}
  PoolSize = 3
  MaxChunks = 2
INVARIANTS TypeOK HolderCanGoOn
PROPERTIES SerialSpec EveryResponseEnds
