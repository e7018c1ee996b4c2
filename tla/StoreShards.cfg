\* Two keys compete for the only place of a shard, a third has its own.
SPECIFICATION Spec
CONSTANTS
  k1 = k1
  k2 = k2
  k3 = k3
  Key = {k1, k2, k3}
  Write = {w1, w2}
  Reader = {g1}
  Shards = 2
  shardFor <- TwoShards
  Policies = {"none", "lru", "lfu", "tinylfu"}
  MaxEntries = 1
  MaxValueSize = 2
  SampleSize = 2
  lfuBaseCount = 1
  TTL = {1}
  MaxTime = 3
  MaxStamp = 3
  None = None
SYMMETRY WriteSymmetry
INVARIANTS
  TypeOK
  CapHolds
  ReplicaWriteIsKept
PROPERTIES
  RefinesCache
  NothingLostNeedlessly
