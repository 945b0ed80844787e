SPECIFICATION Spec
CONSTANTS
  s1 = s1
  s2 = s2
  s3 = s3
  m = m
  r1 = r1
  r2 = r2
  Sentinels = {s1, s2, s3}
  Instances = {m, r1, r2}
  FirstMaster = m
  Priority <- MCPriority
  Quorum = 2
  ParallelSyncs = 1
  MaxPending = 1
  Setups <- MCSetups
INVARIANTS RegularLeaderPerEpoch ConfigSound
PROPERTY EpochsGrow
CHECK_DEADLOCK FALSE
