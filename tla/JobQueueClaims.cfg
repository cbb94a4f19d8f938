\* Two jobs that share a lock key as readers and contend for slots, two workers.
SPECIFICATION Spec
CONSTANTS
  j1 = j1  j2 = j2  j3 = j3  w1 = w1  w2 = w2  r1 = r1  k1 = k1  key1 = key1
  NoKey = NoKey  NoJob = NoJob  NoWorker = NoWorker
  Job <- TwoJobs
  Worker <- TwoWorkers
  Mortal <- TwoWorkers
  PoolOf <- OnePool
  Priority <- NoPriority
  KeyOf <- NoKeys
  Need <- NeedTwoAndOne
  LockReq <- BothRead
  DeclaredAttempts <- TwoAttempts
  Unleased = {}
  Resource = {r1}
  LockKey = {k1}
  CapacityChoices <- MoreCapacities
  MaxCapacity = 3
  CandidateLimit = 2
  LeaseTicks = 2
  RetryTicks = 1
  MaxFence <- FenceTwo
SYMMETRY WorkerSymmetry
INVARIANTS TypeOK LeaseOwned ClaimsAuthoritative HoldsAllItNeeds
PROPERTIES FencedWrites GrantsSupersede LiveLeaseKeepsFence
