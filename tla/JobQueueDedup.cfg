\* Two jobs with one artifact key beside a row from before leases.
SPECIFICATION Spec
CONSTANTS
  j1 = j1  j2 = j2  j3 = j3  w1 = w1  w2 = w2  r1 = r1  k1 = k1  key1 = key1
  NoKey = NoKey  NoJob = NoJob  NoWorker = NoWorker
  Job <- ThreeJobs
  Worker <- OneWorker
  Mortal <- OneWorker
  PoolOf <- OnePoolOneWorker
  Priority <- Priority3
  KeyOf <- SameKey3
  Need <- NeedNone3
  LockReq <- NoLocks3
  DeclaredAttempts <- Attempts3
  Unleased <- OldRow
  Resource = {r1}
  LockKey = {k1}
  CapacityChoices <- CapacityTwo
  MaxCapacity = 2
  CandidateLimit = 1
  LeaseTicks = 1
  RetryTicks = 1
  MaxFence <- FenceTwo3
INVARIANTS OneActivePerKey WaitingHasBudget
PROPERTIES ImplementsFencedJob
