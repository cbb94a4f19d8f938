\* Liveness: one worker that does not stop but may be slow at any point; j1 holds
\* what the more urgent j2 waits for, j3 could run beside them (or is a row from
\* before leases), and a claim looks at one candidate.
SPECIFICATION FairSpec
CONSTANTS
  j1 = j1  j2 = j2  j3 = j3  w1 = w1  w2 = w2  r1 = r1  k1 = k1  key1 = key1
  NoKey = NoKey  NoJob = NoJob  NoWorker = NoWorker
  Job <- ThreeJobs
  Worker <- OneWorker
  Mortal = {}
  PoolOf <- OnePoolOneWorker
  Priority <- Priority3
  KeyOf <- NoKeys3
  Need <- NeedFirst3
  LockReq <- ReadAndWrite3
  DeclaredAttempts <- TwoAttempts3
  Unleased <- OldRow
  Resource = {r1}
  LockKey = {k1}
  CapacityChoices <- CapacityOne
  MaxCapacity = 1
  CandidateLimit = 1
  LeaseTicks = 2
  RetryTicks = 0
  MaxFence <- FenceOneLast3
INVARIANTS LockExclusion
PROPERTIES CancelEnds ExpiredRecovered WaitingServed
