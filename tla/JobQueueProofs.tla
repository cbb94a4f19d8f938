--------------------------- MODULE JobQueueProofs ---------------------------
(***************************************************************************)
(* Proofs, for every set of jobs, workers, resources and lock keys, of     *)
(* what the runs check on small instances of JobQueue.                     *)
(***************************************************************************)
EXTENDS JobQueue, TLAPS

-----------------------------------------------------------------------------
(* What the claim helpers return.                                          *)

\* Constants in the form the leaves need them.
LEMMA Constants ==
  /\ LeaseTicks \in Nat \ {0} /\ RetryTicks \in Nat /\ MaxFence \in [Job -> Nat]
  /\ MaxCapacity \in Nat
  /\ LeaseTicks \in LeaseValue /\ NoLease \in LeaseValue
  /\ NoJob \notin Job /\ NoWorker \notin Worker
  /\ LockReq \in [Job -> [LockKey -> Mode]]
  /\ DeclaredAttempts \in [Job -> Nat \ {0}]
  /\ CapacityChoices \subseteq [Resource -> 0 .. MaxCapacity]
BY ConstantsAssumption DEF LeaseValue, NoLease

\* The empty rows have the type of rows.
LEMMA EmptyRows == FreeSlot \in SlotHolding /\ NoLock \in LockHolding
BY Constants DEF FreeSlot, NoLock, SlotHolding, LockHolding, Mode

\* One step of a countdown stays in the countdown's domain.
LEMMA SoonerType ==
  /\ \A l \in LeaseValue : Sooner(l) \in LeaseValue
  /\ \A t \in 0 .. RetryTicks : Sooner(t) \in 0 .. RetryTicks
BY Constants DEF Sooner, LeaseValue, NoLease

LEMMA AssignType ==
  ASSUME TypeOK, NEW j \in Job, NEW f \in Nat, NEW w \in Worker, NEW S,
         Assign(j, f, w, S)
  PROVE  slot' \in [Slot -> SlotHolding] /\ lock' \in [LockKey -> [Job -> LockHolding]]
<1>1. ASSUME NEW s \in Slot PROVE slot'[s] \in SlotHolding
  BY EmptyRows, Constants DEF Assign, TypeOK, SlotHolding
<1>2. ASSUME NEW k \in LockKey PROVE lock'[k] \in [Job -> LockHolding]
  <2>1. LockReq[j][k] \in Mode
    BY Constants
  <2>2. [mode |-> LockReq[j][k], fence |-> f, owner |-> w, lease |-> LeaseTicks] \in LockHolding
    BY <2>1, Constants DEF LockHolding
  <2>3. lock[k] \in [Job -> LockHolding]
    BY DEF TypeOK
  <2> QED
    BY <2>2, <2>3, EmptyRows DEF Assign
<1> QED
  BY <1>1, <1>2 DEF Assign

LEMMA ReleaseClaimsType ==
  ASSUME TypeOK, NEW j \in Job, NEW f, ReleaseClaims(j, f)
  PROVE  slot' \in [Slot -> SlotHolding] /\ lock' \in [LockKey -> [Job -> LockHolding]]
<1>1. ASSUME NEW s \in Slot PROVE slot'[s] \in SlotHolding
  BY EmptyRows DEF ReleaseClaims, TypeOK
<1>2. ASSUME NEW k \in LockKey PROVE lock'[k] \in [Job -> LockHolding]
  BY EmptyRows DEF ReleaseClaims, TypeOK
<1> QED
  BY <1>1, <1>2 DEF ReleaseClaims

LEMMA ExtendClaimsType ==
  ASSUME TypeOK, NEW a \in Attempt, ExtendClaims(a)
  PROVE  slot' \in [Slot -> SlotHolding] /\ lock' \in [LockKey -> [Job -> LockHolding]]
<1>1. ASSUME NEW s \in Slot PROVE slot'[s] \in SlotHolding
  BY Constants DEF ExtendClaims, TypeOK, SlotHolding
<1>2. ASSUME NEW k \in LockKey PROVE lock'[k] \in [Job -> LockHolding]
  <2>1. lock[k] \in [Job -> LockHolding] /\ a.job \in Job
    BY DEF TypeOK, Attempt
  <2>2. [lock[k][a.job] EXCEPT !.lease = LeaseTicks] \in LockHolding
    BY <2>1, Constants DEF LockHolding
  <2> QED
    BY <2>1, <2>2 DEF ExtendClaims
<1> QED
  BY <1>1, <1>2 DEF ExtendClaims

LEMMA EndAttemptType ==
  ASSUME TypeOK, NEW a \in Attempt, NEW s \in Status, EndAttempt(a, s)
  PROVE  /\ status' \in [Job -> Status] /\ author' \in [Job -> Nat]
         /\ owner' \in [Job -> Worker \cup {NoWorker}] /\ lease' \in [Job -> LeaseValue]
         /\ slot' \in [Slot -> SlotHolding] /\ lock' \in [LockKey -> [Job -> LockHolding]]
<1>1. a.job \in Job /\ a.fence \in Nat
  BY DEF Attempt
<1>2. slot' \in [Slot -> SlotHolding] /\ lock' \in [LockKey -> [Job -> LockHolding]]
  BY <1>1, ReleaseClaimsType DEF EndAttempt
<1> QED
  BY <1>1, <1>2, Constants DEF EndAttempt, TypeOK
-----------------------------------------------------------------------------
(* Type correctness.                                                       *)

LEMMA InitType == Init => TypeOK
<1> SUFFICES ASSUME Init PROVE TypeOK
  OBVIOUS
<1>1. maxAttempts \in [Job -> Nat]
  BY Constants DEF Init
<1>2. wait \in [Job -> 0 .. RetryTicks]
  BY Constants DEF Init
<1>3. slot \in [Slot -> SlotHolding] /\ lock \in [LockKey -> [Job -> LockHolding]]
  BY EmptyRows DEF Init
<1>4. lease \in [Job -> LeaseValue]
  BY Constants DEF Init
<1>5. status \in [Job -> Status]
  BY DEF Init, Status, Active
<1> QED
  BY <1>1, <1>2, <1>3, <1>4, <1>5 DEF Init, TypeOK

LEMMA RowStepsType ==
  ASSUME TypeOK, NEW j \in Job, Enqueue(j) \/ RequestCancel(j) \/ Requeue(j)
  PROVE  TypeOK'
<1> USE DEF rowVars, claimVars, workVars, Status, Active, Terminal
<1>1. CASE Enqueue(j)
  BY <1>1 DEF Enqueue, TypeOK
<1>2. CASE RequestCancel(j)
  <2>1. CASE ReleaseClaims(j, fence[j])
    BY <1>2, <2>1, ReleaseClaimsType DEF RequestCancel, TypeOK
  <2>2. CASE UNCHANGED claimVars
    BY <1>2, <2>2 DEF RequestCancel, TypeOK
  <2> QED
    BY <1>2, <2>1, <2>2 DEF RequestCancel
<1>3. CASE Requeue(j)
  <2>1. slot' \in [Slot -> SlotHolding] /\ lock' \in [LockKey -> [Job -> LockHolding]]
    BY <1>3, ReleaseClaimsType DEF Requeue
  <2>2. RequeuedBudget(j) \in Nat
    BY DEF RequeuedBudget, TypeOK
  <2>3. 0 \in 0 .. RetryTicks
    BY Constants
  <2> QED
    BY <1>3, <2>1, <2>2, <2>3, Constants DEF Requeue, TypeOK
<1> QED
  BY <1>1, <1>2, <1>3

LEMMA RecoverDeadType ==
  ASSUME TypeOK, NEW w \in Worker, RecoverDead(w)
  PROVE  TypeOK'
<1> PICK dead \in SUBSET DeadIn(PoolOf[w]) : Sweep(w, dead)
  BY DEF RecoverDead
<1>1. status' \in [Job -> Status]
  BY DEF Sweep, TypeOK, Status, Terminal
<1>2. fence' \in [Job -> Nat] /\ owner' \in [Job -> Worker \cup {NoWorker}]
  BY DEF Sweep, TypeOK
<1>3. lease' \in [Job -> LeaseValue]
  BY Constants DEF Sweep, TypeOK
<1>4. slot' \in [Slot -> SlotHolding]
  BY EmptyRows DEF Sweep, TypeOK
<1>5. lock' \in [LockKey -> [Job -> LockHolding]]
  BY EmptyRows DEF Sweep, TypeOK
<1>6. phase' \in [Worker -> {"starting", "idle", "listing", "trying", "stopped"}]
  BY DEF Sweep, TypeOK
<1> QED
  BY <1>1, <1>2, <1>3, <1>4, <1>5, <1>6 DEF Sweep, TypeOK

LEMMA ClaimStepsType ==
  ASSUME TypeOK, NEW w \in Worker, ListCandidates(w) \/ TryCandidate(w)
  PROVE  TypeOK'
<1> USE DEF rowVars, claimVars
<1>1. CASE ListCandidates(w)
  <2>1. ASSUME NEW c \in Listed(w) PROVE c \in Candidate
    <3>1. PICK j \in Job : c = [job |-> j, reclaim |-> status[j] = "running"]
      BY DEF Listed
    <3>2. (status[j] = "running") \in BOOLEAN
      BY Zenon
    <3> QED
      BY <3>1, <3>2, Zenon DEF Candidate
  <2> QED
    BY <1>1, <2>1 DEF ListCandidates, TypeOK
<1>2. CASE TryCandidate(w)
  <2> PICK c \in candidates[w] : Take(w, c.job) \/ Skip(w, c)
    BY <1>2 DEF TryCandidate, Foremost
  <2>1. c \in Candidate
    BY DEF TypeOK
  <2>2. CASE Skip(w, c)
    BY <2>2 DEF Skip, TypeOK
  <2>3. CASE Take(w, c.job)
    <3> DEFINE j == c.job
    <3>1. j \in Job /\ NextFence(j) \in Nat
      BY <2>1 DEF Candidate, NextFence, TypeOK
    <3>2. PICK S : Assign(j, NextFence(j), w, S)
      BY <2>3 DEF Take
    <3>3. slot' \in [Slot -> SlotHolding] /\ lock' \in [LockKey -> [Job -> LockHolding]]
      BY <3>1, <3>2, AssignType
    <3>4. [job |-> j, worker |-> w, fence |-> NextFence(j)] \in Attempt
      BY <3>1 DEF Attempt
    <3>5. /\ status' \in [Job -> Status] /\ fence' \in [Job -> Nat]
          /\ attempt' \in [Job -> Nat] /\ attempts' \subseteq Attempt
      BY <2>3, <3>1, <3>4 DEF Take, TypeOK, Status, Active
    <3>6. owner' \in [Job -> Worker \cup {NoWorker}] /\ lease' \in [Job -> LeaseValue]
      BY <2>3, <3>1, Constants DEF Take, TypeOK
    <3>7. /\ phase' \in [Worker -> {"starting", "idle", "listing", "trying", "stopped"}]
          /\ candidates' \in [Worker -> SUBSET Candidate]
      BY <2>3 DEF Take, TypeOK
    <3> QED
      BY <2>3, <3>3, <3>5, <3>6, <3>7 DEF Take, TypeOK
  <2> QED
    BY <2>2, <2>3
<1> QED
  BY <1>1, <1>2

LEMMA HolderStepsType ==
  ASSUME TypeOK, NEW a \in attempts, HolderStep(a)
  PROVE  TypeOK'
<1> USE DEF rowVars, claimVars, workVars
<1>0. a \in Attempt /\ a.job \in Job /\ a.fence \in Nat
  BY DEF TypeOK, Attempt
<1>1. CASE Heartbeat(a)
  <2>1. slot' \in [Slot -> SlotHolding] /\ lock' \in [LockKey -> [Job -> LockHolding]]
    BY <1>0, <1>1, ExtendClaimsType DEF Heartbeat
  <2> QED
    BY <1>0, <1>1, <2>1, Constants DEF Heartbeat, Renewed, TypeOK
<1>2. CASE Progress(a) \/ PublishPartial(a)
  BY <1>0, <1>2 DEF Progress, PublishPartial, WriteRow, TypeOK
<1>3. CASE Complete(a)
  BY <1>0, <1>3, EndAttemptType DEF Complete, TypeOK, Status, Terminal
<1>4. CASE FinalizeCancel(a)
  BY <1>0, <1>4, EndAttemptType DEF FinalizeCancel, TypeOK, Status, Terminal
<1>5. ASSUME NEW transient \in BOOLEAN, Fail(a, transient) PROVE TypeOK'
  <2>1. PICK s \in Status : EndAttempt(a, s)
    BY <1>5 DEF Fail, Status, Active, Terminal
  <2>2. wait' \in [Job -> 0 .. RetryTicks]
    BY <1>0, <1>5, Constants DEF Fail, TypeOK
  <2> QED
    BY <1>0, <1>5, <2>1, <2>2, EndAttemptType DEF Fail, TypeOK
<1> QED
  BY <1>1, <1>2, <1>3, <1>4, <1>5 DEF HolderStep

LEMMA EnvironmentType ==
  /\ TypeOK /\ Tick => TypeOK'
  /\ \A w \in Worker : TypeOK /\ (AbandonClaim(w) \/ WorkerExit(w)) => TypeOK'
  /\ \A w \in Worker, cap \in CapacityChoices : TypeOK /\ ConfigureSlots(w, cap) => TypeOK'
<1> USE DEF rowVars, claimVars, workVars
<1>1. ASSUME TypeOK, Tick PROVE TypeOK'
  <2>1. lease' \in [Job -> LeaseValue] /\ wait' \in [Job -> 0 .. RetryTicks]
    BY <1>1, SoonerType DEF Tick, TypeOK
  <2>2. slot' \in [Slot -> SlotHolding]
    BY <1>1, SoonerType DEF Tick, TypeOK, SlotHolding
  <2>3. lock' \in [LockKey -> [Job -> LockHolding]]
    <3>1. ASSUME NEW k \in LockKey, NEW j \in Job
          PROVE  [lock[k][j] EXCEPT !.lease = Sooner(@)] \in LockHolding
      <4>1. lock[k][j] \in LockHolding
        BY <1>1 DEF TypeOK
      <4> QED
        BY <4>1, SoonerType DEF LockHolding
    <3> QED
      BY <1>1, <3>1 DEF Tick
  <2> QED
    BY <1>1, <2>1, <2>2, <2>3 DEF Tick, TypeOK
<1>2. ASSUME NEW w \in Worker, TypeOK, AbandonClaim(w) \/ WorkerExit(w) PROVE TypeOK'
  BY <1>2 DEF AbandonClaim, WorkerExit, TypeOK
<1>3. ASSUME NEW w \in Worker, NEW cap \in CapacityChoices, TypeOK, ConfigureSlots(w, cap)
      PROVE  TypeOK'
  BY <1>3, Constants DEF ConfigureSlots, RowsConfigured, TypeOK
<1> QED
  BY <1>1, <1>2, <1>3

LEMMA NextType == TypeOK /\ [Next]_vars => TypeOK'
<1> SUFFICES ASSUME TypeOK, [Next]_vars PROVE TypeOK'
  OBVIOUS
<1>1. ASSUME NEW j \in Job, Enqueue(j) \/ RequestCancel(j) \/ Requeue(j) PROVE TypeOK'
  BY <1>1, RowStepsType
<1>2. ASSUME NEW w \in Worker, ClaimStep(w) PROVE TypeOK'
  BY <1>2, RecoverDeadType, ClaimStepsType DEF ClaimStep
<1>3. ASSUME NEW a \in attempts, HolderStep(a) PROVE TypeOK'
  BY <1>3, HolderStepsType
<1>4. CASE UNCHANGED vars
  BY <1>4 DEF vars, rowVars, claimVars, workVars, TypeOK
<1> QED
  BY <1>1, <1>2, <1>3, <1>4, EnvironmentType DEF Next

\* Every reachable state is well typed.
THEOREM TypeCorrect == Spec => []TypeOK
BY InitType, NextType, PTL DEF Spec
=============================================================================
