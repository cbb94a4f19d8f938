--------------------------- MODULE JobQueueSafety ---------------------------
(***************************************************************************)
(* The safety properties of JobQueue, for every value of its constants.    *)
(* Each invariant is inductive together with the ones proved before it:    *)
(* TypeOK, LeaseOwned, ClaimsAuthoritative, HoldsAllItNeeds, LockExclusion. *)
(***************************************************************************)
EXTENDS JobQueueProofs

-----------------------------------------------------------------------------
(* A row is leased exactly while a worker owns it.                         *)

LEMMA LeaseOwnedInit == Init => LeaseOwned
BY DEF Init, LeaseOwned

LEMMA LeaseOwnedRowSteps ==
  ASSUME TypeOK, LeaseOwned, NEW j \in Job, Enqueue(j) \/ RequestCancel(j) \/ Requeue(j)
  PROVE  LeaseOwned'
<1> USE DEF TypeOK, LeaseOwned, Leased
<1>1. CASE Enqueue(j)
  BY <1>1 DEF Enqueue
<1>2. CASE RequestCancel(j)
  BY <1>2 DEF RequestCancel
<1>3. CASE Requeue(j)
  BY <1>3 DEF Requeue
<1> QED
  BY <1>1, <1>2, <1>3

LEMMA LeaseOwnedClaimSteps ==
  ASSUME TypeOK, LeaseOwned, NEW w \in Worker, ClaimStep(w)
  PROVE  LeaseOwned'
<1> USE DEF TypeOK, LeaseOwned, Leased
<1>1. CASE RecoverDead(w)
  BY <1>1 DEF RecoverDead, Sweep
<1>2. CASE ListCandidates(w)
  BY <1>2 DEF ListCandidates, rowVars
<1>3. CASE TryCandidate(w)
  <2> PICK c \in candidates[w] : Take(w, c.job) \/ Skip(w, c)
    BY <1>3 DEF TryCandidate, Foremost
  <2>1. CASE Skip(w, c)
    BY <2>1 DEF Skip, rowVars
  <2>2. CASE Take(w, c.job)
    BY <2>2, Constants DEF Take, NoLease
  <2> QED
    BY <2>1, <2>2
<1> QED
  BY <1>1, <1>2, <1>3 DEF ClaimStep

LEMMA LeaseOwnedEndAttempt ==
  ASSUME TypeOK, LeaseOwned, NEW a \in Attempt, NEW s, EndAttempt(a, s)
  PROVE  LeaseOwned'
BY DEF TypeOK, LeaseOwned, EndAttempt, Attempt

LEMMA LeaseOwnedHolderSteps ==
  ASSUME TypeOK, LeaseOwned, NEW a \in attempts, HolderStep(a)
  PROVE  LeaseOwned'
<1>0. a \in Attempt /\ a.job \in Job
  BY DEF TypeOK, Attempt
<1>1. CASE Heartbeat(a)
  BY <1>0, <1>1, Constants
     DEF TypeOK, LeaseOwned, Heartbeat, Renewed, Authoritative, Live, Leased, NoLease
<1>2. CASE Progress(a) \/ PublishPartial(a)
  BY <1>2 DEF LeaseOwned, Progress, PublishPartial, WriteRow
<1>3. CASE Complete(a) \/ FinalizeCancel(a) \/ \E transient \in BOOLEAN : Fail(a, transient)
  <2>1. PICK s : EndAttempt(a, s)
    BY <1>3 DEF Complete, FinalizeCancel, Fail
  <2> QED
    BY <1>0, <2>1, LeaseOwnedEndAttempt
<1> QED
  BY <1>1, <1>2, <1>3 DEF HolderStep

LEMMA LeaseOwnedNext == TypeOK /\ LeaseOwned /\ [Next]_vars => LeaseOwned'
<1> SUFFICES ASSUME TypeOK, LeaseOwned, [Next]_vars PROVE LeaseOwned'
  OBVIOUS
<1> USE DEF rowVars, vars
<1>1. ASSUME NEW w \in Worker, AbandonClaim(w) \/ WorkerExit(w) PROVE LeaseOwned'
  BY <1>1 DEF LeaseOwned, AbandonClaim, WorkerExit
<1>2. ASSUME NEW w \in Worker, NEW cap \in CapacityChoices, ConfigureSlots(w, cap)
      PROVE  LeaseOwned'
  BY <1>2 DEF LeaseOwned, ConfigureSlots
<1>3. CASE Tick
  BY <1>3 DEF LeaseOwned, Tick, Sooner, TypeOK, LeaseValue, NoLease
<1>4. CASE UNCHANGED vars
  BY <1>4 DEF LeaseOwned
<1> QED
  BY <1>1, <1>2, <1>3, <1>4, LeaseOwnedRowSteps, LeaseOwnedClaimSteps, LeaseOwnedHolderSteps
     DEF Next

\* No credential passes _authoritative_claim on a row that waits or has ended.
THEOREM LeasesOwned == Spec => []LeaseOwned
BY TypeCorrect, LeaseOwnedInit, LeaseOwnedNext, PTL DEF Spec
-----------------------------------------------------------------------------
(* Slots and locks follow the attempt that owns the job.                   *)

\* Nothing about the rows of other jobs that their claims depend on changes.
OthersKeepLease(j) ==
  \A i \in Job \ {j} : owner'[i] = owner[i] /\ fence'[i] = fence[i] /\ lease'[i] = lease[i]

LEMMA ClaimsInit == Init => ClaimsAuthoritative
BY DEF Init, ClaimsAuthoritative, SlotsAuthoritative, LocksAuthoritative, FreeSlot, NoLock

\* Releasing under the row's fence releases everything the job holds.
LEMMA ReleasedAll ==
  ASSUME TypeOK, ClaimsAuthoritative, NEW j \in Job, ReleaseClaims(j, fence[j])
  PROVE  /\ \A s \in Slot : slot'[s].job # j
         /\ \A s \in Slot : slot[s].job # j => slot'[s] = slot[s]
         /\ \A s \in Slot : slot[s].job = j => slot'[s] = FreeSlot
         /\ \A k \in LockKey : lock'[k][j].mode = "none"
         /\ \A k \in LockKey, i \in Job \ {j} : lock'[k][i] = lock[k][i]
<1>1. ASSUME NEW s \in Slot
      PROVE  slot'[s] = IF slot[s].job = j THEN FreeSlot ELSE slot[s]
  BY Constants DEF ClaimsAuthoritative, SlotsAuthoritative, ReleaseClaims
<1>2. FreeSlot.job # j
  BY Constants DEF FreeSlot
<1>3. ASSUME NEW k \in LockKey PROVE lock'[k][j].mode = "none"
  <2>1. lock[k] \in [Job -> LockHolding]
    BY DEF TypeOK
  <2>2. CASE lock[k][j].fence = fence[j]
    BY <2>1, <2>2 DEF ReleaseClaims, NoLock
  <2>3. CASE lock[k][j].fence # fence[j]
    BY <2>1, <2>3 DEF ReleaseClaims, ClaimsAuthoritative, LocksAuthoritative
  <2> QED
    BY <2>2, <2>3
<1>4. ASSUME NEW k \in LockKey, NEW i \in Job \ {j} PROVE lock'[k][i] = lock[k][i]
  BY DEF ReleaseClaims, TypeOK
<1> QED
  BY <1>1, <1>2, <1>3, <1>4

LEMMA ReleaseKeepsClaims ==
  ASSUME TypeOK, ClaimsAuthoritative, NEW j \in Job, ReleaseClaims(j, fence[j]),
         OthersKeepLease(j), UNCHANGED slotRows
  PROVE  ClaimsAuthoritative'
<1>1. SlotsAuthoritative'
  <2>1. ASSUME NEW s \in Slot, slot'[s].job # NoJob
        PROVE  slot'[s] = slot[s] /\ slot[s].job \in Job \ {j}
    BY <2>1, ReleasedAll DEF TypeOK, SlotHolding, FreeSlot
  <2> QED
    BY <2>1 DEF ClaimsAuthoritative, SlotsAuthoritative, OthersKeepLease
<1>2. LocksAuthoritative'
  BY ReleasedAll DEF ClaimsAuthoritative, LocksAuthoritative, OthersKeepLease
<1> QED
  BY <1>1, <1>2 DEF ClaimsAuthoritative

LEMMA ClaimsUnchanged ==
  ASSUME ClaimsAuthoritative, UNCHANGED <<owner, fence, lease, slot, lock, slotRows>>
  PROVE  ClaimsAuthoritative'
BY DEF ClaimsAuthoritative, SlotsAuthoritative, LocksAuthoritative

LEMMA ClaimsRowSteps ==
  ASSUME TypeOK, LeaseOwned, ClaimsAuthoritative, NEW j \in Job,
         Enqueue(j) \/ RequestCancel(j) \/ Requeue(j)
  PROVE  ClaimsAuthoritative'
<1> USE DEF claimVars
<1>1. CASE Enqueue(j)
  BY <1>1, ClaimsUnchanged DEF Enqueue
<1>2. CASE RequestCancel(j)
  BY <1>2, ClaimsUnchanged, ReleaseKeepsClaims DEF RequestCancel, OthersKeepLease
<1>3. CASE Requeue(j)
  <2>1. OthersKeepLease(j)
    BY <1>3 DEF Requeue, OthersKeepLease, TypeOK
  <2> QED
    BY <1>3, <2>1, ReleaseKeepsClaims DEF Requeue
<1> QED
  BY <1>1, <1>2, <1>3

LEMMA ClaimsRecoverDead ==
  ASSUME TypeOK, ClaimsAuthoritative, NEW w \in Worker, RecoverDead(w)
  PROVE  ClaimsAuthoritative'
<1> PICK dead \in SUBSET DeadIn(PoolOf[w]) : Sweep(w, dead)
  BY DEF RecoverDead
<1>1. SlotsAuthoritative'
  BY DEF TypeOK, SlotHolding, ClaimsAuthoritative, SlotsAuthoritative, Sweep, FreeSlot
<1>2. LocksAuthoritative'
  BY DEF TypeOK, ClaimsAuthoritative, LocksAuthoritative, Sweep, NoLock
<1> QED
  BY <1>1, <1>2 DEF ClaimsAuthoritative

\* What a claim assigns is consistent with the row it writes.
LEMMA ClaimsTake ==
  ASSUME TypeOK, ClaimsAuthoritative, NEW w \in Worker, NEW j \in Job, Take(w, j)
  PROVE  ClaimsAuthoritative'
<1>1. PICK S \in SUBSET UsableSlots(j) : Assign(j, NextFence(j), w, S)
  BY DEF Take
<1>2. /\ owner'[j] = w /\ fence'[j] = NextFence(j) /\ lease'[j] = LeaseTicks
      /\ OthersKeepLease(j) /\ slotRows' = slotRows /\ w # NoWorker
  BY Constants DEF Take, TypeOK, OthersKeepLease
<1>3. SlotsAuthoritative'
  BY <1>1, <1>2 DEF TypeOK, SlotHolding, ClaimsAuthoritative, SlotsAuthoritative, Assign,
                    UsableSlots, FreeSlot, OthersKeepLease
<1>4. LocksAuthoritative'
  BY <1>1, <1>2 DEF TypeOK, ClaimsAuthoritative, LocksAuthoritative, Assign, NoLock,
                    OthersKeepLease
<1> QED
  BY <1>3, <1>4 DEF ClaimsAuthoritative

LEMMA ClaimsClaimSteps ==
  ASSUME TypeOK, ClaimsAuthoritative, NEW w \in Worker, ClaimStep(w)
  PROVE  ClaimsAuthoritative'
<1> USE DEF rowVars, claimVars
<1>1. CASE ListCandidates(w)
  BY <1>1, ClaimsUnchanged DEF ListCandidates
<1>2. CASE TryCandidate(w)
  <2> PICK c \in candidates[w] : Take(w, c.job) \/ Skip(w, c)
    BY <1>2 DEF TryCandidate, Foremost
  <2>1. c.job \in Job
    BY DEF TypeOK, Candidate
  <2>2. CASE Skip(w, c)
    BY <2>2, ClaimsUnchanged DEF Skip
  <2> QED
    BY <2>1, <2>2, ClaimsTake
<1> QED
  BY <1>1, <1>2, ClaimsRecoverDead DEF ClaimStep

LEMMA ClaimsHeartbeat ==
  ASSUME TypeOK, ClaimsAuthoritative, NEW a \in Attempt, Heartbeat(a)
  PROVE  ClaimsAuthoritative'
<1>1. /\ a.job \in Job /\ fence[a.job] = a.fence /\ owner[a.job] = a.worker
      /\ lease'[a.job] = LeaseTicks /\ OthersKeepLease(a.job)
      /\ UNCHANGED <<owner, fence, slotRows>> /\ ExtendClaims(a)
  BY DEF Heartbeat, Authoritative, Renewed, Attempt, TypeOK, OthersKeepLease
<1>2. SlotsAuthoritative'
  BY <1>1 DEF TypeOK, SlotHolding, ClaimsAuthoritative, SlotsAuthoritative, ExtendClaims,
              OthersKeepLease
<1>3. LocksAuthoritative'
  BY <1>1 DEF TypeOK, LockHolding, ClaimsAuthoritative, LocksAuthoritative, ExtendClaims,
              OthersKeepLease
<1> QED
  BY <1>2, <1>3 DEF ClaimsAuthoritative

LEMMA ClaimsHolderSteps ==
  ASSUME TypeOK, ClaimsAuthoritative, NEW a \in attempts, HolderStep(a)
  PROVE  ClaimsAuthoritative'
<1> USE DEF claimVars
<1>0. a \in Attempt /\ a.job \in Job
  BY DEF TypeOK, Attempt
<1>1. CASE Progress(a) \/ PublishPartial(a)
  BY <1>1, ClaimsUnchanged DEF Progress, PublishPartial, WriteRow
<1>2. CASE Complete(a) \/ FinalizeCancel(a) \/ \E transient \in BOOLEAN : Fail(a, transient)
  <2>1. /\ Authoritative(a, Leased) \/ Authoritative(a, {"running"})
        /\ UNCHANGED <<fence, slotRows>> /\ \E s : EndAttempt(a, s)
    BY <1>2 DEF Complete, FinalizeCancel, Fail
  <2>2. ReleaseClaims(a.job, fence[a.job])
    BY <2>1 DEF Authoritative, EndAttempt
  <2>3. OthersKeepLease(a.job)
    BY <1>0, <2>1 DEF EndAttempt, OthersKeepLease, TypeOK
  <2> QED
    BY <1>0, <2>1, <2>2, <2>3, ReleaseKeepsClaims
<1> QED
  BY <1>0, <1>1, <1>2, ClaimsHeartbeat DEF HolderStep

LEMMA ClaimsTick ==
  ASSUME TypeOK, ClaimsAuthoritative, Tick
  PROVE  ClaimsAuthoritative'
<1>1. SlotsAuthoritative'
  BY DEF TypeOK, SlotHolding, ClaimsAuthoritative, SlotsAuthoritative, Tick
<1>2. LocksAuthoritative'
  <2>1. ASSUME NEW k \in LockKey, NEW j \in Job
        PROVE  /\ lock'[k][j].mode = lock[k][j].mode /\ lock'[k][j].owner = lock[k][j].owner
               /\ lock'[k][j].fence = lock[k][j].fence
               /\ lock'[k][j].lease = Sooner(lock[k][j].lease)
    <3>1. lock[k][j] \in LockHolding
      BY DEF TypeOK
    <3>2. lock'[k][j] = [lock[k][j] EXCEPT !.lease = Sooner(lock[k][j].lease)]
      BY DEF Tick
    <3> QED
      BY <3>1, <3>2 DEF LockHolding
  <2>2. ASSUME NEW j \in Job
        PROVE  owner'[j] = owner[j] /\ fence'[j] = fence[j] /\ lease'[j] = Sooner(lease[j])
    BY DEF Tick
  <2> QED
    BY <2>1, <2>2 DEF ClaimsAuthoritative, LocksAuthoritative
<1> QED
  BY <1>1, <1>2 DEF ClaimsAuthoritative

LEMMA ClaimsNext ==
  TypeOK /\ LeaseOwned /\ ClaimsAuthoritative /\ [Next]_vars => ClaimsAuthoritative'
<1> SUFFICES ASSUME TypeOK, LeaseOwned, ClaimsAuthoritative, [Next]_vars
             PROVE  ClaimsAuthoritative'
  OBVIOUS
<1> USE DEF rowVars, claimVars, vars
<1>1. ASSUME NEW w \in Worker, AbandonClaim(w) \/ WorkerExit(w) PROVE ClaimsAuthoritative'
  BY <1>1, ClaimsUnchanged DEF AbandonClaim, WorkerExit
<1>2. ASSUME NEW w \in Worker, NEW cap \in CapacityChoices, ConfigureSlots(w, cap)
      PROVE  ClaimsAuthoritative'
  BY <1>2 DEF ConfigureSlots, RowsConfigured, ClaimsAuthoritative, SlotsAuthoritative,
              LocksAuthoritative
<1>3. CASE UNCHANGED vars
  BY <1>3, ClaimsUnchanged
<1> QED
  BY <1>1, <1>2, <1>3, ClaimsRowSteps, ClaimsClaimSteps, ClaimsHolderSteps, ClaimsTick
     DEF Next

\* Slots and locks never outlive, precede or expire apart from the attempt that
\* owns the job: the sweep release_non_authoritative_claims finds nothing.
THEOREM ClaimsFollowJobs == Spec => []ClaimsAuthoritative
BY TypeCorrect, LeasesOwned, ClaimsInit, ClaimsNext, PTL DEF Spec
-----------------------------------------------------------------------------
(* An owned job holds all it needs, so locks exclude.                      *)

Holdings == TypeOK /\ LeaseOwned /\ ClaimsAuthoritative /\ HoldsAllItNeeds

\* Job i is owned only if it was, and what it holds has not changed.
SameHolding(i) ==
  owner'[i] # NoWorker =>
    /\ owner[i] # NoWorker
    /\ \A r \in Resource : HeldBy(i, r)' = HeldBy(i, r)
    /\ \A k \in LockKey : lock'[k][i].mode = lock[k][i].mode

LEMMA SameHoldingsKept ==
  ASSUME HoldsAllItNeeds, \A i \in Job : SameHolding(i)
  PROVE  HoldsAllItNeeds'
BY DEF HoldsAllItNeeds, SameHolding

LEMMA HoldingsUnchanged ==
  ASSUME HoldsAllItNeeds, UNCHANGED <<owner, slot, lock, slotRows>>
  PROVE  HoldsAllItNeeds'
BY DEF HoldsAllItNeeds, HeldBy, OfResource

LEMMA ReleaseKeepsHoldings ==
  ASSUME Holdings, NEW j \in Job, ReleaseClaims(j, fence[j]), owner'[j] = NoWorker,
         OthersKeepLease(j), UNCHANGED slotRows
  PROVE  HoldsAllItNeeds'
<1>1. ASSUME NEW i \in Job, i # j PROVE SameHolding(i)
  <2>1. ASSUME NEW s \in Slot PROVE slot'[s].job = i <=> slot[s].job = i
    BY <1>1, ReleasedAll, Constants DEF Holdings, FreeSlot
  <2>2. ASSUME NEW r \in Resource PROVE HeldBy(i, r)' = HeldBy(i, r)
    BY <2>1 DEF HeldBy, OfResource, Holdings, TypeOK
  <2> QED
    BY <1>1, <2>2, ReleasedAll DEF SameHolding, OthersKeepLease, Holdings
<1>2. SameHolding(j)
  BY DEF SameHolding
<1> QED
  BY <1>1, <1>2, SameHoldingsKept DEF Holdings

LEMMA HoldingsRowSteps ==
  ASSUME Holdings, NEW j \in Job, Enqueue(j) \/ RequestCancel(j) \/ Requeue(j)
  PROVE  HoldsAllItNeeds'
<1> USE DEF claimVars
<1>1. CASE Enqueue(j)
  BY <1>1, HoldingsUnchanged DEF Enqueue, Holdings
<1>2. CASE RequestCancel(j)
  <2>1. CASE UNCHANGED claimVars
    BY <1>2, <2>1, HoldingsUnchanged DEF RequestCancel, Holdings
  <2>2. CASE status[j] \in {"queued", "retry_wait"} /\ ReleaseClaims(j, fence[j])
    <3>1. owner[j] = NoWorker
      BY <2>2 DEF Holdings, LeaseOwned, Leased
    <3> QED
      BY <1>2, <2>2, <3>1, ReleaseKeepsHoldings DEF RequestCancel, OthersKeepLease
  <2> QED
    BY <1>2, <2>1, <2>2 DEF RequestCancel
<1>3. CASE Requeue(j)
  <2>1. OthersKeepLease(j) /\ owner'[j] = NoWorker
    BY <1>3 DEF Requeue, OthersKeepLease, Holdings, TypeOK
  <2> QED
    BY <1>3, <2>1, ReleaseKeepsHoldings DEF Requeue
<1> QED
  BY <1>1, <1>2, <1>3

LEMMA HoldingsRecoverDead ==
  ASSUME Holdings, NEW w \in Worker, RecoverDead(w)
  PROVE  HoldsAllItNeeds'
<1> PICK dead \in SUBSET DeadIn(PoolOf[w]) : Sweep(w, dead)
  BY DEF RecoverDead
<1>1. ASSUME NEW i \in Job, owner'[i] # NoWorker PROVE SameHolding(i)
  <2>1. /\ i \notin dead /\ owner[i] # NoWorker
        /\ status[i] \notin Terminal
    BY <1>1 DEF Sweep, Holdings, LeaseOwned, Leased, Terminal
  <2>2. ASSUME NEW s \in Slot PROVE slot'[s].job = i <=> slot[s].job = i
    <3>1. slot'[s] = slot[s] \/ slot'[s] = FreeSlot
      BY DEF Sweep
    <3>2. ASSUME slot[s].job = i PROVE slot'[s] = slot[s]
      <4>1. slot[s].fence = fence[i] /\ slot[s].owner = owner[i]
        BY <3>2, Constants DEF Holdings, ClaimsAuthoritative, SlotsAuthoritative
      <4> QED
        BY <2>1, <3>2, <4>1 DEF Sweep
    <3>3. FreeSlot.job # i
      BY Constants DEF FreeSlot
    <3> QED
      BY <3>1, <3>2, <3>3
  <2>3. ASSUME NEW r \in Resource PROVE HeldBy(i, r)' = HeldBy(i, r)
    BY <2>2 DEF HeldBy, OfResource, Sweep, Holdings, TypeOK
  <2>4. ASSUME NEW k \in LockKey PROVE lock'[k][i].mode = lock[k][i].mode
    BY <2>1 DEF Sweep, Holdings, ClaimsAuthoritative, LocksAuthoritative
  <2> QED
    BY <2>1, <2>3, <2>4 DEF SameHolding
<1> QED
  BY <1>1, SameHoldingsKept DEF SameHolding, Holdings

LEMMA HoldingsTake ==
  ASSUME Holdings, NEW w \in Worker, NEW j \in Job, Take(w, j)
  PROVE  HoldsAllItNeeds'
<1>1. PICK S \in SUBSET UsableSlots(j) : Fits(S, j) /\ Assign(j, NextFence(j), w, S)
  BY DEF Take
<1>2. S \subseteq slotRows /\ S \subseteq Slot /\ slotRows' = slotRows
  BY DEF UsableSlots, Take, Holdings, TypeOK
<1>3. ASSUME NEW s \in Slot PROVE slot'[s].job = j <=> s \in S
  BY <1>1, Constants DEF Assign, FreeSlot
<1>4. ASSUME NEW r \in Resource PROVE HeldBy(j, r)' = OfResource(S, r)
  BY <1>2, <1>3 DEF HeldBy, OfResource, Holdings, TypeOK
<1>5. ASSUME NEW k \in LockKey PROVE lock'[k][j].mode = LockReq[j][k]
  BY <1>1 DEF Assign, NoLock, Holdings, TypeOK
<1>6. ASSUME NEW i \in Job, i # j PROVE SameHolding(i)
  <2>1. ASSUME NEW s \in Slot PROVE slot'[s].job = i <=> slot[s].job = i
    BY <1>1, <1>6, Constants DEF Assign, UsableSlots, FreeSlot
  <2>2. ASSUME NEW r \in Resource PROVE HeldBy(i, r)' = HeldBy(i, r)
    BY <1>2, <2>1 DEF HeldBy, OfResource, Holdings, TypeOK
  <2>3. ASSUME NEW k \in LockKey PROVE lock'[k][i].mode = lock[k][i].mode
    BY <1>1, <1>6 DEF Assign, Holdings, TypeOK
  <2> QED
    BY <1>6, <2>2, <2>3 DEF SameHolding, Take, Holdings, TypeOK
<1>7. ASSUME NEW r \in Resource PROVE Cardinality(HeldBy(j, r))' = Need[j][r]
  BY <1>1, <1>4 DEF Fits
<1> QED
  BY <1>5, <1>6, <1>7 DEF HoldsAllItNeeds, SameHolding, Holdings

\* Renewing and ageing leases leave what is held alone.
LEMMA HoldingsLeasesMove ==
  ASSUME Holdings, Tick \/ \E a \in Attempt : Heartbeat(a)
  PROVE  HoldsAllItNeeds'
<1>1. UNCHANGED <<owner, slotRows>>
  BY DEF Tick, Heartbeat
<1>2. ASSUME NEW s \in Slot PROVE slot'[s].job = slot[s].job
  BY DEF Tick, Heartbeat, ExtendClaims, Holdings, TypeOK, SlotHolding
<1>3. ASSUME NEW k \in LockKey, NEW i \in Job PROVE lock'[k][i].mode = lock[k][i].mode
  <2>1. lock[k] \in [Job -> LockHolding]
    BY DEF Holdings, TypeOK
  <2>2. CASE Tick
    <3>1. lock'[k][i] = [lock[k][i] EXCEPT !.lease = Sooner(lock[k][i].lease)]
      BY <2>2 DEF Tick
    <3> QED
      BY <2>1, <3>1 DEF LockHolding
  <2>3. ASSUME NEW a \in Attempt, Heartbeat(a)
        PROVE  lock'[k][i].mode = lock[k][i].mode
    BY <2>1, <2>3 DEF Heartbeat, ExtendClaims, LockHolding
  <2> QED
    BY <2>2, <2>3
<1>4. ASSUME NEW i \in Job, NEW r \in Resource PROVE HeldBy(i, r)' = HeldBy(i, r)
  BY <1>1, <1>2 DEF HeldBy, OfResource, Holdings, TypeOK
<1> QED
  BY <1>1, <1>3, <1>4, SameHoldingsKept DEF SameHolding, Holdings

LEMMA HoldingsHolderSteps ==
  ASSUME Holdings, NEW a \in attempts, HolderStep(a)
  PROVE  HoldsAllItNeeds'
<1> USE DEF claimVars
<1>0. a \in Attempt /\ a.job \in Job
  BY DEF Holdings, TypeOK, Attempt
<1>1. CASE Progress(a) \/ PublishPartial(a)
  BY <1>1, HoldingsUnchanged DEF Progress, PublishPartial, WriteRow, Holdings
<1>2. CASE Complete(a) \/ FinalizeCancel(a) \/ \E transient \in BOOLEAN : Fail(a, transient)
  <2>1. /\ Authoritative(a, Leased) \/ Authoritative(a, {"running"})
        /\ UNCHANGED <<fence, slotRows>> /\ \E s : EndAttempt(a, s)
    BY <1>2 DEF Complete, FinalizeCancel, Fail
  <2>2. ReleaseClaims(a.job, fence[a.job])
    BY <2>1 DEF Authoritative, EndAttempt
  <2>3. OthersKeepLease(a.job) /\ owner'[a.job] = NoWorker
    BY <1>0, <2>1 DEF EndAttempt, OthersKeepLease, Holdings, TypeOK
  <2> QED
    BY <1>0, <2>1, <2>2, <2>3, ReleaseKeepsHoldings
<1> QED
  BY <1>0, <1>1, <1>2, HoldingsLeasesMove DEF HolderStep

LEMMA HoldingsNext == Holdings /\ [Next]_vars => HoldsAllItNeeds'
<1> SUFFICES ASSUME Holdings, [Next]_vars PROVE HoldsAllItNeeds'
  OBVIOUS
<1> USE DEF rowVars, claimVars, vars
<1>1. ASSUME NEW w \in Worker, ClaimStep(w) PROVE HoldsAllItNeeds'
  <2>1. CASE ListCandidates(w)
    BY <2>1, HoldingsUnchanged DEF ListCandidates, Holdings
  <2>2. CASE TryCandidate(w)
    <3> PICK c \in candidates[w] : Take(w, c.job) \/ Skip(w, c)
      BY <2>2 DEF TryCandidate, Foremost
    <3>1. c.job \in Job
      BY DEF Holdings, TypeOK, Candidate
    <3>2. CASE Skip(w, c)
      BY <3>2, HoldingsUnchanged DEF Skip, Holdings
    <3> QED
      BY <3>1, <3>2, HoldingsTake
  <2> QED
    BY <1>1, <2>1, <2>2, HoldingsRecoverDead DEF ClaimStep
<1>2. ASSUME NEW w \in Worker, AbandonClaim(w) \/ WorkerExit(w) PROVE HoldsAllItNeeds'
  BY <1>2, HoldingsUnchanged DEF AbandonClaim, WorkerExit, Holdings
<1>3. ASSUME NEW w \in Worker, NEW cap \in CapacityChoices, ConfigureSlots(w, cap)
      PROVE  HoldsAllItNeeds'
  <2>1. UNCHANGED <<owner, slot, lock>> /\ slotRows' = RowsConfigured(cap)
    BY <1>3 DEF ConfigureSlots
  <2>2. ASSUME NEW i \in Job, NEW r \in Resource PROVE HeldBy(i, r)' = HeldBy(i, r)
    <3>1. ASSUME NEW s \in Slot, slot[s].job = i PROVE s \in slotRows /\ s \in slotRows'
      BY <2>1, <3>1, Constants DEF RowsConfigured, Holdings, ClaimsAuthoritative, SlotsAuthoritative
    <3>2. slotRows \subseteq Slot /\ slotRows' \subseteq Slot
      BY <2>1 DEF RowsConfigured, Holdings, TypeOK
    <3> QED
      BY <2>1, <3>1, <3>2 DEF HeldBy, OfResource
  <2> QED
    BY <2>1, <2>2, SameHoldingsKept DEF SameHolding, Holdings
<1>4. CASE UNCHANGED vars
  BY <1>4, HoldingsUnchanged DEF Holdings
<1> QED
  BY <1>1, <1>2, <1>3, <1>4, HoldingsRowSteps, HoldingsHolderSteps, HoldingsLeasesMove
     DEF Next

\* A job a worker owns holds every slot and lock it asked for.
THEOREM OwnedJobsHoldAll == Spec => []HoldsAllItNeeds
<1>1. Init => HoldsAllItNeeds
  BY DEF Init, HoldsAllItNeeds
<1> QED
  BY <1>1, TypeCorrect, LeasesOwned, ClaimsFollowJobs, HoldingsNext, PTL DEF Spec, Holdings

\* A new owner has looked at the locks of every other owner.
LEMMA ExclusionNext == Holdings /\ LockExclusion /\ [Next]_vars => LockExclusion'
<1> SUFFICES ASSUME Holdings, LockExclusion, [Next]_vars PROVE LockExclusion'
  OBVIOUS
<1> USE DEF rowVars, vars
<1>1. ASSUME NEW w \in Worker, NEW j \in Job, Take(w, j) PROVE LockExclusion'
  <2>1. ASSUME NEW i \in Job \ {j}, owner[i] # NoWorker PROVE ~Conflict(i, j) /\ ~Conflict(j, i)
    <3>1. ASSUME NEW k \in LockKey
          PROVE  /\ lock[k][i].mode = LockReq[i][k]
                 /\ LockReq[j][k] \in {"none", "read", "write"}
                 /\ LockReq[j][k] = "read" => lock[k][i].mode # "write"
                 /\ LockReq[j][k] = "write" => lock[k][i].mode = "none"
      BY <1>1, <2>1, Constants DEF Take, LocksAvailable, Holdings, HoldsAllItNeeds, Mode
    <3> QED
      BY <3>1 DEF Conflict
  <2>2. \A i \in Job \ {j} : owner'[i] = owner[i]
    BY <1>1 DEF Take, Holdings, TypeOK
  <2> QED
    BY <2>1, <2>2 DEF LockExclusion, Conflict
<1>2. ASSUME \A i \in Job : owner'[i] # NoWorker => owner[i] # NoWorker
      PROVE  LockExclusion'
  BY <1>2 DEF LockExclusion, Conflict
<1>3. ASSUME NEW j \in Job, Enqueue(j) \/ RequestCancel(j) \/ Requeue(j) PROVE LockExclusion'
  BY <1>2, <1>3 DEF Enqueue, RequestCancel, Requeue, Holdings, TypeOK
<1>4. ASSUME NEW w \in Worker, ClaimStep(w) PROVE LockExclusion'
  <2>1. CASE RecoverDead(w)
    BY <1>2, <2>1 DEF RecoverDead, Sweep
  <2>2. CASE ListCandidates(w)
    BY <1>2, <2>2 DEF ListCandidates
  <2>3. CASE TryCandidate(w)
    <3> PICK c \in candidates[w] : Take(w, c.job) \/ Skip(w, c)
      BY <2>3 DEF TryCandidate, Foremost
    <3>1. c.job \in Job
      BY DEF Holdings, TypeOK, Candidate
    <3>2. CASE Skip(w, c)
      BY <1>2, <3>2 DEF Skip
    <3> QED
      BY <1>1, <3>1, <3>2
  <2> QED
    BY <1>4, <2>1, <2>2, <2>3 DEF ClaimStep
<1>5. ASSUME NEW a \in attempts, HolderStep(a) PROVE LockExclusion'
  <2>1. a.job \in Job
    BY DEF Holdings, TypeOK, Attempt
  <2>2. owner' = owner \/ owner' = [owner EXCEPT ![a.job] = NoWorker]
    BY <1>5 DEF HolderStep, Heartbeat, Progress, PublishPartial, WriteRow, Complete,
                FinalizeCancel, Fail, EndAttempt
  <2> QED
    BY <1>2, <2>1, <2>2 DEF Holdings, TypeOK
<1>6. ASSUME NEW w \in Worker,
             AbandonClaim(w) \/ WorkerExit(w) \/ \E cap \in CapacityChoices : ConfigureSlots(w, cap)
      PROVE  LockExclusion'
  BY <1>2, <1>6 DEF AbandonClaim, WorkerExit, ConfigureSlots
<1>7. CASE Tick \/ UNCHANGED vars
  BY <1>2, <1>7 DEF Tick
<1> QED
  BY <1>3, <1>4, <1>5, <1>6, <1>7 DEF Next

\* A writer of a lock key is alone among the owned jobs that ask for it.
THEOREM WritersAreAlone == Spec => []LockExclusion
<1>1. Init => LockExclusion
  BY DEF Init, LockExclusion
<1> QED
  BY <1>1, TypeCorrect, LeasesOwned, ClaimsFollowJobs, OwnedJobsHoldAll, ExclusionNext, PTL
     DEF Spec, Holdings
=============================================================================
