------------------------------ MODULE JobQueue ------------------------------
(***************************************************************************)
(* The fenced PostgreSQL job queue: backend/app/services/job_service.py    *)
(* with job_claims.py (resource slots and named locks),                    *)
(* job_lease_recovery.py (ending dead attempts) and job_requeue.py (an     *)
(* operator's requeue).                                                    *)
(*                                                                         *)
(* A variable indexed by Job is a column of ws_jobs, slotRows and slot are *)
(* ws_job_resource_slots, lock is ws_job_locks.  Every action is one       *)
(* database transaction: the code takes the job row FOR UPDATE (or an      *)
(* advisory lock) before it decides, so transactions on one job are        *)
(* serial.  JobService.claim is several transactions, and so several       *)
(* actions: RecoverDead, ListCandidates, then one TryCandidate for each    *)
(* candidate it read.  A row that another transaction has locked for the   *)
(* moment is passed over (SKIP LOCKED) by the sweep and by the try.        *)
(*                                                                         *)
(* Whoever was once granted a claim may present its (job, worker, fence)   *)
(* for ever: a runner can outlive its supervisor, be delayed, or call      *)
(* twice.  attempts is the set of those credentials.                       *)
(*                                                                         *)
(* Time is relative: lease and wait hold the ticks that are left, Tick     *)
(* takes one from each.  Live(lease) is lease_expires_at >= NOW().         *)
(*                                                                         *)
(* A definition marked WRONG is a plausible mistake in the definition that *)
(* follows it.  Nothing uses it; PROJECT.json puts it in the other's place *)
(* to show which property would notice.                                    *)
(***************************************************************************)
EXTENDS Integers, FiniteSets

CONSTANTS
  Job,              \* ids of job rows that may come to exist
  Worker,           \* worker processes; an id is unique to a process
  Mortal,           \* the workers that may stop (every one, unless liveness is asked)
  PoolOf,           \* worker pool of each job and of each worker
  Priority,         \* priority of each job: the smallest is listed first
  KeyOf,            \* the (kind, artifact_key) of each job, or NoKey
  Need,             \* slots of each resource a job holds while it runs
  LockReq,          \* "none", "read" or "write" for each job and lock key
  DeclaredAttempts, \* max_attempts each job is queued with
  Unleased,         \* rows of the schema before leases, "running" at upgrade
  Resource, LockKey,
  CapacityChoices,  \* the capacities a starting worker may configure
  MaxCapacity,      \* bound: highest slot number
  CandidateLimit,   \* candidate_limit of claim
  LeaseTicks,       \* lease_seconds
  RetryTicks,       \* retry_after_seconds
  MaxFence,         \* bound: no claim or requeue of a job past this fence
  NoKey, NoJob, NoWorker

Mode == {"none", "read", "write"}
Slot == Resource \X (1 .. MaxCapacity)

ASSUME ConstantsAssumption ==
  /\ Mortal \subseteq Worker
  /\ Unleased \subseteq Job
  /\ Need \in [Job -> [Resource -> Nat]]
  /\ LockReq \in [Job -> [LockKey -> Mode]]
  /\ DeclaredAttempts \in [Job -> Nat \ {0}]
  /\ CapacityChoices \subseteq [Resource -> 0 .. MaxCapacity]
  /\ MaxCapacity \in Nat /\ CandidateLimit \in Nat \ {0}
  /\ LeaseTicks \in Nat \ {0} /\ RetryTicks \in Nat /\ MaxFence \in [Job -> Nat]
  /\ NoJob \notin Job /\ NoWorker \notin Worker

\* Rows older than leases have no artifact key, no resources and no locks.
ASSUME UnleasedAssumption ==
  \A j \in Unleased : /\ KeyOf[j] = NoKey
                      /\ \A r \in Resource : Need[j][r] = 0
                      /\ \A k \in LockKey : LockReq[j][k] = "none"

VARIABLES
  status, fence, owner, lease, attempt, maxAttempts,
  wait,        \* ticks until available_at
  author,      \* fence of the attempt that last wrote the row's progress or result
               \* (an end hook's write to an ended row is in JobArtifacts)
  slotRows,    \* the slot rows that exist
  slot,        \* who holds each slot
  lock,        \* the lock rows, by lock key and job
  attempts,    \* credentials granted by claims
  phase,       \* where each worker is: starting, in a claim, or stopped
  candidates   \* what each worker's claim has listed and not yet tried

rowVars   == <<status, fence, owner, lease, attempt, maxAttempts, wait, author>>
claimVars == <<slot, lock>>
workVars  == <<attempts, phase, candidates>>
vars == <<rowVars, claimVars, slotRows, workVars>>

Active   == {"queued", "running", "retry_wait", "cancel_requested"}
Terminal == {"completed", "failed", "cancelled"}
Leased   == {"running", "cancel_requested"}
Status   == {"absent"} \cup Active \cup Terminal

NoLease == -1
Live(l)    == l > 0
Expired(l) == l = 0
LeaseValue == NoLease .. LeaseTicks

FreeSlot == [job |-> NoJob, fence |-> 0, owner |-> NoWorker, lease |-> NoLease]
NoLock   == [mode |-> "none", fence |-> 0, owner |-> NoWorker, lease |-> NoLease]

Attempt == [job : Job, worker : Worker, fence : Nat]
-----------------------------------------------------------------------------
(* Slots and locks: job_claims.py.                                         *)

\* WRONG: a slot whose lease ran out is taken from a job not yet recovered.
UsableSlotsOrExpired(j) ==
  {s \in slotRows : slot[s].job \in {NoJob, j} \/ Expired(slot[s].lease)}

\* WRONG: a job cannot take over the slots its own dead attempt holds.
UsableSlotsFree(j) == {s \in slotRows : slot[s].job = NoJob}

\* find_slots: a free slot, or one of the job's own when its claim expired.
UsableSlots(j) ==
  {s \in slotRows : \/ slot[s].job = NoJob
                    \/ status[j] = "running" /\ slot[s].job = j}

OfResource(S, r) == {s \in S : s[1] = r}

Fits(S, j) == \A r \in Resource : Cardinality(OfResource(S, r)) = Need[j][r]

\* WRONG: a writer looks for other writers only.
LocksAvailableAmongWriters(j) ==
  \A k \in LockKey, i \in Job \ {j} :
    LockReq[j][k] # "none" => lock[k][i].mode # "write"

\* locks_available: readers share a key, a writer has it alone.
LocksAvailable(j) ==
  \A k \in LockKey, i \in Job \ {j} :
    /\ LockReq[j][k] = "read"  => lock[k][i].mode # "write"
    /\ LockReq[j][k] = "write" => lock[k][i].mode = "none"

\* clear_job_claims, then assign_slots and assign_locks, for a new attempt.
Assign(j, f, w, S) ==
  /\ slot' = [s \in Slot |->
        IF s \in S THEN [job |-> j, fence |-> f, owner |-> w, lease |-> LeaseTicks]
        ELSE IF slot[s].job = j THEN FreeSlot ELSE slot[s]]
  /\ lock' = [k \in LockKey |-> [lock[k] EXCEPT ![j] =
        IF LockReq[j][k] = "none" THEN NoLock
        ELSE [mode |-> LockReq[j][k], fence |-> f, owner |-> w, lease |-> LeaseTicks]]]

\* release_claims: what the job holds under fence f.
ReleaseClaims(j, f) ==
  /\ slot' = [s \in Slot |->
        IF slot[s].job = j /\ slot[s].fence = f THEN FreeSlot ELSE slot[s]]
  /\ lock' = [k \in LockKey |->
        IF lock[k][j].fence = f THEN [lock[k] EXCEPT ![j] = NoLock] ELSE lock[k]]

\* WRONG: the leases of locks are forgotten.
ExtendSlotClaims(a) ==
  /\ slot' = [s \in Slot |->
        IF slot[s].job = a.job /\ slot[s].fence = a.fence /\ slot[s].owner = a.worker
        THEN [slot[s] EXCEPT !.lease = LeaseTicks] ELSE slot[s]]
  /\ UNCHANGED lock

\* extend_claims: slot and lock leases move with the job's lease.
ExtendClaims(a) ==
  /\ slot' = [s \in Slot |->
        IF slot[s].job = a.job /\ slot[s].fence = a.fence /\ slot[s].owner = a.worker
        THEN [slot[s] EXCEPT !.lease = LeaseTicks] ELSE slot[s]]
  /\ lock' = [k \in LockKey |-> [lock[k] EXCEPT ![a.job] =
        IF @.mode # "none" /\ @.fence = a.fence /\ @.owner = a.worker
        THEN [@ EXCEPT !.lease = LeaseTicks] ELSE @]]

\* holds_claims: every slot and lock the job row asks for, still leased.
HoldsClaims(a) ==
  /\ \A r \in Resource :
       Cardinality({s \in OfResource(slotRows, r) :
                      /\ slot[s].job = a.job   /\ slot[s].fence = a.fence
                      /\ slot[s].owner = a.worker /\ Live(slot[s].lease)}) = Need[a.job][r]
  /\ \A k \in LockKey : LockReq[a.job][k] # "none" =>
       /\ lock[k][a.job].mode = LockReq[a.job][k]
       /\ lock[k][a.job].fence = a.fence
       /\ lock[k][a.job].owner = a.worker
       /\ Live(lock[k][a.job].lease)

\* WRONG: the worker is compared, the fence is not.
AuthoritativeByOwner(a, states) ==
  /\ status[a.job] \in states
  /\ owner[a.job] = a.worker
  /\ Live(lease[a.job])

\* _authoritative_claim: the row is this attempt's, and its lease has not run out.
Authoritative(a, states) ==
  /\ status[a.job] \in states
  /\ fence[a.job] = a.fence
  /\ owner[a.job] = a.worker
  /\ Live(lease[a.job])
  /\ HoldsClaims(a)
-----------------------------------------------------------------------------
(* Enqueue and operator actions.                                           *)

\* WRONG: only started jobs are looked at.
KeyFreeOfStarted(j) ==
  KeyOf[j] # NoKey =>
    \A i \in Job \ {j} : KeyOf[i] = KeyOf[j] => status[i] \notin Leased

\* No other active job has j's artifact key: the SELECT of enqueue and the
\* unique index uq_ws_jobs_active_artifact.
KeyFree(j) ==
  KeyOf[j] # NoKey =>
    \A i \in Job \ {j} : KeyOf[i] = KeyOf[j] => status[i] \notin Active

\* enqueue inserts a row.  A request that joins an active job, or is answered
\* from the artifact cache, changes no job.
Enqueue(j) ==
  /\ status[j] = "absent"
  /\ KeyFree(j)
  /\ status' = [status EXCEPT ![j] = "queued"]
  /\ UNCHANGED <<fence, owner, lease, attempt, maxAttempts, wait, author,
                 claimVars, slotRows, workVars>>

\* request_cancel: a waiting job ends at once; a running one is asked to stop.
RequestCancel(j) ==
  \/ /\ status[j] \in {"queued", "retry_wait"}
     /\ status' = [status EXCEPT ![j] = "cancelled"]
     /\ ReleaseClaims(j, fence[j])
     /\ UNCHANGED <<fence, owner, lease, attempt, maxAttempts, wait, author,
                    slotRows, workVars>>
  \/ /\ status[j] = "running"
     /\ status' = [status EXCEPT ![j] = "cancel_requested"]
     /\ UNCHANGED <<fence, owner, lease, attempt, maxAttempts, wait, author,
                    claimVars, slotRows, workVars>>

\* WRONG: the lease of a running job is not looked at.
RequeueableRunning(j) == status[j] \in {"failed", "retry_wait", "running"}

\* requeue takes a failed or waiting job, or a running one nobody leases.
Requeueable(j) ==
  \/ status[j] \in {"failed", "retry_wait"}
  \/ status[j] = "running" /\ Expired(lease[j])

\* GREATEST(max_attempts, attempt + 1): a requeued job may run once more.
RequeuedBudget(j) ==
  IF attempt[j] + 1 > maxAttempts[j] THEN attempt[j] + 1 ELSE maxAttempts[j]

Requeue(j) ==
  /\ Requeueable(j)
  /\ fence[j] < MaxFence[j]
  /\ KeyFree(j)
  /\ status' = [status EXCEPT ![j] = "queued"]
  /\ fence' = [fence EXCEPT ![j] = @ + 1]
  /\ owner' = [owner EXCEPT ![j] = NoWorker]
  /\ lease' = [lease EXCEPT ![j] = NoLease]
  /\ maxAttempts' = [maxAttempts EXCEPT ![j] = RequeuedBudget(j)]
  /\ wait' = [wait EXCEPT ![j] = 0]
  /\ ReleaseClaims(j, fence[j])
  /\ UNCHANGED <<attempt, author, slotRows, workVars>>
-----------------------------------------------------------------------------
(* JobService.claim.                                                       *)

\* WRONG: a cancel whose holder died is not recovered.
DeadUnleased(j) == status[j] \in Leased /\ lease[j] = NoLease

\* Attempts nobody can finish any more: a cancel whose lease ran out, and a
\* row that is active without a lease.
Dead(j) ==
  \/ status[j] = "cancel_requested" /\ Expired(lease[j])
  \/ status[j] \in Leased /\ lease[j] = NoLease

DeadIn(pool) == {j \in Job : PoolOf[j] = pool /\ Dead(j)}

\* First transaction: recover_dead_attempts for the rows in dead, then
\* release_non_authoritative_claims.
Sweep(w, dead) ==
  LET lost(j, f, o) == \/ j \in dead
                       \/ status[j] \in Terminal
                       \/ f # fence[j] \/ o # owner[j]
  IN
  /\ phase[w] = "idle"
  /\ phase' = [phase EXCEPT ![w] = "listing"]
  /\ status' = [j \in Job |-> IF j \notin dead THEN status[j]
                              ELSE IF status[j] = "cancel_requested"
                                   THEN "cancelled" ELSE "failed"]
  /\ fence' = [j \in Job |-> IF j \in dead THEN fence[j] + 1 ELSE fence[j]]
  /\ owner' = [j \in Job |-> IF j \in dead THEN NoWorker ELSE owner[j]]
  /\ lease' = [j \in Job |-> IF j \in dead THEN NoLease ELSE lease[j]]
  /\ slot' = [s \in Slot |->
        IF slot[s].job \in Job /\ lost(slot[s].job, slot[s].fence, slot[s].owner)
        THEN FreeSlot ELSE slot[s]]
  /\ lock' = [k \in LockKey |-> [j \in Job |->
        IF lock[k][j].mode # "none" /\ lost(j, lock[k][j].fence, lock[k][j].owner)
        THEN NoLock ELSE lock[k][j]]]
  /\ UNCHANGED <<attempt, maxAttempts, wait, author, slotRows,
                 attempts, candidates>>

\* A sweep ends some of the dead attempts: it takes at most 128 of a kind, and
\* passes over rows that are locked.
RecoverDead(w) == \E dead \in SUBSET DeadIn(PoolOf[w]) : Sweep(w, dead)

\* WRONG: a running job is never taken over.
ClaimableWaiting(w, j) ==
  /\ PoolOf[j] = PoolOf[w]
  /\ status[j] \in {"queued", "retry_wait"} /\ wait[j] = 0
  /\ fence[j] < MaxFence[j]

\* The WHERE clause of claim.  Bound: a job at MaxFence is not claimed again.
Claimable(w, j) ==
  /\ PoolOf[j] = PoolOf[w]
  /\ \/ status[j] \in {"queued", "retry_wait"} /\ wait[j] = 0
     \/ status[j] = "running" /\ Expired(lease[j])
  /\ fence[j] < MaxFence[j]

\* ORDER BY: expired running jobs first, then priority; the ties the code
\* breaks by age are left open.
Precedes(c, d) ==
  \/ c.reclaim /\ ~d.reclaim
  \/ c.reclaim = d.reclaim /\ Priority[c.job] < Priority[d.job]

Listed(w) == {[job |-> j, reclaim |-> status[j] = "running"] :
                j \in {i \in Job : Claimable(w, i)}}

\* Second transaction: read the first CandidateLimit claimable jobs.
ListCandidates(w) ==
  /\ phase[w] = "listing"
  /\ \E C \in SUBSET Listed(w) :
       /\ Cardinality(C) = CandidateLimit \/ (C = Listed(w) /\ Cardinality(C) < CandidateLimit)
       /\ \A c \in C, d \in Listed(w) \ C : ~Precedes(d, c)
       /\ candidates' = [candidates EXCEPT ![w] = C]
       /\ phase' = [phase EXCEPT ![w] = IF C = {} THEN "idle" ELSE "trying"]
  /\ UNCHANGED <<rowVars, claimVars, slotRows, attempts>>

\* WRONG: a retry goes on under the fence of the attempt that failed.
NextFenceOfRetry(j) == IF status[j] = "retry_wait" THEN fence[j] ELSE fence[j] + 1

\* The fence of a new attempt.
NextFence(j) == fence[j] + 1

\* The rest of claim's transaction when the row, its slots and its locks are free.
Take(w, j) ==
  /\ Claimable(w, j)
  /\ LocksAvailable(j)
  /\ \E S \in SUBSET UsableSlots(j) : Fits(S, j) /\ Assign(j, NextFence(j), w, S)
  /\ status' = [status EXCEPT ![j] = "running"]
  /\ fence' = [fence EXCEPT ![j] = NextFence(j)]
  /\ owner' = [owner EXCEPT ![j] = w]
  /\ lease' = [lease EXCEPT ![j] = LeaseTicks]
  /\ attempt' = [attempt EXCEPT ![j] = @ + 1]
  /\ attempts' = attempts \cup {[job |-> j, worker |-> w, fence |-> NextFence(j)]}
  /\ phase' = [phase EXCEPT ![w] = "idle"]
  /\ candidates' = [candidates EXCEPT ![w] = {}]
  /\ UNCHANGED <<maxAttempts, wait, author, slotRows>>

\* A candidate is passed over when it is no longer claimable, when a slot or a
\* lock it needs is held, and also when its row or a slot row it needs is
\* locked at that moment: the last can be so for any candidate.
Skip(w, c) ==
  /\ candidates' = [candidates EXCEPT ![w] = @ \ {c}]
  /\ phase' = [phase EXCEPT ![w] = IF candidates[w] = {c} THEN "idle" ELSE @]
  /\ UNCHANGED <<rowVars, claimVars, slotRows, attempts>>

\* The candidates that may be next; age decides between them.
Foremost(w) == {c \in candidates[w] : \A d \in candidates[w] : ~Precedes(d, c)}

\* One transaction for the next candidate: the row is read again, because it
\* was listed in an earlier transaction.
TryCandidate(w) ==
  /\ phase[w] = "trying"
  /\ \E c \in Foremost(w) : Take(w, c.job) \/ Skip(w, c)

\* A database error ends a claim between two of its transactions; the worker
\* logs it and claims again in its next round.
AbandonClaim(w) ==
  /\ phase[w] \in {"listing", "trying"}
  /\ phase' = [phase EXCEPT ![w] = "idle"]
  /\ candidates' = [candidates EXCEPT ![w] = {}]
  /\ UNCHANGED <<rowVars, claimVars, slotRows, attempts>>
-----------------------------------------------------------------------------
(* What the holder of a claim may do.                                      *)

\* WRONG: the ended row still names its worker.
EndAttemptKeepingOwner(a, s) ==
  /\ status' = [status EXCEPT ![a.job] = s]
  /\ owner' = owner
  /\ lease' = [lease EXCEPT ![a.job] = NoLease]
  /\ author' = [author EXCEPT ![a.job] = a.fence]
  /\ ReleaseClaims(a.job, a.fence)

\* Ending an attempt: the row keeps its fence and loses owner and lease.
EndAttempt(a, s) ==
  /\ status' = [status EXCEPT ![a.job] = s]
  /\ owner' = [owner EXCEPT ![a.job] = NoWorker]
  /\ lease' = [lease EXCEPT ![a.job] = NoLease]
  /\ author' = [author EXCEPT ![a.job] = a.fence]
  /\ ReleaseClaims(a.job, a.fence)

\* WRONG: a heartbeat adds to the lease that is left.
RenewedAdding(a) == lease[a.job] + LeaseTicks

\* The lease of a heartbeat starts anew from NOW().
Renewed(a) == LeaseTicks

\* heartbeat: only the supervisor, so only while its process lives.
Heartbeat(a) ==
  /\ phase[a.worker] # "stopped"
  /\ Authoritative(a, Leased)
  /\ lease' = [lease EXCEPT ![a.job] = Renewed(a)]
  /\ ExtendClaims(a)
  /\ UNCHANGED <<status, fence, owner, attempt, maxAttempts, wait, author,
                 slotRows, workVars>>

\* progress (also checkpoints) is accepted while cancelling; set_log_path,
\* publish_partial_artifact and register_fenced_artifacts are not.
WriteRow(a, states) ==
  /\ Authoritative(a, states)
  /\ author' = [author EXCEPT ![a.job] = a.fence]
  /\ UNCHANGED <<status, fence, owner, lease, attempt, maxAttempts, wait,
                 claimVars, slotRows, workVars>>

Progress(a) == WriteRow(a, Leased)
PublishPartial(a) == WriteRow(a, {"running"})

\* _complete: a raise of settle rolls everything back and changes nothing.
Complete(a) ==
  /\ Authoritative(a, {"running"})
  /\ EndAttempt(a, "completed")
  /\ UNCHANGED <<fence, attempt, maxAttempts, wait, slotRows, workVars>>

\* WRONG: one retry too many.
RetryAllowedAtLimit(a, transient) ==
  transient /\ status[a.job] = "running" /\ attempt[a.job] <= maxAttempts[a.job]

\* fail: a transient failure is retried while attempts are left.
RetryAllowed(a, transient) ==
  transient /\ status[a.job] = "running" /\ attempt[a.job] < maxAttempts[a.job]

Fail(a, transient) ==
  LET retry == RetryAllowed(a, transient) IN
  /\ Authoritative(a, Leased)
  /\ EndAttempt(a, IF status[a.job] = "cancel_requested" THEN "cancelled"
                   ELSE IF retry THEN "retry_wait" ELSE "failed")
  /\ wait' = [wait EXCEPT ![a.job] = IF retry THEN RetryTicks ELSE @]
  /\ UNCHANGED <<fence, attempt, maxAttempts, slotRows, workVars>>

\* finalize_cancel is also the runner's answer to JobCancelled.
FinalizeCancel(a) ==
  /\ Authoritative(a, Leased)
  /\ EndAttempt(a, "cancelled")
  /\ UNCHANGED <<fence, attempt, maxAttempts, wait, slotRows, workVars>>
-----------------------------------------------------------------------------
(* The environment: time, configuration, processes.                        *)

Sooner(l) == IF l > 0 THEN l - 1 ELSE l

Tick ==
  /\ lease' = [j \in Job |-> Sooner(lease[j])]
  /\ wait' = [j \in Job |-> Sooner(wait[j])]
  /\ slot' = [s \in Slot |-> [slot[s] EXCEPT !.lease = Sooner(@)]]
  /\ lock' = [k \in LockKey |-> [j \in Job |-> [lock[k][j] EXCEPT !.lease = Sooner(@)]]]
  /\ UNCHANGED <<status, fence, owner, attempt, maxAttempts, author,
                 slotRows, workVars>>

\* configure_resource_slots, before a worker's first claim: missing rows are
\* added, free rows above the capacity are deleted, held ones stay.
RowsConfigured(cap) ==
  {s \in Slot : \/ s[2] <= cap[s[1]]
                \/ s \in slotRows /\ slot[s].job # NoJob}

ConfigureSlots(w, cap) ==
  /\ phase[w] = "starting"
  /\ phase' = [phase EXCEPT ![w] = "idle"]
  /\ slotRows' = RowsConfigured(cap)
  /\ UNCHANGED <<rowVars, claimVars, attempts, candidates>>

\* A worker process stops, in the middle of a claim or not.  Runners it
\* started may live on, so its credentials stay.
WorkerExit(w) ==
  /\ w \in Mortal /\ phase[w] # "stopped"
  /\ phase' = [phase EXCEPT ![w] = "stopped"]
  /\ candidates' = [candidates EXCEPT ![w] = {}]
  /\ UNCHANGED <<rowVars, claimVars, slotRows, attempts>>

Init ==
  /\ status \in {s \in [Job -> {"absent", "running"}] :
                   \A j \in Job : s[j] = "running" => j \in Unleased}
  /\ fence = [j \in Job |-> 0]
  /\ owner = [j \in Job |-> NoWorker]
  /\ lease = [j \in Job |-> NoLease]
  /\ attempt = [j \in Job |-> 0]
  /\ maxAttempts = DeclaredAttempts
  /\ wait = [j \in Job |-> 0]
  /\ author = [j \in Job |-> 0]
  /\ slotRows = {}
  /\ slot = [s \in Slot |-> FreeSlot]
  /\ lock = [k \in LockKey |-> [j \in Job |-> NoLock]]
  /\ attempts = {}
  /\ phase = [w \in Worker |-> "starting"]
  /\ candidates = [w \in Worker |-> {}]

ClaimStep(w) == RecoverDead(w) \/ ListCandidates(w) \/ TryCandidate(w)

HolderStep(a) ==
  \/ Heartbeat(a) \/ Progress(a) \/ PublishPartial(a)
  \/ Complete(a) \/ FinalizeCancel(a)
  \/ \E transient \in BOOLEAN : Fail(a, transient)

Next ==
  \/ \E j \in Job : Enqueue(j) \/ RequestCancel(j) \/ Requeue(j)
  \/ \E w \in Worker :
       \/ ClaimStep(w) \/ AbandonClaim(w) \/ WorkerExit(w)
       \/ \E cap \in CapacityChoices : ConfigureSlots(w, cap)
  \/ \E a \in attempts : HolderStep(a)
  \/ Tick

Spec == Init /\ [][Next]_vars
-----------------------------------------------------------------------------
(* Fairness: time passes; a worker that does not stop goes on configuring   *)
(* and claiming (its poll loop), and its claims do not fail at every round,  *)
(* nor find the rows they could end or take locked every time they look.     *)
(* Every worker, for as long as its process lives, ends the attempts it      *)
(* holds: a runner comes to an end or is killed, and the supervisor that     *)
(* finds it gone finalizes the cancel or fails the job.  Nothing is asked of *)
(* runners' progress calls, of users, or of a process that stopped.          *)

SweepsDead(w) ==
  \E dead \in SUBSET DeadIn(PoolOf[w]) : dead # {} /\ Sweep(w, dead)

TakesCandidate(w) ==
  phase[w] = "trying" /\ \E c \in Foremost(w) : Take(w, c.job)

EndsAttempt(w, j) ==
  /\ phase[w] # "stopped"
  /\ \E a \in attempts :
       /\ a.worker = w /\ a.job = j
       /\ Complete(a) \/ FinalizeCancel(a) \/ \E transient \in BOOLEAN : Fail(a, transient)

Fairness ==
  /\ WF_vars(Tick)
  /\ \A w \in Worker \ Mortal :
       /\ WF_vars(\E cap \in CapacityChoices : ConfigureSlots(w, cap))
       /\ WF_vars(ClaimStep(w)) /\ SF_vars(ListCandidates(w))
       /\ SF_vars(SweepsDead(w)) /\ SF_vars(TakesCandidate(w))
  /\ \A w \in Worker, j \in Job : WF_vars(EndsAttempt(w, j))

FairSpec == Spec /\ Fairness
-----------------------------------------------------------------------------
(* Properties.                                                             *)

SlotHolding == [job : Job \cup {NoJob}, fence : Nat, owner : Worker \cup {NoWorker},
                lease : LeaseValue]
LockHolding == [mode : Mode, fence : Nat, owner : Worker \cup {NoWorker},
                lease : LeaseValue]
Candidate   == [job : Job, reclaim : BOOLEAN]

\* Types: every column keeps its domain.  A lease never exceeds LeaseTicks, nor
\* a wait RetryTicks: every UPDATE that sets one starts it anew from NOW().
TypeOK ==
  /\ status \in [Job -> Status]
  /\ fence \in [Job -> Nat] /\ attempt \in [Job -> Nat] /\ author \in [Job -> Nat]
  /\ maxAttempts \in [Job -> Nat]
  /\ owner \in [Job -> Worker \cup {NoWorker}]
  /\ lease \in [Job -> LeaseValue]
  /\ wait \in [Job -> 0 .. RetryTicks]
  /\ slotRows \subseteq Slot
  /\ slot \in [Slot -> SlotHolding]
  /\ lock \in [LockKey -> [Job -> LockHolding]]
  /\ attempts \subseteq Attempt
  /\ phase \in [Worker -> {"starting", "idle", "listing", "trying", "stopped"}]
  /\ candidates \in [Worker -> SUBSET Candidate]

\* A leased row is one some worker owns; every other row has neither owner nor
\* lease, so no credential can pass _authoritative_claim on it.
LeaseOwned ==
  \A j \in Job :
    /\ owner[j] # NoWorker <=> lease[j] # NoLease
    /\ owner[j] # NoWorker => status[j] \in Leased

SlotsAuthoritative ==
  \A s \in Slot : slot[s].job # NoJob =>
    /\ s \in slotRows
    /\ owner[slot[s].job] = slot[s].owner /\ slot[s].owner # NoWorker
    /\ fence[slot[s].job] = slot[s].fence
    /\ lease[slot[s].job] = slot[s].lease

LocksAuthoritative ==
  \A k \in LockKey, j \in Job : lock[k][j].mode # "none" =>
    /\ owner[j] = lock[k][j].owner /\ lock[k][j].owner # NoWorker
    /\ fence[j] = lock[k][j].fence
    /\ lease[j] = lock[k][j].lease

\* Every slot and lock row belongs to the attempt that now owns the job: same
\* fence, same owner, same expiry, and its slot row still exists.  Ten
\* transactions have to release, move or extend them together; if this holds
\* release_non_authoritative_claims never finds anything to repair.
ClaimsAuthoritative == SlotsAuthoritative /\ LocksAuthoritative

HeldBy(j, r) == {s \in OfResource(slotRows, r) : slot[s].job = j}

\* An owned job holds everything it asked for, never a part: an attempt can
\* lose authority only as a whole, by its fence or its lease.
HoldsAllItNeeds ==
  \A j \in Job : owner[j] # NoWorker =>
    /\ \A r \in Resource : Cardinality(HeldBy(j, r)) = Need[j][r]
    /\ \A k \in LockKey : lock[k][j].mode = LockReq[j][k]

Conflict(i, j) ==
  \E k \in LockKey : /\ LockReq[i][k] = "write"
                     /\ LockReq[j][k] # "none"

\* Two owned jobs never have conflicting locks (a writer and anyone else on a
\* key), also after the lease of one ran out and before anybody recovered it.
LockExclusion ==
  \A i, j \in Job : i # j /\ owner[i] # NoWorker /\ owner[j] # NoWorker
                    => ~Conflict(i, j)

\* One active job for a (kind, artifact_key), whatever enqueues, requeues and
\* recoveries interleave.
OneActivePerKey ==
  \A i, j \in Job : i # j /\ KeyOf[i] = KeyOf[j] /\ KeyOf[i] # NoKey
                    => ~(status[i] \in Active /\ status[j] \in Active)

\* A job that waits to run still has an attempt left: neither a retry nor a
\* requeue parks a job whose budget is spent.
WaitingHasBudget ==
  \A j \in Job : status[j] \in {"queued", "retry_wait"} => attempt[j] < maxAttempts[j]

\* A row's progress or result is written, and a job completed, only under the
\* fence the row has now and before its lease ran out: nothing a superseded
\* attempt still does is recorded.
FencedWrites ==
  [][\A j \in Job :
       \/ author'[j] # author[j]
       \/ status[j] # "completed" /\ status'[j] = "completed"
       => author'[j] = fence[j] /\ fence'[j] = fence[j] /\ Live(lease[j])]_vars

\* Each grant supersedes every earlier grant of its job.
GrantsSupersede ==
  [][\A a \in attempts' \ attempts, b \in attempts :
       a.job = b.job => b.fence < a.fence]_vars

\* While a lease is live nobody takes the job over: claim, recovery and
\* requeue leave its fence alone.
LiveLeaseKeepsFence ==
  [][\A j \in Job : Live(lease[j]) => fence'[j] = fence[j]]_vars

\* A cancel is never undone: a job asked to stop is cancelled by its holder or
\* by recovery; it does not complete, fail, retry, run again or get requeued.
CancelSticks ==
  [][\A j \in Job : status[j] = "cancel_requested"
        => status'[j] \in {"cancel_requested", "cancelled"}]_vars

\* Completed and cancelled are final, and failed ends only by a requeue, which
\* fences out every attempt made before it.
EndedStaysEnded ==
  [][\A j \in Job :
       /\ status[j] \in {"completed", "cancelled"} => status'[j] = status[j]
       /\ status[j] = "failed" /\ status'[j] # "failed"
            => status'[j] = "queued" /\ fence'[j] > fence[j]]_vars

\* A job asked to stop is eventually cancelled, whether its holder finalizes
\* the cancel or died and the lease has to run out first.
CancelEnds ==
  \A j \in Job : status[j] = "cancel_requested" ~> status[j] = "cancelled"

\* A running job without a live lease is eventually reclaimed or ended: one whose
\* lease ran out also when slots and locks are scarce (what it needs is what it
\* still holds), and a row from before leases that no claim would match.
ExpiredRecovered ==
  \A j \in Job :
    (status[j] = "running" /\ ~Live(lease[j]) /\ fence[j] < MaxFence[j])
      ~> ~(status[j] = "running" /\ ~Live(lease[j]))

\* The bound MaxFence, not the code, stops the recovery of an expired job, which
\* goes on holding the slots and locks that others wait for.
Stranded ==
  \E j \in Job :
    /\ status[j] = "running" /\ Expired(lease[j]) /\ fence[j] >= MaxFence[j]
    /\ \/ \E s \in Slot : slot[s].job = j
       \/ \E k \in LockKey : lock[k][j].mode # "none"

\* A queued job is eventually claimed or cancelled: neither the candidate
\* limit nor a dead attempt's slots and locks keep it waiting for ever.
WaitingServed ==
  \A j \in Job :
    (status[j] = "queued" /\ fence[j] < MaxFence[j]) ~> (status[j] # "queued" \/ Stranded)

\* The queue does no more than FencedJob says, whatever happens to workers,
\* slots, locks and leases.
Fenced == INSTANCE FencedJob WITH live <- {j \in Job : Live(lease[j])}
ImplementsFencedJob == Fenced!Spec
=============================================================================
