--------------------------- MODULE JobQueueFencing --------------------------
(***************************************************************************)
(* JobQueue implements FencedJob, and what follows from it about fencing,  *)
(* cancels and final states; retry budgets and dedup by artifact key.  For *)
(* every value of the constants.                                           *)
(***************************************************************************)
EXTENDS JobQueueSafety

-----------------------------------------------------------------------------
(* Every step of JobQueue is a step of FencedJob or leaves its rows alone. *)

InAuthority == {j \in Job : Live(lease[j])}

FencedStep == Fenced!Next \/ UNCHANGED <<status, fence, author, InAuthority>>

\* A row nobody owns has no attempt in authority.
LEMMA UnownedNotLive ==
  ASSUME TypeOK, LeaseOwned, NEW j \in Job, status[j] \notin Leased
  PROVE  ~Live(lease[j])
BY DEF TypeOK, LeaseOwned, LeaseValue, NoLease, Live

LEMMA FencedInit == Init => Fenced!Init
<1> SUFFICES ASSUME Init PROVE Fenced!Init
  OBVIOUS
<1>1. {j \in Job : Live(lease[j])} = {}
  BY DEF Init, NoLease, Live
<1>2. status \in [Job -> {"absent", "running"}]
  BY DEF Init
<1> QED
  BY <1>1, <1>2 DEF Init, Fenced!Init

LEMMA FencedRowSteps ==
  ASSUME TypeOK, LeaseOwned, NEW j \in Job, Enqueue(j) \/ RequestCancel(j) \/ Requeue(j)
  PROVE  FencedStep
<1>1. CASE Enqueue(j)
  <2>1. Fenced!Enqueue(j)
    BY <1>1 DEF Enqueue, Fenced!Enqueue
  <2> QED
    BY <2>1 DEF FencedStep, Fenced!Next
<1>2. CASE RequestCancel(j)
  <2>1. Fenced!Cancel(j)
    BY <1>2 DEF RequestCancel, Fenced!Cancel, Fenced!Waiting
  <2> QED
    BY <2>1 DEF FencedStep, Fenced!Next
<1>3. CASE Requeue(j)
  <2>1. ~Live(lease[j])
    BY <1>3, UnownedNotLive DEF Requeue, Requeueable, Expired, Live, Leased
  <2>2. InAuthority' = InAuthority
    BY <1>3, <2>1 DEF Requeue, InAuthority, TypeOK, Live, NoLease
  <2>3. Fenced!Requeue(j)
    BY <1>3, <2>1, <2>2 DEF Requeue, Requeueable, Fenced!Requeue, InAuthority
  <2> QED
    BY <2>3 DEF FencedStep, Fenced!Next
<1> QED
  BY <1>1, <1>2, <1>3

LEMMA FencedRecoverDead ==
  ASSUME TypeOK, LeaseOwned, NEW w \in Worker, RecoverDead(w)
  PROVE  FencedStep
<1> PICK dead \in SUBSET DeadIn(PoolOf[w]) : Sweep(w, dead)
  BY DEF RecoverDead
<1>1. \A j \in dead : status[j] \in Leased /\ ~Live(lease[j])
  BY DEF DeadIn, Dead, Leased, Live, Expired, NoLease
<1>2. InAuthority' = InAuthority
  BY <1>1 DEF Sweep, InAuthority, Live, NoLease
<1>3. status' = [j \in Job |-> IF j \notin dead THEN status[j]
                               ELSE IF status[j] = "running" THEN "failed" ELSE "cancelled"]
  BY <1>1 DEF Sweep, Leased
<1>4. Fenced!Recover(dead)
  BY <1>1, <1>2, <1>3 DEF Sweep, Fenced!Recover, Fenced!Leased, Leased, InAuthority
<1>5. dead \in SUBSET Job
  BY DEF DeadIn
<1> QED
  BY <1>4, <1>5 DEF FencedStep, Fenced!Next

LEMMA FencedTake ==
  ASSUME TypeOK, LeaseOwned, NEW w \in Worker, NEW j \in Job, Take(w, j)
  PROVE  FencedStep
<1>1. ~Live(lease[j]) /\ status[j] \in {"queued", "retry_wait", "running"}
  BY UnownedNotLive DEF Take, Claimable, Expired, Live, Leased
<1>2. InAuthority' = InAuthority \cup {j}
  BY Constants DEF Take, InAuthority, TypeOK, Live
<1>3. Fenced!Grant(j)
  BY <1>1, <1>2 DEF Take, NextFence, Fenced!Grant, Fenced!Waiting, InAuthority
<1> QED
  BY <1>3 DEF FencedStep, Fenced!Next

LEMMA FencedClaimSteps ==
  ASSUME TypeOK, LeaseOwned, NEW w \in Worker, ClaimStep(w)
  PROVE  FencedStep
<1>1. CASE ListCandidates(w)
  BY <1>1 DEF ListCandidates, rowVars, FencedStep, InAuthority
<1>2. CASE TryCandidate(w)
  <2> PICK c \in candidates[w] : Take(w, c.job) \/ Skip(w, c)
    BY <1>2 DEF TryCandidate, Foremost
  <2>1. c.job \in Job
    BY DEF TypeOK, Candidate
  <2>2. CASE Skip(w, c)
    BY <2>2 DEF Skip, rowVars, FencedStep, InAuthority
  <2> QED
    BY <2>1, <2>2, FencedTake
<1> QED
  BY <1>1, <1>2, FencedRecoverDead DEF ClaimStep

LEMMA FencedEnd ==
  ASSUME TypeOK, NEW a \in Attempt, NEW s \in Terminal \cup {"retry_wait"},
         Authoritative(a, Leased), status[a.job] = "cancel_requested" => s = "cancelled",
         EndAttempt(a, s), UNCHANGED fence
  PROVE  FencedStep
<1>1. /\ a.job \in Job /\ a.fence = fence[a.job]
      /\ Live(lease[a.job]) /\ status[a.job] \in Leased
  BY DEF Authoritative, Attempt
<1>2. InAuthority' = InAuthority \ {a.job}
  BY <1>1 DEF EndAttempt, InAuthority, TypeOK, Live, NoLease
<1>3. Fenced!End(a.job, s)
  BY <1>1, <1>2 DEF EndAttempt, Fenced!End, Fenced!Leased, Fenced!Terminal, Leased, Terminal,
                    InAuthority
<1> QED
  BY <1>1, <1>3 DEF FencedStep, Fenced!Next, Fenced!Terminal, Terminal

LEMMA FencedHolderSteps ==
  ASSUME TypeOK, LeaseOwned, NEW a \in attempts, HolderStep(a)
  PROVE  FencedStep
<1>0. a \in Attempt /\ a.job \in Job
  BY DEF TypeOK, Attempt
<1>1. CASE Heartbeat(a)
  <2>1. InAuthority' = InAuthority
    BY <1>0, <1>1, Constants DEF Heartbeat, Authoritative, Renewed, InAuthority, TypeOK, Live
  <2> QED
    BY <1>1, <2>1 DEF Heartbeat, FencedStep
<1>2. CASE Progress(a) \/ PublishPartial(a)
  <2>1. Fenced!Record(a.job)
    BY <1>0, <1>2 DEF Progress, PublishPartial, WriteRow, Authoritative, Leased,
                      Fenced!Record, Fenced!Leased
  <2> QED
    BY <1>0, <2>1 DEF FencedStep, Fenced!Next
<1>3. CASE Complete(a)
  BY <1>0, <1>3, FencedEnd DEF Complete, Authoritative, Leased, Terminal
<1>4. CASE FinalizeCancel(a)
  BY <1>0, <1>4, FencedEnd DEF FinalizeCancel, Terminal
<1>5. ASSUME NEW transient \in BOOLEAN, Fail(a, transient) PROVE FencedStep
  <2>1. PICK s \in {"cancelled", "retry_wait", "failed"} :
          EndAttempt(a, s) /\ (status[a.job] = "cancel_requested" => s = "cancelled")
    BY <1>5 DEF Fail
  <2> QED
    BY <1>0, <1>5, <2>1, FencedEnd DEF Fail, Terminal
<1> QED
  BY <1>1, <1>2, <1>3, <1>4, <1>5 DEF HolderStep

LEMMA FencedTick == ASSUME TypeOK, Tick PROVE FencedStep
<1> DEFINE J == {j \in Job : lease[j] = 1}
<1>1. InAuthority' = InAuthority \ J
  BY DEF Tick, Sooner, InAuthority, Live, TypeOK, LeaseValue, NoLease
<1>2. Fenced!Expire(J)
  BY <1>1 DEF Tick, Fenced!Expire, InAuthority
<1> QED
  BY <1>2 DEF FencedStep, Fenced!Next

LEMMA FencedNext == ASSUME TypeOK, LeaseOwned, [Next]_vars PROVE FencedStep
<1> USE DEF rowVars, vars, InAuthority, FencedStep
<1>1. ASSUME NEW w \in Worker, AbandonClaim(w) \/ WorkerExit(w) PROVE FencedStep
  BY <1>1 DEF AbandonClaim, WorkerExit
<1>2. ASSUME NEW w \in Worker, NEW cap \in CapacityChoices, ConfigureSlots(w, cap) PROVE FencedStep
  BY <1>2 DEF ConfigureSlots
<1>3. CASE UNCHANGED vars
  BY <1>3
<1> QED
  BY <1>1, <1>2, <1>3, FencedRowSteps, FencedClaimSteps, FencedHolderSteps, FencedTick DEF Next

\* The queue implements FencedJob: no interleaving of claims, heartbeats,
\* recoveries, requeues and late holders does more than that specification.
THEOREM ImplementsFenced == Spec => ImplementsFencedJob
<1>1. TypeOK /\ LeaseOwned /\ [Next]_vars => [Fenced!Next]_(Fenced!jobVars)
  BY FencedNext DEF FencedStep, InAuthority, Fenced!jobVars
<1> QED
  BY <1>1, FencedInit, TypeCorrect, LeasesOwned, PTL DEF Spec, ImplementsFencedJob, Fenced!Spec
-----------------------------------------------------------------------------
(* What FencedJob promises, in terms of rows and leases.                   *)

\* The steps of FencedJob as seen by one job.
LEMMA FencedCases ==
  ASSUME TypeOK, FencedStep, NEW j \in Job
  PROVE  \/ UNCHANGED <<status[j], fence[j], author[j]>>
         \/ status[j] = "absent" /\ status'[j] = "queued" /\ UNCHANGED <<fence[j], author[j]>>
         \/ /\ \/ status[j] \in {"queued", "retry_wait"} /\ status'[j] = "cancelled"
               \/ status[j] = "running" /\ status'[j] = "cancel_requested"
            /\ UNCHANGED <<fence[j], author[j]>>
         \/ /\ status[j] \in {"queued", "retry_wait", "running"} /\ ~Live(lease[j])
            /\ status'[j] = "running" /\ fence'[j] = fence[j] + 1 /\ author'[j] = author[j]
         \/ /\ status[j] \in Leased /\ Live(lease[j]) /\ author'[j] = fence[j]
            /\ UNCHANGED fence[j]
            /\ \/ UNCHANGED status[j]
               \/ /\ status'[j] \in Terminal \cup {"retry_wait"}
                  /\ status[j] = "cancel_requested" => status'[j] = "cancelled"
         \/ /\ status[j] \in Leased /\ ~Live(lease[j]) /\ fence'[j] = fence[j] + 1
            /\ status'[j] = IF status[j] = "running" THEN "failed" ELSE "cancelled"
            /\ author'[j] = author[j]
         \/ /\ status[j] \in {"failed", "retry_wait", "running"} /\ ~Live(lease[j])
            /\ status'[j] = "queued" /\ fence'[j] = fence[j] + 1 /\ author'[j] = author[j]
<1> USE DEF TypeOK, Leased, Terminal
<1>1. CASE UNCHANGED <<status, fence, author, InAuthority>>
  BY <1>1
<1>2. ASSUME NEW i \in Job,
             \/ Fenced!Enqueue(i) \/ Fenced!Cancel(i) \/ Fenced!Grant(i)
             \/ Fenced!Record(i) \/ Fenced!Requeue(i)
             \/ \E s \in Fenced!Terminal \cup {"retry_wait"} : Fenced!End(i, s),
             i # j
      PROVE  UNCHANGED <<status[j], fence[j], author[j]>>
  BY <1>2 DEF Fenced!Enqueue, Fenced!Cancel, Fenced!Grant, Fenced!Record, Fenced!Requeue, Fenced!End
<1>3. CASE Fenced!Enqueue(j)
  BY <1>3 DEF Fenced!Enqueue
<1>4. CASE Fenced!Cancel(j)
  BY <1>4 DEF Fenced!Cancel, Fenced!Waiting
<1>5. CASE Fenced!Grant(j)
  BY <1>5 DEF Fenced!Grant, Fenced!Waiting
<1>6. CASE Fenced!Record(j)
  BY <1>6 DEF Fenced!Record, Fenced!Leased
<1>7. CASE Fenced!Requeue(j)
  BY <1>7 DEF Fenced!Requeue
<1>8. ASSUME NEW s \in Fenced!Terminal \cup {"retry_wait"}, Fenced!End(j, s)
      PROVE  /\ status[j] \in Leased /\ Live(lease[j]) /\ author'[j] = fence[j]
             /\ UNCHANGED fence[j]
             /\ status'[j] \in Terminal \cup {"retry_wait"}
             /\ status[j] = "cancel_requested" => status'[j] = "cancelled"
  BY <1>8 DEF Fenced!End, Fenced!Leased, Fenced!Terminal
<1>9. ASSUME NEW J \in SUBSET Job, Fenced!Expire(J) PROVE UNCHANGED <<status, fence, author>>
  BY <1>9 DEF Fenced!Expire
<1>10. ASSUME NEW J \in SUBSET Job, Fenced!Recover(J)
       PROVE  \/ UNCHANGED <<status[j], fence[j], author[j]>>
              \/ /\ status[j] \in Leased /\ ~Live(lease[j]) /\ fence'[j] = fence[j] + 1
                 /\ status'[j] = IF status[j] = "running" THEN "failed" ELSE "cancelled"
                 /\ author'[j] = author[j]
  BY <1>10 DEF Fenced!Recover, Fenced!Leased
<1> QED
  BY <1>1, <1>2, <1>3, <1>4, <1>5, <1>6, <1>7, <1>8, <1>9, <1>10 DEF FencedStep, Fenced!Next

\* Only the attempt in authority writes a row's progress or result, or
\* completes it.
THEOREM WritesAreFenced == Spec => FencedWrites
<1>1. ASSUME TypeOK, LeaseOwned, [Next]_vars, NEW j \in Job,
             author'[j] # author[j] \/ (status[j] # "completed" /\ status'[j] = "completed")
      PROVE  author'[j] = fence[j] /\ fence'[j] = fence[j] /\ Live(lease[j])
  BY <1>1, FencedNext, FencedCases DEF Leased
<1>2. TypeOK /\ LeaseOwned /\ [Next]_vars
      => [\A j \in Job :
            \/ author'[j] # author[j]
            \/ status[j] # "completed" /\ status'[j] = "completed"
            => author'[j] = fence[j] /\ fence'[j] = fence[j] /\ Live(lease[j])]_vars
  BY <1>1
<1> QED
  BY <1>2, TypeCorrect, LeasesOwned, PTL DEF Spec, FencedWrites

\* A live lease protects the attempt from claims, recovery and requeues.
THEOREM LiveLeasesKeepFences == Spec => LiveLeaseKeepsFence
<1>1. ASSUME TypeOK, LeaseOwned, [Next]_vars, NEW j \in Job, Live(lease[j])
      PROVE  fence'[j] = fence[j]
  BY <1>1, FencedNext, FencedCases
<1>2. TypeOK /\ LeaseOwned /\ [Next]_vars
      => [\A j \in Job : Live(lease[j]) => fence'[j] = fence[j]]_vars
  BY <1>1
<1> QED
  BY <1>2, TypeCorrect, LeasesOwned, PTL DEF Spec, LiveLeaseKeepsFence

\* A job asked to stop can only be cancelled.
THEOREM CancelsStick == Spec => CancelSticks
<1>1. ASSUME TypeOK, LeaseOwned, [Next]_vars, NEW j \in Job, status[j] = "cancel_requested"
      PROVE  status'[j] \in {"cancel_requested", "cancelled"}
  BY <1>1, FencedNext, FencedCases
<1>2. TypeOK /\ LeaseOwned /\ [Next]_vars
      => [\A j \in Job : status[j] = "cancel_requested"
             => status'[j] \in {"cancel_requested", "cancelled"}]_vars
  BY <1>1
<1> QED
  BY <1>2, TypeCorrect, LeasesOwned, PTL DEF Spec, CancelSticks

\* An ended job stays ended, except for a failed one that is requeued.
THEOREM EndedJobsStay == Spec => EndedStaysEnded
<1>1. ASSUME TypeOK, LeaseOwned, [Next]_vars, NEW j \in Job
      PROVE  /\ status[j] \in {"completed", "cancelled"} => status'[j] = status[j]
             /\ status[j] = "failed" /\ status'[j] # "failed"
                  => status'[j] = "queued" /\ fence'[j] > fence[j]
  BY <1>1, FencedNext, FencedCases DEF Leased, TypeOK
<1>2. TypeOK /\ LeaseOwned /\ [Next]_vars
      => [\A j \in Job :
            /\ status[j] \in {"completed", "cancelled"} => status'[j] = status[j]
            /\ status[j] = "failed" /\ status'[j] # "failed"
                 => status'[j] = "queued" /\ fence'[j] > fence[j]]_vars
  BY <1>1
<1> QED
  BY <1>2, TypeCorrect, LeasesOwned, PTL DEF Spec, EndedStaysEnded
-----------------------------------------------------------------------------
(* Grants: no credential runs ahead of its job's fence.                    *)

GrantsBehindRows == \A a \in attempts : a.fence <= fence[a.job]

\* Only a claim grants a credential, under the fence it gives the row.
LEMMA GrantCases ==
  ASSUME TypeOK, [Next]_vars
  PROVE  \/ UNCHANGED attempts
         \/ \E w \in Worker, j \in Job :
              /\ attempts' = attempts \cup {[job |-> j, worker |-> w, fence |-> fence[j] + 1]}
              /\ fence' = [fence EXCEPT ![j] = fence[j] + 1]
<1> USE DEF workVars
<1>1. ASSUME NEW j \in Job, Enqueue(j) \/ RequestCancel(j) \/ Requeue(j) PROVE UNCHANGED attempts
  BY <1>1 DEF Enqueue, RequestCancel, Requeue
<1>2. ASSUME NEW w \in Worker,
             RecoverDead(w) \/ ListCandidates(w) \/ AbandonClaim(w) \/ WorkerExit(w)
      PROVE  UNCHANGED attempts
  BY <1>2 DEF RecoverDead, Sweep, ListCandidates, AbandonClaim, WorkerExit
<1>3. ASSUME NEW w \in Worker, NEW cap \in CapacityChoices, ConfigureSlots(w, cap)
      PROVE  UNCHANGED attempts
  BY <1>3 DEF ConfigureSlots
<1>4. ASSUME NEW a \in attempts, HolderStep(a) PROVE UNCHANGED attempts
  BY <1>4 DEF HolderStep, Heartbeat, Progress, PublishPartial, WriteRow, Complete,
              FinalizeCancel, Fail
<1>5. ASSUME NEW w \in Worker, TryCandidate(w)
      PROVE  \/ UNCHANGED attempts
             \/ \E j \in Job : Take(w, j)
  <2> PICK c \in candidates[w] : Take(w, c.job) \/ Skip(w, c)
    BY <1>5 DEF TryCandidate, Foremost
  <2>1. CASE Skip(w, c)
    BY <2>1 DEF Skip
  <2>2. CASE Take(w, c.job)
    <3>1. c.job \in Job
      BY DEF TypeOK, Candidate
    <3> QED
      BY <2>2, <3>1
  <2> QED
    BY <2>1, <2>2
<1>6. CASE Tick
  BY <1>6 DEF Tick
<1>7. CASE UNCHANGED vars
  BY <1>7 DEF vars
<1> QED
  BY <1>1, <1>2, <1>3, <1>4, <1>5, <1>6, <1>7 DEF Next, ClaimStep, Take, NextFence

\* The fence of a row never falls.
LEMMA FencesRise ==
  ASSUME TypeOK, LeaseOwned, [Next]_vars, NEW j \in Job
  PROVE  fence'[j] >= fence[j]
BY FencedNext, FencedCases DEF TypeOK

LEMMA GrantsNext ==
  TypeOK /\ TypeOK' /\ LeaseOwned /\ GrantsBehindRows /\ [Next]_vars => GrantsBehindRows'
<1> SUFFICES ASSUME TypeOK, TypeOK', LeaseOwned, GrantsBehindRows, [Next]_vars,
                    NEW a \in attempts'
             PROVE  a.fence <= fence'[a.job]
  BY DEF GrantsBehindRows
<1>1. a \in Attempt /\ a.job \in Job /\ a.fence \in Nat
  BY DEF TypeOK, Attempt
<1>2. CASE a \in attempts
  <2>1. fence'[a.job] >= fence[a.job] /\ a.fence <= fence[a.job]
    BY <1>1, <1>2, FencesRise DEF GrantsBehindRows
  <2> QED
    BY <1>1, <2>1 DEF TypeOK
<1>3. CASE a \notin attempts
  BY <1>1, <1>3, GrantCases DEF TypeOK
<1> QED
  BY <1>2, <1>3

\* Each grant supersedes every earlier grant of its job.
THEOREM GrantsRise == Spec => GrantsSupersede
<1>1. Init => GrantsBehindRows
  BY DEF Init, GrantsBehindRows
<1>2. Spec => []GrantsBehindRows
  BY <1>1, GrantsNext, TypeCorrect, LeasesOwned, PTL DEF Spec
<1>3. TypeOK /\ GrantsBehindRows /\ [Next]_vars
      => [\A a \in attempts' \ attempts, b \in attempts :
            a.job = b.job => b.fence < a.fence]_vars
  <2> SUFFICES ASSUME TypeOK, GrantsBehindRows, [Next]_vars,
                      NEW a \in attempts' \ attempts, NEW b \in attempts, a.job = b.job
               PROVE  b.fence < a.fence
    OBVIOUS
  <2>1. b \in Attempt /\ b.job \in Job /\ b.fence \in Nat /\ b.fence <= fence[b.job]
    BY DEF TypeOK, Attempt, GrantsBehindRows
  <2>2. a.fence = fence[a.job] + 1
    BY GrantCases
  <2> QED
    BY <2>1, <2>2 DEF TypeOK
<1> QED
  BY <1>2, <1>3, TypeCorrect, PTL DEF Spec, GrantsSupersede
-----------------------------------------------------------------------------
(* Jobs that become active again, and the budget of jobs that wait.        *)

\* A job becomes active only by being queued, while its key is free and
\* nothing happens to other jobs.
LEMMA ActivatedByKeyFree ==
  ASSUME TypeOK, LeaseOwned, [Next]_vars, NEW j \in Job,
         status[j] \notin Active, status'[j] \in Active
  PROVE  KeyFree(j) /\ \A i \in Job \ {j} : status'[i] = status[i]
<1> USE DEF Active
<1>1. ASSUME NEW i \in Job, Enqueue(i) \/ Requeue(i)
      PROVE  KeyFree(i) /\ \A k \in Job \ {i} : status'[k] = status[k]
  BY <1>1 DEF Enqueue, Requeue, TypeOK
<1>2. ASSUME NEW i \in Job, RequestCancel(i) PROVE FALSE
  BY <1>2 DEF RequestCancel, TypeOK
<1>3. ASSUME NEW w \in Worker, ClaimStep(w) PROVE FALSE
  <2>1. CASE RecoverDead(w)
    BY <2>1 DEF RecoverDead, Sweep, DeadIn, Dead, Leased
  <2>2. CASE ListCandidates(w)
    BY <2>2 DEF ListCandidates, rowVars
  <2>3. CASE TryCandidate(w)
    BY <2>3 DEF TryCandidate, Foremost, Take, Skip, Claimable, rowVars, TypeOK
  <2> QED
    BY <1>3, <2>1, <2>2, <2>3 DEF ClaimStep
<1>4. ASSUME NEW a \in attempts, HolderStep(a) PROVE FALSE
  BY <1>4 DEF HolderStep, Heartbeat, Progress, PublishPartial, WriteRow, Complete,
              FinalizeCancel, Fail, EndAttempt, Authoritative, Leased, TypeOK
<1>5. ASSUME UNCHANGED status PROVE FALSE
  BY <1>5
<1>6. ASSUME NEW i \in Job, Enqueue(i) \/ Requeue(i), i # j PROVE FALSE
  BY <1>1, <1>6
<1>7. CASE \E i \in Job : Enqueue(i) \/ Requeue(i)
  BY <1>1, <1>6, <1>7
<1> QED
  BY <1>2, <1>3, <1>4, <1>5, <1>7
     DEF Next, AbandonClaim, WorkerExit, ConfigureSlots, Tick, vars, rowVars

LEMMA KeysNext ==
  TypeOK /\ LeaseOwned /\ OneActivePerKey /\ [Next]_vars => OneActivePerKey'
<1> SUFFICES ASSUME TypeOK, LeaseOwned, OneActivePerKey, [Next]_vars,
                    NEW i \in Job, NEW j \in Job, i # j, KeyOf[i] = KeyOf[j], KeyOf[i] # NoKey,
                    status'[i] \in Active, status'[j] \in Active
             PROVE  FALSE
  BY DEF OneActivePerKey
<1>1. CASE status[i] \in Active /\ status[j] \in Active
  BY <1>1 DEF OneActivePerKey
<1>2. CASE status[i] \notin Active
  BY <1>2, ActivatedByKeyFree DEF KeyFree
<1>3. CASE status[j] \notin Active
  BY <1>3, ActivatedByKeyFree DEF KeyFree
<1> QED
  BY <1>1, <1>2, <1>3

\* There is at most one active job for each artifact key.
THEOREM KeysAreUnique == Spec => []OneActivePerKey
<1>1. Init => OneActivePerKey
  BY UnleasedAssumption DEF Init, OneActivePerKey, Active
<1> QED
  BY <1>1, KeysNext, TypeCorrect, LeasesOwned, PTL DEF Spec

\* A row that does not exist yet counts as waiting: that is what makes the
\* budget of waiting jobs inductive.
Budgeted ==
  \A j \in Job : status[j] \in {"absent", "queued", "retry_wait"} => attempt[j] < maxAttempts[j]

LEMMA BudgetNext == TypeOK /\ Budgeted /\ [Next]_vars => Budgeted'
<1> SUFFICES ASSUME TypeOK, Budgeted, [Next]_vars PROVE Budgeted'
  OBVIOUS
<1> USE DEF Budgeted
<1>1. ASSUME NEW i \in Job, Enqueue(i) \/ RequestCancel(i) \/ Requeue(i) PROVE Budgeted'
  BY <1>1 DEF Enqueue, RequestCancel, Requeue, RequeuedBudget, TypeOK
<1>2. ASSUME NEW w \in Worker, ClaimStep(w) PROVE Budgeted'
  <2>1. CASE RecoverDead(w)
    BY <2>1 DEF RecoverDead, Sweep
  <2>2. CASE ListCandidates(w)
    BY <2>2 DEF ListCandidates, rowVars
  <2>3. CASE TryCandidate(w)
    <3> PICK c \in candidates[w] : Take(w, c.job) \/ Skip(w, c)
      BY <2>3 DEF TryCandidate, Foremost
    <3>1. CASE Skip(w, c)
      BY <3>1 DEF Skip, rowVars
    <3>2. CASE Take(w, c.job)
      BY <3>2 DEF Take, TypeOK
    <3> QED
      BY <3>1, <3>2
  <2> QED
    BY <1>2, <2>1, <2>2, <2>3 DEF ClaimStep
<1>3. ASSUME NEW a \in attempts, HolderStep(a) PROVE Budgeted'
  <2>0. a \in Attempt /\ a.job \in Job
    BY DEF TypeOK, Attempt
  <2>1. CASE Heartbeat(a) \/ Progress(a) \/ PublishPartial(a)
    BY <2>1 DEF Heartbeat, Progress, PublishPartial, WriteRow
  <2>2. CASE Complete(a) \/ FinalizeCancel(a)
    BY <2>0, <2>2 DEF Complete, FinalizeCancel, EndAttempt, TypeOK
  <2>3. ASSUME NEW transient \in BOOLEAN, Fail(a, transient) PROVE Budgeted'
    BY <2>0, <2>3 DEF Fail, RetryAllowed, EndAttempt, TypeOK
  <2> QED
    BY <1>3, <2>1, <2>2, <2>3 DEF HolderStep
<1>4. CASE UNCHANGED <<status, attempt, maxAttempts>>
  BY <1>4
<1> QED
  BY <1>1, <1>2, <1>3, <1>4 DEF Next, AbandonClaim, WorkerExit, ConfigureSlots, Tick, vars, rowVars

\* A job that waits to run has an attempt left.
THEOREM WaitingJobsHaveBudget == Spec => []WaitingHasBudget
<1>1. Init => Budgeted
  BY Constants DEF Init, Budgeted
<1>2. Budgeted => WaitingHasBudget
  BY DEF Budgeted, WaitingHasBudget
<1> QED
  BY <1>1, <1>2, BudgetNext, TypeCorrect, PTL DEF Spec
=============================================================================
