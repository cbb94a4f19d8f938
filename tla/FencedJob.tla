----------------------------- MODULE FencedJob ------------------------------
(***************************************************************************)
(* What the job queue promises to the code that uses it, without workers,  *)
(* slots, locks or clocks: a job has at most one attempt in authority, the *)
(* one that was granted last, and only that attempt writes to the row.     *)
(*                                                                         *)
(* JobQueue implements this specification; JobArtifacts builds on it.      *)
(* j \in live says that the attempt with the row's fence holds a lease     *)
(* that has not run out.                                                   *)
(***************************************************************************)
EXTENDS Integers

CONSTANT Job

VARIABLES
  status, fence,
  author,   \* fence of the attempt that last wrote the row's progress or result
  live      \* jobs whose current attempt is in authority

jobVars == <<status, fence, author, live>>

Waiting  == {"queued", "retry_wait"}
Leased   == {"running", "cancel_requested"}
Terminal == {"completed", "failed", "cancelled"}
Status   == {"absent"} \cup Waiting \cup Leased \cup Terminal

Enqueue(j) ==
  /\ status[j] = "absent"
  /\ status' = [status EXCEPT ![j] = "queued"]
  /\ UNCHANGED <<fence, author, live>>

Cancel(j) ==
  /\ \/ status[j] \in Waiting   /\ status' = [status EXCEPT ![j] = "cancelled"]
     \/ status[j] = "running"   /\ status' = [status EXCEPT ![j] = "cancel_requested"]
  /\ UNCHANGED <<fence, author, live>>

\* A claim: nobody is in authority, and the new attempt gets a new fence.
Grant(j) ==
  /\ status[j] \in Waiting \cup {"running"} /\ j \notin live
  /\ status' = [status EXCEPT ![j] = "running"]
  /\ fence' = [fence EXCEPT ![j] = @ + 1]
  /\ live' = live \cup {j}
  /\ UNCHANGED author

\* Progress, log path, partial artifact, registered artifacts.
Record(j) ==
  /\ j \in live /\ status[j] \in Leased
  /\ author' = [author EXCEPT ![j] = fence[j]]
  /\ UNCHANGED <<status, fence, live>>

\* Completion, failure, retry or cancellation by the attempt in authority.
End(j, s) ==
  /\ j \in live /\ status[j] \in Leased
  /\ s \in Terminal \cup {"retry_wait"}
  /\ status[j] = "cancel_requested" => s = "cancelled"
  /\ status' = [status EXCEPT ![j] = s]
  /\ author' = [author EXCEPT ![j] = fence[j]]
  /\ live' = live \ {j}
  /\ UNCHANGED fence

\* Leases run out.
Expire(J) ==
  /\ live' = live \ J
  /\ UNCHANGED <<status, fence, author>>

\* Dead attempts are ended for them, under a new fence.
Recover(J) ==
  /\ \A j \in J : status[j] \in Leased /\ j \notin live
  /\ status' = [j \in Job |-> IF j \notin J THEN status[j]
                              ELSE IF status[j] = "running" THEN "failed" ELSE "cancelled"]
  /\ fence' = [j \in Job |-> IF j \in J THEN fence[j] + 1 ELSE fence[j]]
  /\ UNCHANGED <<author, live>>

\* An operator runs a job again, under a new fence.
Requeue(j) ==
  /\ status[j] \in {"failed", "retry_wait", "running"} /\ j \notin live
  /\ status' = [status EXCEPT ![j] = "queued"]
  /\ fence' = [fence EXCEPT ![j] = @ + 1]
  /\ UNCHANGED <<author, live>>

\* Rows of the schema before leases may be running and held by nobody.
Init ==
  /\ status \in [Job -> {"absent", "running"}]
  /\ fence = [j \in Job |-> 0]
  /\ author = [j \in Job |-> 0]
  /\ live = {}

Next ==
  \/ \E j \in Job :
       \/ Enqueue(j) \/ Cancel(j) \/ Grant(j) \/ Record(j) \/ Requeue(j)
       \/ \E s \in Terminal \cup {"retry_wait"} : End(j, s)
  \/ \E J \in SUBSET Job : Expire(J) \/ Recover(J)

Spec == Init /\ [][Next]_jobVars
=============================================================================
