---------------------------- MODULE JobArtifacts ----------------------------
(***************************************************************************)
(* What jobs leave behind: the rows of ws_artifacts                        *)
(* (backend/app/services/job_artifact_records.py), the content-addressed   *)
(* files they point to (object_store.py) and the maintenance job that      *)
(* reconciles, prunes and collects them (job_artifact_service.py,          *)
(* catalog_worker_tasks.py run_artifact_maintenance).                      *)
(*                                                                         *)
(* The jobs themselves are those of FencedJob, which JobQueue implements:  *)
(* their steps are taken from there, through Queue.  All jobs here have    *)
(* one kind and artifact_key, and their handler returns an artifact.  A    *)
(* row is known by its digest.  A comparison has partial, final and ended  *)
(* contents, a release build a dossier and evidence (of the build, or of   *)
(* its failure); an instance with both has the steps of either.            *)
(*                                                                         *)
(* Files are not transactional.  Publishing one looks whether it exists    *)
(* and then touches or creates it; maintenance reads the rows, then looks  *)
(* at one file after the other, then acts: steps of their own, between     *)
(* which anything may happen.  A row is registered in one transaction with *)
(* the step of its job.                                                    *)
(*                                                                         *)
(* Ages are "fresh" or "old": older than the collector's grace period, and *)
(* for rows (lapsed) older than the retention that applies to them.        *)
(***************************************************************************)
EXTENDS Integers, FiniteSets

CONSTANTS
  Job,
  Digest,       \* contents that jobs may produce
  Role,         \* "partial", "final", "ended", "dossier" or "evidence" for each
  EndedOf,      \* what the end hook makes of a partial result
  Losable,      \* files that may vanish from the disk
  ListLimit,    \* rows that list_ready_artifacts returns at most: 10000
  MaxFence,     \* bound: no claim, requeue or recovery of a job past this fence
  MaxPublishing,\* bound: publishers between their first step and registration
  NoDigest, NoJob

ASSUME ArtifactAssumption ==
  /\ Role \in [Digest -> {"partial", "final", "ended", "dossier", "evidence"}]
  /\ EndedOf \in [Digest -> Digest]
  /\ \A d \in Digest : Role[d] = "partial" => Role[EndedOf[d]] = "ended"
  /\ Losable \subseteq Digest /\ ListLimit \in Nat \ {0}
  /\ MaxFence \in [Job -> Nat] /\ MaxPublishing \in Nat
  /\ NoDigest \notin Digest /\ NoJob \notin Job

VARIABLES
  status, fence, author, live,   \* the queue, as FencedJob has it
  result,      \* result_digest of each job row
  row,         \* ws_artifacts by digest
  object,      \* the file of each digest, and its age
  publishing,  \* put_file calls that have looked for their destination
  prepared,    \* published objects whose publisher has not registered them
  hooks,       \* end hooks that have read the job they settle
  upkeep       \* where the maintenance job is

Queue == INSTANCE FencedJob

fileVars == <<object, publishing, prepared>>
vars == <<status, fence, author, live, result, row, hooks, fileVars, upkeep>>

Active == Queue!Waiting \cup Queue!Leased
Ended  == {"failed", "cancelled"}

NoRow == [readiness |-> "none", job |-> NoJob, fence |-> 0,
          invalid |-> FALSE, lapsed |-> FALSE]

\* What references an object: rows that are not invalidated.
Valid(d) == row[d].readiness # "none" /\ ~row[d].invalid

\* An end hook runs after its attempt, outside any fence.
HookFence == -1

\* Attempts of the past go on publishing.  A fence that a requeue or recovery
\* passed over stands for the attempt before it.
PastAndPresent == UNION {[job : {j}, fence : 1 .. fence[j]] : j \in Job}

Publisher == PastAndPresent \cup {[job |-> h.job, fence |-> HookFence] : h \in hooks}
-----------------------------------------------------------------------------
(* Rows: job_artifact_records.py.                                          *)

\* What the handlers declare: partial results, and what an end hook makes of
\* them, are "partial".  All else is "ready", whatever becomes of the job: a
\* release build registers its dossier before it completes, and the evidence
\* of its failure before it fails.
Readiness(d) == IF Role[d] \in {"partial", "ended"} THEN "partial" ELSE "ready"

\* insert_artifact: a row of the same content is taken over.  ON CONFLICT
\* leaves created_at and invalidated_at as they were.
Insert(d, j, f) ==
  row' = [row EXCEPT ![d] =
    [readiness |-> Readiness(d), job |-> j, fence |-> f,
     invalid |-> @.invalid,
     lapsed |-> @.lapsed /\ (@.invalid \/ Readiness(d) = "partial")]]

Invalidated(r) == [r EXCEPT !.readiness = "invalid", !.invalid = TRUE, !.lapsed = FALSE]

\* WRONG: the job is looked at, but not which of its attempts.
AnswersAnyAttempt(d, j) ==
  /\ status[j] = "completed"
  /\ row[d].readiness = "ready" /\ ~row[d].invalid
  /\ row[d].job = j

\* artifact_for_job: the rows that answer for a completed job.
Answers(d, j) ==
  /\ status[j] = "completed"
  /\ row[d].readiness = "ready" /\ ~row[d].invalid
  /\ row[d].job = j /\ row[d].fence = fence[j]

\* The rows reuse_cached_completion chooses from; created_at is left out, so
\* the choice between several is open.  It asks for artifacts of the job's own
\* kind, which dossiers and evidence are not.
Cached == {d \in Digest : Role[d] = "final" /\ \E j \in Job : Answers(d, j)}
-----------------------------------------------------------------------------
(* Jobs: enqueue and the steps of the queue.                               *)

NoActiveJob == \A j \in Job : status[j] \notin Active

\* enqueue answered from the cache: the file is read again before it is
\* trusted, and the row is touched.
EnqueueCached ==
  /\ NoActiveJob
  /\ \E d \in Cached :
       /\ object[d] # "absent"
       /\ row' = [row EXCEPT ![d].lapsed = FALSE]
  /\ UNCHANGED <<status, fence, author, live, result, hooks, fileVars, upkeep>>

\* enqueue of a new job; a cached row whose file is gone is invalidated by
\* the same transaction.
Enqueue(j) ==
  /\ NoActiveJob
  /\ Queue!Enqueue(j)
  /\ \/ Cached = {} /\ UNCHANGED row
     \/ \E d \in Cached :
          /\ object[d] = "absent"
          /\ row' = [row EXCEPT ![d] = Invalidated(@)]
  /\ UNCHANGED <<result, hooks, fileVars, upkeep>>

Cancel(j) ==
  /\ Queue!Cancel(j)
  /\ UNCHANGED <<result, row, hooks, fileVars, upkeep>>

Grant(j) ==
  /\ fence[j] < MaxFence[j]
  /\ Queue!Grant(j)
  /\ UNCHANGED <<result, row, hooks, fileVars, upkeep>>

\* Only a job no other active one stands in for: the unique index.
Requeue(j) ==
  /\ fence[j] < MaxFence[j]
  /\ \A i \in Job \ {j} : status[i] \notin Active
  /\ Queue!Requeue(j)
  /\ UNCHANGED <<result, row, hooks, fileVars, upkeep>>

\* Leases run out, and dead attempts are ended by the next claim.
Expire(j) ==
  /\ j \in live
  /\ Queue!Expire({j})
  /\ UNCHANGED <<result, row, hooks, fileVars, upkeep>>

Recover(j) ==
  /\ fence[j] < MaxFence[j]
  /\ Queue!Recover({j})
  /\ UNCHANGED <<result, row, hooks, fileVars, upkeep>>
-----------------------------------------------------------------------------
(* Publishing objects: ObjectStore.put_file, put_stream, _publish.         *)

Produces(p, d) ==
  IF p.fence = HookFence
  THEN \E h \in hooks : h.job = p.job /\ d = EndedOf[h.read]
  ELSE Role[d] # "ended"

\* destination.exists().  A publisher does one thing at a time.
LookFor(p, d) ==
  /\ Produces(p, d)
  /\ Cardinality(publishing) + Cardinality(prepared) < MaxPublishing
  /\ \A q \in publishing \cup prepared : <<q.job, q.fence>> # <<p.job, p.fence>>
  /\ publishing' = publishing \cup
       {[job |-> p.job, fence |-> p.fence, digest |-> d, seen |-> object[d] # "absent"]}
  /\ UNCHANGED <<status, fence, author, live, result, row, hooks,
                 object, prepared, upkeep>>

\* WRONG: a file that is already there is left as it is.
PublishedUntouched(p) == IF p.seen THEN object[p.digest] ELSE "fresh"

\* A file that was there is touched - if it is gone by now, utime fails and
\* the error is dropped; otherwise the new one is moved into place.  It is as
\* old as its staged copy, which was written just before and counts as fresh.
Published(p) ==
  IF p.seen /\ object[p.digest] = "absent" THEN "absent" ELSE "fresh"

Publish(p) ==
  /\ object' = [object EXCEPT ![p.digest] = Published(p)]
  /\ publishing' = publishing \ {p}
  /\ prepared' = prepared \cup {[job |-> p.job, fence |-> p.fence, digest |-> p.digest]}
  /\ UNCHANGED <<status, fence, author, live, result, row, hooks, upkeep>>
-----------------------------------------------------------------------------
(* Registering them.                                                       *)

InAuthority(p) == p.job \in live /\ p.fence = fence[p.job]

\* publish_partial_artifact.
PublishPartial(p) ==
  /\ InAuthority(p) /\ status[p.job] = "running" /\ Role[p.digest] = "partial"
  /\ Queue!Record(p.job)
  /\ result' = [result EXCEPT ![p.job] = p.digest]
  /\ Insert(p.digest, p.job, p.fence)
  /\ prepared' = prepared \ {p}
  /\ UNCHANGED <<hooks, object, publishing, upkeep>>

Registered(p) == row[p.digest].job = p.job /\ row[p.digest].fence = p.fence

\* register_fenced_artifacts: a row of its own, once, while the job goes on.  A
\* dossier is still to be completed with; evidence is also registered when the
\* job is to be cancelled.  A handler's artifacts are taken one by one.
RegisterFenced(p) ==
  /\ InAuthority(p) /\ ~Registered(p)
  /\ \/ Role[p.digest] = "dossier" /\ status[p.job] = "running" /\ UNCHANGED prepared
     \/ Role[p.digest] = "evidence" /\ prepared' = prepared \ {p}
  /\ Queue!Record(p.job)
  /\ Insert(p.digest, p.job, p.fence)
  /\ UNCHANGED <<result, hooks, object, publishing, upkeep>>

\* complete_artifact: the row is inserted, or again, by the transaction that
\* ends the job.
CompleteArtifact(p) ==
  /\ InAuthority(p) /\ status[p.job] = "running"
  /\ \/ Role[p.digest] = "final"
     \/ Role[p.digest] = "dossier" /\ Registered(p)
  /\ Queue!End(p.job, "completed")
  /\ result' = [result EXCEPT ![p.job] = p.digest]
  /\ Insert(p.digest, p.job, p.fence)
  /\ prepared' = prepared \ {p}
  /\ UNCHANGED <<hooks, object, publishing, upkeep>>

\* A publisher that goes no further: its process dies, its handler fails, or
\* registration is refused because the fence is no longer in authority.
Abandon(p) ==
  /\ prepared' = prepared \ {p}
  /\ hooks' = IF p.fence = HookFence THEN {h \in hooks : h.job # p.job} ELSE hooks
  /\ UNCHANGED <<status, fence, author, live, result, row, object, publishing, upkeep>>

\* fail and finalize_cancel.
EndWithout(j) ==
  /\ \E s \in Ended \cup {"retry_wait"} : Queue!End(j, s)
  /\ UNCHANGED <<result, row, hooks, fileVars, upkeep>>

\* WRONG: result_version is not looked at.
UnsettledAny(j) == status[j] \in Ended /\ result[j] \in Digest

\* Ended with a result of version 1.
Unsettled(j) == status[j] \in Ended /\ result[j] \in Digest /\ Role[result[j]] = "partial"

\* settle_comparison_end, which any supervisor may run, and more than once:
\* reads an ended job that still shows a partial result ...
HookReads(j) ==
  /\ Unsettled(j) /\ object[result[j]] # "absent"
  /\ hooks' = hooks \cup {[job |-> j, read |-> result[j]]}
  /\ UNCHANGED <<status, fence, author, live, result, row, fileVars, upkeep>>

\* WRONG: only the result is compared; a requeued job may show the same one.
UnchangedSinceByDigest(h) == result[h.job] = h.read

UnchangedSince(h) == status[h.job] \in Ended /\ result[h.job] = h.read

\* ... and replaces it, publish_ended_result, if it is still the one it read.
PublishEndedResult(h, p) ==
  /\ p.fence = HookFence /\ p.job = h.job
  /\ IF UnchangedSince(h)
     THEN /\ result' = [result EXCEPT ![h.job] = p.digest]
          /\ Insert(p.digest, h.job, fence[h.job])
     ELSE UNCHANGED <<result, row>>
  /\ hooks' = hooks \ {h}
  /\ prepared' = prepared \ {p}
  /\ UNCHANGED <<status, fence, author, live, object, publishing, upkeep>>
-----------------------------------------------------------------------------
(* Maintenance: reconcile, prune, collect.                                 *)

\* stage, the digests read from rows, and the one that was looked at and is
\* about to be invalidated or removed.
Idle == [stage |-> "idle", listed |-> {}, judged |-> NoDigest]

\* referenced_object_paths: every row not invalidated.
Referenced == {d \in Digest : Valid(d)}

LimitedOf(S) == {L \in SUBSET S : Cardinality(L) = ListLimit}

\* WRONG: only what completed jobs left is looked at.
ListedCompleted ==
  LET done == {d \in Referenced : status[row[d].job] = "completed"}
  IN  IF Cardinality(done) <= ListLimit THEN {done} ELSE LimitedOf(done)

\* What list_ready_artifacts may return: the rows not invalidated, those that
\* were not accessed for longest if they are too many (any may be those).
Listed == IF Cardinality(Referenced) <= ListLimit THEN {Referenced} ELSE LimitedOf(Referenced)

StartUpkeep ==
  /\ upkeep = Idle
  /\ \E L \in Listed :
       upkeep' = [stage |-> "reconcile", listed |-> L, judged |-> NoDigest]
  /\ UNCHANGED <<status, fence, author, live, result, row, hooks, fileVars>>

\* is_file() of the next listed row's object ...
Inspect(d) ==
  /\ upkeep.stage = "reconcile" /\ upkeep.judged = NoDigest /\ d \in upkeep.listed
  /\ upkeep' = [upkeep EXCEPT !.listed = @ \ {d},
                              !.judged = IF object[d] = "absent" THEN d ELSE NoDigest]
  /\ UNCHANGED <<status, fence, author, live, result, row, hooks, fileVars>>

\* ... and invalidate_artifact, by the row's id.
InvalidateArtifact ==
  /\ upkeep.stage = "reconcile" /\ upkeep.judged # NoDigest
  /\ row' = [row EXCEPT ![upkeep.judged] = IF Valid(upkeep.judged) THEN Invalidated(@) ELSE @]
  /\ upkeep' = [upkeep EXCEPT !.judged = NoDigest]
  /\ UNCHANGED <<status, fence, author, live, result, hooks, fileVars>>

\* WRONG: only the rows of completed jobs are dropped.
PrunableCompleted(d) ==
  row[d].readiness # "none" /\ (row[d].invalid \/ status[row[d].job] = "completed")

\* Rows that retention applies to: invalidated ones, and those of ended jobs.
Prunable(d) ==
  row[d].readiness # "none" /\ (row[d].invalid \/ status[row[d].job] \in Queue!Terminal)

\* prune_artifact_metadata.
Prune ==
  /\ upkeep.stage = "reconcile" /\ upkeep.judged = NoDigest /\ upkeep.listed = {}
  /\ row' = [d \in Digest |-> IF Prunable(d) /\ row[d].lapsed THEN NoRow ELSE row[d]]
  /\ upkeep' = [upkeep EXCEPT !.stage = "pruned"]
  /\ UNCHANGED <<status, fence, author, live, result, hooks, fileVars>>

\* referenced_object_paths, the first step of collect_unreferenced.
ReadReferences ==
  /\ upkeep.stage = "pruned"
  /\ upkeep' = [stage |-> "collect", listed |-> Referenced, judged |-> NoDigest]
  /\ UNCHANGED <<status, fence, author, live, result, row, hooks, fileVars>>

\* Files the walk would stop at.  One that is not old when the walk passes it
\* does not become old during the walk (see Age).
Garbage == {d \in Digest : object[d] = "old"} \ upkeep.listed

\* stat() of a file no row referred to, which turns out to be old ...
LookAt(d) ==
  /\ upkeep.stage = "collect" /\ upkeep.judged = NoDigest /\ d \in Garbage
  /\ upkeep' = [upkeep EXCEPT !.judged = d]
  /\ UNCHANGED <<status, fence, author, live, result, row, hooks, fileVars>>

\* ... and unlink().
Unlink ==
  /\ upkeep.stage = "collect" /\ upkeep.judged # NoDigest
  /\ object' = [object EXCEPT ![upkeep.judged] = "absent"]
  /\ upkeep' = [upkeep EXCEPT !.judged = NoDigest]
  /\ UNCHANGED <<status, fence, author, live, result, row, hooks,
                 publishing, prepared>>

EndUpkeep ==
  /\ upkeep.stage = "collect" /\ upkeep.judged = NoDigest /\ Garbage = {}
  /\ upkeep' = Idle
  /\ UNCHANGED <<status, fence, author, live, result, row, hooks, fileVars>>
-----------------------------------------------------------------------------
(* Time and the disk.                                                      *)

\* An attempt in authority, or an end hook, is about to register the file of d.
Awaited(d) ==
  \E p \in prepared : p.digest = d /\ (InAuthority(p) \/ p.fence = HookFence)

\* A file outlives the grace period.  That is a day: assumed to be longer than
\* it takes from publishing to registering.  And not during a run of the
\* collector, which fixes its cutoff when it starts.
Age(d) ==
  /\ object[d] = "fresh" /\ ~Awaited(d) /\ upkeep.stage # "collect"
  /\ object' = [object EXCEPT ![d] = "old"]
  /\ UNCHANGED <<status, fence, author, live, result, row, hooks,
                 publishing, prepared, upkeep>>

\* A row outlives the retention that applies to it.
Lapse(d) ==
  /\ Prunable(d) /\ ~row[d].lapsed
  /\ row' = [row EXCEPT ![d].lapsed = TRUE]
  /\ UNCHANGED <<status, fence, author, live, result, hooks, fileVars, upkeep>>

\* A file is lost: a disk failure, a restore from an older backup.
Lose(d) ==
  /\ d \in Losable /\ object[d] # "absent"
  /\ object' = [object EXCEPT ![d] = "absent"]
  /\ UNCHANGED <<status, fence, author, live, result, row, hooks,
                 publishing, prepared, upkeep>>

Init ==
  /\ Queue!Init /\ status = [j \in Job |-> "absent"]
  /\ result = [j \in Job |-> NoDigest]
  /\ row = [d \in Digest |-> NoRow]
  /\ object = [d \in Digest |-> "absent"]
  /\ publishing = {} /\ prepared = {} /\ hooks = {}
  /\ upkeep = Idle

JobStep(j) ==
  \/ Enqueue(j) \/ Cancel(j) \/ Grant(j) \/ Requeue(j)
  \/ Expire(j) \/ Recover(j) \/ EndWithout(j) \/ HookReads(j)

Upkeep ==
  \/ StartUpkeep \/ InvalidateArtifact \/ Prune
  \/ ReadReferences \/ Unlink \/ EndUpkeep
  \/ \E d \in Digest : Inspect(d) \/ LookAt(d)

Next ==
  \/ EnqueueCached
  \/ \E j \in Job : JobStep(j)
  \/ \E p \in Publisher, d \in Digest : LookFor(p, d)
  \/ \E p \in publishing : Publish(p)
  \/ \E p \in prepared :
       \/ PublishPartial(p) \/ RegisterFenced(p) \/ CompleteArtifact(p) \/ Abandon(p)
       \/ \E h \in hooks : PublishEndedResult(h, p)
  \/ Upkeep
  \/ \E d \in Digest : Age(d) \/ Lapse(d) \/ Lose(d)

Spec == Init /\ [][Next]_vars
-----------------------------------------------------------------------------
(* Fairness: the maintenance job is run again and again and gets to its    *)
(* end, time passes, and an end hook that has published goes on or dies.   *)
(* Nothing is asked of jobs and users.                                     *)

HookGoesOn ==
  \E p \in prepared : p.fence = HookFence /\ (Abandon(p) \/ \E h \in hooks : PublishEndedResult(h, p))

FairSpec ==
  /\ Spec
  /\ WF_vars(Upkeep) /\ WF_vars(HookGoesOn)
  /\ \A d \in Digest : SF_vars(Age(d)) /\ WF_vars(Lapse(d))
-----------------------------------------------------------------------------
(* Properties.                                                             *)

Row == [readiness : {"none", "partial", "ready", "invalid"}, job : Job \cup {NoJob},
        fence : Nat, invalid : BOOLEAN, lapsed : BOOLEAN]
Prepared == [job : Job, fence : Nat \cup {HookFence}, digest : Digest]

\* Types: in particular a row always names the job it came from, and a hook
\* only ever holds a partial result.
TypeOK ==
  /\ status \in [Job -> Queue!Status] /\ fence \in [Job -> Nat] /\ live \subseteq Job
  /\ author \in [Job -> Nat]
  /\ result \in [Job -> Digest \cup {NoDigest}]
  /\ row \in [Digest -> Row]
  /\ \A d \in Digest : row[d].readiness # "none" => row[d].job \in Job
  /\ object \in [Digest -> {"absent", "fresh", "old"}]
  /\ publishing \subseteq [job : Job, fence : Nat \cup {HookFence}, digest : Digest, seen : BOOLEAN]
  /\ prepared \subseteq Prepared
  /\ hooks \subseteq [job : Job, read : {d \in Digest : Role[d] = "partial"}]
  /\ upkeep \in [stage : {"idle", "reconcile", "pruned", "collect"},
                 listed : SUBSET Digest, judged : Digest \cup {NoDigest}]

\* Rows are "ready" long before their job completes, and stay so when it does
\* not: a dossier, the evidence of a failure.  All the same a row comes to answer
\* for a job only by the step that completes it, and only the rows of the very
\* attempt that takes it: what an attempt registered that failed, or was
\* superseded, never passes for the result of a later one, and neither hooks
\* nor maintenance nor an attempt that is late make a row answer.
AnswersBegin ==
  [][\A d \in Digest, j \in Job : ~Answers(d, j) /\ Answers(d, j)'
       => /\ status[j] = "running" /\ status'[j] = "completed"
          /\ j \in live /\ row'[d].fence = fence[j]]_vars

\* End hooks write without a fence, so what they read may be out of date: the
\* result of a job that was requeued, runs or completed meanwhile is changed
\* by the attempt in authority and by nobody else.
UnfencedOnlyEnded ==
  [][\A j \in Job : result'[j] # result[j] /\ status[j] \notin Ended
       => j \in live /\ author'[j] = fence[j]]_vars

\* The collector removes garbage: no valid row refers to the file and neither
\* an attempt in authority nor an end hook is about to register it - unless it
\* was reused between the collector's look at its age and the removal (see
\* ReuseRestartsGrace).
CollectsGarbage ==
  [][\A d \in Digest :
       Unlink /\ upkeep.judged = d /\ object[d] = "old" => ~Valid(d) /\ ~Awaited(d)]_vars

Dangling(d) == Valid(d) /\ object[d] = "absent"

\* A valid row whose file is gone does not stay that way, as long as there are
\* no more rows than one listing returns.  Beyond the limit the same rows may be
\* listed each time, and a dangling one never.
DanglingNoticed ==
  \A d \in Digest : Dangling(d) ~> ~Dangling(d) \/ Cardinality(Referenced) > ListLimit

LeftBehind(d) == Valid(d) /\ status[row[d].job] \in Ended

\* What a failed or cancelled job published or registered is eventually
\* reclaimed, row and file, unless the job or the content is taken up again
\* (or the row is pinned by a release, which is not followed here).
EndedReclaimed ==
  \A d \in Digest :
    LeftBehind(d) ~> \/ row[d] = NoRow /\ object[d] = "absent"
                     \/ row[d] # NoRow /\ ~LeftBehind(d)
                     \/ \E p \in publishing \cup prepared : p.digest = d

\* job_artifact_records.py:230, artifact_for_job: "Return the authoritative
\* artifact for a completed fenced execution."  A job that completes with an
\* artifact has one to return.
CompletionAnswers ==
  [][\A j \in Job : status[j] = "running" /\ status'[j] = "completed"
                    => \E d \in Digest : Answers(d, j)']_vars

\* object_store.py:182: "A reused object restarts its grace period: its new
\* owner's metadata may not be committed yet when the collector runs."
ReuseRestartsGrace ==
  [][\A d \in Digest : Unlink /\ upkeep.judged = d => object[d] # "fresh"]_vars
=============================================================================
