------------------------- MODULE JobArtifactsProofs -------------------------
(***************************************************************************)
(* Proofs about JobArtifacts, for every set of jobs and contents.          *)
(***************************************************************************)
EXTENDS JobArtifacts, TLAPS

-----------------------------------------------------------------------------
(* Types.                                                                  *)

QueueType ==
  /\ status \in [Job -> Queue!Status] /\ fence \in [Job -> Nat] /\ live \subseteq Job
  /\ author \in [Job -> Nat]

RowType ==
  /\ row \in [Digest -> Row]
  /\ \A d \in Digest : row[d].readiness # "none" => row[d].job \in Job

\* A step of the queue keeps its rows well typed.
LEMMA QueueStepType ==
  ASSUME QueueType, Queue!Next
  PROVE  QueueType'
<1> USE DEF QueueType, Queue!Status, Queue!Waiting, Queue!Leased, Queue!Terminal
<1>1. ASSUME NEW j \in Job, Queue!Enqueue(j) \/ Queue!Cancel(j) \/ Queue!Grant(j)
                            \/ Queue!Record(j) \/ Queue!Requeue(j)
      PROVE  QueueType'
  BY <1>1 DEF Queue!Enqueue, Queue!Cancel, Queue!Grant, Queue!Record, Queue!Requeue
<1>2. ASSUME NEW j \in Job, NEW s \in Queue!Terminal \cup {"retry_wait"}, Queue!End(j, s)
      PROVE  QueueType'
  BY <1>2 DEF Queue!End
<1>3. ASSUME NEW J \in SUBSET Job, Queue!Expire(J) PROVE QueueType'
  BY <1>3 DEF Queue!Expire
<1>4. ASSUME NEW J \in SUBSET Job, Queue!Recover(J) PROVE QueueType'
  <2>1. status' \in [Job -> Queue!Status]
    BY <1>4 DEF Queue!Recover
  <2>2. fence' \in [Job -> Nat]
    BY <1>4 DEF Queue!Recover
  <2> QED
    BY <1>4, <2>1, <2>2 DEF Queue!Recover
<1> QED
  BY <1>1, <1>2, <1>3, <1>4 DEF Queue!Next

LEMMA InsertType ==
  ASSUME RowType, NEW d \in Digest, NEW j \in Job, NEW f \in Nat, Insert(d, j, f)
  PROVE  RowType'
<1>1. row[d] \in Row /\ Readiness(d) \in {"partial", "ready"}
  BY DEF RowType, Readiness
<1>2. /\ row[d].invalid \in BOOLEAN
      /\ (row[d].lapsed /\ (row[d].invalid \/ Readiness(d) = "partial")) \in BOOLEAN
  BY <1>1, Zenon DEF Row
<1>3. [readiness |-> Readiness(d), job |-> j, fence |-> f, invalid |-> row[d].invalid,
       lapsed |-> row[d].lapsed /\ (row[d].invalid \/ Readiness(d) = "partial")] \in Row
  BY <1>1, <1>2 DEF Row
<1> QED
  BY <1>1, <1>3 DEF Insert, RowType

LEMMA InvalidatedType ==
  ASSUME NEW r \in Row
  PROVE  Invalidated(r) \in Row /\ Invalidated(r).job = r.job
BY DEF Invalidated, Row

LEMMA NoRowType == NoRow \in Row
BY DEF NoRow, Row

PublishType ==
  /\ object \in [Digest -> {"absent", "fresh", "old"}]
  /\ publishing \subseteq [job : Job, fence : Nat \cup {HookFence}, digest : Digest, seen : BOOLEAN]
  /\ prepared \subseteq Prepared
  /\ hooks \subseteq [job : Job, read : {d \in Digest : Role[d] = "partial"}]

UpkeepType ==
  upkeep \in [stage : {"idle", "reconcile", "pruned", "collect"},
              listed : SUBSET Digest, judged : Digest \cup {NoDigest}]

TypeByParts ==
  /\ QueueType /\ RowType /\ PublishType /\ UpkeepType
  /\ result \in [Job -> Digest \cup {NoDigest}]

\* The parts of TypeOK that the steps change separately.
LEMMA TypeParts ==
  /\ TypeOK <=> TypeByParts
  /\ TypeOK' <=> TypeByParts'
BY DEF TypeOK, TypeByParts, QueueType, RowType, PublishType, UpkeepType

LEMMA InitType == Init => TypeOK
<1> SUFFICES ASSUME Init PROVE TypeOK
  OBVIOUS
<1>1. QueueType
  BY DEF Init, Queue!Init, QueueType, Queue!Status
<1>2. RowType
  BY NoRowType DEF Init, RowType, NoRow
<1>3. PublishType /\ UpkeepType
  BY DEF Init, PublishType, UpkeepType, Idle
<1> QED
  BY <1>1, <1>2, <1>3, TypeParts DEF Init, TypeByParts

LEMMA JobStepType ==
  ASSUME TypeOK, NEW j \in Job, JobStep(j)
  PROVE  TypeOK'
<1> USE TypeParts DEF fileVars, TypeByParts
<1>1. CASE Enqueue(j)
  <2>1. QueueType'
    BY <1>1, QueueStepType DEF Enqueue, Queue!Next
  <2>2. RowType'
    <3>1. CASE UNCHANGED row
      BY <3>1 DEF RowType
    <3>2. ASSUME NEW d \in Digest, row' = [row EXCEPT ![d] = Invalidated(@)], d \in Cached
          PROVE  RowType'
      <4>1. row[d] \in Row /\ row[d].job \in Job
        BY <3>2 DEF RowType, Cached, Answers
      <4>2. Invalidated(row[d]) \in Row /\ Invalidated(row[d]).job \in Job
        BY <4>1, InvalidatedType
      <4> QED
        BY <3>2, <4>2 DEF RowType
    <3> QED
      BY <1>1, <3>1, <3>2 DEF Enqueue, Cached
  <2> QED
    BY <1>1, <2>1, <2>2 DEF Enqueue, PublishType, UpkeepType
<1>2. CASE HookReads(j)
  <2>1. [job |-> j, read |-> result[j]] \in [job : Job, read : {d \in Digest : Role[d] = "partial"}]
    BY <1>2 DEF HookReads, Unsettled
  <2> QED
    BY <1>2, <2>1 DEF HookReads, PublishType, QueueType, RowType, UpkeepType
<1>3. CASE Cancel(j) \/ Grant(j) \/ Requeue(j) \/ Expire(j) \/ Recover(j) \/ EndWithout(j)
  <2>1. Queue!Next
    <3>1. CASE Cancel(j) \/ Grant(j) \/ Requeue(j)
      BY <3>1 DEF Cancel, Grant, Requeue, Queue!Next
    <3>2. CASE Expire(j) \/ Recover(j)
      BY <3>2 DEF Expire, Recover, Queue!Next
    <3>3. CASE EndWithout(j)
      BY <3>3 DEF EndWithout, Ended, Queue!Next, Queue!Terminal
    <3> QED
      BY <1>3, <3>1, <3>2, <3>3
  <2>2. QueueType'
    BY <2>1, QueueStepType
  <2> QED
    BY <1>3, <2>2 DEF Cancel, Grant, Requeue, Expire, Recover, EndWithout,
                      RowType, PublishType, UpkeepType
<1> QED
  BY <1>1, <1>2, <1>3 DEF JobStep

LEMMA PublisherStepType ==
  ASSUME TypeOK
  PROVE  /\ \A p \in Publisher, d \in Digest : LookFor(p, d) => TypeOK'
         /\ \A p \in publishing : Publish(p) => TypeOK'
         /\ \A p \in prepared : Abandon(p) => TypeOK'
<1> USE TypeParts DEF TypeByParts
<1>1. ASSUME NEW p \in Publisher, NEW d \in Digest, LookFor(p, d) PROVE TypeOK'
  <2>1. p.job \in Job /\ p.fence \in Nat \cup {HookFence}
    <3>1. CASE p \in PastAndPresent
      <4>1. PICK j \in Job : p \in [job : {j}, fence : 1 .. fence[j]]
        BY <3>1 DEF PastAndPresent
      <4>2. p.job = j /\ p.fence \in 1 .. fence[j]
        BY <4>1
      <4>3. fence[j] \in Nat
        BY DEF QueueType
      <4>4. p.fence \in Nat
        BY <4>2, <4>3
      <4>5. p.job \in Job
        BY <4>2, Zenon
      <4> QED
        BY <4>4, <4>5, Zenon
    <3>2. CASE \E h \in hooks : p = [job |-> h.job, fence |-> HookFence]
      BY <3>2 DEF PublishType
    <3> QED
      BY <3>1, <3>2, Zenon DEF Publisher
  <2>2. (object[d] # "absent") \in BOOLEAN
    BY Zenon
  <2>3. [job |-> p.job, fence |-> p.fence, digest |-> d, seen |-> object[d] # "absent"]
          \in [job : Job, fence : Nat \cup {HookFence}, digest : Digest, seen : BOOLEAN]
    BY <2>1, <2>2, Zenon
  <2> QED
    BY <1>1, <2>3 DEF LookFor, QueueType, RowType, PublishType, UpkeepType
<1>2. ASSUME NEW p \in publishing, Publish(p) PROVE TypeOK'
  <2>1. p \in [job : Job, fence : Nat \cup {HookFence}, digest : Digest, seen : BOOLEAN]
    BY DEF PublishType
  <2>2. [job |-> p.job, fence |-> p.fence, digest |-> p.digest] \in Prepared
    BY <2>1 DEF Prepared
  <2> QED
    BY <1>2, <2>1, <2>2 DEF Publish, Published, QueueType, RowType, PublishType, UpkeepType
<1>3. ASSUME NEW p \in prepared, Abandon(p) PROVE TypeOK'
  BY <1>3 DEF Abandon, QueueType, RowType, PublishType, UpkeepType
<1> QED
  BY <1>1, <1>2, <1>3

LEMMA RegisterStepType ==
  ASSUME TypeOK, NEW p \in prepared,
         \/ PublishPartial(p) \/ RegisterFenced(p) \/ CompleteArtifact(p)
         \/ \E h \in hooks : PublishEndedResult(h, p)
  PROVE  TypeOK'
<1> USE TypeParts DEF TypeByParts
<1>0. p.job \in Job /\ p.digest \in Digest
  BY DEF PublishType, Prepared
<1>1. CASE PublishPartial(p) \/ RegisterFenced(p) \/ CompleteArtifact(p)
  <2>1. Queue!Next
    BY <1>0, <1>1 DEF PublishPartial, RegisterFenced, CompleteArtifact, Queue!Next, Queue!Terminal
  <2>2. QueueType'
    BY <2>1, QueueStepType
  <2>3. p.fence \in Nat
    BY <1>0, <1>1 DEF PublishPartial, RegisterFenced, CompleteArtifact, InAuthority, QueueType
  <2>4. RowType'
    BY <1>0, <1>1, <2>3, InsertType DEF PublishPartial, RegisterFenced, CompleteArtifact
  <2> QED
    BY <1>0, <1>1, <2>2, <2>4 DEF PublishPartial, RegisterFenced, CompleteArtifact,
                                  PublishType, UpkeepType
<1>2. ASSUME NEW h \in hooks, PublishEndedResult(h, p) PROVE TypeOK'
  <2>1. h.job \in Job /\ fence[h.job] \in Nat
    BY DEF PublishType, QueueType
  <2>2. RowType'
    <3>1. CASE Insert(p.digest, h.job, fence[h.job])
      BY <1>0, <2>1, <3>1, InsertType
    <3>2. CASE UNCHANGED row
      BY <3>2 DEF RowType
    <3> QED
      BY <1>2, <3>1, <3>2 DEF PublishEndedResult
  <2> QED
    BY <1>0, <1>2, <2>1, <2>2 DEF PublishEndedResult, QueueType, PublishType, UpkeepType
<1> QED
  BY <1>1, <1>2

LEMMA UpkeepStepType ==
  ASSUME TypeOK, Upkeep
  PROVE  TypeOK'
<1> USE TypeParts DEF fileVars, TypeByParts
<1>1. Referenced \subseteq Digest /\ \A L \in Listed : L \subseteq Digest
  BY DEF Referenced, Listed, LimitedOf
<1>2. CASE InvalidateArtifact
  <2> DEFINE d == upkeep.judged
  <2>1. d \in Digest /\ row[d] \in Row
    BY <1>2 DEF InvalidateArtifact, UpkeepType, RowType
  <2>2. Valid(d) => Invalidated(row[d]) \in Row /\ Invalidated(row[d]).job \in Job
    BY <2>1, InvalidatedType DEF RowType, Valid
  <2>3. RowType'
    BY <1>2, <2>1, <2>2 DEF InvalidateArtifact, RowType
  <2> QED
    BY <1>2, <2>3 DEF InvalidateArtifact, QueueType, PublishType, UpkeepType
<1>3. CASE Prune
  <2>1. RowType'
    BY <1>3, NoRowType DEF Prune, RowType, NoRow
  <2> QED
    BY <1>3, <2>1 DEF Prune, QueueType, PublishType, UpkeepType
<1>4. CASE Unlink
  BY <1>4 DEF Unlink, QueueType, RowType, PublishType, UpkeepType
<1>5. CASE StartUpkeep \/ ReadReferences \/ EndUpkeep
  BY <1>1, <1>5 DEF StartUpkeep, ReadReferences, EndUpkeep, Idle,
                    UpkeepType, QueueType, RowType, PublishType
<1>6. ASSUME NEW d \in Digest, Inspect(d) \/ LookAt(d) PROVE TypeOK'
  <2> DEFINE seen == IF object[d] = "absent" THEN d ELSE NoDigest
  <2>1. UpkeepType'
    <3>1. CASE Inspect(d)
      <4>1. seen \in Digest \cup {NoDigest}
        OBVIOUS
      <4>2. upkeep' = [upkeep EXCEPT !.listed = @ \ {d}, !.judged = seen]
        BY <3>1 DEF Inspect
      <4> HIDE DEF seen
      <4> QED
        BY <4>1, <4>2 DEF UpkeepType
    <3>2. CASE LookAt(d)
      BY <3>2 DEF LookAt, UpkeepType
    <3> QED
      BY <1>6, <3>1, <3>2
  <2>2. UNCHANGED <<status, fence, author, live, result, row, hooks, object, publishing, prepared>>
    BY <1>6 DEF Inspect, LookAt
  <2> QED
    BY <2>1, <2>2 DEF QueueType, RowType, PublishType
<1> QED
  BY <1>2, <1>3, <1>4, <1>5, <1>6, Zenon DEF Upkeep

LEMMA TimeStepType ==
  ASSUME TypeOK, NEW d \in Digest, Age(d) \/ Lapse(d) \/ Lose(d)
  PROVE  TypeOK'
<1> USE TypeParts DEF fileVars, TypeByParts
<1>1. CASE Lapse(d)
  <2>1. row[d] \in Row /\ [row[d] EXCEPT !.lapsed = TRUE] \in Row
    BY DEF RowType, Row
  <2> QED
    BY <1>1, <2>1 DEF Lapse, QueueType, RowType, PublishType, UpkeepType
<1>2. CASE Age(d) \/ Lose(d)
  BY <1>2 DEF Age, Lose, QueueType, RowType, PublishType, UpkeepType
<1> QED
  BY <1>1, <1>2

LEMMA EnqueueCachedType == ASSUME TypeOK, EnqueueCached PROVE TypeOK'
<1> USE TypeParts DEF fileVars, TypeByParts
<1>1. PICK d \in Cached : row' = [row EXCEPT ![d].lapsed = FALSE]
  BY DEF EnqueueCached
<1>2. d \in Digest /\ row[d] \in Row /\ [row[d] EXCEPT !.lapsed = FALSE] \in Row
  BY DEF RowType, Row, Cached
<1>3. RowType'
  BY <1>1, <1>2 DEF RowType
<1> QED
  BY <1>3 DEF EnqueueCached, QueueType, PublishType, UpkeepType

LEMMA NextType == TypeOK /\ [Next]_vars => TypeOK'
<1> SUFFICES ASSUME TypeOK, [Next]_vars PROVE TypeOK'
  OBVIOUS
<1>1. CASE UNCHANGED vars
  BY <1>1 DEF vars, fileVars, TypeOK
<1>2. CASE EnqueueCached \/ \E j \in Job : JobStep(j)
  BY <1>2, EnqueueCachedType, JobStepType
<1>3. CASE \E p \in Publisher, d \in Digest : LookFor(p, d)
  BY <1>3, PublisherStepType
<1>4. CASE \E p \in publishing : Publish(p)
  BY <1>4, PublisherStepType
<1>5. CASE \E p \in prepared : \/ PublishPartial(p) \/ RegisterFenced(p) \/ CompleteArtifact(p)
                               \/ Abandon(p)
                               \/ \E h \in hooks : PublishEndedResult(h, p)
  BY <1>5, PublisherStepType, RegisterStepType
<1>6. CASE Upkeep \/ \E d \in Digest : Age(d) \/ Lapse(d) \/ Lose(d)
  BY <1>6, UpkeepStepType, TimeStepType
<1> QED
  BY <1>1, <1>2, <1>3, <1>4, <1>5, <1>6 DEF Next

\* Every reachable state is well typed.
THEOREM ArtifactTypes == Spec => []TypeOK
BY InitType, NextType, PTL DEF Spec
-----------------------------------------------------------------------------
(* Results: only the attempt in authority writes one, but for end hooks.   *)

\* A step that changes results registers an object, and which.
LEMMA ResultSteps ==
  ASSUME [Next]_vars
  PROVE  \/ UNCHANGED result
         \/ \E p \in prepared : PublishPartial(p) \/ CompleteArtifact(p)
         \/ \E p \in prepared, h \in hooks : PublishEndedResult(h, p)
<1>1. CASE UNCHANGED vars
  BY <1>1 DEF vars
<1>2. CASE EnqueueCached
  BY <1>2 DEF EnqueueCached
<1>3. CASE \E j \in Job : JobStep(j)
  BY <1>3 DEF JobStep, Enqueue, Cancel, Grant, Requeue, Expire, Recover, EndWithout, HookReads
<1>4. CASE \E p \in Publisher, d \in Digest : LookFor(p, d)
  BY <1>4 DEF LookFor
<1>5. CASE \E p \in publishing : Publish(p)
  BY <1>5 DEF Publish
<1>6. CASE \E p \in prepared : Abandon(p) \/ RegisterFenced(p)
  BY <1>6 DEF Abandon, RegisterFenced
<1>7. CASE Upkeep
  BY <1>7 DEF Upkeep, StartUpkeep, InvalidateArtifact, Prune, ReadReferences, Unlink,
              EndUpkeep, Inspect, LookAt
<1>8. CASE \E d \in Digest : Age(d) \/ Lapse(d) \/ Lose(d)
  BY <1>8 DEF Age, Lapse, Lose
<1> QED
  BY <1>1, <1>2, <1>3, <1>4, <1>5, <1>6, <1>7, <1>8, Zenon DEF Next

UnfencedOnlyEndedStep ==
  \A j \in Job : result'[j] # result[j] /\ status[j] \notin Ended
    => j \in live /\ author'[j] = fence[j]

LEMMA UnfencedWrites == TypeOK /\ [Next]_vars => UnfencedOnlyEndedStep
<1> SUFFICES ASSUME TypeOK, [Next]_vars, NEW j \in Job,
                    result'[j] # result[j], status[j] \notin Ended
             PROVE  j \in live /\ author'[j] = fence[j]
  BY DEF UnfencedOnlyEndedStep
<1>1. ASSUME NEW p \in prepared, PublishPartial(p) \/ CompleteArtifact(p)
      PROVE  j \in live /\ author'[j] = fence[j]
  <2>1. p.job = j /\ j \in live
    BY <1>1 DEF PublishPartial, CompleteArtifact, InAuthority, TypeOK
  <2>2. author' = [author EXCEPT ![j] = fence[j]]
    BY <1>1, <2>1 DEF PublishPartial, CompleteArtifact, Queue!Record, Queue!End
  <2> QED
    BY <2>1, <2>2 DEF TypeOK
<1>2. ASSUME NEW p \in prepared, NEW h \in hooks, PublishEndedResult(h, p) PROVE FALSE
  BY <1>2 DEF PublishEndedResult, UnchangedSince, TypeOK
<1> QED
  BY <1>1, <1>2, ResultSteps

\* A result that is not an ended job's is written by the attempt in authority
\* and by nobody else, whatever hooks are under way.
THEOREM HooksKeepOff == Spec => UnfencedOnlyEnded
<1>1. TypeOK /\ [Next]_vars => [UnfencedOnlyEndedStep]_vars
  BY UnfencedWrites
<1> QED
  BY <1>1, ArtifactTypes, PTL DEF Spec, UnfencedOnlyEnded, UnfencedOnlyEndedStep
-----------------------------------------------------------------------------
(* Who registers what, and what that does to jobs and rows.                *)

\* What a hook publishes can only be the result of an ended job.
HooksPublishEnded ==
  \A p \in publishing \cup prepared : p.fence = HookFence => Role[p.digest] = "ended"

LEMMA HooksInit == Init => HooksPublishEnded
BY DEF Init, HooksPublishEnded

LEMMA HooksStep == TypeOK /\ HooksPublishEnded /\ [Next]_vars => HooksPublishEnded'
<1> SUFFICES ASSUME TypeOK, HooksPublishEnded, [Next]_vars PROVE HooksPublishEnded'
  OBVIOUS
<1>1. ASSUME NEW p \in Publisher, NEW d \in Digest, LookFor(p, d) PROVE HooksPublishEnded'
  <2> DEFINE n == [job |-> p.job, fence |-> p.fence, digest |-> d, seen |-> object[d] # "absent"]
  <2>1. p.fence = HookFence => Role[d] = "ended"
    BY <1>1, ArtifactAssumption DEF LookFor, Produces, TypeOK
  <2>2. n.fence = p.fence /\ n.digest = d
    BY Zenon
  <2>3. publishing' = publishing \cup {n} /\ prepared' = prepared
    BY <1>1 DEF LookFor
  <2> HIDE DEF n
  <2> QED
    BY <2>1, <2>2, <2>3 DEF HooksPublishEnded
<1>2. ASSUME NEW p \in publishing, Publish(p) PROVE HooksPublishEnded'
  BY <1>2 DEF Publish, HooksPublishEnded
<1>3. CASE publishing' \subseteq publishing /\ prepared' \subseteq prepared
  BY <1>3 DEF HooksPublishEnded
<1>4. CASE UNCHANGED vars \/ EnqueueCached \/ (\E j \in Job : JobStep(j))
  BY <1>3, <1>4 DEF vars, fileVars, EnqueueCached, JobStep, Enqueue, Cancel, Grant,
                    Requeue, Expire, Recover, EndWithout, HookReads
<1>5. CASE \E p \in prepared : \/ PublishPartial(p) \/ RegisterFenced(p) \/ CompleteArtifact(p)
                               \/ Abandon(p)
                               \/ \E h \in hooks : PublishEndedResult(h, p)
  BY <1>3, <1>5 DEF PublishPartial, RegisterFenced, CompleteArtifact, Abandon, PublishEndedResult
<1>6. CASE Upkeep
  BY <1>3, <1>6 DEF fileVars, Upkeep, StartUpkeep, InvalidateArtifact, Prune, ReadReferences,
                    Unlink, EndUpkeep, Inspect, LookAt
<1>7. CASE \E d \in Digest : Age(d) \/ Lapse(d) \/ Lose(d)
  BY <1>3, <1>7 DEF fileVars, Age, Lapse, Lose
<1> QED
  BY <1>1, <1>2, <1>4, <1>5, <1>6, <1>7, Zenon DEF Next

\* No step of the queue takes a completed job's status or fence from it.
LEMMA CompletedJobsStay ==
  ASSUME QueueType, Queue!Next, NEW j \in Job, status[j] = "completed"
  PROVE  status'[j] = "completed" /\ fence'[j] = fence[j]
<1> USE DEF QueueType, Queue!Waiting, Queue!Leased
<1>1. ASSUME NEW i \in Job, Queue!Enqueue(i) \/ Queue!Cancel(i) \/ Queue!Grant(i)
                            \/ Queue!Record(i) \/ Queue!Requeue(i)
      PROVE  status'[j] = "completed" /\ fence'[j] = fence[j]
  BY <1>1 DEF Queue!Enqueue, Queue!Cancel, Queue!Grant, Queue!Record, Queue!Requeue
<1>2. ASSUME NEW i \in Job, NEW s \in Queue!Terminal \cup {"retry_wait"}, Queue!End(i, s)
      PROVE  status'[j] = "completed" /\ fence'[j] = fence[j]
  BY <1>2 DEF Queue!End
<1>3. ASSUME NEW J \in SUBSET Job, Queue!Expire(J) \/ Queue!Recover(J)
      PROVE  status'[j] = "completed" /\ fence'[j] = fence[j]
  BY <1>3 DEF Queue!Expire, Queue!Recover
<1> QED
  BY <1>1, <1>2, <1>3 DEF Queue!Next

\* The step of a job that is one of the queue's.
LEMMA JobStepOfQueue ==
  ASSUME NEW j \in Job, JobStep(j)
  PROVE  Queue!Next \/ UNCHANGED Queue!jobVars
<1>1. CASE Enqueue(j) \/ Cancel(j) \/ Grant(j) \/ Requeue(j)
  BY <1>1 DEF Enqueue, Cancel, Grant, Requeue, Queue!Next
<1>2. CASE Expire(j) \/ Recover(j)
  BY <1>2 DEF Expire, Recover, Queue!Next
<1>3. CASE EndWithout(j)
  BY <1>3 DEF EndWithout, Ended, Queue!Next, Queue!Terminal
<1> QED
  BY <1>1, <1>2, <1>3 DEF JobStep, HookReads, Queue!jobVars

\* Every step is one of the queue, or leaves the queue alone.
LEMMA QueueSteps == ASSUME TypeOK, [Next]_vars PROVE Queue!Next \/ UNCHANGED Queue!jobVars
<1> USE DEF Queue!jobVars
<1>1. CASE \E j \in Job : JobStep(j)
  BY <1>1, JobStepOfQueue
<1>2. ASSUME NEW p \in prepared, PublishPartial(p) \/ RegisterFenced(p) \/ CompleteArtifact(p)
      PROVE  Queue!Next
  <2>1. p.job \in Job
    BY DEF TypeOK, Prepared
  <2> QED
    BY <1>2, <2>1 DEF PublishPartial, RegisterFenced, CompleteArtifact, Queue!Next, Queue!Terminal
<1>3. CASE UNCHANGED vars \/ EnqueueCached \/ \E p \in Publisher, d \in Digest : LookFor(p, d)
  BY <1>3 DEF vars, EnqueueCached, LookFor
<1>4. CASE (\E p \in publishing : Publish(p)) \/ (\E p \in prepared : Abandon(p))
  BY <1>4 DEF Publish, Abandon
<1>5. CASE \E p \in prepared, h \in hooks : PublishEndedResult(h, p)
  BY <1>5 DEF PublishEndedResult
<1>6. CASE Upkeep
  BY <1>6 DEF Upkeep, StartUpkeep, InvalidateArtifact, Prune, ReadReferences, Unlink,
              EndUpkeep, Inspect, LookAt
<1>7. CASE \E d \in Digest : Age(d) \/ Lapse(d) \/ Lose(d)
  BY <1>7 DEF Age, Lapse, Lose
<1> QED
  BY <1>1, <1>2, <1>3, <1>4, <1>5, <1>6, <1>7, Zenon DEF Next

\* What a step may do to a row: nothing that matters here, take it out of
\* service, or hand it to who registers the content.
Kept(d) ==
  /\ row'[d].readiness = row[d].readiness /\ row'[d].invalid = row[d].invalid
  /\ row'[d].job = row[d].job /\ row'[d].fence = row[d].fence
Dropped(d) == row'[d].readiness = "none" \/ row'[d].invalid
Registers(p) ==
  \/ PublishPartial(p) \/ RegisterFenced(p) \/ CompleteArtifact(p)
  \/ \E h \in hooks : PublishEndedResult(h, p)
Taken(d) == \E p \in prepared : p.digest = d /\ Registers(p)

LEMMA RowSteps ==
  ASSUME TypeOK, [Next]_vars, NEW d \in Digest
  PROVE  Kept(d) \/ Dropped(d) \/ Taken(d)
<1> USE DEF fileVars
<1>0. row \in [Digest -> Row]
  BY DEF TypeOK
<1>1. CASE UNCHANGED row
  BY <1>1 DEF Kept
<1>2. ASSUME NEW e \in Digest, row' = [row EXCEPT ![e] = Invalidated(@)]
      PROVE  Kept(d) \/ Dropped(d)
  BY <1>0, <1>2 DEF Kept, Dropped, Invalidated, Row
<1>3. ASSUME NEW e \in Digest, NEW b, row' = [row EXCEPT ![e].lapsed = b]
      PROVE  Kept(d)
  BY <1>0, <1>3 DEF Kept, Row
<1>4. CASE EnqueueCached
  BY <1>3, <1>4 DEF EnqueueCached, Cached
<1>5. ASSUME NEW j \in Job, JobStep(j) PROVE Kept(d) \/ Dropped(d)
  <2>1. CASE Enqueue(j)
    BY <1>1, <1>2, <2>1 DEF Enqueue, Cached, Kept
  <2>2. CASE UNCHANGED row
    BY <2>2 DEF Kept
  <2> QED
    BY <1>5, <2>1, <2>2 DEF JobStep, Cancel, Grant, Requeue, Expire, Recover, EndWithout, HookReads
<1>6. ASSUME NEW p \in prepared, Registers(p)
      PROVE  Kept(d) \/ Taken(d)
  <2>1. CASE p.digest = d
    BY <1>6, <2>1 DEF Taken
  <2>2. CASE p.digest # d
    <3>1. row'[d] = row[d]
      BY <1>0, <1>6, <2>2 DEF Registers, PublishPartial, RegisterFenced, CompleteArtifact,
                                   PublishEndedResult, Insert
    <3> QED
      BY <3>1 DEF Kept
  <2> QED
    BY <2>1, <2>2
<1>7. CASE Upkeep
  <2>1. CASE InvalidateArtifact
    <3>1. upkeep.judged \in Digest
      BY <2>1 DEF InvalidateArtifact, TypeOK
    <3>2. CASE Valid(upkeep.judged)
      BY <1>2, <2>1, <3>1, <3>2 DEF InvalidateArtifact
    <3>3. CASE ~Valid(upkeep.judged)
      BY <1>0, <2>1, <3>3 DEF InvalidateArtifact, Kept
    <3> QED
      BY <3>2, <3>3
  <2>2. CASE Prune
    BY <2>2 DEF Prune, NoRow, Kept, Dropped
  <2> QED
    BY <1>1, <1>7, <2>1, <2>2 DEF Upkeep, StartUpkeep, ReadReferences, Unlink, EndUpkeep,
                                  Inspect, LookAt
<1>8. CASE \E e \in Digest : Age(e) \/ Lapse(e) \/ Lose(e)
  BY <1>1, <1>3, <1>8 DEF Age, Lapse, Lose
<1>9. CASE UNCHANGED vars \/ \E p \in Publisher, e \in Digest : LookFor(p, e)
  BY <1>1, <1>9 DEF vars, LookFor
<1>10. CASE (\E p \in publishing : Publish(p)) \/ (\E p \in prepared : Abandon(p))
  BY <1>1, <1>10 DEF Publish, Abandon
<1> QED
  BY <1>4, <1>5, <1>6, <1>7, <1>8, <1>9, <1>10, Zenon DEF Next, Registers

-----------------------------------------------------------------------------
(* Jobs with their artifacts are jobs of the queue, and what a completed   *)
(* job left stays.                                                         *)

\* The jobs whose rows, files and hooks are followed here are those FencedJob
\* promises: registering an artifact, reuse of a cached one, end hooks and
\* maintenance add nothing to what the queue may do to a job.  What is proved
\* of FencedJob holds of them, and what JobQueue does is one of their lives.
THEOREM JobsAreFenced == Spec => Queue!Spec
<1>1. Init => Queue!Init
  BY DEF Init
<1>2. TypeOK /\ [Next]_vars => [Queue!Next]_(Queue!jobVars)
  BY QueueSteps
<1> QED
  BY <1>1, <1>2, ArtifactTypes, PTL DEF Spec, Queue!Spec

\* An attempt in authority belongs to a job that is not over.
AuthorityActive == \A j \in live : status[j] \in Queue!Leased

LEMMA AuthorityStep ==
  ASSUME QueueType, AuthorityActive, Queue!Next
  PROVE  AuthorityActive'
<1> USE DEF QueueType, AuthorityActive, Queue!Waiting, Queue!Leased
<1>1. ASSUME NEW j \in Job, Queue!Enqueue(j) \/ Queue!Cancel(j) \/ Queue!Grant(j)
                            \/ Queue!Record(j) \/ Queue!Requeue(j)
      PROVE  AuthorityActive'
  BY <1>1 DEF Queue!Enqueue, Queue!Cancel, Queue!Grant, Queue!Record, Queue!Requeue
<1>2. ASSUME NEW j \in Job, NEW s \in Queue!Terminal \cup {"retry_wait"}, Queue!End(j, s)
      PROVE  AuthorityActive'
  BY <1>2 DEF Queue!End
<1>3. ASSUME NEW J \in SUBSET Job, Queue!Expire(J) \/ Queue!Recover(J)
      PROVE  AuthorityActive'
  BY <1>3 DEF Queue!Expire, Queue!Recover
<1> QED
  BY <1>1, <1>2, <1>3 DEF Queue!Next

\* No partial or ended result is ever ready, and in use.
ReadyWhole ==
  \A d \in Digest : row[d].readiness = "ready" /\ ~row[d].invalid
                    => Role[d] \notin {"partial", "ended"}

LEMMA ReadyWholeStep == TypeOK /\ ReadyWhole /\ [Next]_vars => ReadyWhole'
<1> SUFFICES ASSUME TypeOK, ReadyWhole, [Next]_vars, NEW d \in Digest,
                    row'[d].readiness = "ready", ~row'[d].invalid
             PROVE  Role[d] \notin {"partial", "ended"}
  BY DEF ReadyWhole
<1>0. row \in [Digest -> Row]
  BY DEF TypeOK
<1>1. CASE Kept(d)
  BY <1>1 DEF Kept, ReadyWhole
<1>2. CASE Dropped(d)
  BY <1>2 DEF Dropped
<1>3. ASSUME NEW p \in prepared, p.digest = d, Registers(p)
      PROVE  Role[d] \notin {"partial", "ended"}
  <2>1. CASE UNCHANGED row
    BY <2>1 DEF ReadyWhole
  <2>2. ASSUME NEW j, NEW f, Insert(d, j, f) PROVE Role[d] \notin {"partial", "ended"}
    <3>1. row'[d].readiness = Readiness(d)
      BY <1>0, <2>2 DEF Insert
    <3> QED
      BY <3>1 DEF Readiness
  <2> QED
    BY <1>3, <2>1, <2>2 DEF Registers, PublishPartial, RegisterFenced, CompleteArtifact,
                            PublishEndedResult
<1> QED
  BY <1>1, <1>2, <1>3, RowSteps DEF Taken

\* An attempt in authority, of a job that is not over, registers the content d.
TakenOver(d) ==
  \E i \in live : status[i] \in Queue!Leased /\ row'[d].job = i /\ row'[d].fence = fence[i]

\* A completed job keeps its status, its fence and its result, and a row that
\* answers for it goes on doing so until it is taken out of service or an
\* attempt of another job, in authority, registers or completes with the same
\* content - and then fails, or not.
CompletedKeptStep ==
  \A j \in Job : status[j] = "completed" =>
    /\ status'[j] = "completed" /\ fence'[j] = fence[j] /\ result'[j] = result[j]
    /\ \A d \in Digest : Answers(d, j) => Answers(d, j)' \/ Dropped(d) \/ TakenOver(d)

LEMMA CompletedStep ==
  TypeOK /\ HooksPublishEnded /\ AuthorityActive /\ ReadyWhole /\ [Next]_vars
    => CompletedKeptStep
<1> SUFFICES ASSUME TypeOK, HooksPublishEnded, AuthorityActive, ReadyWhole, [Next]_vars,
                    NEW j \in Job, status[j] = "completed"
             PROVE  /\ status'[j] = "completed" /\ fence'[j] = fence[j]
                    /\ result'[j] = result[j]
                    /\ \A d \in Digest : Answers(d, j) =>
                         Answers(d, j)' \/ Dropped(d) \/ TakenOver(d)
  BY DEF CompletedKeptStep
<1>0. row \in [Digest -> Row] /\ QueueType
  BY DEF TypeOK, QueueType
<1>1. status'[j] = "completed" /\ fence'[j] = fence[j]
  BY <1>0, QueueSteps, CompletedJobsStay DEF Queue!jobVars
<1>2. result'[j] = result[j]
  BY UnfencedWrites DEF UnfencedOnlyEndedStep, Ended, AuthorityActive, Queue!Leased
<1>3. ASSUME NEW d \in Digest, Answers(d, j)
      PROVE  Answers(d, j)' \/ Dropped(d) \/ TakenOver(d)
  <2>0. Role[d] \notin {"partial", "ended"} /\ ~row[d].invalid
    BY <1>3 DEF Answers, ReadyWhole
  <2>1. CASE Kept(d)
    BY <1>1, <1>3, <2>1 DEF Kept, Answers
  <2>2. ASSUME NEW p \in prepared, p.digest = d, Registers(p)
        PROVE  Answers(d, j)' \/ TakenOver(d)
    <3>1. CASE UNCHANGED row
      BY <1>1, <1>3, <3>1 DEF Answers
    <3>2. CASE CompleteArtifact(p) \/ RegisterFenced(p)
      <4>1. p.job \in live /\ status[p.job] \in Queue!Leased
        BY <3>2 DEF CompleteArtifact, RegisterFenced, InAuthority, AuthorityActive
      <4>2. row'[d].job = p.job /\ row'[d].fence = fence[p.job]
        BY <1>0, <2>2, <3>2 DEF CompleteArtifact, RegisterFenced, Insert, InAuthority
      <4> QED
        BY <4>1, <4>2 DEF TakenOver
    <3>3. CASE PublishPartial(p)
      BY <2>0, <2>2, <3>3 DEF PublishPartial
    <3>4. CASE \E h \in hooks : PublishEndedResult(h, p)
      BY <2>0, <2>2, <3>4 DEF PublishEndedResult, HooksPublishEnded
    <3> QED
      BY <2>2, <3>1, <3>2, <3>3, <3>4 DEF Registers
  <2> QED
    BY <2>1, <2>2, RowSteps DEF Taken
<1> QED
  BY <1>1, <1>2, <1>3

LEMMA AuthorityHeld == TypeOK /\ AuthorityActive /\ [Next]_vars => AuthorityActive'
<1> SUFFICES ASSUME TypeOK, AuthorityActive, [Next]_vars PROVE AuthorityActive'
  OBVIOUS
<1>1. QueueType
  BY DEF TypeOK, QueueType
<1>2. CASE UNCHANGED Queue!jobVars
  BY <1>2 DEF Queue!jobVars, AuthorityActive
<1> QED
  BY <1>1, <1>2, QueueSteps, AuthorityStep

LEMMA AuthorityInit == Init => AuthorityActive
BY DEF Init, Queue!Init, AuthorityActive

\* Nothing undoes a completion: no late attempt, no requeue or recovery, no end
\* hook of an earlier life of the job.  Its artifact is served until reconcile
\* or an enqueue finds the file gone, retention drops the row, or an attempt of
\* another job registers the same content, whatever becomes of that attempt.
THEOREM CompletionsStay == Spec => [][CompletedKeptStep]_vars
<1>1. Init => ReadyWhole
  BY DEF Init, ReadyWhole, NoRow
<1>2. TypeOK /\ HooksPublishEnded /\ AuthorityActive /\ ReadyWhole /\ [Next]_vars
      => [CompletedKeptStep]_vars
  BY CompletedStep
<1> QED
  BY <1>1, <1>2, AuthorityInit, AuthorityHeld, HooksInit, HooksStep, ReadyWholeStep,
     ArtifactTypes, PTL DEF Spec

\* Only complete_artifact completes a job.
LEMMA CompletionSteps ==
  ASSUME TypeOK, [Next]_vars, NEW j \in Job,
         status[j] # "completed", status'[j] = "completed"
  PROVE  \E p \in prepared : p.job = j /\ CompleteArtifact(p)
<1>0. status \in [Job -> Queue!Status]
  BY DEF TypeOK
<1>1. ~UNCHANGED status
  OBVIOUS
<1>2. ASSUME NEW i \in Job, JobStep(i) PROVE FALSE
  <2>1. CASE Enqueue(i) \/ Cancel(i) \/ Grant(i) \/ Requeue(i)
    BY <1>0, <2>1 DEF Enqueue, Cancel, Grant, Requeue, Queue!Enqueue, Queue!Cancel,
                      Queue!Grant, Queue!Requeue
  <2>2. CASE Expire(i) \/ Recover(i)
    BY <1>0, <2>2 DEF Expire, Recover, Queue!Expire, Queue!Recover
  <2>3. CASE EndWithout(i)
    BY <1>0, <2>3 DEF EndWithout, Ended, Queue!End
  <2> QED
    BY <1>1, <1>2, <2>1, <2>2, <2>3 DEF JobStep, HookReads
<1>3. ASSUME NEW p \in prepared, CompleteArtifact(p) PROVE p.job = j
  BY <1>0, <1>3 DEF CompleteArtifact, Queue!End
<1>4. ASSUME NEW p \in prepared,
             \/ PublishPartial(p) \/ RegisterFenced(p) \/ Abandon(p)
             \/ \E h \in hooks : PublishEndedResult(h, p)
      PROVE  FALSE
  BY <1>1, <1>4 DEF PublishPartial, RegisterFenced, Queue!Record, Abandon, PublishEndedResult
<1>5. CASE UNCHANGED vars \/ EnqueueCached \/ \E p \in Publisher, d \in Digest : LookFor(p, d)
  BY <1>1, <1>5 DEF vars, EnqueueCached, LookFor
<1>6. CASE \E p \in publishing : Publish(p)
  BY <1>1, <1>6 DEF Publish
<1>7. CASE Upkeep
  BY <1>1, <1>7 DEF Upkeep, StartUpkeep, InvalidateArtifact, Prune, ReadReferences, Unlink,
                    EndUpkeep, Inspect, LookAt
<1>8. CASE \E d \in Digest : Age(d) \/ Lapse(d) \/ Lose(d)
  BY <1>1, <1>8 DEF Age, Lapse, Lose
<1> QED
  BY <1>2, <1>3, <1>4, <1>5, <1>6, <1>7, <1>8, Zenon DEF Next

AnswersBeginStep ==
  \A d \in Digest, j \in Job : ~Answers(d, j) /\ Answers(d, j)'
    => /\ status[j] = "running" /\ status'[j] = "completed"
       /\ j \in live /\ row'[d].fence = fence[j]

LEMMA AnswersBeginHolds == TypeOK /\ AuthorityActive /\ [Next]_vars => AnswersBeginStep
<1> SUFFICES ASSUME TypeOK, AuthorityActive, [Next]_vars, NEW d \in Digest, NEW j \in Job,
                    ~Answers(d, j), Answers(d, j)'
             PROVE  /\ status[j] = "running" /\ status'[j] = "completed"
                    /\ j \in live /\ row'[d].fence = fence[j]
  BY DEF AnswersBeginStep
<1>0. row \in [Digest -> Row] /\ QueueType
  BY DEF TypeOK, QueueType
<1>1. CASE status[j] # "completed"
  <2>1. PICK p \in prepared : p.job = j /\ CompleteArtifact(p)
    BY <1>1, CompletionSteps DEF Answers
  <2>2. status[j] = "running" /\ j \in live /\ fence'[j] = fence[j]
    BY <2>1 DEF CompleteArtifact, InAuthority, Queue!End
  <2> QED
    BY <2>2 DEF Answers
<1>2. CASE status[j] = "completed"
  <2>1. fence'[j] = fence[j] /\ j \notin live
    BY <1>0, <1>2, QueueSteps, CompletedJobsStay DEF Queue!jobVars, AuthorityActive, Queue!Leased
  <2>2. ~Kept(d) /\ ~Dropped(d)
    BY <1>2, <2>1 DEF Kept, Dropped, Answers
  <2>3. PICK p \in prepared : p.digest = d /\ Registers(p)
    BY <2>2, RowSteps DEF Taken
  <2>4. CASE PublishPartial(p) \/ RegisterFenced(p) \/ CompleteArtifact(p)
    <3>1. row'[d].job = p.job /\ p.job \in live
      BY <1>0, <2>3, <2>4 DEF PublishPartial, RegisterFenced, CompleteArtifact, InAuthority, Insert
    <3> QED
      BY <2>1, <3>1 DEF Answers
  <2>5. ASSUME NEW h \in hooks, PublishEndedResult(h, p) PROVE FALSE
    <3>1. ~UNCHANGED row
      BY <2>2 DEF Kept
    <3>2. row'[d].job = h.job /\ status[h.job] \in Ended
      BY <1>0, <2>3, <2>5, <3>1 DEF PublishEndedResult, UnchangedSince, Insert
    <3> QED
      BY <1>2, <3>2 DEF Answers, Ended
  <2> QED
    BY <2>3, <2>4, <2>5 DEF Registers
<1> QED
  BY <1>1, <1>2

\* Whatever attempts registered before they failed or were superseded, and
\* whoever else writes rows: a row comes to answer for a job by the completion
\* of the job, and only if the attempt that completes it registered the row.
THEOREM AnswersBeginAtCompletion == Spec => AnswersBegin
<1>1. TypeOK /\ AuthorityActive /\ [Next]_vars => [AnswersBeginStep]_vars
  BY AnswersBeginHolds
<1> QED
  BY <1>1, AuthorityInit, AuthorityHeld, ArtifactTypes, PTL
     DEF Spec, AnswersBegin, AnswersBeginStep

\* A job completes with the row of its result, which answers for it unless that
\* row was out of service before.
CompletionAnswersStep ==
  \A j \in Job : status[j] # "completed" /\ status'[j] = "completed" =>
    \E d \in Digest : result'[j] = d /\ (Answers(d, j)' \/ row[d].invalid)

\* CompletionAnswers fails where a job takes over a row that was invalidated,
\* and nowhere else: every other completion has the artifact it returns.
THEOREM CompletionsAnswer == Spec => [][CompletionAnswersStep]_vars
<1>1. TypeOK /\ [Next]_vars => [CompletionAnswersStep]_vars
  <2> SUFFICES ASSUME TypeOK, [Next]_vars, NEW j \in Job,
                      status[j] # "completed", status'[j] = "completed"
               PROVE  \E d \in Digest : result'[j] = d /\ (Answers(d, j)' \/ row[d].invalid)
    BY DEF CompletionAnswersStep
  <2>1. PICK p \in prepared : p.job = j /\ CompleteArtifact(p)
    BY CompletionSteps
  <2>2. p.digest \in Digest /\ row \in [Digest -> Row] /\ fence \in [Job -> Nat]
        /\ result \in [Job -> Digest \cup {NoDigest}]
    BY DEF TypeOK, Prepared
  <2>3. result'[j] = p.digest
    BY <2>1, <2>2 DEF CompleteArtifact
  <2>4. /\ row'[p.digest].readiness = "ready"
        /\ row'[p.digest].invalid = row[p.digest].invalid
        /\ row'[p.digest].job = j /\ row'[p.digest].fence = fence[j]
    BY <2>1, <2>2 DEF CompleteArtifact, Insert, Readiness, InAuthority
  <2>5. fence'[j] = fence[j]
    BY <2>1 DEF CompleteArtifact, Queue!End
  <2>6. row'[p.digest].invalid => row[p.digest].invalid
    BY <2>4
  <2> QED
    BY <2>2, <2>3, <2>4, <2>5, <2>6 DEF Answers
<1> QED
  BY <1>1, ArtifactTypes, PTL DEF Spec
-----------------------------------------------------------------------------
(* What the collector removes.                                             *)

\* Attempts of the past, and the one of now: fences are those the row has had.
Passed(p) == p.fence = HookFence \/ p.fence <= fence[p.job]
FencesHeld == \A p \in publishing \cup prepared : Passed(p)

\* What is about to be registered has just been published.
AwaitedIsFresh == \A d \in Digest : Awaited(d) => object[d] # "old"

\* The references a run has read stay good for the files it can still remove:
\* those were old by then, and nobody registers an old file.
ReferencesHold ==
  upkeep.stage = "collect" =>
    /\ upkeep.judged \notin upkeep.listed
    /\ \A d \in Digest : object[d] = "old" /\ d \notin upkeep.listed => ~Valid(d)

LEMMA FencesRise ==
  ASSUME QueueType, Queue!Next \/ UNCHANGED Queue!jobVars, NEW j \in Job
  PROVE  /\ fence[j] <= fence'[j]
         /\ fence'[j] = fence[j] /\ j \in live' => j \in live
<1> USE DEF QueueType
<1>1. CASE UNCHANGED Queue!jobVars
  BY <1>1 DEF Queue!jobVars
<1>2. ASSUME NEW i \in Job, Queue!Enqueue(i) \/ Queue!Cancel(i) \/ Queue!Grant(i)
                            \/ Queue!Record(i) \/ Queue!Requeue(i)
      PROVE  fence[j] <= fence'[j] /\ (fence'[j] = fence[j] /\ j \in live' => j \in live)
  BY <1>2 DEF Queue!Enqueue, Queue!Cancel, Queue!Grant, Queue!Record, Queue!Requeue
<1>3. ASSUME NEW i \in Job, NEW s \in Queue!Terminal \cup {"retry_wait"}, Queue!End(i, s)
      PROVE  fence[j] <= fence'[j] /\ (fence'[j] = fence[j] /\ j \in live' => j \in live)
  BY <1>3 DEF Queue!End
<1>4. ASSUME NEW J \in SUBSET Job, Queue!Expire(J) \/ Queue!Recover(J)
      PROVE  fence[j] <= fence'[j] /\ (fence'[j] = fence[j] /\ j \in live' => j \in live)
  BY <1>4 DEF Queue!Expire, Queue!Recover
<1> QED
  BY <1>1, <1>2, <1>3, <1>4 DEF Queue!Next

\* Where publishers come from: a step adds one that looks for its file, or
\* one that has just published what it looked for.
LEMMA PublisherSteps ==
  ASSUME [Next]_vars
  PROVE  \/ publishing' \subseteq publishing /\ prepared' \subseteq prepared
         \/ \E p \in Publisher, d \in Digest : LookFor(p, d)
         \/ \E p \in publishing : Publish(p)
<1> USE DEF fileVars
<1>1. CASE UNCHANGED vars \/ EnqueueCached \/ (\E j \in Job : JobStep(j))
  BY <1>1 DEF vars, EnqueueCached, JobStep, Enqueue, Cancel, Grant,
              Requeue, Expire, Recover, EndWithout, HookReads
<1>2. CASE \E p \in prepared : \/ PublishPartial(p) \/ RegisterFenced(p) \/ CompleteArtifact(p)
                               \/ Abandon(p)
                               \/ \E h \in hooks : PublishEndedResult(h, p)
  BY <1>2 DEF PublishPartial, RegisterFenced, CompleteArtifact, Abandon, PublishEndedResult
<1>3. CASE Upkeep
  BY <1>3 DEF Upkeep, StartUpkeep, InvalidateArtifact, Prune, ReadReferences,
              Unlink, EndUpkeep, Inspect, LookAt
<1>4. CASE \E d \in Digest : Age(d) \/ Lapse(d) \/ Lose(d)
  BY <1>4 DEF Age, Lapse, Lose
<1> QED
  BY <1>1, <1>2, <1>3, <1>4, Zenon DEF Next

LEMMA PublisherPassed == ASSUME TypeOK, NEW p \in Publisher PROVE Passed(p)
<1>1. CASE p \in PastAndPresent
  <2>1. PICK j \in Job : p \in [job : {j}, fence : 1 .. fence[j]]
    BY <1>1 DEF PastAndPresent
  <2>2. p.job = j /\ p.fence \in 1 .. fence[j]
    BY <2>1
  <2>3. fence[j] \in Nat
    BY DEF TypeOK
  <2> QED
    BY <2>2, <2>3 DEF Passed
<1>2. CASE \E h \in hooks : p = [job |-> h.job, fence |-> HookFence]
  BY <1>2 DEF Passed
<1> QED
  BY <1>1, <1>2, Zenon DEF Publisher

LEMMA FencesHeldStep == TypeOK /\ FencesHeld /\ [Next]_vars => FencesHeld'
<1> SUFFICES ASSUME TypeOK, FencesHeld, [Next]_vars, NEW q \in (publishing \cup prepared)'
             PROVE  Passed(q)'
  BY DEF FencesHeld
<1>1. ASSUME NEW p, p.job \in Job, p.fence \in Nat \cup {HookFence}, Passed(p)
      PROVE  Passed(p)'
  <2>1. fence[p.job] <= fence'[p.job] /\ fence[p.job] \in Nat /\ fence'[p.job] \in Nat
    BY <1>1, QueueSteps, FencesRise, NextType DEF TypeOK, QueueType
  <2> QED
    BY <1>1, <2>1 DEF Passed
<1>2. \A p \in publishing \cup prepared : p.job \in Job /\ p.fence \in Nat \cup {HookFence} /\ Passed(p)
  BY DEF FencesHeld, TypeOK, Prepared
<1>3. CASE publishing' \subseteq publishing /\ prepared' \subseteq prepared
  BY <1>1, <1>2, <1>3
<1>4. ASSUME NEW p \in Publisher, NEW d \in Digest, LookFor(p, d) PROVE Passed(q)'
  <2> DEFINE n == [job |-> p.job, fence |-> p.fence, digest |-> d, seen |-> object[d] # "absent"]
  <2>1. n.job = p.job /\ n.fence = p.fence
    BY Zenon
  <2>2. publishing' = publishing \cup {n} /\ prepared' = prepared
    BY <1>4 DEF LookFor
  <2>3. n \in publishing'
    BY <2>2
  <2>4. n.job \in Job /\ n.fence \in Nat \cup {HookFence}
    BY <2>3, NextType DEF TypeOK
  <2> HIDE DEF n
  <2>5. Passed(n)
    BY <2>1, PublisherPassed DEF Passed
  <2> QED
    BY <1>1, <1>2, <2>2, <2>4, <2>5
<1>5. ASSUME NEW p \in publishing, Publish(p) PROVE Passed(q)'
  <2>1. CASE q \in publishing \cup prepared
    BY <1>1, <1>2, <2>1
  <2>2. CASE q = [job |-> p.job, fence |-> p.fence, digest |-> p.digest]
    <3>1. q.job = p.job /\ q.fence = p.fence
      BY <2>2
    <3>2. Passed(q)
      BY <1>2, <3>1 DEF Passed
    <3> QED
      BY <1>1, <1>2, <3>1, <3>2
  <2> QED
    BY <1>5, <2>1, <2>2 DEF Publish
<1> QED
  BY <1>3, <1>4, <1>5, PublisherSteps

LEMMA ObjectSteps ==
  ASSUME TypeOK, [Next]_vars, NEW d \in Digest, object'[d] = "old"
  PROVE  object[d] = "old" \/ Age(d)
<1> USE DEF fileVars
<1>0. object \in [Digest -> {"absent", "fresh", "old"}]
  BY DEF TypeOK
<1>1. CASE UNCHANGED vars \/ EnqueueCached \/ (\E j \in Job : JobStep(j))
  BY <1>1 DEF vars, EnqueueCached, JobStep, Enqueue, Cancel, Grant,
              Requeue, Expire, Recover, EndWithout, HookReads
<1>2. CASE \E p \in Publisher, e \in Digest : LookFor(p, e)
  BY <1>2 DEF LookFor
<1>3. CASE \E p \in publishing : Publish(p)
  BY <1>0, <1>3 DEF Publish, Published
<1>4. CASE \E p \in prepared : \/ PublishPartial(p) \/ RegisterFenced(p) \/ CompleteArtifact(p)
                               \/ Abandon(p)
                               \/ \E h \in hooks : PublishEndedResult(h, p)
  BY <1>4 DEF PublishPartial, RegisterFenced, CompleteArtifact, Abandon, PublishEndedResult
<1>5. CASE Upkeep
  BY <1>0, <1>5 DEF Upkeep, StartUpkeep, InvalidateArtifact, Prune, ReadReferences,
                    Unlink, EndUpkeep, Inspect, LookAt
<1>6. ASSUME NEW e \in Digest, Age(e) \/ Lapse(e) \/ Lose(e)
      PROVE  object[d] = "old" \/ Age(d)
  BY <1>0, <1>6 DEF Age, Lapse, Lose
<1> QED
  BY <1>1, <1>2, <1>3, <1>4, <1>5, <1>6, Zenon DEF Next

LEMMA AwaitedStep ==
  TypeOK /\ FencesHeld /\ AwaitedIsFresh /\ [Next]_vars => AwaitedIsFresh'
<1> SUFFICES ASSUME TypeOK, FencesHeld, AwaitedIsFresh, [Next]_vars, NEW d \in Digest,
                    NEW p \in prepared', p.digest = d, InAuthority(p)' \/ p.fence = HookFence,
                    object'[d] = "old"
             PROVE  FALSE
  BY DEF AwaitedIsFresh, Awaited
<1>1. CASE p \in prepared
  <2>1. p.job \in Job /\ p.fence \in Nat \cup {HookFence} /\ fence[p.job] \in Nat /\ fence'[p.job] \in Nat
    BY <1>1, NextType DEF TypeOK, Prepared
  <2>2. p.fence = HookFence \/ p.fence <= fence[p.job]
    BY <1>1 DEF FencesHeld, Passed
  <2>3. /\ fence[p.job] <= fence'[p.job]
        /\ fence'[p.job] = fence[p.job] /\ p.job \in live' => p.job \in live
    BY <2>1, QueueSteps, FencesRise DEF TypeOK, QueueType
  <2>4. p.fence = HookFence \/ InAuthority(p)
    BY <2>1, <2>2, <2>3 DEF InAuthority
  <2>5. Awaited(d)
    BY <1>1, <2>4 DEF Awaited
  <2> QED
    BY <2>5, ObjectSteps DEF AwaitedIsFresh, Age
<1>2. CASE p \notin prepared
  <2>1. PICK q \in publishing : Publish(q)
    BY <1>2, PublisherSteps DEF LookFor
  <2>2. p = [job |-> q.job, fence |-> q.fence, digest |-> q.digest]
    BY <1>2, <2>1 DEF Publish
  <2>3. q.digest = d
    BY <2>2
  <2> QED
    BY <2>1, <2>3 DEF Publish, Published, TypeOK
<1> QED
  BY <1>1, <1>2

LEMMA UpkeepSteps ==
  ASSUME [Next]_vars, TypeOK, upkeep'.stage = "collect"
  PROVE  \/ ReadReferences
         \/ /\ upkeep.stage = "collect" /\ upkeep'.listed = upkeep.listed
            /\ upkeep'.judged \in {upkeep.judged, NoDigest} \cup Garbage
<1> DEFINE Goal == \/ ReadReferences
                   \/ /\ upkeep.stage = "collect" /\ upkeep'.listed = upkeep.listed
                      /\ upkeep'.judged \in {upkeep.judged, NoDigest} \cup Garbage
<1>0. UpkeepType
  BY DEF TypeOK, UpkeepType
<1>1. CASE UNCHANGED upkeep
  BY <1>1
<1>2. CASE StartUpkeep \/ InvalidateArtifact \/ Prune \/ ReadReferences \/ Unlink \/ EndUpkeep
  BY <1>0, <1>2 DEF StartUpkeep, InvalidateArtifact, Prune, Unlink, EndUpkeep, Idle, UpkeepType
<1>3. ASSUME NEW d \in Digest, Inspect(d) PROVE FALSE
  <2>1. upkeep'.stage = "reconcile"
    <3> DEFINE seen == IF object[d] = "absent" THEN d ELSE NoDigest
    <3>1. upkeep' = [upkeep EXCEPT !.listed = @ \ {d}, !.judged = seen] /\ upkeep.stage = "reconcile"
      BY <1>3 DEF Inspect
    <3> HIDE DEF seen
    <3> QED
      BY <1>0, <3>1 DEF UpkeepType
  <2> QED
    BY <2>1
<1>4. ASSUME NEW d \in Digest, LookAt(d) PROVE Goal
  BY <1>0, <1>4 DEF LookAt, UpkeepType
<1>5. CASE Upkeep
  BY <1>2, <1>3, <1>4, <1>5, Zenon DEF Upkeep
<1>6. CASE UNCHANGED vars \/ EnqueueCached \/ (\E j \in Job : JobStep(j))
  BY <1>1, <1>6 DEF vars, EnqueueCached, JobStep, Enqueue, Cancel, Grant,
                    Requeue, Expire, Recover, EndWithout, HookReads
<1>7. CASE (\E p \in Publisher, e \in Digest : LookFor(p, e)) \/ (\E p \in publishing : Publish(p))
  BY <1>1, <1>7 DEF LookFor, Publish
<1>8. CASE \E p \in prepared : \/ PublishPartial(p) \/ RegisterFenced(p) \/ CompleteArtifact(p)
                               \/ Abandon(p)
                               \/ \E h \in hooks : PublishEndedResult(h, p)
  BY <1>1, <1>8 DEF PublishPartial, RegisterFenced, CompleteArtifact, Abandon, PublishEndedResult
<1>9. CASE \E e \in Digest : Age(e) \/ Lapse(e) \/ Lose(e)
  BY <1>1, <1>9 DEF Age, Lapse, Lose
<1> QED
  BY <1>5, <1>6, <1>7, <1>8, <1>9, Zenon DEF Next

LEMMA ReferencesStep ==
  TypeOK /\ AwaitedIsFresh /\ ReferencesHold /\ [Next]_vars => ReferencesHold'
<1> SUFFICES ASSUME TypeOK, AwaitedIsFresh, ReferencesHold, [Next]_vars, upkeep'.stage = "collect"
             PROVE  /\ upkeep'.judged \notin upkeep'.listed
                    /\ \A d \in Digest : object'[d] = "old" /\ d \notin upkeep'.listed => ~Valid(d)'
  BY DEF ReferencesHold
<1>1. CASE ReadReferences
  BY <1>1, ArtifactAssumption DEF ReadReferences, Referenced, Valid, fileVars
<1>2. CASE ~ReadReferences
  <2>1. /\ upkeep.stage = "collect" /\ upkeep'.listed = upkeep.listed
        /\ upkeep'.judged \in {upkeep.judged, NoDigest} \cup Garbage
    BY <1>2, UpkeepSteps
  <2>2. upkeep'.judged \notin upkeep'.listed
    BY <2>1, ArtifactAssumption DEF ReferencesHold, Garbage, TypeOK
  <2>3. ASSUME NEW d \in Digest, object'[d] = "old", d \notin upkeep'.listed, Valid(d)'
        PROVE  FALSE
    <3>1. object[d] = "old" /\ ~Valid(d)
      BY <2>1, <2>3, ObjectSteps DEF Age, ReferencesHold
    <3>2. ~Kept(d) /\ ~Dropped(d)
      BY <2>3, <3>1 DEF Kept, Dropped, Valid
    <3>3. PICK p \in prepared : p.digest = d /\ Registers(p)
      BY <3>2, RowSteps DEF Taken
    <3>4. InAuthority(p) \/ p.fence = HookFence
      BY <3>3 DEF Registers, PublishPartial, RegisterFenced, CompleteArtifact, PublishEndedResult
    <3> QED
      BY <3>1, <3>3, <3>4 DEF AwaitedIsFresh, Awaited
  <2> QED
    BY <2>2, <2>3
<1> QED
  BY <1>1, <1>2

CollectsGarbageStep ==
  \A d \in Digest :
    Unlink /\ upkeep.judged = d /\ object[d] = "old" => ~Valid(d) /\ ~Awaited(d)

\* The collector removes what is garbage, and nothing that a row refers to or
\* an attempt in authority or end hook is about to register - as long as the
\* file is the old one it looked at.
THEOREM GarbageOnly == Spec => CollectsGarbage
<1>1. Init => FencesHeld /\ AwaitedIsFresh /\ ReferencesHold
  BY DEF Init, FencesHeld, AwaitedIsFresh, Awaited, ReferencesHold, Idle
<1>2. AwaitedIsFresh /\ ReferencesHold => CollectsGarbageStep
  BY DEF AwaitedIsFresh, ReferencesHold, CollectsGarbageStep, Unlink
<1>3. AwaitedIsFresh /\ ReferencesHold => [CollectsGarbageStep]_vars
  BY <1>2
<1> QED
  BY <1>1, <1>3, FencesHeldStep, AwaitedStep, ReferencesStep, ArtifactTypes, PTL
     DEF Spec, CollectsGarbage, CollectsGarbageStep
=============================================================================
