# A TLA+ model of KiCAD-Prism

KiCAD-Prism is a self-hosted platform for reviewing, releasing and governing
KiCad projects: a FastAPI backend (`src/backend`), a React frontend, two worker
processes (`prism-worker`, `catalog-worker`) and one PostgreSQL database. What
is hard in it is not the HTTP API but what happens behind it: long jobs run in
other processes, those processes die or are late, files are written outside any
transaction, and every part shares the database; and what happens in front of
it: a page whose reads, timers and sockets race with the user and with each
other. This directory models those parts, checks them with TLC and proves their
main safety properties with TLAPS.

Contents: [Inventory](#inventory) - [Plan](#plan) - [Modules](#modules-and-the-code) -
[Runs](#runs) - [Fairness](#fairness) - [Proofs](#proofs) - [Findings](#findings) -
[Abstractions](#abstractions) - [Not modelled](#not-modelled)

## Inventory

Paths are under `src/backend/app/` unless they say otherwise.

**Job queue** - `services/job_service.py`, `job_claims.py`, `job_lease_recovery.py`,
`job_requeue.py`. State: rows of `ws_jobs` (status, fence, owner, lease, attempts,
result), `ws_job_resource_slots`, `ws_job_locks`. Operations: enqueue (with dedup by
artifact key), claim, heartbeat, progress, partial results, rows registered mid-job,
complete, fail, request_cancel, finalize_cancel, requeue, configure slots, and the
recovery sweep that opens every claim. Callers: the API, two kinds of workers and
every runner process. Hard: attempts that outlive their lease and go on; a claim
that spans several transactions; slots and locks that have to move with the row;
operators acting at any time. Correct when only the attempt in authority writes,
claims and row agree, conflicting locks are never held together, cancels and ends
are final, keys are unique among active jobs, and waiting jobs and cancels get
somewhere.

**Worker supervisor and runner** - `prism_worker.py`, `job_runner.py`,
`services/job_runtime.py`, `job_handlers.py`, `process_tree.py`. State: the
supervisor's tables of child processes, kill deadlines and claims it could not
release; the runner's cancel flag. Operations: launch, supervise (heartbeat,
terminate, kill, settle), flush pending releases, shut down. Interacts with the
queue only. Hard: the database away in the middle, a job reclaimed by the
worker whose old child is still alive, end hooks run more than once and by
several workers. Correct when no child is forgotten, no claim is released twice
or never, and hooks do no harm after the job went on.

**Job artifacts and object store** - `services/job_artifact_records.py`,
`job_artifact_service.py`, `object_store.py`, `job_retention.py`,
`catalog_worker_tasks.py` (`run_artifact_maintenance`). State: rows of
`ws_artifacts`, content-addressed files. Operations: publish a file, register it
with a step of a job, answer from the cache, invalidate, prune, collect. Hard:
files are not transactional, the collector and publishers work on the same
ones, rows of one content are taken over by whoever produced it last, and a release
build registers its rows while it runs and may still fail. Correct
when nothing is collected that is needed, nothing is served that no completed
job stands for, and what failed jobs leave is reclaimed.

**Event log and webhooks** - `services/event_log.py`, `services/webhooks/`
(`delivery.py`, `store.py`), the webhook thread of `prism_worker.py`. State:
append-only events with a head row; per webhook a cursor, filters, retry state
and status; a session lock that makes passes one. Operations: record an event,
sweep old ones; create, edit, enable, disable and delete a registration; a
delivery pass, which reads the due registrations once and makes an HTTP call
between two transactions for each event. Hard: the pass works from rows it read
before, an administrator edits them meanwhile, workers crash, the session that
holds the lock is dropped. Correct when no event a registration wanted is passed
over, the order of the log is kept, repeats come from faults only, what is owed is
delivered, and an administrator's change survives.

**Frontend server state** - `src/frontend/src/lib/server-state.ts`. State: an
entry per key (observers, data, error, sequence number, retention timer), the
requests in flight, the microtasks of stop functions, polls. Operations: observe
and stop, read, refresh, invalidate, forget, poll, expire. Hard: every callback
runs between any two others; a response, a timer or a microtask comes for an entry
that was re-created, forgotten or picked up again. Correct when only the newest
request publishes, nothing forgotten comes back, nothing observed is dropped, a
write that was announced is shown, and a poll never stops asking.

**Live comments** - `src/frontend/src/features/live-comments/use-live-comments.ts`,
`src/frontend/src/components/visualizer.tsx`, and in the backend
`services/comment_live_events.py`, `comment_live_broker.py`, `api/comment_live.py`.
State: the change log of a project with its head; subscribers, wakeups and the last
cursor the broker's check saw; per viewer a cursor, the reads in flight, pending
threads, timers and a socket. Operations: a comment write logs its change in its
own transaction and notifies; the socket replays after a cursor or says resync; the
viewer reads a snapshot or single threads, and applies its own writes from their
responses. Hard: a NOTIFY may be lost, the socket drops, reads race with edits and
with what the socket announces. Correct when a reconnect skips nothing the viewer
has not seen, reads never go back in time, and the viewer ends with what is there.

**Idempotency keys** - `core/idempotency.py`, `services/idempotency_store.py`.
State: one row per caller, operation and key. A winner's write, the waits of the
others and expiry race. Correct when a key runs its write
once and answers with that write's response.

**Tracker sync outbox** - `services/trackers/` (`op_store.py`, the executors,
`sweeper.py`, `inbound.py`, `link_lifecycle.py`). State: leased operations and
links to remote issues. A remote call may have happened although its answer was
lost; inbound webhooks and polls echo what was sent. Correct when nothing is
posted twice or lost and links do not resurrect.

**Release builds** - `services/release_build_attempts.py`,
`release_studio_build_service.py`, `release_studio_publish_service.py`. State:
builds, candidates, pins on artifacts. Build, candidate and job have to end
together, in the queue's `settle` callback. Correct when a candidate settles
from its own build and what a release pins is never pruned.

**Catalog release workflow** - `services/catalog/release_workflow.py`,
`workflow_policy.py`, `revision_kernel.py`. State: component revisions and their
release status. Correct when transitions follow the policy under the expected
state the caller saw, and one revision is the released one.

**Sessions** - `services/session_store_service.py`: a touch racing expiry or
revocation. **Design bundles** - `services/design_bundle/`: built once per
revision key. **Comments** - revision-checked writes; their fan-out is above.
**Others** - auth and tokens, git access, project import, compare, MCP, schema
migrations, Simulation Studio, the rest of the frontend, viewer, native parser, SDK, tools,
deployment: see `PROJECT.json` for each and why it is left out.

How they interact: the API enqueues jobs and reads results; workers claim and
start runners; a runner publishes files, then registers them in the transaction
that ends its job, in which feature rows (release builds) settle too; end hooks
run after that, outside any fence; the maintenance job reads the rows of
everybody and deletes files; the event log is written beside all of them and
feeds webhooks, from a thread of each worker process. The page reaches the
backend by HTTP reads kept in the server state, and by the sockets of live
comments; a comment write is one transaction with the change that the sockets
announce.

`PROJECT.json` lists the hazards, each at its line, with the property that would
notice.

## Plan

Done, each checked and its safety proved, most important first:

1. `JobQueue` and its abstract specification `FencedJob`.
2. `JobArtifacts`, built on `FencedJob` instead of on the whole queue.
3. `ServerState` and its abstract specification `FollowsServer`.
4. `LiveComments` on `CommentStream`.
5. `Webhooks` on `EventLog`.

Left:

6. `WorkerSupervisor`: children, kill deadlines, pending releases and the
   runner's cancel flag, on `FencedJob`. Abstract promise: each grant is ended or
   left to expire, no live child is unwatched.
7. `ReleaseBuild`: start, settle callback, fail, cancel, pins; on `FencedJob`.
8. `TrackerOutbox`: operations, leases, remote calls with lost answers.
   Abstract specification: a remote thread without duplicates.
9. `Idempotency`. Abstract specification: a register written once per key.
10. `CatalogWorkflow`, then sessions and design bundle rows.

Each gets an MC module and one passing run (two jobs, keys or operations, one
crash or lost answer, retries up to two), merging smaller runs where room is
needed. Theorems to come: the type invariant of each, the refinements named
above, and that a pinned artifact is never pruned.

## Modules and the code

| Module | Models | |
|---|---|---|
| `JobQueue` | the queue, with workers, slots, locks, leases and clocks | one action per transaction |
| `FencedJob` | what the queue promises to the rest | abstract |
| `JobArtifacts` | rows, files, end hooks, maintenance | steps of jobs are those of `FencedJob` |
| `ServerState` | the frontend's keyed reads | one action per callback |
| `FollowsServer` | what a view of server data promises | abstract |
| `CommentStream` | change log, broker and socket of one project | extended by `LiveComments` |
| `LiveComments` | the viewer's hook | one action per callback or answered request |
| `EventLog` | ids, commits and retention of events | extended by `Webhooks` |
| `Webhooks` | registrations, administrator, delivery passes | one action per transaction or HTTP call |
| `MCJobQueue`, `MCJobArtifacts`, `MCServerState`, `MCLiveComments`, `MCWebhooks` | constants for TLC | |
| `JobQueueProofs`, `JobQueueSafety`, `JobQueueFencing` | theorems about `JobQueue` | each extends the one before |
| `JobArtifactsProofs`, `ServerStateProofs`, `LiveCommentsProofs`, `WebhooksProofs`, `WebhooksRepeats` | theorems about the module they are named for | the last extends the one before |

`PROJECT.json` maps each definition to its lines.

**JobQueue.** A variable indexed by `Job` is a column of `ws_jobs`; `slotRows` and
`slot` are `ws_job_resource_slots`, `lock` is `ws_job_locks`. Every transaction
takes the job row `FOR UPDATE` or an advisory lock before it decides, so an action
is a transaction. `JobService.claim` is several: `RecoverDead` (the sweep),
`ListCandidates` (the SELECT with its limit), and one `TryCandidate` for each
candidate, which reads the row again; other transactions come between. A sweep ends
any of the dead rows (it takes at most 128 of a kind and passes over locked ones), a
candidate may be passed over whatever its state (`Skip`: its row, or a slot it
needs, may be locked at that moment), and a database error may end a claim between
its transactions (`AbandonClaim`). `attempts` holds every credential (job, worker,
fence) ever granted, and `HolderStep` may present any of them at any later time: a
runner that outlives its supervisor, a delayed call, a second call. `Authoritative`
is `_authoritative_claim` with `holds_claims`. A worker's process is only `phase`
and `candidates`; it can stop at any point and its credentials remain.

**FencedJob.** Without workers, slots and clocks: a job has a status, a fence,
the fence of the attempt that wrote last, and is live while the current
attempt's lease runs. `Grant` needs a job nobody is live on and raises the
fence; only the live attempt records or ends.

**JobArtifacts.** `row[d]` is the row of content `d` (a content has one kind and
one key here, so the unique key is the digest), `object[d]` its file and
age. Publishing is two steps (`LookFor`: `destination.exists()`, `Publish`:
touch or move into place), registering a third: `PublishPartial`,
`RegisterFenced` (rows of a job that goes on: a release build's dossier and the
evidence of a failure, ready at once), `CompleteArtifact` (in one transaction with
the step of the job) or, for an end hook, `PublishEndedResult`, whose `UPDATE`
compares the digest it read. `Role` says which of these a content is for. The
maintenance job goes through `reconcile` (list at most `ListLimit` rows, look at each file,
invalidate by id), `Prune`, and `collect` (read references, stat each file,
unlink), one file system or database operation per action.

**ServerState.** `entry[k]` is `entries.get(id)`; `gen` tells one entry object from
the one that replaced it, because microtasks (`teardown`) and timers nothing clears
any more (`stray`) keep a reference to theirs. `request[k][i]` is a load in flight;
the entry's `sequence` is the slot `owner`, and a response may publish when its slot
is still the owner and its signal was not aborted (`Owns`). `Observe`, `Unobserve`,
`Refresh`, `Invalidate`, `Forget` and `Poll` are calls into the store, each with the
read it starts; `Teardown`, `Expire`, `ExpireStray` are callbacks, `Answer` and
`Fail` the network, `Turn` hides or shows the tab (a hidden one does not poll),
`Continue` the continuation of a load with its finally clause and
the polls it ends. `from` and `era` (when the key was last forgotten) and `told` (what
a write announced) are history.

**FollowsServer.** What is left of a view of server data without requests, timers and
sockets: each item shows a state the server was in, later ones only, or nothing.
`ServerState` implements it for its keys and `LiveComments` for the threads of its
viewer, where a thread that a late own response took back counts as not shown until
it was read again.

**CommentStream, LiveComments.** `log` is `comment_change_events`; a comment write
changes a thread's row and appends in one step (`Write`). `socket` is the handler of
the viewer's WebSocket (its cursor, and whether it is reading the log), `wake` the
wakeup in its queue, `checked` the cursor of the broker's periodic check, `channel`
the frames on their way. In the hook, `read` is the fetch in flight with what the
server answered so far (a snapshot reads the cursor first and the threads later, a
batch reads thread by thread), `pending`, `due`, `again`, `timer`, `polling`,
`retrying` are its refs and timers under their names, and `link` is the state of its
socket. An entry of `view` is what the list shows of a thread: the version of its
first entry, whether it is listed, and the version of a second entry (`twin`), which
a create that answers after a read has shown the thread appends; a thread read
replaces the first entry only, and leaves the second as it is. `ApplyOwn` is what
`visualizer.tsx` does with the response of the viewer's own write: it bumps
`localVersion`, here `read.edited`, so a read that was in flight is thrown away and
asked for again. `failed` and `overtaken` are history.

**EventLog, Webhooks.** `open` is an event inserted by a transaction that has not
ended, which holds the head row, so ids are committed in order. `row[h]` is a
registration; `pass[w]` is what the delivery thread of a worker holds: the rows as it
read them (`seen`), those it has yet to visit, the events of the one it is at, and
the answer it got. `Begin` reads events, `Skip`, `Succeed` and `Fail` are the
transactions of the store, `Post` the HTTP call between them. `StoreFails`,
`LoseSession` and `Crash` are the faults the code handles. An administrator's change
of status is two steps (`OpenStatus` reads, `WriteStatus` writes), as in `update()`;
a row deleted between them is not written.
`accepted`, `owed` and `stale` are history: what the endpoint took, what a
registration wanted when it was committed, and what was committed while a pass still
went by a filter edited since.

Definitions marked WRONG are plausible mistakes kept beside the definition they
would replace; no specification uses them. Each is the mutant that shows that
some property notices.

## Runs

| Run | Bounds | Shows |
|---|---|---|
| `job_queue_claims` | 2 jobs, 2 workers, slots of capacity 2 or 3, a shared read lock, fences to 2 | rows, slots and locks agree; writes are fenced (1.0 M states) |
| `job_queue_dedup` | 3 jobs, two with one artifact key, one row from before leases, one worker | keys, budgets, and the refinement to `FencedJob`, in which ends and cancels are final |
| `job_queue_liveness` | a reader and a writer of one lock key, the reader with the only slot, a third job beside them that may be a row from before leases, one candidate per claim, leases of 2 ticks, one worker that stays and may be slow at any point | reader and writer are never in together; cancels end, expired attempts are recovered, waiting jobs are served (89 k states) |
| `job_artifacts` | 2 jobs of one key, 3 contents (partial, what the hook makes of it, final), one publisher at a time, one file that may be lost | hooks keep off running and completed jobs, only garbage is collected (2.1 M states) |
| `job_artifacts_upkeep` | 1 release build with 2 attempts, a dossier and the evidence of a failure, both files may be lost, listings of 1 row | rows begin to answer only with the completion of their own attempt; dangling rows are noticed, remains of failed and cancelled attempts are reclaimed (0.6 M states) |
| `server_state` | 1 key kept for a window, 2 observers of which one polls, 2 requests in flight, 2 entry objects, 2 server states, one forget, one refresh, a tab that hides before a poll | nothing observed is dropped, nothing forgotten comes back, one request may publish, nobody waits for nothing, refinement to `FollowsServer`, polls and invalidations get somewhere |
| `live_comments` | 2 threads, one of which the viewer writes, 2 changes, replays and thread batches of 1 | reads never go back, the cursor skips nothing unseen, a viewer at rest shows what there is, refinement to `FollowsServer`, the viewer converges (1.2 M states) |
| `webhooks` | 1 registration, 2 workers, 2 kinds of events, 2 events, 1 per pass, one fault, one edit | nothing is skipped, the order is kept, repeats need faults, what is owed is accepted |
| `job_artifacts_rebuild`, `job_artifacts_grace`, `live_comments_cursor`, `webhooks_disable` | as above; the viewer writes nothing; no fault | the findings below |

Why the bounds are enough for what the properties tell apart: two fences per job
give a superseded and a current attempt, with a recovery or requeue on top; two
ticks of lease let an attempt live on while another's runs out; two jobs and two
workers give every conflict over one key, slot or lock. In `job_queue_liveness`
leases of two ticks let a heartbeat outlive a tick, so an attempt may go on for as
long as it likes, or lose its lease at any time, by being slow; and `CandidateLimit =
1` with three jobs puts one behind the limit while the one before it, which is more
urgent, is blocked by the lock of a third. `MaxFence` (of each job) stops claims and requeues,
not the late calls of attempts, so those are explored at every fence. In
`job_artifacts_upkeep` a dossier and its evidence with listings of one row make the
limit bite. In `job_artifacts` the second job is enqueued, cancelled and answered from the
cache but never granted, which keeps the run small; the two violation runs let
it run. `MaxPublishing = 1` means one publisher between its first step and its
registration: two publishers that overlap meet in the file only, and the proofs,
which do not depend on the bound, cover them. Symmetry (of workers) is used in
`job_queue_claims` only, which checks safety.

In `server_state` keys do not influence each other except through calls that name
several, so one key is enough for what a key may show; the proofs cover any number.
The tab is hidden only when a poll could start, which is where it matters. Two
requests in flight give an aborted and a current one, two entry objects one that was
deleted and its successor, two server states an answer that is out of date. In
`live_comments` two changes with `MaxReplay = 1` make a viewer fall behind and be
told to resync, and two pending threads with `MaxThreadRefresh = 1` turn a batch
into a snapshot; one change of each thread, or two of one, make reads old. In
`webhooks` two events with `PerPass = 1` leave one for the next pass; two workers
and one fault give two passes at once after a lost session, or a second attempt
after a crash; one edit is a filter, status or registration changed in between.

Deadlock is checked in every run: time, maintenance, polls and delivery passes go on
for ever.

## Fairness

`JobQueue`: weak fairness of `Tick`; for workers that do not stop, of configuring
their slots at start and of their poll loop (`ClaimStep`), and strong fairness of
three of its steps: a claim gets past its sweep (`ListCandidates`: the database does
not fail every round), a sweep ends some dead row when there are any again and again
(`SweepsDead`), and a candidate that could be taken again and again is taken
(`TakesCandidate`: its row and slots are not locked each time it is tried). Locks of
this kind last for one short transaction of somebody else. `EndsAttempt` is weakly
fair for every worker whose process lives, mortal ones too, and every job: a runner
comes to an end or is killed, and the supervisor that finds it gone finalizes the
cancel or fails the job (`PrismWorker.supervise`). It assumes handlers that end, as
long as the attempt keeps its lease. A worker claims only while it has a free place
among its children; the model gives it one always, so the run speaks of workers whose
places become free. Nothing is assumed of workers that stop, of heartbeats, of
progress calls or of users. The run has no worker that stops: one that is slow
loses its lease all the same, and what remains to be shown of a worker that died is
what others do about an expired lease.

`JobArtifacts`: weak fairness of `Upkeep` (the scheduler enqueues the maintenance
job again and again; its steps are one program), of an end hook that has
published (it registers or dies), of rows outliving their retention, and strong
fairness of files outliving the grace period, because the collector's cutoff is
fixed when it starts, so a file does not age during a collection.

`ServerState`: a request is answered or fails, and is continued; microtasks run; a
poll's interval keeps firing while the tab is visible (weak fairness of each);
`PollCatchesUp` is said of a visible tab. Strong fairness of a
successful answer says that the requests of a key do not fail for ever; an outage
without end shows only an error. Users, timers of retention and writes owe nothing.

`LiveComments`: weak fairness of the hook's timers (poll, coalescing, retry), of the
answer to each request and its continuation, of the handler's replay and wakeups, of
the broker's check, of frames of an open socket, and of the close event of a socket
the viewer closed itself. Nothing makes a request succeed, a connection be accepted,
a NOTIFY arrive or an own response come back: that convergence needs none of these,
because polls and snapshots stand behind them, is the point.

`Webhooks`: weak fairness of each worker's pass and of retries coming due; strong
fairness of a 2xx answer (an endpoint that is tried again and again answers some
time) and of a pass reaching a due registration (passes visit all they read, and its
secret is decrypted some time: one that stays locked fails every pass, and nothing is
promised for it). Faults, administrators and the log owe nothing.

`MaxFence` ends a model's job that the code would go on reclaiming; the liveness
properties except such a job by name (`Stranded`).

## Proofs

All theorems hold for every value of the constants under the named assumptions
of the modules (types and bounds, that rows from before leases ask for nothing, that a viewer
writes within its scope).
TLC evaluates the assumptions in every run.

*Queue.* The inductive invariant is built in layers, each theorem resting on the
earlier ones: `TypeOK`; `LeaseOwned` (owner and lease come and go together, so a
waiting or ended row can pass no credential); `ClaimsAuthoritative` (each slot
and lock row carries its job's fence, owner and expiry - not inductive without
`LeaseOwned`, because releasing by fence frees everything only when everything
has that fence); `HoldsAllItNeeds`; and `LockExclusion`, which needs the former
two: a claim compares with lock *rows*, so it is safe only if every owned job has
all its rows.

`ImplementsFenced` maps `live` to the jobs with a running lease and shows each
action to be a step of `FencedJob` or a stutter. Fencing of writes, that a live
lease keeps its fence, that cancels stick and ends are final (`CancelSticks`,
`EndedStaysEnded`) are then proved once, from the few steps of `FencedJob`
(`FencedCases`). TLC is not asked for the last two: the refinement it checks implies
them. `GrantsRise` strengthens with
`GrantsBehindRows` (no credential is ahead of its row) and `WaitingJobsHaveBudget`
with `Budgeted`. `KeysAreUnique` looks at the three steps that make a job active.

*Artifacts.* Rows are ready before their job completes and whatever becomes of it,
so what can be said is when one comes to answer for a job:
`AnswersBeginAtCompletion` goes through the steps that change a row or a job and
leaves the one that completes it, in authority, with a row of its own fence. It
rests on `AuthorityActive` (below) and on `QueueSteps`, by which completed jobs keep
status and fence. `HooksKeepOff` is direct from the three steps that write a result.
`GarbageOnly` needs three facts that hold together: fences of publishers are ones
the row has had (`FencesHeld`, so a new grant never makes an old publisher entitled
again), whatever is about to be registered was just published (`AwaitedIsFresh`),
and the references a collection has read stay good for the old files it may still
remove (`ReferencesHold`). `JobsAreFenced` closes the composition: every step here
is one of `FencedJob` or leaves the jobs alone, so `JobArtifacts` is about jobs that
`JobQueue` really provides. Two theorems say what the first finding leaves standing.
`CompletionsAnswer`: only a job that takes over an invalidated row completes without
an artifact. `CompletionsStay`: nothing undoes a completion - not a late attempt, a
requeue, or an end hook that read the job in an earlier life - and its row serves it
until it is taken out of service or an attempt of another job, in authority,
registers the same content, whatever becomes of that attempt; it needs that attempts
in authority belong to jobs that are not over (`AuthorityActive`), that what a hook
holds is an ended result (`HooksPublishEnded`), and that rows in use are never ready
with a partial or ended result (`ReadyWhole`).

*Server state.* `IInv` is `TypeOK` with `PairsOK` (what holds of an entry and its
requests together: live requests are the owner's, data and requests are of the
present era or aborted, an entry that looks fresh has what was announced), `Watched`,
`ObserversKept` and `OneKeyEach`. Each call is first shown to keep the pair of one key
right (`PairOK`), from the helpers it is made of; the steps then follow by name. The
invariants of the run and `ImplementsFollower` are read off `IInv`: a publish is a
`Show` because the owner's answer is no older than what is shown. `NobodyWaits` adds
`WaitsOK` and `PollsOK` to it (`WInv`): an entry that is fetching, or has nothing
fresh and no error, has an owner, and a poll's request has not ended. It is stated of
every entry that is not retained, observed or not: between a stop function and its
microtask an entry has no observer, and a new one picks it up as it is.

*Live comments.* `CursorNeverPasses` needs to know, of every change that is not
shown yet, where it will still be told. `IInv` says so. The frames in the channel
are consecutive and end at the socket's cursor or in a resync (`FramesOK`), so a
change that was not heard on this connection (`Unheard`) still comes. A change that
is not shown is past the cursor, and (`Told`) a snapshot is due or in flight, or the
change is in `pending` or in the batch in flight, or it is unheard and later than
anything the viewer has to read (`Ahead`). No batch reaches past such a change
without reading it (`ViewOK`, `BatchOK`), so moving the cursor to the last change of
a batch skips nothing; a snapshot holds every change up to its cursor
(`SnapshotOK`). What a read holds is no older than the view unless an own edit came
in between (`FreshOK`), from which `ReadsNeverGoBack` follows as well. `ViewSteps`
states that once for each step - a thread shown older than before is one an own
response overtook - and `ImplementsFollowsServer` is read off it: a write is a
`Change`, every other step a `Show` or nothing. `RestIsComplete` asks the opposite
question, what a viewer for whom nothing is under way has missed. `RestInv` adds to
`IInv` that whatever is due or pending keeps the timer armed or will arm it
(`AskedOK`), that a viewer without a snapshot has one in flight, due or failed
(`LoadOK`), that a viewer whose handler ended finds a resync behind its frames
(`OpenOK`), that a handler which waits without a wakeup has sent all the check has
noted (`CheckOK`), that a thread's cursor is one of its own changes (`RowOK`), and
that whoever holds a thread as of its last change - the view, a read, an own
response - has it listed exactly if it exists, second entries being of listed
threads of the viewer's own (`ListedOK`). At rest these say the socket is at the
head and nothing is unheard, so `IInv` leaves no change that is not shown.

*Webhooks.* `IInv` is `TypeOK` with `LogOK` (an open event is the next id, committed
ones are below it), `AdminOK`, `HookOK` (what is needed at or below the cursor was
accepted or swept, and what is owed is in the log) and `PassOK`: the cursors a pass
read are covered in the same sense, and whatever is needed up to an event of its
batch is done or in the batch. That two passes may run at once after a lost session
is why `PassOK` speaks of what the pass read and never of the row's cursor, which the
other pass may move either way. `OnlyFaultsRepeat` needs the opposite, up to the
first fault: a second invariant, `Unfaulted`, says that the one pass there is works at
the row's cursor (`AtCursor`) and that what was accepted is at or behind it, or is the
event whose answer the pass is about to record (`Settled`). `DisableHoldsOncePassed`
says what is left of `DisableHolds`, which the code does not keep: a disabled
registration that no pass under way had taken up is sent nothing and stays disabled,
through any faults, until the administrator acts; so what undoes a disable is the
administrator or a pass that read the registration before it.

Only model-checked: all liveness (`CancelEnds`, `ExpiredRecovered`,
`WaitingServed`, `DanglingNoticed`, `EndedReclaimed`, `PollCatchesUp`,
`InvalidatedSettles`, `Converges`, `OwedAccepted`), which is out of the prover's
reach.

## Findings

1. *A rebuilt artifact stays invalidated* (`job_artifacts_rebuild`). The upsert of
   `insert_artifact` keeps `invalidated_at`; a job that rebuilds lost content
   completes without an artifact, and so does the next, until the row is pruned.
   `job_artifact_records.py:139` against its line 230.
2. *Reuse does not restart the grace period in time* (`job_artifacts_grace`).
   Between the collector's stat and its unlink a publisher may touch and count on
   the file. `object_store.py:240` against lines 182-183. Reconciliation notices
   later (`DanglingNoticed`).
3. *The cursor moves past an unseen change* (`live_comments_cursor`). A snapshot read
   takes the pending threads and fails; a later thread read moves the cursor to its
   own change, past those the snapshot was to show, so a reconnect does not replay
   them. `use-live-comments.ts:187` against lines 49-51. The next
   snapshot that succeeds repairs it; until then `CursorCoversReads` and `Converges`
   except the state by name (`failed`).
4. *A disabled webhook becomes active again* (`webhooks_disable`). A delivery that
   fails writes the status it computed from the row read before the call.
   `delivery.py:285` against
   `src/website/src/content/docs/automate/webhooks.md:144`.

Observed while modelling and part of what the modules do, without a property of
their own: reclaiming an expired attempt does not look at `max_attempts`
(`job_service.py:260`, where `job_kinds.py:3-5` declares them); after capacity was
lowered, a slot above it is claimed again once released (`job_claims.py:65`, compare
`admin/configuration.md:188`); a pass that read a registration before its filter was
widened skips the events the new filter asks for (`stale` in `Webhooks`); a viewer who
creates a thread that a read shows before the response comes has it twice
(`visualizer.tsx:1184` appends), thread reads replace the first of the two only
(`use-live-comments.ts:173-179`), and the second may stay older than the thread on an
open socket until the next snapshot (`twin`; `ShownAsIs` and `Converges` speak of the
first); reconciliation lists the 10000 rows accessed longest ago
(`job_artifact_records.py:258`), always the same ones while they are intact, so
beyond that number a dangling row may not be noticed (`DanglingNoticed` excepts it).

## Abstractions

- Time is ticks left. In PostgreSQL `NOW()` is the start of the transaction; the
  model reads the clock at the step. Transactions here are short against leases.
- `find_slots` takes the lowest free numbers; the model any that fit. Ties in the
  order of candidates, and among several cached rows, which the code breaks by age,
  are left open.
- The isolation of a transaction on one job is taken from its row lock. SKIP LOCKED
  is a choice: a sweep or a candidate's transaction may pass over any row. The
  listing of candidates itself takes no locks.
- The grace period (a day) is assumed to be longer than it takes an attempt in
  authority, or an end hook, from publishing to registering. Attempts that lost
  authority may take for ever.
- Moving a staged file into place keeps its modification time, so a published file is
  as old as its staging; the model counts it as fresh, under the assumption above.
- Several artifacts that a handler registers in one transaction (a dossier with its
  evidence, sidecars) are registered one by one; a dossier is both registered
  mid-job and what the job completes with. Only final contents answer an enqueue from
  the cache, which asks for the job's own kind. A release's pins, which keep rows and
  files, are not followed, so what is reclaimed here may be pinned there.
- What end hooks leave is in `job_artifacts`, where safety is checked and the
  collector removes nothing that is needed; that it is reclaimed in the end is checked
  for what attempts register themselves (`job_artifacts_upkeep`).
- Files are present or absent; `artifact_file_valid` also finds corrupt ones, which
  it treats as absent. A file may vanish only where a run says so (`Losable`).
- `ServerState`: a sequence number is the slot of its request, `.then` and `.finally`
  of a load are one step, a microtask may run later than in a browser, and a request
  is refused as aborted only by its own signal. Placeholders (`keepPrevious`), React
  listeners, `usePoll` and `pollUntil` are outside the store.
- `LiveComments`: one viewer of one project who does not leave the page; the socket's
  access checks, a failing broker check and changes that name no thread (which ask
  for a snapshot) are left out. What a thread contains is the number of its last
  change. One write of the viewer is outstanding at a time; a page may have several.
- `Webhooks`: delivery history rows, signatures, secret rotation, ping and URL checks
  are left out (a refused target is a failed attempt), as are the length of a backoff
  and the attempt count. `Start` takes the lock and reads the due rows in one step. A
  lost answer is a failed call. A sweep removes a prefix of the ids, and a pass visits
  registrations in any order.
- A row's retention is one flag (`lapsed`) for the clauses of
  `prune_artifact_metadata`; the one that keeps a group of rows together is left out.

## Not modelled

Of the modelled parts: event rows and messages, log paths, deletion of old job rows
(`prune_jobs`), release pins and the catalog as an owner of objects (planned with
`ReleaseBuild`), staging directories, sidecars, the download endpoint's own
invalidation (the same step as maintenance's), who produces events and reads the log
besides webhooks. Whole components: see the inventory and the notes in `PROJECT.json`.

Most lines of the repository are not its own logic: `src/frontend/public/three` and
`rhino3dm`, the built semantic viewer, and rendering code of the viewers are vendored,
generated or geometry of one page, with no concurrent control to check. The backend,
where most of the modelled code is, is Python. Counted over all lines of
JavaScript and TypeScript, the modelled share is therefore small and stays small; the
measure of this project is the list of hazards and the components above.
