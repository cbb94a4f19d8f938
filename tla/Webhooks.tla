------------------------------ MODULE Webhooks ------------------------------
(***************************************************************************)
(* Outbound webhooks (services/webhooks/): registrations an administrator  *)
(* edits, and the passes in which workers post the events after each       *)
(* registration's cursor to its endpoint, in log order.                    *)
(*                                                                         *)
(* A pass reads the due registrations once, then works from what it read.  *)
(* Every call into the store is a transaction and a step of its own; the   *)
(* row of the delivery history that accompanies an attempt is left out, as *)
(* are the length of a backoff and the number of attempts it comes from.   *)
(***************************************************************************)
EXTENDS EventLog

CONSTANTS
  Hook,        \* registrations
  Worker,      \* worker processes of the prism pool
  Faulty,      \* the workers that meet faults
  PerPass,     \* EVENTS_PER_PASS
  Filters,     \* the sets of event kinds an administrator chooses from
  MaxFaults,   \* crashes, lost sessions and failed store calls
  MaxEdits     \* changes an administrator makes

ASSUME HookAssumption ==
  /\ Filters \subseteq SUBSET Kind /\ Faulty \subseteq Worker
  /\ PerPass \in Nat \ {0} /\ MaxFaults \in Nat /\ MaxEdits \in Nat

VARIABLES
  row,         \* [Hook -> Row], ws_webhooks
  pass,        \* [Worker -> Pass], the delivery thread of each worker
  lock,        \* the workers whose session holds PASS_LOCK_KEY
  admin,       \* the status an administrator is about to write
  faults, edits,
  accepted,    \* [Hook -> ids], events whose 2xx answer a pass saw (history)
  owed,        \* [Hook -> ids], events the registration wanted when they were
               \* committed, and has wanted ever since (history)
  stale        \* [Hook -> ids], those of them committed while a pass was at
               \* work that had read an older filter (history)

historyVars == <<accepted, owed, stale>>
vars == <<logVars, row, pass, lock, admin, faults, edits, historyVars>>

\* failing_since is none, recent, or more than 24 hours ago; waiting says that
\* next_attempt_at is in the future.
Row == [status : {"none", "active", "failing", "disabled", "deleted"},
        cursor : 0..MaxEvents, kinds : SUBSET Kind,
        since : {"never", "recent", "long"}, waiting : BOOLEAN]

NoRow == [status |-> "none", cursor |-> 0, kinds |-> {}, since |-> "never",
          waiting |-> FALSE]

Stored(h) == row[h].status \in {"active", "failing", "disabled"}

\* A pass: the rows it read, those still to deliver, the one it works on, and
\* the events it read for it.
Pass == [stage : {"off", "rows", "sending", "answered"},
         seen : [Hook -> Row], todo : SUBSET Hook, hook : SUBSET Hook,
         batch : SUBSET Event, ok : BOOLEAN]

NoPass == [stage |-> "off", seen |-> [h \in Hook |-> NoRow], todo |-> {},
           hook |-> {}, batch |-> {}, ok |-> FALSE]

NoAdmin == [hook |-> {}, to |-> "none", saw |-> "none"]

Init ==
  /\ LogInit
  /\ row = [h \in Hook |-> NoRow]
  /\ pass = [w \in Worker |-> NoPass]
  /\ lock = {}
  /\ admin = NoAdmin
  /\ faults = 0 /\ edits = 0
  /\ accepted = [h \in Hook |-> {}]
  /\ owed = [h \in Hook |-> {}]
  /\ stale = [h \in Hook |-> {}]

(* The log.                                                                *)

Idle == UNCHANGED <<row, pass, lock, admin, faults, edits, accepted>>

RecordEvent(k) == Record(k) /\ Idle /\ UNCHANGED <<owed, stale>>

\* A pass that has yet to deliver to h, by another filter than h's own.
ReadOlder(w, h, e) ==
  h \in pass[w].todo \cup pass[w].hook /\ e.kind \notin pass[w].seen[h].kinds

CommitEvent(e) ==
  LET wanting == {h \in Hook : Stored(h) /\ e.kind \in row[h].kinds}
      missing == {h \in wanting : \E w \in Worker : ReadOlder(w, h, e)}
  IN /\ Commit(e)
     /\ owed' = [h \in Hook |-> IF h \in wanting THEN owed[h] \cup {e.id}
                                                 ELSE owed[h]]
     /\ stale' = [h \in Hook |-> IF h \in missing THEN stale[h] \cup {e.id}
                                                  ELSE stale[h]]
     /\ Idle

LoseEvent(e) == Rollback(e) /\ Idle /\ UNCHANGED <<owed, stale>>

SweepEvents(id) == Sweep(id) /\ Idle /\ UNCHANGED <<owed, stale>>

(* The administrator.                                                      *)

Edited == /\ edits < MaxEdits
          /\ edits' = edits + 1

\* MAX(id) of the rows, 0 when there is none.
IsLastId(c) ==
  /\ \A e \in events : e.id <= c
  /\ c = 0 \/ \E e \in events : e.id = c

\* create(): the cursor starts at the last row of the log.
Create(h, kinds) ==
  /\ row[h].status = "none"
  /\ \E c \in 0..MaxEvents :
       /\ IsLastId(c)
       /\ row' = [row EXCEPT ![h] = [NoRow EXCEPT !.status = "active",
                                       !.kinds = kinds, !.cursor = c]]
  /\ UNCHANGED <<logVars, pass, lock, admin, faults, edits, historyVars>>

\* update() of the status reads the row first.
OpenStatus(h, to) ==
  /\ Stored(h) /\ admin = NoAdmin
  /\ Edited
  /\ admin' = [hook |-> {h}, to |-> to, saw |-> row[h].status]
  /\ UNCHANGED <<logVars, row, pass, lock, faults, historyVars>>

\* Then it writes it; only a row it saw stopped has its retry state cleared,
\* and a row deleted meanwhile is not there to be written.
WriteStatus(h) ==
  LET set == [row[h] EXCEPT !.status = admin.to]
      cleared == [set EXCEPT !.since = "never", !.waiting = FALSE]
      written == IF admin.to = "active" /\ admin.saw # "active"
                   THEN cleared ELSE set
  IN /\ h \in admin.hook
     /\ row' = IF Stored(h) THEN [row EXCEPT ![h] = written] ELSE row
     /\ admin' = NoAdmin
     /\ UNCHANGED <<logVars, pass, lock, faults, edits, historyVars>>

EditKinds(h, kinds) ==
  /\ Stored(h) /\ kinds # row[h].kinds
  /\ Edited
  /\ row' = [row EXCEPT ![h].kinds = kinds]
  /\ owed' = [owed EXCEPT ![h] =
                {i \in @ : \E e \in events : e.id = i /\ e.kind \in kinds}]
  /\ UNCHANGED <<logVars, pass, lock, admin, faults, accepted, stale>>

Delete(h) ==
  /\ Stored(h)
  /\ Edited
  /\ row' = [row EXCEPT ![h] = [NoRow EXCEPT !.status = "deleted"]]
  /\ accepted' = [accepted EXCEPT ![h] = {}]
  /\ owed' = [owed EXCEPT ![h] = {}]
  /\ stale' = [stale EXCEPT ![h] = {}]
  /\ UNCHANGED <<logVars, pass, lock, admin, faults>>

(* Time.                                                                   *)

\* A scheduled retry comes due.
ComesDue(h) ==
  /\ row[h].waiting
  /\ row' = [row EXCEPT ![h].waiting = FALSE]
  /\ UNCHANGED <<logVars, pass, lock, admin, faults, edits, historyVars>>

\* 24 hours pass since the first failure.
Ages(h) ==
  /\ row[h].since = "recent"
  /\ row' = [row EXCEPT ![h].since = "long"]
  /\ UNCHANGED <<logVars, pass, lock, admin, faults, edits, historyVars>>

(* A pass.                                                                 *)

Elsewhere == UNCHANGED <<logVars, admin, edits, owed, stale>>

Due(h) == row[h].status = "active" /\ ~row[h].waiting

\* The lock and the due registrations are read one after the other; nothing
\* the pass does comes in between.
Locking(w) ==
  /\ pass[w].stage = "off"
  /\ lock' = lock \cup {w}
  /\ pass' = [pass EXCEPT ![w] =
       [NoPass EXCEPT !.stage = "rows",
                      !.seen = [h \in Hook |-> IF Due(h) THEN row[h] ELSE NoRow],
                      !.todo = {h \in Hook : Due(h)}]]
  /\ UNCHANGED <<row, faults, accepted>> /\ Elsewhere

\* WRONG: a pass does not look at the lock.
StartAnyway(w) == Locking(w)

\* run_pass(): one pass at a time, or none.
Start(w) == lock = {} /\ Locking(w)

\* events_after(): the first PerPass rows after a cursor.
EventsAfter(cursor) ==
  LET later == {e \in events : e.id > cursor}
  IN {e \in later : Cardinality({f \in later : f.id < e.id}) < PerPass}

\* The pass leaves a registration for the next one it read.
Leave(p) ==
  [NoPass EXCEPT !.stage = "rows", !.todo = p.todo,
                 !.seen = [h \in Hook |-> IF h \in p.todo THEN p.seen[h]
                                                         ELSE NoRow]]

\* It goes on with the events it read, if any are left.
GoOn(p) == IF p.batch = {} THEN Leave(p) ELSE p

Without(p, h) == [p EXCEPT !.todo = @ \ {h}]

\* The pass reads the events after the cursor of h.
Opened(p, h) ==
  [p EXCEPT !.stage = "sending", !.hook = {h}, !.todo = @ \ {h},
            !.batch = EventsAfter(p.seen[h].cursor)]

\* It skipped e, or delivered it.
After(p, e) == [p EXCEPT !.batch = @ \ {e}]

Sent(p, h, e) ==
  [p EXCEPT !.stage = "sending", !.batch = @ \ {e}, !.ok = FALSE,
            !.seen = [@ EXCEPT ![h].since = "never"]]

Begin(w, h) ==
  /\ pass[w].stage = "rows" /\ h \in pass[w].todo
  /\ pass' = [pass EXCEPT ![w] = GoOn(Opened(@, h))]
  /\ UNCHANGED <<row, lock, faults, accepted>> /\ Elsewhere

\* _fail(): the retry state is computed from the row as the pass read it, and
\* a first failure older than 24 hours stays so.
Failed(h, seen) ==
  LET since == IF seen.since = "never" THEN "recent"
               ELSE IF row[h].since = "long" THEN "long" ELSE seen.since
      status == IF seen.since = "long" THEN "failing" ELSE "active"
  IN [row EXCEPT ![h] = [@ EXCEPT !.since = since, !.waiting = TRUE,
                                  !.status = status]]

\* The signing secret cannot be decrypted: a failure without a request.
SecretLocked(w, h) ==
  /\ pass[w].stage = "rows" /\ h \in pass[w].todo
  /\ row' = IF Stored(h) THEN Failed(h, pass[w].seen[h]) ELSE row
  /\ pass' = [pass EXCEPT ![w] = Leave(Without(@, h))]
  /\ UNCHANGED <<lock, faults, accepted>> /\ Elsewhere

First(w, h, e) ==
  /\ pass[w].stage = "sending" /\ h \in pass[w].hook
  /\ e \in pass[w].batch
  /\ \A f \in pass[w].batch : e.id <= f.id

Matches(w, h, e) == e.kind \in pass[w].seen[h].kinds

\* WRONG: what the filters skip leaves the cursor where it was.
PassOver(w, h, e) ==
  /\ First(w, h, e) /\ ~Matches(w, h, e)
  /\ pass' = [pass EXCEPT ![w] = GoOn(After(@, e))]
  /\ UNCHANGED <<row, lock, faults, accepted>> /\ Elsewhere

\* WRONG: the cursor names the event to read next.
SkipTo(w, h, e) ==
  /\ First(w, h, e) /\ ~Matches(w, h, e)
  /\ row' = IF Stored(h) THEN [row EXCEPT ![h].cursor = e.id + 1] ELSE row
  /\ pass' = [pass EXCEPT ![w] = GoOn(After(@, e))]
  /\ UNCHANGED <<lock, faults, accepted>> /\ Elsewhere

\* save_cursor(): an event the filters skip.
Skip(w, h, e) ==
  /\ First(w, h, e) /\ ~Matches(w, h, e)
  /\ row' = IF Stored(h) THEN [row EXCEPT ![h].cursor = e.id] ELSE row
  /\ pass' = [pass EXCEPT ![w] = GoOn(After(@, e))]
  /\ UNCHANGED <<lock, faults, accepted>> /\ Elsewhere

\* One request: it is answered with a 2xx, or anything else happens.
Post(w, h, e, ok) ==
  /\ First(w, h, e) /\ Matches(w, h, e)
  /\ pass' = [pass EXCEPT ![w] = [@ EXCEPT !.stage = "answered", !.ok = ok]]
  /\ accepted' = IF ok /\ Stored(h) THEN [accepted EXCEPT ![h] = @ \cup {e.id}] ELSE accepted
  /\ UNCHANGED <<row, lock, faults>> /\ Elsewhere

Answered(w, h, e) ==
  /\ pass[w].stage = "answered" /\ h \in pass[w].hook
  /\ e \in pass[w].batch
  /\ \A f \in pass[w].batch : e.id <= f.id

\* WRONG: a failed attempt settles its event.
GiveUp(w, h, e) ==
  /\ Answered(w, h, e) /\ ~pass[w].ok
  /\ row' = IF Stored(h) THEN [Failed(h, pass[w].seen[h]) EXCEPT ![h].cursor = e.id]
                         ELSE row
  /\ pass' = [pass EXCEPT ![w] = Leave(@)]
  /\ UNCHANGED <<lock, faults, accepted>> /\ Elsewhere

\* record_success(), and the pass goes on; a deleted registration's attempt
\* has no row to belong to and the pass leaves it.
Succeed(w, h, e) ==
  /\ Answered(w, h, e) /\ pass[w].ok
  /\ row' = IF Stored(h)
              THEN [row EXCEPT ![h] = [@ EXCEPT !.cursor = e.id,
                                         !.since = "never", !.waiting = FALSE]]
              ELSE row
  /\ pass' = [pass EXCEPT ![w] =
       IF Stored(h) THEN GoOn(Sent(@, h, e)) ELSE Leave(@)]
  /\ UNCHANGED <<lock, faults, accepted>> /\ Elsewhere

\* _fail(), and the pass leaves the registration.
Fail(w, h, e) ==
  /\ Answered(w, h, e) /\ ~pass[w].ok
  /\ row' = IF Stored(h) THEN Failed(h, pass[w].seen[h]) ELSE row
  /\ pass' = [pass EXCEPT ![w] = Leave(@)]
  /\ UNCHANGED <<lock, faults, accepted>> /\ Elsewhere

\* The pass ends and its session releases the lock.
End(w) ==
  /\ pass[w].stage = "rows" /\ pass[w].todo = {}
  /\ pass' = [pass EXCEPT ![w] = NoPass]
  /\ lock' = lock \ {w}
  /\ UNCHANGED <<row, faults, accepted>> /\ Elsewhere

(* Faults.                                                                 *)

Faulted == /\ faults < MaxFaults
           /\ faults' = faults + 1

\* A call into the store raises: the pass goes on with the next registration.
StoreFails(w) ==
  /\ pass[w].stage \in {"sending", "answered"}
  /\ Faulted
  /\ pass' = [pass EXCEPT ![w] = Leave(@)]
  /\ UNCHANGED <<row, lock, accepted>> /\ Elsewhere

\* The session that holds the lock is dropped; the pass does not notice.
LoseSession(w) ==
  /\ w \in lock
  /\ Faulted
  /\ lock' = lock \ {w}
  /\ UNCHANGED <<row, pass, accepted>> /\ Elsewhere

Crash(w) ==
  /\ pass[w].stage # "off"
  /\ Faulted
  /\ pass' = [pass EXCEPT ![w] = NoPass]
  /\ lock' = lock \ {w}
  /\ UNCHANGED <<row, accepted>> /\ Elsewhere

PassStep(w) ==
  \/ Start(w) \/ End(w)
  \/ \E h \in Hook :
       \/ Begin(w, h) \/ SecretLocked(w, h)
       \/ \E e \in pass[w].batch :
            \/ Skip(w, h, e) \/ Succeed(w, h, e) \/ Fail(w, h, e)
            \/ \E ok \in BOOLEAN : Post(w, h, e, ok)

AdminStep(h) ==
  \/ \E kinds \in Filters : Create(h, kinds) \/ EditKinds(h, kinds)
  \/ \E to \in {"active", "disabled"} : OpenStatus(h, to)
  \/ WriteStatus(h) \/ Delete(h)

Next ==
  \/ \E k \in Kind : RecordEvent(k)
  \/ \E e \in open : CommitEvent(e) \/ LoseEvent(e)
  \/ \E id \in Id : SweepEvents(id)
  \/ \E h \in Hook : AdminStep(h) \/ ComesDue(h) \/ Ages(h)
  \/ \E w \in Worker : PassStep(w)
  \/ \E w \in Faulty : StoreFails(w) \/ LoseSession(w) \/ Crash(w)

Spec == Init /\ [][Next]_vars

\* Workers keep starting passes and carry them on, retries come due, an
\* endpoint that is tried again and again answers some time, and a secret that
\* is tried again and again is decrypted some time: one that stays locked
\* fails every pass, and nothing is promised for it.
Fairness ==
  /\ \A w \in Worker : WF_vars(PassStep(w))
  /\ \A h \in Hook :
       /\ WF_vars(ComesDue(h))
       /\ SF_vars(\E w \in Worker : \E e \in pass[w].batch : Post(w, h, e, TRUE))
       /\ SF_vars(\E w \in Worker : Begin(w, h))

FairSpec == Spec /\ Fairness
-----------------------------------------------------------------------------
(* Properties.                                                             *)

TypeOK ==
  /\ LogTypeOK
  /\ row \in [Hook -> Row]
  /\ pass \in [Worker -> Pass]
  /\ lock \subseteq Worker
  /\ admin \in [hook : SUBSET Hook, to : {"none", "active", "disabled"},
                saw : {"none", "active", "failing", "disabled"}]
  /\ faults \in 0..MaxFaults /\ edits \in 0..MaxEdits
  /\ \A ids \in {accepted, owed, stale} : ids \in [Hook -> SUBSET Id]

\* A registration's cursor is past no event it wanted that its endpoint did not
\* accept, through crashes, failed store calls and two passes at once, unless
\* retention deleted the event first (store.py lines 9-11, event_log.py lines
\* 116-118). An event committed while a pass still went by an older filter is
\* left out: the pass skips it (owed by the new filter, stale).
NothingSkipped ==
  \A h \in Hook : \A i \in owed[h] \ stale[h] :
    i <= row[h].cursor => i \in accepted[h] \cup swept

\* The endpoint accepts an event for the first time only after every earlier
\* event it was owed (delivery.py line 5, "in log order").
FirstInOrder ==
  [][\A h \in Hook : \A i \in accepted'[h] \ accepted[h] :
       \A j \in owed[h] \ stale[h] :
         j < i => j \in accepted[h] \cup swept]_vars

\* An endpoint is sent an event it accepted before only after a fault: the lock
\* makes the passes of all workers one (delivery.py lines 110-112).
RepeatsNeedFaults ==
  [][faults = 0 =>
       \A w \in Worker, h \in Hook : \A e \in pass[w].batch, ok \in BOOLEAN :
         e.id \in accepted[h] => ~Post(w, h, e, ok)]_vars

\* An event a registration is owed is accepted some time, unless the
\* registration is stopped or the event was deleted.
OwedAccepted ==
  \A h \in Hook, i \in Id :
    (i \in owed[h] \ stale[h])
      ~> (i \in accepted[h] \cup swept \/ i \notin owed[h]
            \/ row[h].status # "active")

\* "Disable / Enable: pauses or resumes deliveries" (automate/webhooks.md line
\* 144): a disabled registration becomes active when an administrator says so.
DisableHolds ==
  [][\A h \in Hook :
       row[h].status = "disabled" /\ row'[h].status = "active"
         => h \in admin.hook]_vars
=============================================================================
