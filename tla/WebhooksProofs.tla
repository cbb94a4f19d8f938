--------------------------- MODULE WebhooksProofs ---------------------------
(***************************************************************************)
(* Theorems about Webhooks: no registration's cursor passes an event that  *)
(* is owed to it, and events are first accepted in log order, whatever     *)
(* crashes, lost sessions and failed calls two passes meet.                *)
(***************************************************************************)
EXTENDS Webhooks, FiniteSetTheorems, TLAPS

\* What NothingSkipped speaks of.
Need(h) == owed[h] \ stale[h]
Done(h) == accepted[h] \cup swept

Covered(h, c) == c <= head /\ \A i \in Need(h) : i <= c => i \in Done(h)

\* One id is taken at a time, and the rows' ids are below it.
LogOK ==
  /\ IsFiniteSet(events)
  /\ \A e, f \in open : e = f
  /\ \A e \in open : e.id = head + 1
  /\ \A e \in events : e.id <= head
  /\ \A i \in swept : i <= head
  /\ \A e, f \in events : e.id = f.id => e = f

HookOK(h) ==
  /\ Covered(h, row[h].cursor)
  /\ ~Stored(h) => owed[h] = {}
  /\ \A i \in owed[h] : i \in swept \/ \E e \in events : e.id = i
  /\ \A e \in events : e.id \in owed[h] => e.kind \in row[h].kinds

\* What a pass read is good to work on: it has nothing to skip before its
\* first event, and what it leaves out by its filters is not owed.
ReadOK(p) ==
  /\ \A g, h \in p.hook : g = h
  /\ \A h \in p.todo : Covered(h, p.seen[h].cursor)
  /\ \A h \in p.todo \cup p.hook :
       /\ row[h].status # "none"
       /\ \A e \in events : e.id \in Need(h) => e.kind \in p.seen[h].kinds

BatchOK(p) ==
  /\ \A e \in p.batch : e.id <= head /\ (e \in events \/ e.id \in swept)
  /\ \A h \in p.hook, e \in p.batch : \A i \in Need(h) :
       i <= e.id => i \in Done(h) \/ \E f \in p.batch : f.id = i

IsFirst(e, batch) == e \in batch /\ \A f \in batch : e.id <= f.id

AnswerOK(p) ==
  p.stage = "answered" /\ p.ok =>
    \A h \in p.hook, e \in p.batch :
      Stored(h) /\ IsFirst(e, p.batch) => e.id \in accepted[h]

PassOK(p) == ReadOK(p) /\ BatchOK(p) /\ AnswerOK(p)

AdminOK == admin.hook # {} => admin.to \in {"active", "disabled"}

IInv ==
  /\ TypeOK /\ LogOK /\ AdminOK
  /\ \A h \in Hook : HookOK(h)
  /\ \A w \in Worker : PassOK(pass[w])
-----------------------------------------------------------------------------
(* Types.                                                                  *)

LEMMA NoRowType == NoRow \in Row
  BY EventAssumption DEF NoRow, Row

LEMMA NoPassType == NoPass \in Pass
  BY NoRowType DEF NoPass, Pass

LEMMA FailedType ==
  ASSUME row \in [Hook -> Row], NEW h \in Hook, NEW seen \in Row
  PROVE  /\ Failed(h, seen) \in [Hook -> Row]
         /\ \A g \in Hook : g # h => Failed(h, seen)[g] = row[g]
         /\ Failed(h, seen)[h].cursor = row[h].cursor
         /\ Failed(h, seen)[h].kinds = row[h].kinds
         /\ Failed(h, seen)[h].status \in {"active", "failing"}
  <1> DEFINE since == IF seen.since = "never" THEN "recent"
                      ELSE IF row[h].since = "long" THEN "long" ELSE seen.since
             status == IF seen.since = "long" THEN "failing" ELSE "active"
  <1>1. since \in {"never", "recent", "long"} /\ status \in {"active", "failing"}
    BY DEF Row
  <1>2. Failed(h, seen) = [row EXCEPT ![h] =
          [@ EXCEPT !.since = since, !.waiting = TRUE, !.status = status]]
    BY DEF Failed
  <1> HIDE DEF since, status
  <1> DEFINE r == [row[h] EXCEPT !.since = since, !.waiting = TRUE,
                                 !.status = status]
  <1>3. row[h] \in Row
    OBVIOUS
  <1>4. /\ r \in Row /\ r.cursor = row[h].cursor /\ r.kinds = row[h].kinds
        /\ r.status = status
    BY <1>1, <1>3 DEF Row
  <1>5. Failed(h, seen) = [row EXCEPT ![h] = r]
    BY <1>2
  <1> HIDE DEF r
  <1> QED  BY <1>1, <1>4, <1>5

\* What the pass keeps when it leaves a registration.
LEMMA LeaveIs ==
  ASSUME NEW p \in Pass
  PROVE  /\ Leave(p) \in Pass
         /\ Leave(p).stage = "rows" /\ Leave(p).todo = p.todo
         /\ Leave(p).hook = {} /\ Leave(p).batch = {}
         /\ \A h \in p.todo : Leave(p).seen[h] = p.seen[h]
  BY NoRowType, NoPassType DEF Leave, Pass, NoPass

LEMMA GoOnIs ==
  ASSUME NEW p \in Pass
  PROVE  /\ GoOn(p) \in Pass /\ GoOn(p).todo = p.todo
         /\ GoOn(p).hook \subseteq p.hook /\ GoOn(p).batch = p.batch
         /\ GoOn(p).stage \in {"rows", p.stage}
         /\ \A h \in p.todo \cup GoOn(p).hook : GoOn(p).seen[h] = p.seen[h]
  BY LeaveIs DEF GoOn

LEMMA EventsAfterType == ASSUME LogTypeOK, NEW c
                         PROVE  EventsAfter(c) \subseteq Event
  BY DEF EventsAfter, LogTypeOK

LEMMA AfterIs ==
  ASSUME NEW p \in Pass, NEW e
  PROVE  /\ After(p, e) \in Pass /\ After(p, e).todo = p.todo
         /\ After(p, e).hook = p.hook /\ After(p, e).batch = p.batch \ {e}
         /\ After(p, e).stage = p.stage /\ After(p, e).ok = p.ok
         /\ After(p, e).seen = p.seen
  BY DEF After, Pass

LEMMA SentIs ==
  ASSUME NEW p \in Pass, NEW h \in Hook, NEW e
  PROVE  /\ Sent(p, h, e) \in Pass /\ Sent(p, h, e).todo = p.todo
         /\ Sent(p, h, e).hook = p.hook /\ Sent(p, h, e).batch = p.batch \ {e}
         /\ Sent(p, h, e).stage = "sending" /\ Sent(p, h, e).ok = FALSE
  <1> DEFINE seen == [p.seen EXCEPT ![h].since = "never"]
  <1>1. seen \in [Hook -> Row]
    BY DEF Pass, Row
  <1>2. Sent(p, h, e) = [p EXCEPT !.stage = "sending", !.batch = p.batch \ {e},
                                  !.ok = FALSE, !.seen = seen]
    BY DEF Sent
  <1> HIDE DEF seen
  <1> QED  BY <1>1, <1>2 DEF Pass

LEMMA SentReads ==
  ASSUME NEW p \in Pass, NEW h \in Hook, NEW e, NEW g \in Hook
  PROVE  /\ Sent(p, h, e).seen[g].cursor = p.seen[g].cursor
         /\ Sent(p, h, e).seen[g].kinds = p.seen[g].kinds
  <1> DEFINE seen == [p.seen EXCEPT ![h].since = "never"]
  <1>1. p.seen \in [Hook -> Row]
    BY DEF Pass
  <1>2. seen[g].cursor = p.seen[g].cursor /\ seen[g].kinds = p.seen[g].kinds
    BY <1>1 DEF Row
  <1>3. Sent(p, h, e) = [p EXCEPT !.stage = "sending", !.batch = p.batch \ {e},
                                  !.ok = FALSE, !.seen = seen]
    BY DEF Sent
  <1> HIDE DEF seen
  <1>4. Sent(p, h, e).seen = seen
    BY <1>3 DEF Pass
  <1> QED  BY <1>2, <1>4

LEMMA OpenedIs ==
  ASSUME LogTypeOK, NEW p \in Pass, NEW h \in Hook
  PROVE  /\ Opened(p, h) \in Pass /\ Opened(p, h).todo = p.todo \ {h}
         /\ Opened(p, h).hook = {h} /\ Opened(p, h).stage = "sending"
         /\ Opened(p, h).batch = EventsAfter(p.seen[h].cursor)
         /\ Opened(p, h).seen = p.seen
  <1> DEFINE b == EventsAfter(p.seen[h].cursor)
  <1>1. b \subseteq Event
    BY EventsAfterType
  <1>2. Opened(p, h) = [p EXCEPT !.stage = "sending", !.hook = {h},
                                 !.todo = p.todo \ {h}, !.batch = b]
    BY DEF Opened
  <1> HIDE DEF b
  <1>3. p.todo \ {h} \in SUBSET Hook /\ {h} \in SUBSET Hook /\ b \in SUBSET Event
    BY <1>1 DEF Pass
  <1>4. Opened(p, h) \in Pass
    BY <1>2, <1>3 DEF Pass
  <1>5. Opened(p, h).todo = p.todo \ {h} /\ Opened(p, h).hook = {h}
    BY <1>2 DEF Pass
  <1>6. Opened(p, h).stage = "sending" /\ Opened(p, h).batch = b
    BY <1>2 DEF Pass
  <1>7. Opened(p, h).seen = p.seen
    BY <1>2 DEF Pass
  <1> QED  BY <1>4, <1>5, <1>6, <1>7 DEF b

RowType == row \in [Hook -> Row]
PassType == pass \in [Worker -> Pass]
AdminType == admin \in [hook : SUBSET Hook, to : {"none", "active", "disabled"},
                        saw : {"none", "active", "failing", "disabled"}]
IdsType == \A ids \in {accepted, owed, stale} : ids \in [Hook -> SUBSET Id]

LEMMA LogSteps ==
  ASSUME TypeOK,
         \/ \E k \in Kind : RecordEvent(k)
         \/ \E e \in open : CommitEvent(e) \/ LoseEvent(e)
         \/ \E id \in Id : SweepEvents(id)
  PROVE  TypeOK'
  <1> USE EventAssumption DEF TypeOK, LogTypeOK, Idle
  <1>1. ASSUME NEW k \in Kind, RecordEvent(k)
        PROVE  TypeOK'
    <2>1. [id |-> head + 1, kind |-> k] \in Event
      BY <1>1 DEF RecordEvent, Record, Event, Id
    <2> QED  BY <1>1, <2>1 DEF RecordEvent, Record
  <1>2. ASSUME NEW e \in open, CommitEvent(e)
        PROVE  TypeOK'
    <2>1. e \in Event /\ e.id \in Id
      BY DEF Event
    <2>2. head' \in 0..MaxEvents /\ open' \subseteq Event /\ events' \subseteq Event
          /\ swept' \subseteq Id
      BY <1>2, <2>1 DEF CommitEvent, Commit, Id
    <2>3. owed' \in [Hook -> SUBSET Id] /\ stale' \in [Hook -> SUBSET Id]
      BY <1>2, <2>1 DEF CommitEvent
    <2> QED  BY <1>2, <2>2, <2>3 DEF CommitEvent
  <1>3. ASSUME NEW e \in open, LoseEvent(e)
        PROVE  TypeOK'
    BY <1>3 DEF LoseEvent, Rollback
  <1>4. ASSUME NEW id \in Id, SweepEvents(id)
        PROVE  TypeOK'
    <2>1. \A e \in Event : e.id \in Id
      BY DEF Event
    <2> QED  BY <1>4, <2>1 DEF SweepEvents, Sweep
  <1> QED  BY <1>1, <1>2, <1>3, <1>4

LEMMA AdminTypes ==
  ASSUME TypeOK, NEW h \in Hook, AdminStep(h) \/ ComesDue(h) \/ Ages(h)
  PROVE  TypeOK'
  <1> USE EventAssumption, HookAssumption DEF TypeOK
  <1> SUFFICES /\ LogTypeOK' /\ RowType' /\ PassType' /\ lock' \subseteq Worker
               /\ AdminType' /\ IdsType'
               /\ faults' \in 0..MaxFaults /\ edits' \in 0..MaxEdits
    BY DEF RowType, PassType, AdminType, IdsType
  <1>0. row[h] \in Row
    OBVIOUS
  <1> USE DEF RowType, PassType, AdminType, IdsType
  <1>1. ASSUME NEW kinds \in Filters, Create(h, kinds)
        PROVE  TypeOK'
    <2>1. PICK c \in 0..MaxEvents :
            row' = [row EXCEPT ![h] = [NoRow EXCEPT !.status = "active",
                                         !.kinds = kinds, !.cursor = c]]
      BY <1>1 DEF Create
    <2>2. [NoRow EXCEPT !.status = "active", !.kinds = kinds, !.cursor = c] \in Row
      BY NoRowType DEF Row
    <2>3. RowType'
      BY <2>1, <2>2
    <2> QED  BY <1>1, <2>3 DEF Create, historyVars, logVars, LogTypeOK
  <1>2. ASSUME NEW kinds \in Filters, EditKinds(h, kinds)
        PROVE  TypeOK'
    <2>1. RowType'
      BY <1>0, <1>2 DEF EditKinds, Row
    <2>2. owed' \in [Hook -> SUBSET Id]
      BY <1>2 DEF EditKinds
    <2> QED  BY <1>2, <2>1, <2>2 DEF EditKinds, logVars, LogTypeOK, Edited
  <1>3. ASSUME NEW to \in {"active", "disabled"}, OpenStatus(h, to)
        PROVE  TypeOK'
    <2>1. row[h].status \in {"active", "failing", "disabled"}
      BY <1>3 DEF OpenStatus, Stored
    <2>2. AdminType'
      BY <1>3, <2>1 DEF OpenStatus
    <2> QED  BY <1>3, <2>2 DEF OpenStatus, logVars, LogTypeOK, Edited, historyVars
  <1>4. CASE WriteStatus(h)
    <2> DEFINE set == [row[h] EXCEPT !.status = admin.to]
               cleared == [set EXCEPT !.since = "never", !.waiting = FALSE]
    <2>1. set \in Row
      BY <1>0 DEF Row
    <2>2. cleared \in Row
      BY <2>1 DEF Row
    <2>3. RowType'
      <3> HIDE DEF set, cleared
      <3>1. \/ row' = row
            \/ row' = [row EXCEPT ![h] = IF admin.to = "active" /\ admin.saw # "active"
                                           THEN cleared ELSE set]
        BY <1>4 DEF WriteStatus, set, cleared
      <3> QED  BY <1>0, <2>1, <2>2, <3>1
    <2>4. AdminType'
      BY <1>4 DEF WriteStatus, NoAdmin
    <2> QED  BY <1>4, <2>3, <2>4 DEF WriteStatus, logVars, LogTypeOK, historyVars
  <1>5. CASE Delete(h)
    <2>1. [NoRow EXCEPT !.status = "deleted"] \in Row
      BY NoRowType DEF Row
    <2>2. RowType'
      BY <1>5, <2>1 DEF Delete
    <2>3. IdsType'
      BY <1>5 DEF Delete
    <2> QED  BY <1>5, <2>2, <2>3 DEF Delete, logVars, LogTypeOK, Edited
  <1>6. CASE ComesDue(h)
    <2>1. RowType'
      BY <1>0, <1>6 DEF ComesDue, Row
    <2> QED  BY <1>6, <2>1 DEF ComesDue, logVars, LogTypeOK, historyVars
  <1>7. CASE Ages(h)
    <2>1. RowType'
      BY <1>0, <1>7 DEF Ages, Row
    <2> QED  BY <1>7, <2>1 DEF Ages, logVars, LogTypeOK, historyVars
  <1> QED  BY <1>1, <1>2, <1>3, <1>4, <1>5, <1>6, <1>7 DEF AdminStep

\* The step of a pass of w that makes q of it, and leaves the rest to say.
Makes(w, q) == pass' = [pass EXCEPT ![w] = q]

LEMMA MakesType ==
  ASSUME TypeOK, NEW w \in Worker, NEW q \in Pass, Makes(w, q),
         row' \in [Hook -> Row], lock' \subseteq Worker,
         faults' \in 0..MaxFaults, accepted' \in [Hook -> SUBSET Id], Elsewhere
  PROVE  TypeOK'
  BY DEF Makes, TypeOK, Elsewhere, LogTypeOK, logVars

\* What each step of a pass makes of it.
Locked == [NoPass EXCEPT !.stage = "rows",
                         !.seen = [h \in Hook |-> IF Due(h) THEN row[h] ELSE NoRow],
                         !.todo = {h \in Hook : Due(h)}]

LEMMA LockedIs ==
  ASSUME row \in [Hook -> Row]
  PROVE  /\ Locked \in Pass /\ Locked.stage = "rows" /\ Locked.hook = {}
         /\ Locked.batch = {} /\ Locked.ok = FALSE
         /\ Locked.todo = {h \in Hook : Due(h)}
         /\ \A h \in Locked.todo : Locked.seen[h] = row[h]
  <1> DEFINE seen == [h \in Hook |-> IF Due(h) THEN row[h] ELSE NoRow]
             todo == {h \in Hook : Due(h)}
  <1>1. seen \in [Hook -> Row] /\ todo \subseteq Hook
        /\ \A h \in todo : seen[h] = row[h]
    BY NoRowType
  <1>2. Locked = [NoPass EXCEPT !.stage = "rows", !.seen = seen, !.todo = todo]
    BY DEF Locked
  <1> HIDE DEF seen
  <1>3. Locked = [stage |-> "rows", seen |-> seen, todo |-> todo, hook |-> {},
                  batch |-> {}, ok |-> FALSE]
    BY <1>2 DEF NoPass
  <1> QED  BY <1>1, <1>3 DEF Pass

LEMMA WithoutIs ==
  ASSUME NEW p \in Pass, NEW h
  PROVE  /\ Without(p, h) \in Pass /\ Without(p, h).todo = p.todo \ {h}
         /\ Without(p, h).seen = p.seen
  BY DEF Without, Pass

Heard(p, ok) == [p EXCEPT !.stage = "answered", !.ok = ok]

LEMMA HeardIs ==
  ASSUME NEW p \in Pass, NEW ok \in BOOLEAN
  PROVE  /\ Heard(p, ok) \in Pass /\ Heard(p, ok).stage = "answered"
         /\ Heard(p, ok).ok = ok /\ Heard(p, ok).todo = p.todo
         /\ Heard(p, ok).hook = p.hook /\ Heard(p, ok).batch = p.batch
         /\ Heard(p, ok).seen = p.seen
  BY DEF Heard, Pass

LEMMA StartMakes == ASSUME NEW w, Start(w)
                    PROVE  Makes(w, Locked)
  BY DEF Start, Locking, Locked, Makes

LEMMA BeginMakes == ASSUME PassType, NEW w \in Worker, NEW h, Begin(w, h)
                    PROVE  Makes(w, GoOn(Opened(pass[w], h)))
  BY DEF Begin, Makes, PassType

LEMMA SecretMakes == ASSUME PassType, NEW w \in Worker, NEW h, SecretLocked(w, h)
                     PROVE  Makes(w, Leave(Without(pass[w], h)))
  BY DEF SecretLocked, Makes, PassType

LEMMA SkipMakes == ASSUME PassType, NEW w \in Worker, NEW h, NEW e, Skip(w, h, e)
                   PROVE  Makes(w, GoOn(After(pass[w], e)))
  BY DEF Skip, Makes, PassType

LEMMA PostMakes ==
  ASSUME PassType, NEW w \in Worker, NEW h, NEW e, NEW ok, Post(w, h, e, ok)
  PROVE  Makes(w, Heard(pass[w], ok))
  BY DEF Post, Heard, Makes, PassType

LEMMA SucceedMakes ==
  ASSUME PassType, NEW w \in Worker, NEW h, NEW e, Succeed(w, h, e)
  PROVE  Makes(w, IF Stored(h) THEN GoOn(Sent(pass[w], h, e)) ELSE Leave(pass[w]))
  BY DEF Succeed, Makes, PassType

LEMMA FailMakes == ASSUME PassType, NEW w \in Worker, NEW h, NEW e, Fail(w, h, e)
                   PROVE  Makes(w, Leave(pass[w]))
  BY DEF Fail, Makes, PassType

LEMMA PassTypes ==
  ASSUME TypeOK, NEW w \in Worker,
         PassStep(w) \/ StoreFails(w) \/ LoseSession(w) \/ Crash(w)
  PROVE  TypeOK'
  <1>0. /\ RowType /\ PassType /\ LogTypeOK /\ pass[w] \in Pass
        /\ lock \subseteq Worker /\ faults \in 0..MaxFaults
        /\ accepted \in [Hook -> SUBSET Id]
        /\ faults + 1 \in Nat /\ (faults < MaxFaults => faults + 1 \in 0..MaxFaults)
    BY HookAssumption DEF TypeOK, RowType, PassType
  <1>c. \A e \in Event : e.id \in 0..MaxEvents /\ e.id \in Id
    BY EventAssumption DEF Event, Id
  <1>b. \A e \in pass[w].batch : e \in Event
    BY <1>0 DEF Pass
  <1>1. CASE Start(w)
    BY <1>0, <1>1, StartMakes, LockedIs, MakesType DEF Start, Locking, RowType
  <1>2. CASE End(w)
    <2>1. Makes(w, NoPass)
      BY <1>2 DEF End, Makes
    <2> QED  BY <1>0, <1>2, <2>1, NoPassType, MakesType DEF End, RowType
  <1>3. ASSUME NEW h \in Hook, Begin(w, h)
        PROVE  TypeOK'
    BY <1>0, <1>3, BeginMakes, OpenedIs, GoOnIs, MakesType DEF Begin, RowType
  <1>4. ASSUME NEW h \in Hook, SecretLocked(w, h)
        PROVE  TypeOK'
    <2>1. pass[w].seen[h] \in Row
      BY <1>0 DEF Pass
    <2>2. row' \in [Hook -> Row]
      BY <1>0, <1>4, <2>1, FailedType DEF SecretLocked, RowType
    <2> QED  BY <1>0, <1>4, <2>2, SecretMakes, WithoutIs, LeaveIs, MakesType
             DEF SecretLocked
  <1>5. ASSUME NEW h \in Hook, NEW e \in pass[w].batch, Skip(w, h, e)
        PROVE  TypeOK'
    <2>1. row' \in [Hook -> Row]
      BY <1>0, <1>b, <1>c, <1>5 DEF Skip, RowType, Row
    <2> QED  BY <1>0, <1>5, <2>1, SkipMakes, AfterIs, GoOnIs, MakesType DEF Skip
  <1>6. ASSUME NEW h \in Hook, NEW e \in pass[w].batch, Succeed(w, h, e)
        PROVE  TypeOK'
    <2> DEFINE r == [row[h] EXCEPT !.cursor = e.id, !.since = "never",
                                   !.waiting = FALSE]
               q == IF Stored(h) THEN GoOn(Sent(pass[w], h, e)) ELSE Leave(pass[w])
    <2>1. r \in Row
      <3>1. row[h] \in Row /\ e.id \in 0..MaxEvents
        BY <1>0, <1>b, <1>c DEF RowType
      <3> QED  BY <3>1 DEF Row
    <2>2. row' \in [Hook -> Row]
      <3>1. row' = IF Stored(h) THEN [row EXCEPT ![h] = r] ELSE row
        BY <1>0, <1>6 DEF Succeed, RowType
      <3> HIDE DEF r
      <3> QED  BY <1>0, <2>1, <3>1 DEF RowType
    <2>3. q \in Pass
      BY <1>0, SentIs, GoOnIs, LeaveIs
    <2>4. Makes(w, q)
      BY <1>0, <1>6, SucceedMakes
    <2> HIDE DEF q
    <2> QED  BY <1>0, <1>6, <2>2, <2>3, <2>4, MakesType DEF Succeed
  <1>7. ASSUME NEW h \in Hook, NEW e \in pass[w].batch, Fail(w, h, e)
        PROVE  TypeOK'
    <2>1. pass[w].seen[h] \in Row
      BY <1>0 DEF Pass
    <2>2. row' \in [Hook -> Row]
      BY <1>0, <1>7, <2>1, FailedType DEF Fail, RowType
    <2> QED  BY <1>0, <1>7, <2>2, FailMakes, LeaveIs, MakesType DEF Fail
  <1>8. ASSUME NEW h \in Hook, NEW e \in pass[w].batch, NEW ok \in BOOLEAN,
               Post(w, h, e, ok)
        PROVE  TypeOK'
    <2>1. accepted' \in [Hook -> SUBSET Id]
      BY <1>0, <1>b, <1>c, <1>8 DEF Post
    <2> QED  BY <1>0, <1>8, <2>1, PostMakes, HeardIs, MakesType DEF Post, RowType
  <1>9. CASE StoreFails(w)
    <2>1. Makes(w, Leave(pass[w]))
      BY <1>0, <1>9 DEF StoreFails, Makes, PassType
    <2> QED  BY <1>0, <1>9, <2>1, LeaveIs, MakesType DEF StoreFails, Faulted, RowType
  <1>10. CASE LoseSession(w)
    BY <1>0, <1>10 DEF LoseSession, Faulted, TypeOK, Elsewhere, LogTypeOK, logVars
  <1>11. CASE Crash(w)
    <2>1. Makes(w, NoPass)
      BY <1>11 DEF Crash, Makes
    <2> QED  BY <1>0, <1>11, <2>1, NoPassType, MakesType DEF Crash, Faulted, RowType
  <1> QED  BY <1>1, <1>2, <1>3, <1>4, <1>5, <1>6, <1>7, <1>8, <1>9, <1>10, <1>11
           DEF PassStep
-----------------------------------------------------------------------------
(* What a pass may rely on.                                                *)

\* A step forgets nothing that was done, and adds no need below the head.
Calm ==
  /\ head <= head' /\ swept \subseteq swept'
  /\ \A h \in Hook : \A i \in Need(h)' : i <= head => i \in Need(h)
  /\ \A h \in Hook : \A i \in Need(h)' : i \in Done(h) => i \in Done(h)'
  /\ \A e \in events : e \in events' \/ e.id \in swept'
  /\ \A h \in Hook : row[h].status # "none" => row'[h].status # "none"

\* What comes to be needed of h, the pass p reads by a filter that wants it.
Wanted(p, h) ==
  \A e \in events' : e.id \in Need(h)' =>
    (e \in events /\ e.id \in Need(h)) \/ e.kind \in p.seen[h].kinds

\* The pass q is what a step left of p.
Rest(p, q) ==
  /\ q.todo \subseteq p.todo /\ q.hook \subseteq p.hook
  /\ q.batch \subseteq p.batch
  /\ \A h \in q.todo \cup q.hook : /\ q.seen[h].cursor = p.seen[h].cursor
                                   /\ q.seen[h].kinds = p.seen[h].kinds

\* What is gone from its batch is done.
DroppedDone(p, q) ==
  \A h \in q.hook : \A e \in p.batch \ q.batch :
    e.id \in Need(h)' => e.id \in Done(h)'

LEMMA CoveredStays ==
  ASSUME TypeOK, TypeOK', Calm, NEW h \in Hook, NEW c \in Nat, Covered(h, c)
  PROVE  c <= head' /\ \A i \in Need(h)' : i <= c => i \in Done(h)'
  <1>1. head \in Nat /\ head' \in Nat /\ Need(h)' \subseteq Nat
    BY EventAssumption DEF TypeOK, LogTypeOK, Need, Id
  <1> QED  BY <1>1 DEF Covered, Calm

LEMMA PassKept ==
  ASSUME TypeOK, TypeOK', Calm, NEW w \in Worker, PassOK(pass[w]),
         Rest(pass[w], pass'[w]), DroppedDone(pass[w], pass'[w]),
         \A h \in pass'[w].todo \cup pass'[w].hook : Wanted(pass[w], h),
         AnswerOK(pass[w])'
  PROVE  PassOK(pass[w])'
  <1> DEFINE p == pass[w]
             q == pass'[w]
  <1>1. p \in Pass /\ q \in Pass /\ head \in Nat /\ head' \in Nat
        /\ \A h \in Hook : Need(h)' \subseteq Nat
    BY EventAssumption DEF TypeOK, LogTypeOK, Need, Id
  <1>2. /\ q.todo \subseteq p.todo /\ q.hook \subseteq p.hook
        /\ q.todo \subseteq Hook /\ q.hook \subseteq Hook
        /\ q.batch \subseteq p.batch /\ \A e \in p.batch : e.id \in Nat
    BY <1>1, EventAssumption DEF Rest, Pass, Event, Id
  <1>3. ASSUME NEW h \in q.todo
        PROVE  Covered(h, pass[w].seen[h].cursor)'
    <2>1. Covered(h, p.seen[h].cursor) /\ p.seen[h].cursor \in Nat
          /\ q.seen[h].cursor = p.seen[h].cursor
      BY <1>1, <1>2, <1>3, EventAssumption DEF PassOK, ReadOK, Rest, Pass, Row
    <2> QED  BY <1>2, <1>3, <2>1, CoveredStays DEF Covered
  <1>4. ASSUME NEW h \in q.todo \cup q.hook
        PROVE  /\ row'[h].status # "none"
               /\ \A e \in events' : e.id \in Need(h)' => e.kind \in q.seen[h].kinds
    <2>1. /\ row[h].status # "none"
          /\ \A e \in events : e.id \in Need(h) => e.kind \in p.seen[h].kinds
          /\ q.seen[h].kinds = p.seen[h].kinds /\ Wanted(p, h)
      BY <1>2, <1>4 DEF PassOK, ReadOK, Rest
    <2> QED  BY <1>2, <1>4, <2>1 DEF Calm, Wanted
  <1>5. ReadOK(pass[w])'
    BY <1>2, <1>3, <1>4 DEF PassOK, ReadOK
  <1>6. ASSUME NEW e \in q.batch
        PROVE  e.id <= head' /\ (e \in events' \/ e.id \in swept')
    <2>1. e.id <= head /\ (e \in events \/ e.id \in swept) /\ e.id \in Nat
      BY <1>2, <1>6 DEF PassOK, BatchOK
    <2>2. head <= head' /\ swept \subseteq swept'
          /\ (e \in events => e \in events' \/ e.id \in swept')
      BY DEF Calm
    <2> QED  BY <1>1, <2>1, <2>2
  <1>7. ASSUME NEW h \in q.hook, NEW e \in q.batch, NEW i \in Need(h)', i <= e.id
        PROVE  i \in Done(h)' \/ \E f \in q.batch : f.id = i
    <2>1. e.id <= head /\ e.id \in Nat /\ i \in Nat /\ h \in Hook
      BY <1>1, <1>2 DEF PassOK, BatchOK
    <2>2. i \in Need(h)
      BY <1>1, <1>7, <2>1 DEF Calm
    <2>3. i \in Done(h) \/ \E f \in p.batch : f.id = i
      BY <1>2, <1>7, <2>2 DEF PassOK, BatchOK
    <2>4. CASE i \in Done(h)
      BY <2>1, <2>4 DEF Calm
    <2>5. CASE \E f \in p.batch : f.id = i
      BY <2>5 DEF DroppedDone
    <2> QED  BY <2>3, <2>4, <2>5
  <1>8. BatchOK(pass[w])'
    BY <1>6, <1>7 DEF BatchOK
  <1> QED  BY <1>5, <1>8 DEF PassOK

\* The passes a step leaves alone.
LEMMA OthersKept ==
  ASSUME TypeOK, TypeOK', Calm, NEW w \in Worker, PassOK(pass[w]),
         pass'[w] = pass[w],
         \A h \in pass[w].todo \cup pass[w].hook : Wanted(pass[w], h),
         \A h \in pass[w].hook :
           Stored(h)' => Stored(h) /\ accepted[h] \subseteq accepted'[h]
  PROVE  PassOK(pass[w])'
  <1>1. AnswerOK(pass[w])'
    BY DEF PassOK, AnswerOK, IsFirst
  <1>2. Rest(pass[w], pass'[w]) /\ DroppedDone(pass[w], pass'[w])
    BY DEF Rest, DroppedDone
  <1> QED  BY <1>1, <1>2, PassKept
-----------------------------------------------------------------------------
(* The log.                                                                *)

LEMMA HookKept ==
  ASSUME TypeOK, TypeOK', Calm, NEW h \in Hook, HookOK(h),
         row'[h].cursor = row[h].cursor, row'[h].kinds = row[h].kinds,
         Stored(h) => Stored(h)', owed'[h] = owed[h],
         events' \subseteq events
  PROVE  HookOK(h)'
  <1>1. Covered(h, row[h].cursor) /\ row[h].cursor \in Nat
    BY EventAssumption DEF HookOK, TypeOK, Row
  <1>2. Covered(h, row[h].cursor)'
    BY <1>1, CoveredStays DEF Covered
  <1> QED  BY <1>2 DEF HookOK, Calm

LEMMA CommitStep ==
  ASSUME IInv, TypeOK', NEW e \in open, CommitEvent(e)
  PROVE  IInv'
  <1> USE DEF Idle
  <1>0. /\ TypeOK /\ LogOK /\ AdminOK /\ head \in Nat /\ e.id = head + 1
        /\ e.id \in Id /\ Id \subseteq Nat
    BY EventAssumption DEF IInv, LogOK, TypeOK, LogTypeOK, Event, Id
  <1>1. /\ open' = open \ {e} /\ head' = head + 1 /\ events' = events \cup {e}
        /\ swept' = swept /\ accepted' = accepted /\ row' = row /\ pass' = pass
    BY <1>0 DEF CommitEvent, Commit
  <1>2. LogOK'
    <2>1. IsFiniteSet(events')
      BY <1>0, <1>1, FS_AddElement DEF LogOK
    <2>2. \A f \in open' : FALSE
      <3>1. \A f \in open : f = e
        BY <1>0 DEF LogOK
      <3> QED  BY <1>1, <3>1
    <2>3. \A f \in events' : f.id \in Nat /\ f.id <= head'
      <3>1. \A f \in events : f.id \in Nat /\ f.id <= head
        BY <1>0 DEF LogOK, TypeOK, LogTypeOK, Event
      <3> QED  BY <1>0, <1>1, <3>1
    <2>4. \A f, g \in events' : f.id = g.id => f = g
      BY <1>0, <1>1 DEF LogOK, TypeOK, LogTypeOK, Event
    <2>5. \A i \in swept' : i <= head'
      BY <1>0, <1>1 DEF LogOK, TypeOK, LogTypeOK
    <2> QED  BY <2>1, <2>2, <2>3, <2>4, <2>5 DEF LogOK
  <1>3. AdminOK'
    BY <1>0, <1>1 DEF AdminOK, CommitEvent, Stored
  <1>4. ASSUME NEW h \in Hook
        PROVE  /\ e.id \notin owed[h]
               /\ owed'[h] \subseteq owed[h] \cup {e.id} /\ owed[h] \subseteq owed'[h]
               /\ e.id \in owed'[h] => Stored(h) /\ e.kind \in row[h].kinds
               /\ Need(h)' \subseteq Need(h) \cup {e.id}
               /\ Done(h)' = Done(h)
    <2>1. e.id \notin owed[h]
      <3>1. \A i \in owed[h] : i \in swept \/ \E f \in events : f.id = i
        BY DEF IInv, HookOK
      <3>2. \A i \in swept : i <= head
        BY <1>0 DEF LogOK
      <3>3. \A f \in events : f.id <= head
        BY <1>0 DEF LogOK
      <3> QED  BY <1>0, <3>1, <3>2, <3>3
    <2>2. /\ owed'[h] = IF Stored(h) /\ e.kind \in row[h].kinds
                          THEN owed[h] \cup {e.id} ELSE owed[h]
          /\ stale[h] \subseteq stale'[h]
      BY <1>0 DEF CommitEvent, TypeOK
    <2> QED  BY <1>1, <2>1, <2>2 DEF Need, Done
  <1>5. Calm
    <2>1. \A h \in Hook : e.id \notin Need(h) /\ e.id > head
      BY <1>0, <1>4 DEF Need
    <2> QED  BY <1>0, <1>1, <1>4, <2>1 DEF Calm
  <1>6. ASSUME NEW h \in Hook
        PROVE  HookOK(h)'
    <2>1. HookOK(h) /\ row[h].cursor \in Nat
      BY <1>0, EventAssumption DEF IInv, TypeOK, Row
    <2>2. Covered(h, row[h].cursor)'
      BY <1>0, <1>1, <1>5, <2>1, CoveredStays DEF HookOK, Covered
    <2>3. ~Stored(h)' => owed'[h] = {}
      BY <1>1, <1>4, <2>1 DEF HookOK, Stored
    <2>4. \A i \in owed'[h] : i \in swept' \/ \E f \in events' : f.id = i
      BY <1>1, <1>4, <2>1 DEF HookOK
    <2>5. \A f \in events' : f.id \in owed'[h] => f.kind \in row'[h].kinds
      <3>1. \A f \in events : f.id # e.id
        <4>1. \A f \in events : f.id <= head
          BY <1>0 DEF LogOK
        <4> QED  BY <1>0, <4>1
      <3> QED  BY <1>1, <1>4, <2>1, <3>1 DEF HookOK
    <2> QED  BY <2>2, <2>3, <2>4, <2>5 DEF HookOK
  <1>7. ASSUME NEW w \in Worker
        PROVE  PassOK(pass[w])'
    <2>1. ASSUME NEW h \in pass[w].todo \cup pass[w].hook
          PROVE  Wanted(pass[w], h)
      <3>1. h \in Hook
        BY <1>0 DEF TypeOK, Pass
      <3>2. e.id \in Need(h)' => e.kind \in pass[w].seen[h].kinds
        <4>1. SUFFICES ASSUME e.id \in Need(h)', ReadOlder(w, h, e)
                       PROVE  FALSE
          BY <2>1 DEF ReadOlder
        <4>2. e.id \in owed'[h] /\ e.id \notin stale'[h]
          BY <4>1 DEF Need
        <4>3. Stored(h) /\ e.kind \in row[h].kinds
          BY <1>4, <3>1, <4>2
        <4>4. e.id \in stale'[h]
          BY <3>1, <4>1, <4>3 DEF CommitEvent
        <4> QED  BY <4>2, <4>4
      <3>3. \A f \in events : f.id # e.id
        <4>1. \A f \in events : f.id <= head
          BY <1>0 DEF LogOK
        <4> QED  BY <1>0, <4>1
      <3> QED  BY <1>1, <1>4, <3>1, <3>2, <3>3 DEF Wanted
    <2>2. PassOK(pass[w])
      BY DEF IInv
    <2> QED  BY <1>0, <1>1, <1>5, <2>1, <2>2, OthersKept DEF Stored
  <1> QED  BY <1>2, <1>3, <1>6, <1>7 DEF IInv

\* Steps that change neither the registrations nor the passes.
LEMMA LogStep ==
  ASSUME IInv, TypeOK', LogOK', UNCHANGED <<row, pass, admin, accepted, owed, stale>>,
         head' = head, swept \subseteq swept', events' \subseteq events,
         \A e \in events : e \in events' \/ e.id \in swept'
  PROVE  IInv'
  <1>0. TypeOK /\ head \in Nat
    BY EventAssumption DEF IInv, TypeOK, LogTypeOK
  <1>1. \A h \in Hook : Need(h)' = Need(h) /\ Done(h) \subseteq Done(h)'
    BY DEF Need, Done
  <1>2. Calm
    BY <1>0, <1>1 DEF Calm
  <1>3. ASSUME NEW h \in Hook
        PROVE  HookOK(h)'
    BY <1>0, <1>2, HookKept DEF IInv, Stored
  <1>4. ASSUME NEW w \in Worker
        PROVE  PassOK(pass[w])'
    <2>1. \A h \in pass[w].todo \cup pass[w].hook : h \in Hook /\ Wanted(pass[w], h)
      BY <1>0, <1>1 DEF Wanted, TypeOK, Pass
    <2> QED  BY <1>0, <1>2, <2>1, OthersKept DEF IInv, Stored
  <1>5. AdminOK'
    BY DEF IInv, AdminOK, Stored
  <1> QED  BY <1>3, <1>4, <1>5 DEF IInv

LEMMA LogKept ==
  ASSUME IInv,
         \/ \E k \in Kind : RecordEvent(k)
         \/ \E e \in open : CommitEvent(e) \/ LoseEvent(e)
         \/ \E id \in Id : SweepEvents(id)
  PROVE  IInv'
  <1> USE DEF Idle
  <1>0. TypeOK /\ LogOK /\ TypeOK'
    BY LogSteps DEF IInv
  <1>1. ASSUME NEW k \in Kind, RecordEvent(k)
        PROVE  IInv'
    <2>1. LogOK'
      BY <1>0, <1>1 DEF LogOK, RecordEvent, Record
    <2> QED  BY <1>0, <1>1, <2>1, LogStep DEF RecordEvent, Record, TypeOK, LogTypeOK
  <1>2. ASSUME NEW e \in open, CommitEvent(e)
        PROVE  IInv'
    BY <1>0, <1>2, CommitStep
  <1>3. ASSUME NEW e \in open, LoseEvent(e)
        PROVE  IInv'
    <2>1. LogOK'
      BY <1>0, <1>3 DEF LogOK, LoseEvent, Rollback
    <2> QED  BY <1>0, <1>3, <2>1, LogStep DEF LoseEvent, Rollback
  <1>4. ASSUME NEW id \in Id, SweepEvents(id)
        PROVE  IInv'
    <2> DEFINE old == {e \in events : e.id <= id}
    <2>1. events' = events \ old /\ swept' = swept \cup {e.id : e \in old}
          /\ head' = head /\ open' = open
      BY <1>4 DEF SweepEvents, Sweep
    <2>2. IsFiniteSet(events')
      BY <1>0, <2>1, FS_Subset DEF LogOK
    <2>3. LogOK'
      BY <1>0, <2>1, <2>2 DEF LogOK
    <2>4. \A e \in events : e \in events' \/ e.id \in swept'
      BY <2>1
    <2> QED  BY <1>0, <1>4, <2>1, <2>3, <2>4, LogStep DEF SweepEvents
  <1> QED  BY <1>1, <1>2, <1>3, <1>4
-----------------------------------------------------------------------------
(* The administrator, and time.                                            *)

\* A step that changes registrations only.
LEMMA RowStep ==
  ASSUME IInv, TypeOK', UNCHANGED <<logVars, pass>>, AdminOK',
         \A h \in Hook : HookOK(h)',
         \A h \in Hook : Need(h)' \subseteq Need(h),
         \A h \in Hook : \A i \in Need(h)' : i \in Done(h) => i \in Done(h)',
         \A h \in Hook : row[h].status # "none" =>
           /\ row'[h].status # "none"
           /\ Stored(h)' => Stored(h) /\ accepted[h] \subseteq accepted'[h]
  PROVE  IInv'
  <1>0. TypeOK /\ LogOK /\ head \in Nat
    BY EventAssumption DEF IInv, TypeOK, LogTypeOK
  <1>1. LogOK'
    BY <1>0 DEF LogOK, logVars
  <1>2. Calm
    BY <1>0 DEF Calm, logVars
  <1>3. ASSUME NEW w \in Worker
        PROVE  PassOK(pass[w])'
    <2>1. PassOK(pass[w]) /\ pass'[w] = pass[w] /\ pass[w] \in Pass
      BY <1>0 DEF IInv, TypeOK
    <2>2. \A h \in pass[w].todo \cup pass[w].hook :
            h \in Hook /\ row[h].status # "none"
      BY <2>1 DEF PassOK, ReadOK, Pass
    <2>3. \A h \in pass[w].todo \cup pass[w].hook : Wanted(pass[w], h)
      BY <2>2 DEF Wanted, logVars
    <2> QED  BY <1>0, <1>2, <2>1, <2>2, <2>3, OthersKept
  <1> QED  BY <1>1, <1>3 DEF IInv

\* One that leaves what the registrations admit and where they stand.
LEMMA StatusStep ==
  ASSUME IInv, TypeOK', UNCHANGED <<logVars, pass, historyVars>>, AdminOK',
         \A h \in Hook : /\ row'[h].cursor = row[h].cursor
                         /\ row'[h].kinds = row[h].kinds
                         /\ Stored(h)' = Stored(h)
                         /\ row[h].status # "none" => row'[h].status # "none"
  PROVE  IInv'
  <1>0. TypeOK /\ head \in Nat
    BY EventAssumption DEF IInv, TypeOK, LogTypeOK
  <1>1. \A h \in Hook : Need(h)' = Need(h) /\ Done(h)' = Done(h)
    BY DEF Need, Done, historyVars, logVars
  <1>2. Calm
    BY <1>0, <1>1 DEF Calm, logVars
  <1>3. \A h \in Hook : HookOK(h)'
    BY <1>0, <1>2, HookKept DEF IInv, historyVars, logVars
  <1> QED  BY <1>1, <1>3, RowStep DEF historyVars

LEMMA CreateStep ==
  ASSUME IInv, TypeOK', NEW h \in Hook, NEW kinds, Create(h, kinds)
  PROVE  IInv'
  <1>0. /\ TypeOK /\ LogOK /\ head \in Nat /\ row \in [Hook -> Row]
        /\ row[h].status = "none" /\ ~Stored(h) /\ owed[h] = {}
    BY EventAssumption DEF IInv, TypeOK, LogTypeOK, Create, Stored, HookOK
  <1>1. PICK c \in 0..MaxEvents :
          /\ IsLastId(c)
          /\ row' = [row EXCEPT ![h] = [NoRow EXCEPT !.status = "active",
                                         !.kinds = kinds, !.cursor = c]]
    BY DEF Create
  <1>2. row'[h].cursor = c /\ row'[h].kinds = kinds /\ Stored(h)'
    BY <1>0, <1>1 DEF NoRow, Stored
  <1>3. UNCHANGED <<logVars, pass, admin, historyVars>>
    BY DEF Create
  <1>4. c <= head
    BY <1>0, <1>1 DEF IsLastId, LogOK
  <1>5. \A g \in Hook : Need(g)' = Need(g) /\ Done(g)' = Done(g)
    BY <1>3 DEF Need, Done, historyVars, logVars
  <1>6. \A g \in Hook : g # h => row'[g] = row[g]
    BY <1>0, <1>1
  <1>7. ASSUME NEW g \in Hook
        PROVE  HookOK(g)'
    <2>1. CASE g = h
      BY <1>0, <1>2, <1>3, <1>4, <2>1
      DEF HookOK, Covered, Need, historyVars, logVars
    <2>2. CASE g # h
      <3>1. Calm
        BY <1>0, <1>1, <1>3, <1>5, <1>6 DEF Calm, logVars
      <3> QED  BY <1>0, <1>3, <1>6, <2>2, <3>1, HookKept
               DEF IInv, historyVars, logVars, Stored
    <2> QED  BY <2>1, <2>2
  <1>8. AdminOK'
    BY <1>3 DEF IInv, AdminOK
  <1>9. \A g \in Hook : row[g].status # "none" =>
           /\ row'[g].status # "none"
           /\ Stored(g)' => Stored(g) /\ accepted[g] \subseteq accepted'[g]
    BY <1>0, <1>3, <1>6 DEF Stored, historyVars
  <1> QED  BY <1>3, <1>5, <1>7, <1>8, <1>9, RowStep

LEMMA WriteStep ==
  ASSUME IInv, TypeOK', NEW h \in Hook, WriteStatus(h)
  PROVE  IInv'
  <1> DEFINE set == [row[h] EXCEPT !.status = admin.to]
             cleared == [set EXCEPT !.since = "never", !.waiting = FALSE]
             r == IF admin.to = "active" /\ admin.saw # "active"
                    THEN cleared ELSE set
  <1>0. TypeOK /\ row \in [Hook -> Row] /\ row[h] \in Row
        /\ admin.to \in {"active", "disabled"}
    BY DEF IInv, TypeOK, WriteStatus, AdminOK
  <1>1. /\ set.cursor = row[h].cursor /\ set.kinds = row[h].kinds
        /\ set.status = admin.to /\ set \in Row
    BY <1>0 DEF Row
  <1>2. /\ cleared.cursor = row[h].cursor /\ cleared.kinds = row[h].kinds
        /\ cleared.status = admin.to
    BY <1>1 DEF Row
  <1>3. row' = IF Stored(h) THEN [row EXCEPT ![h] = r] ELSE row
    BY DEF WriteStatus
  <1>4. /\ r.cursor = row[h].cursor /\ r.kinds = row[h].kinds
        /\ r.status = admin.to
    BY <1>1, <1>2
  <1> HIDE DEF r
  <1>5. \A g \in Hook : /\ row'[g].cursor = row[g].cursor
                        /\ row'[g].kinds = row[g].kinds
                        /\ Stored(g)' = Stored(g)
                        /\ row[g].status # "none" => row'[g].status # "none"
    BY <1>0, <1>3, <1>4 DEF Stored
  <1>6. AdminOK'
    BY DEF WriteStatus, AdminOK, NoAdmin
  <1> QED  BY <1>5, <1>6, StatusStep DEF WriteStatus

LEMMA EditStep ==
  ASSUME IInv, TypeOK', NEW h \in Hook, NEW kinds, EditKinds(h, kinds)
  PROVE  IInv'
  <1>0. /\ TypeOK /\ LogOK /\ head \in Nat /\ row \in [Hook -> Row]
        /\ owed \in [Hook -> SUBSET Id] /\ Id \subseteq Nat
    BY EventAssumption DEF IInv, TypeOK, LogTypeOK, Id
  <1>1. UNCHANGED <<logVars, pass, admin, accepted, stale>>
    BY DEF EditKinds
  <1>2. /\ \A g \in Hook : g # h => row'[g] = row[g] /\ owed'[g] = owed[g]
        /\ row'[h] = [row[h] EXCEPT !.kinds = kinds]
        /\ owed'[h] = {i \in owed[h] :
                         \E e \in events : e.id = i /\ e.kind \in kinds}
    BY <1>0 DEF EditKinds
  <1>3. /\ row'[h].cursor = row[h].cursor /\ row'[h].kinds = kinds
        /\ row'[h].status = row[h].status
    BY <1>0, <1>2 DEF Row
  <1>4. \A g \in Hook : /\ Need(g)' \subseteq Need(g) /\ Done(g)' = Done(g)
                        /\ Stored(g)' = Stored(g)
    BY <1>1, <1>2, <1>3 DEF Need, Done, Stored, logVars
  <1>5. Calm
    <2>1. \A g \in Hook : row[g].status # "none" => row'[g].status # "none"
      BY <1>2, <1>3
    <2>2. head' = head /\ swept' = swept /\ events' = events
      BY <1>1 DEF logVars
    <2> QED  BY <1>0, <1>4, <2>1, <2>2 DEF Calm
  <1>6. ASSUME NEW g \in Hook
        PROVE  HookOK(g)'
    <2>0. HookOK(g)
      BY DEF IInv
    <2>1. CASE g # h
      BY <1>0, <1>1, <1>2, <1>4, <1>5, <2>0, <2>1, HookKept DEF logVars
    <2>2. CASE g = h
      <3>1. row[h].cursor \in Nat
        BY <1>0, EventAssumption DEF Row
      <3>2. Covered(h, row[h].cursor)'
        BY <1>0, <1>3, <1>5, <2>0, <2>2, <3>1, CoveredStays DEF HookOK, Covered
      <3>3. ~Stored(h)' => owed'[h] = {}
        BY <1>2, <1>4, <2>0, <2>2 DEF HookOK
      <3>4. \A i \in owed'[h] : i \in swept' \/ \E e \in events' : e.id = i
        BY <1>1, <1>2, <2>0, <2>2 DEF logVars
      <3>5. \A e \in events' : e.id \in owed'[h] => e.kind \in row'[h].kinds
        BY <1>0, <1>1, <1>2, <1>3 DEF logVars, LogOK
      <3> QED  BY <2>2, <3>2, <3>3, <3>4, <3>5 DEF HookOK
    <2> QED  BY <2>1, <2>2
  <1>7. AdminOK'
    BY <1>1, <1>4, <1>0 DEF IInv, AdminOK, TypeOK
  <1>8. \A g \in Hook : row[g].status # "none" => row'[g].status # "none"
    BY <1>2, <1>3
  <1> QED  BY <1>1, <1>4, <1>6, <1>7, <1>8, RowStep

LEMMA DeleteStep ==
  ASSUME IInv, TypeOK', NEW h \in Hook, Delete(h)
  PROVE  IInv'
  <1>0. /\ TypeOK /\ LogOK /\ head \in Nat /\ row \in [Hook -> Row]
        /\ AdminOK
    BY EventAssumption DEF IInv, TypeOK, LogTypeOK, Delete
  <1>1. UNCHANGED <<logVars, pass, admin>>
    BY DEF Delete
  <1>2. /\ \A g \in Hook : g # h => /\ row'[g] = row[g] /\ owed'[g] = owed[g]
                                    /\ accepted'[g] = accepted[g]
                                    /\ stale'[g] = stale[g]
        /\ row'[h] = [NoRow EXCEPT !.status = "deleted"]
        /\ owed'[h] = {}
    BY <1>0 DEF Delete, TypeOK
  <1>3. row'[h].cursor = 0 /\ row'[h].status = "deleted" /\ ~Stored(h)'
    BY <1>2 DEF NoRow, Stored
  <1>4. /\ Need(h)' = {}
        /\ \A g \in Hook : g # h => /\ Need(g)' = Need(g) /\ Done(g)' = Done(g)
                                    /\ Stored(g)' = Stored(g)
    BY <1>1, <1>2 DEF Need, Done, Stored, logVars
  <1>5. Calm
    <2>1. \A g \in Hook : row[g].status # "none" => row'[g].status # "none"
      BY <1>2, <1>3
    <2>2. head' = head /\ swept' = swept /\ events' = events
      BY <1>1 DEF logVars
    <2> QED  BY <1>0, <1>4, <2>1, <2>2 DEF Calm
  <1>6. ASSUME NEW g \in Hook
        PROVE  HookOK(g)'
    <2>1. CASE g # h
      BY <1>0, <1>1, <1>2, <1>4, <1>5, <2>1, HookKept DEF IInv, logVars
    <2>2. CASE g = h
      <3>1. Covered(h, row[h].cursor)'
        BY <1>0, <1>1, <1>3, <1>4 DEF Covered, logVars
      <3>2. \A e \in events' : e.id \in owed'[h] => e.kind \in row'[h].kinds
        BY <1>2
      <3>3. \A i \in owed'[h] : i \in swept' \/ \E e \in events' : e.id = i
        BY <1>2
      <3> QED  BY <1>2, <2>2, <3>1, <3>2, <3>3 DEF HookOK
    <2> QED  BY <2>1, <2>2
  <1>7. AdminOK'
    BY <1>0, <1>1, <1>4 DEF AdminOK, TypeOK
  <1>8. \A g \in Hook : row[g].status # "none" =>
           /\ row'[g].status # "none"
           /\ Stored(g)' => Stored(g) /\ accepted[g] \subseteq accepted'[g]
    BY <1>2, <1>3, <1>4
  <1>9. \A g \in Hook : /\ Need(g)' \subseteq Need(g)
                        /\ \A i \in Need(g)' : i \in Done(g) => i \in Done(g)'
    BY <1>4
  <1> QED  BY <1>1, <1>6, <1>7, <1>8, <1>9, RowStep

LEMMA AdminKept ==
  ASSUME IInv, NEW h \in Hook, AdminStep(h) \/ ComesDue(h) \/ Ages(h)
  PROVE  IInv'
  <1>0. TypeOK /\ TypeOK' /\ row[h] \in Row /\ row \in [Hook -> Row] /\ AdminOK
    BY AdminTypes DEF IInv, TypeOK
  <1>1. ASSUME NEW kinds \in Filters, Create(h, kinds)
        PROVE  IInv'
    BY <1>0, <1>1, CreateStep
  <1>2. ASSUME NEW kinds \in Filters, EditKinds(h, kinds)
        PROVE  IInv'
    BY <1>0, <1>2, EditStep
  <1>3. ASSUME NEW to \in {"active", "disabled"}, OpenStatus(h, to)
        PROVE  IInv'
    <2>1. AdminOK'
      BY <1>3 DEF OpenStatus, AdminOK, Stored
    <2> QED  BY <1>0, <1>3, <2>1, StatusStep DEF OpenStatus, Stored
  <1>4. CASE WriteStatus(h)
    BY <1>0, <1>4, WriteStep
  <1>5. CASE Delete(h)
    BY <1>0, <1>5, DeleteStep
  <1>6. CASE ComesDue(h)
    <2>1. \A g \in Hook : /\ row'[g].cursor = row[g].cursor
                          /\ row'[g].kinds = row[g].kinds
                          /\ row'[g].status = row[g].status
      BY <1>0, <1>6 DEF ComesDue, Row
    <2>2. AdminOK'
      BY <1>0, <1>6, <2>1 DEF ComesDue, AdminOK, Stored, TypeOK
    <2> QED  BY <1>0, <1>6, <2>1, <2>2, StatusStep DEF ComesDue, Stored
  <1>7. CASE Ages(h)
    <2>1. \A g \in Hook : /\ row'[g].cursor = row[g].cursor
                          /\ row'[g].kinds = row[g].kinds
                          /\ row'[g].status = row[g].status
      BY <1>0, <1>7 DEF Ages, Row
    <2>2. AdminOK'
      BY <1>0, <1>7, <2>1 DEF Ages, AdminOK, Stored, TypeOK
    <2> QED  BY <1>0, <1>7, <2>1, <2>2, StatusStep DEF Ages, Stored
  <1> QED  BY <1>1, <1>2, <1>3, <1>4, <1>5, <1>6, <1>7 DEF AdminStep
-----------------------------------------------------------------------------
(* The passes.                                                             *)

\* What a step of a pass may do outside of it.
Serves ==
  /\ Elsewhere
  /\ \A h \in Hook : /\ Stored(h)' = Stored(h) /\ row'[h].kinds = row[h].kinds
                     /\ row[h].status # "none" => row'[h].status # "none"
                     /\ accepted[h] \subseteq accepted'[h]

\* The step of the pass of w that makes q of it keeps the invariant.
LEMMA ServesCalm ==
  ASSUME TypeOK, Serves
  PROVE  Calm /\ \A h \in Hook : /\ Need(h)' = Need(h) /\ Done(h) \subseteq Done(h)'
                                 /\ \A p : Wanted(p, h)
  <1>1. head \in Nat
    BY EventAssumption DEF TypeOK, LogTypeOK
  <1>2. \A h \in Hook : Need(h)' = Need(h) /\ Done(h) \subseteq Done(h)'
    BY DEF Serves, Elsewhere, Need, Done, logVars
  <1>3. head' = head /\ swept' = swept /\ events' = events
    BY DEF Serves, Elsewhere, logVars
  <1>4. Calm
    BY <1>1, <1>2, <1>3 DEF Calm, Serves
  <1> QED  BY <1>2, <1>3, <1>4 DEF Wanted

LEMMA WorkStep ==
  ASSUME IInv, TypeOK', NEW w \in Worker, Serves,
         \A v \in Worker : v # w => pass'[v] = pass[v],
         \A h \in Hook : row'[h].cursor = row[h].cursor \/ Covered(h, row[h].cursor)',
         PassOK(pass[w])'
  PROVE  IInv'
  <1>0. /\ TypeOK /\ LogOK /\ AdminOK /\ Calm
        /\ head' = head /\ swept' = swept /\ events' = events /\ open' = open
        /\ admin' = admin /\ owed' = owed /\ stale' = stale
    BY ServesCalm DEF IInv, Serves, Elsewhere, logVars
  <1>1. LogOK'
    BY <1>0 DEF LogOK
  <1>2. AdminOK'
    BY <1>0 DEF AdminOK, Serves, TypeOK
  <1>3. ASSUME NEW h \in Hook
        PROVE  HookOK(h)'
    <2>0. HookOK(h) /\ row[h].cursor \in Nat
      BY <1>0, EventAssumption DEF IInv, TypeOK, Row
    <2>1. Covered(h, row[h].cursor)'
      BY <1>0, <2>0, CoveredStays DEF HookOK, Covered
    <2> QED  BY <1>0, <2>0, <2>1 DEF HookOK, Serves
  <1>4. ASSUME NEW v \in Worker
        PROVE  PassOK(pass[v])'
    <2>1. CASE v = w
      BY <2>1
    <2>2. CASE v # w
      <3>1. \A h \in pass[v].todo \cup pass[v].hook : h \in Hook /\ Wanted(pass[v], h)
        BY <1>0, ServesCalm DEF TypeOK, Pass
      <3>2. \A h \in pass[v].hook :
              Stored(h)' => Stored(h) /\ accepted[h] \subseteq accepted'[h]
        BY <3>1 DEF Serves
      <3> QED  BY <1>0, <2>2, <3>1, <3>2, OthersKept DEF IInv
    <2> QED  BY <2>1, <2>2
  <1> QED  BY <1>1, <1>2, <1>3, <1>4 DEF IInv

\* The pass of w is left with less to do, and what it drops is done.
LEMMA LessStep ==
  ASSUME IInv, TypeOK', NEW w \in Worker, Serves,
         \A v \in Worker : v # w => pass'[v] = pass[v],
         \A h \in Hook : row'[h].cursor = row[h].cursor \/ Covered(h, row[h].cursor)',
         Rest(pass[w], pass'[w]), DroppedDone(pass[w], pass'[w]),
         pass'[w].stage # "answered"
  PROVE  IInv'
  <1>1. TypeOK /\ Calm /\ PassOK(pass[w])
    BY ServesCalm DEF IInv
  <1>2. AnswerOK(pass[w])'
    BY DEF AnswerOK
  <1>3. \A h \in pass'[w].todo \cup pass'[w].hook : Wanted(pass[w], h)
    BY <1>1, ServesCalm DEF TypeOK, Pass
  <1>4. PassOK(pass[w])'
    BY <1>1, <1>2, <1>3, PassKept
  <1> QED  BY <1>4, WorkStep

\* An event the pass may leave behind: everything h needs up to it is done.
Past(h, e) ==
  /\ e.id <= head
  /\ \A i \in Need(h) : i <= e.id => i \in Done(h)

\* The first event of a batch is such an event if the filters skip it or the
\* endpoint accepted it.
LEMMA FirstPast ==
  ASSUME IInv, NEW w \in Worker, NEW h \in pass[w].hook, NEW e \in pass[w].batch,
         \A f \in pass[w].batch : e.id <= f.id,
         ~Matches(w, h, e) \/ e.id \in accepted[h]
  PROVE  Past(h, e)
  <1>0. /\ TypeOK /\ LogOK /\ ReadOK(pass[w]) /\ BatchOK(pass[w])
        /\ pass[w] \in Pass /\ h \in Hook /\ Need(h) \subseteq Nat
    BY EventAssumption DEF IInv, TypeOK, PassOK, Pass, Need, Id
  <1>1. \A f \in pass[w].batch : f.id \in Nat
    BY <1>0, EventAssumption DEF Pass, Event, Id
  <1>2. e.id <= head /\ (e \in events \/ e.id \in swept)
    BY <1>0 DEF BatchOK
  <1>3. ASSUME NEW i \in Need(h), i <= e.id
        PROVE  i \in Done(h)
    <2>1. i \in Done(h) \/ \E f \in pass[w].batch : f.id = i
      BY <1>0, <1>3 DEF BatchOK
    <2>2. ASSUME NEW f \in pass[w].batch, f.id = i
          PROVE  i \in Done(h)
      <3>1. i = e.id
        BY <1>0, <1>1, <1>3, <2>2
      <3>2. CASE e.id \in accepted[h] \/ e.id \in swept
        BY <3>1, <3>2 DEF Done
      <3>3. CASE e \in events /\ ~Matches(w, h, e)
        BY <1>0, <3>1, <3>3 DEF ReadOK, Matches
      <3> QED  BY <1>2, <3>2, <3>3
    <2> QED  BY <2>1, <2>2
  <1> QED  BY <1>2, <1>3 DEF Past

\* A failure changes neither the filters nor the cursor.
LEMMA FailedServes ==
  ASSUME TypeOK, NEW h \in Hook, NEW seen \in Row, Elsewhere, accepted' = accepted,
         row' = IF Stored(h) THEN Failed(h, seen) ELSE row
  PROVE  Serves /\ \A g \in Hook : row'[g].cursor = row[g].cursor
  <1>1. row \in [Hook -> Row]
    BY DEF TypeOK
  <1>2. \A g \in Hook : /\ row'[g].cursor = row[g].cursor
                        /\ row'[g].kinds = row[g].kinds
                        /\ Stored(g)' = Stored(g)
                        /\ row[g].status # "none" => row'[g].status # "none"
    <2>1. CASE Stored(h)
      <3>1. /\ \A g \in Hook : g # h => row'[g] = row[g]
            /\ row'[h].cursor = row[h].cursor /\ row'[h].kinds = row[h].kinds
            /\ row'[h].status \in {"active", "failing"}
        BY <1>1, <2>1, FailedType
      <3> QED  BY <2>1, <3>1 DEF Stored
    <2>2. CASE ~Stored(h)
      BY <2>2 DEF Stored
    <2> QED  BY <2>1, <2>2
  <1> QED  BY <1>2 DEF Serves

\* The cursor of h moves to the event the pass leaves behind.
LEMMA PastServes ==
  ASSUME TypeOK, NEW h \in Hook, NEW e, Past(h, e), Elsewhere,
         accepted' = accepted,
         \A g \in Hook : g # h => row'[g] = row[g],
         row'[h].cursor = e.id, row'[h].kinds = row[h].kinds,
         row'[h].status = row[h].status
  PROVE  /\ Serves
         /\ \A g \in Hook : row'[g].cursor = row[g].cursor \/ Covered(g, row[g].cursor)'
  <1>1. Serves
    BY DEF Serves, Stored
  <1>2. Covered(h, row[h].cursor)'
    <2>1. Need(h)' = Need(h) /\ Done(h) \subseteq Done(h)' /\ head' = head
      BY <1>1, ServesCalm DEF Elsewhere, logVars
    <2> QED  BY <2>1 DEF Past, Covered
  <1> QED  BY <1>1, <1>2

\* The pass goes on from e with the rest of its batch.
LEMMA DropStep ==
  ASSUME IInv, TypeOK', NEW w \in Worker, Serves, NEW h \in pass[w].hook,
         NEW e \in pass[w].batch, Past(h, e),
         \A v \in Worker : v # w => pass'[v] = pass[v],
         \A g \in Hook : row'[g].cursor = row[g].cursor \/ Covered(g, row[g].cursor)',
         NEW q \in Pass, pass'[w] = GoOn(q), q.stage = "sending",
         q.todo = pass[w].todo, q.hook = pass[w].hook, q.batch = pass[w].batch \ {e},
         \A g \in Hook : /\ q.seen[g].cursor = pass[w].seen[g].cursor
                         /\ q.seen[g].kinds = pass[w].seen[g].kinds
  PROVE  IInv'
  <1>0. /\ pass[w] \in Pass /\ TypeOK /\ ReadOK(pass[w])
        /\ pass[w].hook \subseteq Hook /\ pass[w].todo \subseteq Hook
    BY DEF IInv, TypeOK, PassOK, Pass
  <1>1. /\ pass'[w].todo = q.todo /\ pass'[w].hook \subseteq q.hook
        /\ pass'[w].batch = q.batch /\ pass'[w].stage \in {"rows", "sending"}
        /\ \A g \in q.todo \cup pass'[w].hook : pass'[w].seen[g] = q.seen[g]
    BY GoOnIs
  <1>2. Rest(pass[w], pass'[w])
    BY <1>0, <1>1 DEF Rest
  <1>3. DroppedDone(pass[w], pass'[w])
    <2>1. \A g \in pass'[w].hook : g = h
      BY <1>0, <1>1 DEF ReadOK
    <2>2. pass[w].batch \ pass'[w].batch \subseteq {e}
      BY <1>1
    <2>3. e.id \in Need(h) => e.id \in Done(h)
      <3>1. e.id \in Nat
        BY <1>0, EventAssumption DEF Pass, Event, Id
      <3> QED  BY <3>1 DEF Past
    <2>4. Need(h)' = Need(h) /\ Done(h) \subseteq Done(h)'
      BY <1>0, ServesCalm
    <2> QED  BY <2>1, <2>2, <2>3, <2>4 DEF DroppedDone
  <1> QED  BY <1>1, <1>2, <1>3, LessStep

LEMMA SkipStep ==
  ASSUME IInv, TypeOK', NEW w \in Worker, NEW h \in Hook, NEW e \in pass[w].batch,
         Skip(w, h, e)
  PROVE  IInv'
  <1>0. /\ TypeOK /\ PassType /\ pass[w] \in Pass /\ h \in pass[w].hook
        /\ row \in [Hook -> Row] /\ pass[w].stage = "sending"
    BY DEF IInv, TypeOK, PassType, Skip, First
  <1>1. Past(h, e)
    BY <1>0, FirstPast DEF Skip, First
  <1>2. /\ pass'[w] = GoOn(After(pass[w], e))
        /\ \A v \in Worker : v # w => pass'[v] = pass[v]
    BY <1>0, SkipMakes DEF Makes, PassType
  <1>3. /\ Serves
        /\ \A g \in Hook : row'[g].cursor = row[g].cursor \/ Covered(g, row[g].cursor)'
    <2>1. CASE Stored(h)
      <3>1. /\ \A g \in Hook : g # h => row'[g] = row[g]
            /\ row'[h].cursor = e.id /\ row'[h].kinds = row[h].kinds
            /\ row'[h].status = row[h].status
        BY <1>0, <2>1 DEF Skip, Row
      <3> QED  BY <1>0, <1>1, <3>1, PastServes DEF Skip
    <2>2. CASE ~Stored(h)
      BY <2>2 DEF Skip, Serves, Stored
    <2> QED  BY <2>1, <2>2
  <1> QED  BY <1>0, <1>1, <1>2, <1>3, AfterIs, DropStep

LEMMA SucceedStep ==
  ASSUME IInv, TypeOK', NEW w \in Worker, NEW h \in Hook, NEW e \in pass[w].batch,
         Succeed(w, h, e)
  PROVE  IInv'
  <1>0. /\ TypeOK /\ PassType /\ pass[w] \in Pass /\ h \in pass[w].hook
        /\ row \in [Hook -> Row] /\ row[h] \in Row /\ AnswerOK(pass[w])
    BY DEF IInv, TypeOK, PassType, Succeed, Answered, PassOK
  <1>1. /\ pass'[w] = IF Stored(h) THEN GoOn(Sent(pass[w], h, e)) ELSE Leave(pass[w])
        /\ \A v \in Worker : v # w => pass'[v] = pass[v]
    BY <1>0, SucceedMakes DEF Makes, PassType
  <1>2. CASE Stored(h)
    <2>1. Past(h, e)
      <3>1. e.id \in accepted[h]
        BY <1>0, <1>2 DEF Succeed, Answered, AnswerOK, IsFirst
      <3> QED  BY <1>0, <3>1, FirstPast DEF Succeed, Answered
    <2>2. /\ \A g \in Hook : g # h => row'[g] = row[g]
          /\ row'[h].cursor = e.id /\ row'[h].kinds = row[h].kinds
          /\ row'[h].status = row[h].status
      <3> DEFINE r == [row[h] EXCEPT !.cursor = e.id, !.since = "never",
                                     !.waiting = FALSE]
      <3>1. r.cursor = e.id /\ r.kinds = row[h].kinds /\ r.status = row[h].status
        BY <1>0 DEF Row
      <3>2. row' = [row EXCEPT ![h] = r]
        BY <1>2 DEF Succeed
      <3> HIDE DEF r
      <3> QED  BY <1>0, <3>1, <3>2
    <2>3. /\ Serves
          /\ \A g \in Hook : row'[g].cursor = row[g].cursor \/ Covered(g, row[g].cursor)'
      BY <1>0, <2>1, <2>2, PastServes DEF Succeed
    <2> DEFINE q == Sent(pass[w], h, e)
    <2>4. /\ q \in Pass /\ q.stage = "sending" /\ q.todo = pass[w].todo
          /\ q.hook = pass[w].hook /\ q.batch = pass[w].batch \ {e}
          /\ \A g \in Hook : /\ q.seen[g].cursor = pass[w].seen[g].cursor
                             /\ q.seen[g].kinds = pass[w].seen[g].kinds
      <3> DEFINE p == pass[w]
      <3>1. p \in Pass
        BY <1>0
      <3> HIDE DEF p
      <3>2. /\ Sent(p, h, e) \in Pass /\ Sent(p, h, e).todo = p.todo
            /\ Sent(p, h, e).hook = p.hook /\ Sent(p, h, e).batch = p.batch \ {e}
            /\ Sent(p, h, e).stage = "sending"
        BY <3>1, SentIs
      <3>3. ASSUME NEW g \in Hook
            PROVE  /\ Sent(p, h, e).seen[g].cursor = p.seen[g].cursor
                   /\ Sent(p, h, e).seen[g].kinds = p.seen[g].kinds
        BY <3>1, SentReads
      <3> QED  BY <3>2, <3>3 DEF p
    <2>5. pass'[w] = GoOn(q)
      BY <1>1, <1>2
    <2> HIDE DEF q
    <2> QED  BY <1>0, <1>1, <2>1, <2>3, <2>4, <2>5, DropStep
  <1>3. CASE ~Stored(h)
    <2>1. Serves /\ \A g \in Hook : row'[g].cursor = row[g].cursor
      BY <1>3 DEF Succeed, Serves, Stored
    <2>2. Rest(pass[w], pass'[w]) /\ DroppedDone(pass[w], pass'[w])
          /\ pass'[w].stage # "answered"
      BY <1>0, <1>1, <1>3, LeaveIs DEF Rest, DroppedDone
    <2> QED  BY <1>1, <2>1, <2>2, LessStep
  <1> QED  BY <1>2, <1>3

\* The pass turns from what it works on, and nothing is recorded of it.
LEMMA LeaveStep ==
  ASSUME IInv, TypeOK', NEW w \in Worker, Serves, NEW p \in Pass,
         p.todo \subseteq pass[w].todo, p.seen = pass[w].seen,
         Makes(w, Leave(p)) \/ Makes(w, NoPass),
         \A h \in Hook : row'[h].cursor = row[h].cursor
  PROVE  IInv'
  <1>1. pass \in [Worker -> Pass]
    BY DEF IInv, TypeOK
  <1>2. CASE Makes(w, Leave(p))
    <2>1. pass'[w] = Leave(p) /\ \A v \in Worker : v # w => pass'[v] = pass[v]
      BY <1>1, <1>2 DEF Makes
    <2>2. Rest(pass[w], pass'[w]) /\ DroppedDone(pass[w], pass'[w])
          /\ pass'[w].stage # "answered"
      BY <2>1, LeaveIs DEF Rest, DroppedDone
    <2> QED  BY <2>1, <2>2, LessStep
  <1>3. CASE Makes(w, NoPass)
    <2>1. pass'[w] = NoPass /\ \A v \in Worker : v # w => pass'[v] = pass[v]
      BY <1>1, <1>3 DEF Makes
    <2>2. Rest(pass[w], pass'[w]) /\ DroppedDone(pass[w], pass'[w])
          /\ pass'[w].stage # "answered"
      BY <2>1 DEF Rest, DroppedDone, NoPass
    <2> QED  BY <2>1, <2>2, LessStep
  <1> QED  BY <1>2, <1>3

LEMMA StartStep ==
  ASSUME IInv, TypeOK', NEW w \in Worker, Start(w)
  PROVE  IInv'
  <1>0. /\ TypeOK /\ pass \in [Worker -> Pass] /\ row \in [Hook -> Row]
    BY DEF IInv, TypeOK
  <1>1. pass'[w] = Locked /\ \A v \in Worker : v # w => pass'[v] = pass[v]
    BY <1>0, StartMakes DEF Makes
  <1>2. Serves /\ row' = row
    BY DEF Start, Locking, Serves, Stored
  <1>3. /\ pass'[w].hook = {} /\ pass'[w].batch = {} /\ pass'[w].stage = "rows"
        /\ pass'[w].todo = {h \in Hook : Due(h)}
        /\ \A h \in pass'[w].todo : pass'[w].seen[h] = row[h]
    BY <1>0, <1>1, LockedIs
  <1>4. \A h \in Hook : /\ Need(h)' = Need(h) /\ Done(h)' = Done(h)
                        /\ Need(h) \subseteq owed[h]
    BY <1>2 DEF Start, Locking, Elsewhere, Need, Done, logVars
  <1>5. head' = head /\ events' = events
    BY <1>2 DEF Serves, Elsewhere, logVars
  <1>6. ASSUME NEW h \in pass'[w].todo
        PROVE  /\ Covered(h, pass[w].seen[h].cursor)'
               /\ row'[h].status # "none"
               /\ \A e \in events' : e.id \in Need(h)' => e.kind \in pass'[w].seen[h].kinds
    <2>1. h \in Hook /\ row[h].status = "active" /\ HookOK(h)
          /\ pass'[w].seen[h] = row[h]
      BY <1>3 DEF Due, IInv
    <2>2. Covered(h, row[h].cursor)
      BY <2>1 DEF HookOK
    <2>3. Covered(h, pass[w].seen[h].cursor)'
      BY <1>4, <1>5, <2>1, <2>2 DEF Covered
    <2> QED  BY <1>2, <1>4, <1>5, <2>1, <2>3 DEF HookOK
  <1>7. PassOK(pass[w])'
    BY <1>3, <1>6 DEF PassOK, ReadOK, BatchOK, AnswerOK
  <1> QED  BY <1>1, <1>2, <1>7, WorkStep

\* The events read after a covered cursor leave nothing out before their last.
LEMMA ReadsAll ==
  ASSUME TypeOK, LogOK, NEW h \in Hook, HookOK(h), NEW c \in Nat, Covered(h, c),
         NEW e \in EventsAfter(c), NEW i \in Need(h), i <= e.id
  PROVE  i \in Done(h) \/ \E f \in EventsAfter(c) : f.id = i
  <1> DEFINE later == {x \in events : x.id > c}
             before(x) == {y \in later : y.id < x.id}
  <1>0. /\ IsFiniteSet(events) /\ i \in Nat
        /\ \A x \in events : x.id \in Nat
    BY EventAssumption DEF LogOK, TypeOK, LogTypeOK, Need, Event, Id
  <1>1. CASE i <= c \/ i \in swept
    BY <1>1 DEF Covered, Done
  <1>2. CASE ~(i <= c) /\ i \notin swept
    <2>1. PICK f \in events : f.id = i
      BY <1>2 DEF HookOK, Need
    <2>2. f \in later /\ e \in later /\ f.id <= e.id
      BY <1>0, <1>2, <2>1 DEF EventsAfter
    <2>3. Cardinality(before(e)) < PerPass
      BY DEF EventsAfter
    <2>4. before(f) \subseteq before(e)
      BY <1>0, <2>2
    <2>5. IsFiniteSet(before(e))
      BY <1>0, FS_Subset
    <2>6. Cardinality(before(f)) <= Cardinality(before(e))
      BY <2>4, <2>5, FS_Subset
    <2>7. Cardinality(before(f)) \in Nat /\ Cardinality(before(e)) \in Nat
      BY <2>4, <2>5, FS_Subset, FS_CardinalityType
    <2>8. Cardinality(before(f)) < PerPass
      BY <2>3, <2>6, <2>7, HookAssumption
    <2>9. f \in EventsAfter(c)
      BY <2>2, <2>8 DEF EventsAfter
    <2> QED  BY <2>1, <2>9
  <1> QED  BY <1>1, <1>2

LEMMA BeginStep ==
  ASSUME IInv, TypeOK', NEW w \in Worker, NEW h \in Hook, Begin(w, h)
  PROVE  IInv'
  <1> DEFINE p == pass[w]
             q == GoOn(Opened(pass[w], h))
             c == pass[w].seen[h].cursor
  <1>0. /\ TypeOK /\ LogOK /\ LogTypeOK /\ PassType /\ pass \in [Worker -> Pass]
        /\ p \in Pass /\ PassOK(p) /\ ReadOK(p) /\ h \in p.todo /\ HookOK(h)
    BY DEF IInv, TypeOK, PassType, PassOK, Begin
  <1>1. pass'[w] = q /\ \A v \in Worker : v # w => pass'[v] = pass[v]
    BY <1>0, BeginMakes DEF Makes
  <1>2. Serves /\ row' = row
    BY DEF Begin, Serves, Stored
  <1>3. /\ q.todo = p.todo \ {h} /\ q.hook \subseteq {h}
        /\ q.batch = EventsAfter(c) /\ q.stage \in {"rows", "sending"}
        /\ \A g \in q.todo \cup q.hook : q.seen[g] = p.seen[g]
    <2>1. /\ Opened(p, h) \in Pass /\ Opened(p, h).todo = p.todo \ {h}
          /\ Opened(p, h).hook = {h} /\ Opened(p, h).stage = "sending"
          /\ Opened(p, h).batch = EventsAfter(c) /\ Opened(p, h).seen = p.seen
      BY <1>0, OpenedIs
    <2> QED  BY <2>1, GoOnIs
  <1> HIDE DEF q
  <1>4. \A g \in Hook : Need(g)' = Need(g) /\ Done(g)' = Done(g)
    BY DEF Begin, Elsewhere, Need, Done, logVars
  <1>5. head' = head /\ events' = events /\ swept' = swept
    BY <1>2 DEF Serves, Elsewhere, logVars
  <1>6. q.todo \cup q.hook \subseteq p.todo /\ p.todo \subseteq Hook
    BY <1>0, <1>3 DEF Pass
  <1>7. ASSUME NEW g \in q.todo \cup q.hook
        PROVE  /\ Covered(g, pass[w].seen[g].cursor)'
               /\ row'[g].status # "none"
               /\ \A e \in events' : e.id \in Need(g)' => e.kind \in q.seen[g].kinds
    <2>1. /\ g \in Hook /\ Covered(g, p.seen[g].cursor) /\ row[g].status # "none"
          /\ \A e \in events : e.id \in Need(g) => e.kind \in p.seen[g].kinds
          /\ q.seen[g] = p.seen[g]
      BY <1>0, <1>3, <1>6 DEF ReadOK
    <2>2. Covered(g, pass[w].seen[g].cursor)'
      <3>1. p.seen[g].cursor <= head
            /\ \A i \in Need(g) : i <= p.seen[g].cursor => i \in Done(g)
        BY <2>1 DEF Covered
      <3>2. q.seen[g].cursor <= head'
            /\ \A i \in Need(g)' : i <= q.seen[g].cursor => i \in Done(g)'
        BY <1>4, <1>5, <2>1, <3>1
      <3> QED  BY <1>1, <2>1, <3>2 DEF Covered
    <2> QED  BY <1>2, <1>4, <1>5, <2>1, <2>2
  <1>8. ReadOK(pass[w])'
    BY <1>1, <1>3, <1>7 DEF ReadOK
  <1>9. BatchOK(pass[w])'
    <2>1. \A e \in q.batch : e \in events /\ e.id <= head
      BY <1>0, <1>3 DEF EventsAfter, LogOK
    <2>2. c \in Nat /\ Covered(h, c)
      BY <1>0, EventAssumption DEF ReadOK, Pass, Row
    <2>3. \A e \in q.batch : \A i \in Need(h) :
            i <= e.id => i \in Done(h) \/ \E f \in q.batch : f.id = i
      BY <1>0, <1>3, <2>2, ReadsAll
    <2> QED  BY <1>1, <1>3, <1>4, <1>5, <2>1, <2>3 DEF BatchOK
  <1>10. AnswerOK(pass[w])'
    BY <1>1, <1>3 DEF AnswerOK
  <1> QED  BY <1>1, <1>2, <1>8, <1>9, <1>10, WorkStep DEF PassOK

LEMMA PostStep ==
  ASSUME IInv, TypeOK', NEW w \in Worker, NEW h \in Hook, NEW e \in pass[w].batch,
         NEW ok \in BOOLEAN, Post(w, h, e, ok)
  PROVE  IInv'
  <1>0. /\ TypeOK /\ PassType /\ pass[w] \in Pass /\ PassOK(pass[w])
        /\ h \in pass[w].hook /\ \A f \in pass[w].batch : e.id <= f.id
        /\ accepted \in [Hook -> SUBSET Id] /\ row' = row /\ pass[w].hook \subseteq Hook
    BY DEF IInv, TypeOK, PassType, Post, First, Pass
  <1>1. pass'[w] = Heard(pass[w], ok) /\ \A v \in Worker : v # w => pass'[v] = pass[v]
    BY <1>0, PostMakes DEF Makes, PassType
  <1>2. /\ pass'[w].stage = "answered" /\ pass'[w].ok = ok
        /\ pass'[w].todo = pass[w].todo /\ pass'[w].hook = pass[w].hook
        /\ pass'[w].batch = pass[w].batch /\ pass'[w].seen = pass[w].seen
    BY <1>0, <1>1, HeardIs
  <1>3. Serves
    BY <1>0 DEF Post, Serves, Stored
  <1>4. AnswerOK(pass[w])'
    <2>1. SUFFICES ASSUME ok, NEW g \in pass[w].hook, NEW f \in pass[w].batch,
                          Stored(g), IsFirst(f, pass[w].batch)
                   PROVE  f.id \in accepted'[g]
      BY <1>0, <1>2 DEF AnswerOK, IsFirst, Stored
    <2>2. g = h
      BY <1>0, <2>1 DEF PassOK, ReadOK
    <2>3. f.id = e.id
      <3>1. f.id <= e.id /\ e.id <= f.id /\ f.id \in Nat /\ e.id \in Nat
        BY <1>0, <2>1, EventAssumption DEF IsFirst, Pass, Event, Id
      <3> QED  BY <3>1
    <2>4. e.id \in accepted'[h]
      BY <1>0, <2>1, <2>2 DEF Post
    <2> QED  BY <2>2, <2>3, <2>4
  <1>5. Rest(pass[w], pass'[w]) /\ DroppedDone(pass[w], pass'[w])
    BY <1>2 DEF Rest, DroppedDone
  <1>6. \A g \in pass'[w].todo \cup pass'[w].hook : Wanted(pass[w], g)
    BY <1>0, <1>2, <1>3, ServesCalm DEF Pass
  <1>7. PassOK(pass[w])'
    BY <1>0, <1>3, <1>4, <1>5, <1>6, ServesCalm, PassKept
  <1> QED  BY <1>0, <1>1, <1>3, <1>7, WorkStep

LEMMA PassKeeps ==
  ASSUME IInv, NEW w \in Worker,
         PassStep(w) \/ StoreFails(w) \/ LoseSession(w) \/ Crash(w)
  PROVE  IInv'
  <1>0. TypeOK /\ TypeOK' /\ PassType /\ pass[w] \in Pass
    BY PassTypes DEF IInv, TypeOK, PassType
  <1>1. CASE Start(w)
    BY <1>0, <1>1, StartStep
  <1>2. CASE End(w)
    <2>1. Makes(w, NoPass) /\ Serves /\ row' = row
      BY <1>2 DEF End, Makes, Serves, Stored
    <2> QED  BY <1>0, <2>1, LeaveStep
  <1>3. ASSUME NEW h \in Hook, Begin(w, h)
        PROVE  IInv'
    BY <1>0, <1>3, BeginStep
  <1>4. ASSUME NEW h \in Hook, SecretLocked(w, h)
        PROVE  IInv'
    <2>1. pass[w].seen[h] \in Row
      BY <1>0 DEF Pass
    <2>2. Serves /\ \A g \in Hook : row'[g].cursor = row[g].cursor
      BY <1>0, <1>4, <2>1, FailedServes DEF SecretLocked
    <2>3. Makes(w, Leave(Without(pass[w], h)))
      BY <1>0, <1>4, SecretMakes
    <2>4. /\ Without(pass[w], h) \in Pass /\ Without(pass[w], h).seen = pass[w].seen
          /\ Without(pass[w], h).todo \subseteq pass[w].todo
      BY <1>0, WithoutIs
    <2> QED  BY <1>0, <2>2, <2>3, <2>4, LeaveStep
  <1>5. ASSUME NEW h \in Hook, NEW e \in pass[w].batch, Skip(w, h, e)
        PROVE  IInv'
    BY <1>0, <1>5, SkipStep
  <1>6. ASSUME NEW h \in Hook, NEW e \in pass[w].batch, Succeed(w, h, e)
        PROVE  IInv'
    BY <1>0, <1>6, SucceedStep
  <1>7. ASSUME NEW h \in Hook, NEW e \in pass[w].batch, Fail(w, h, e)
        PROVE  IInv'
    <2>1. pass[w].seen[h] \in Row
      BY <1>0 DEF Pass
    <2>2. Serves /\ \A g \in Hook : row'[g].cursor = row[g].cursor
      BY <1>0, <1>7, <2>1, FailedServes DEF Fail
    <2> QED  BY <1>0, <1>7, <2>2, FailMakes, LeaveStep
  <1>8. ASSUME NEW h \in Hook, NEW e \in pass[w].batch, NEW ok \in BOOLEAN,
               Post(w, h, e, ok)
        PROVE  IInv'
    BY <1>0, <1>8, PostStep
  <1>9. CASE StoreFails(w)
    <2>1. Makes(w, Leave(pass[w])) /\ Serves /\ row' = row
      BY <1>0, <1>9 DEF StoreFails, Makes, Serves, Stored, PassType
    <2> QED  BY <1>0, <2>1, LeaveStep
  <1>10. CASE LoseSession(w)
    <2>1. Serves /\ row' = row /\ pass' = pass
      BY <1>10 DEF LoseSession, Serves, Stored
    <2>2. PassOK(pass[w])'
      <3>1. \A h \in pass[w].todo \cup pass[w].hook : h \in Hook /\ Wanted(pass[w], h)
        BY <1>0, <2>1, ServesCalm DEF Pass
      <3>2. Calm /\ \A h \in pass[w].hook :
              Stored(h)' => Stored(h) /\ accepted[h] \subseteq accepted'[h]
        BY <1>0, <2>1, <3>1, ServesCalm DEF Serves
      <3> QED  BY <1>0, <2>1, <3>1, <3>2, OthersKept DEF IInv
    <2> QED  BY <1>0, <2>1, <2>2, WorkStep
  <1>11. CASE Crash(w)
    <2>1. Makes(w, NoPass) /\ Serves /\ row' = row
      BY <1>11 DEF Crash, Makes, Serves, Stored
    <2> QED  BY <1>0, <2>1, LeaveStep
  <1> QED  BY <1>1, <1>2, <1>3, <1>4, <1>5, <1>6, <1>7, <1>8, <1>9, <1>10, <1>11
           DEF PassStep
-----------------------------------------------------------------------------
(* The invariant, and what follows from it.                                *)

LEMMA InitOK == Init => IInv
  <1> SUFFICES ASSUME Init PROVE IInv
    OBVIOUS
  <1>1. row \in [Hook -> Row] /\ pass \in [Worker -> Pass]
    BY NoRowType, NoPassType DEF Init
  <1>2. TypeOK
    BY <1>1, EventAssumption, HookAssumption
    DEF Init, LogInit, TypeOK, LogTypeOK, NoAdmin, Id
  <1>3. LogOK /\ AdminOK
    BY FS_EmptySet DEF Init, LogInit, LogOK, AdminOK, NoAdmin
  <1>4. ASSUME NEW h \in Hook
        PROVE  HookOK(h)
    BY DEF Init, LogInit, HookOK, Covered, Need, Done, NoRow
  <1>5. ASSUME NEW w \in Worker
        PROVE  PassOK(pass[w])
    BY DEF Init, NoPass, PassOK, ReadOK, BatchOK, AnswerOK
  <1> QED  BY <1>2, <1>3, <1>4, <1>5 DEF IInv

LEMMA StillOK == ASSUME IInv, UNCHANGED vars
                 PROVE  IInv'
  BY DEF IInv, vars, logVars, historyVars, TypeOK, LogTypeOK, LogOK, AdminOK, HookOK,
         PassOK, ReadOK, BatchOK, AnswerOK, Covered, Need, Done, Stored, IsFirst

LEMMA NextOK == IInv /\ [Next]_vars => IInv'
  <1> SUFFICES ASSUME IInv, [Next]_vars PROVE IInv'
    OBVIOUS
  <1>1. CASE UNCHANGED vars
    BY <1>1, StillOK
  <1>2. CASE \/ \E k \in Kind : RecordEvent(k)
             \/ \E e \in open : CommitEvent(e) \/ LoseEvent(e)
             \/ \E id \in Id : SweepEvents(id)
    BY <1>2, LogKept
  <1>3. ASSUME NEW h \in Hook, AdminStep(h) \/ ComesDue(h) \/ Ages(h)
        PROVE  IInv'
    BY <1>3, AdminKept
  <1>4. ASSUME NEW w \in Worker,
               PassStep(w) \/ StoreFails(w) \/ LoseSession(w) \/ Crash(w)
        PROVE  IInv'
    BY <1>4, PassKeeps
  <1> QED  BY <1>1, <1>2, <1>3, <1>4, HookAssumption DEF Next

\* IInv holds in every state a run of the log, the administrator and the
\* workers reaches.
THEOREM Invariance == Spec => []IInv
  BY InitOK, NextOK, PTL DEF Spec

\* Every variable keeps its type: in particular a cursor names an id of the
\* log, whatever is swept or created meanwhile.
THEOREM WebhookTypes == Spec => []TypeOK
  <1>1. IInv => TypeOK
    BY DEF IInv
  <1> QED  BY <1>1, Invariance, PTL

\* No cursor passes an event owed to the registration and not accepted
\* (delivery.py record_success and save_cursor).
THEOREM NothingIsSkipped == Spec => []NothingSkipped
  <1>1. IInv => NothingSkipped
    BY DEF IInv, HookOK, Covered, Need, Done, NothingSkipped
  <1> QED  BY <1>1, Invariance, PTL

\* Only an answered request is accepted.
LEMMA OnlyPostAccepts ==
  ASSUME TypeOK, [Next]_vars, NEW h \in Hook, NEW i \in accepted'[h] \ accepted[h]
  PROVE  \E w \in Worker : \E e \in pass[w].batch :
           Post(w, h, e, TRUE) /\ i = e.id
  <1>0. accepted \in [Hook -> SUBSET Id]
    BY DEF TypeOK
  <1>1. CASE UNCHANGED <<accepted>>
    BY <1>1
  <1>2. CASE UNCHANGED vars
    BY <1>1, <1>2 DEF vars, historyVars
  <1>3. CASE \/ \E k \in Kind : RecordEvent(k)
             \/ \E e \in open : CommitEvent(e) \/ LoseEvent(e)
             \/ \E id \in Id : SweepEvents(id)
    BY <1>1, <1>3 DEF RecordEvent, CommitEvent, LoseEvent, SweepEvents, Idle
  <1>4. ASSUME NEW g \in Hook, AdminStep(g) \/ ComesDue(g) \/ Ages(g)
        PROVE  accepted'[h] \subseteq accepted[h]
    <2>1. CASE Delete(g)
      BY <1>0, <2>1 DEF Delete
    <2>2. CASE ~Delete(g)
      BY <1>4, <2>2 DEF AdminStep, Create, EditKinds, OpenStatus, WriteStatus,
                        ComesDue, Ages, historyVars
    <2> QED  BY <2>1, <2>2
  <1>5. ASSUME NEW w \in Worker,
               PassStep(w) \/ StoreFails(w) \/ LoseSession(w) \/ Crash(w)
        PROVE  \E e \in pass[w].batch : Post(w, h, e, TRUE) /\ i = e.id
    <2>1. ASSUME NEW g \in Hook, NEW e \in pass[w].batch, NEW ok \in BOOLEAN,
                 Post(w, g, e, ok)
          PROVE  Post(w, h, e, TRUE) /\ i = e.id
      <3>1. g = h /\ i = e.id /\ ok
        BY <1>0, <2>1 DEF Post
      <3>2. ok = TRUE
        BY <3>1
      <3> QED  BY <2>1, <3>1, <3>2
    <2>2. CASE ~UNCHANGED accepted
      BY <1>5, <2>1, <2>2 DEF PassStep, Start, Locking, End, Begin, SecretLocked,
           Skip, Succeed, Fail, StoreFails, LoseSession, Crash
    <2> QED  BY <1>1, <2>2
  <1> QED  BY <1>2, <1>3, <1>4, <1>5, HookAssumption DEF Next

\* An endpoint first accepts an event after all it was owed before it
\* (deliver_webhook goes through the log in order and stops at a failure).
THEOREM EventsInOrder == Spec => FirstInOrder
  <1> DEFINE InOrder == \A h \in Hook : \A i \in accepted'[h] \ accepted[h] :
               \A j \in owed[h] \ stale[h] :
                 j < i => j \in accepted[h] \cup swept
  <1>1. IInv /\ [Next]_vars => [InOrder]_vars
    <2> SUFFICES ASSUME IInv, [Next]_vars, NEW h \in Hook,
                        NEW i \in accepted'[h] \ accepted[h],
                        NEW j \in Need(h), j < i
                 PROVE  j \in Done(h)
      BY DEF Need, Done
    <2>0. PICK w \in Worker : \E e \in pass[w].batch : Post(w, h, e, TRUE) /\ i = e.id
      BY OnlyPostAccepts DEF IInv
    <2>1. PICK e \in pass[w].batch : Post(w, h, e, TRUE) /\ i = e.id
      BY <2>0
    <2>2. h \in pass[w].hook /\ \A f \in pass[w].batch : e.id <= f.id
      BY <2>1 DEF Post, First
    <2>3. BatchOK(pass[w]) /\ pass[w] \in Pass /\ j \in Nat
          /\ \A f \in pass[w].batch : f.id \in Nat
      BY EventAssumption DEF IInv, PassOK, TypeOK, Pass, Event, Id, Need
    <2>4. j \in Done(h) \/ \E f \in pass[w].batch : f.id = j
      BY <2>1, <2>2, <2>3 DEF BatchOK
    <2> QED  BY <2>1, <2>2, <2>3, <2>4
  <1> QED  BY <1>1, Invariance, PTL DEF Spec, FirstInOrder
-----------------------------------------------------------------------------
(* What a disable does hold.                                               *)

\* Disabled, and no pass under way took the registration up before it was.
Paused(h) ==
  /\ row[h].status = "disabled"
  /\ \A w \in Worker : h \notin pass[w].todo \cup pass[w].hook

\* A step of w that makes q of its pass takes up no other registration.
LEMMA NotTakenUp ==
  ASSUME PassType, NEW w \in Worker, NEW q, Makes(w, q), NEW h \in Hook, Paused(h),
         h \notin q.todo \cup q.hook
  PROVE  \A v \in Worker : h \notin pass'[v].todo \cup pass'[v].hook
  BY DEF PassType, Makes, Paused

\* No step of a pass takes up a paused registration, posts to it or writes to
\* its row.
LEMMA PassLeavesPaused ==
  ASSUME TypeOK, NEW h \in Hook, Paused(h), NEW w \in Worker,
         PassStep(w) \/ StoreFails(w) \/ LoseSession(w) \/ Crash(w)
  PROVE  Paused(h)'
  <1> USE DEF PassType, RowType
  <1>0. /\ PassType /\ RowType /\ pass[w] \in Pass /\ h \notin pass[w].todo
        /\ h \notin pass[w].hook /\ row[h].status = "disabled" /\ LogTypeOK
    BY DEF TypeOK, Paused
  <1>1. ASSUME NEW q, Makes(w, q), h \notin q.todo, h \notin q.hook,
               row'[h].status = "disabled"
        PROVE  Paused(h)'
    BY <1>0, <1>1, NotTakenUp DEF Paused
  <1>2. CASE Start(w)
    <2>1. Makes(w, Locked) /\ UNCHANGED row
      BY <1>2, StartMakes DEF Start, Locking
    <2>2. h \notin Locked.todo /\ h \notin Locked.hook
      BY <1>0, LockedIs DEF Due
    <2> QED  BY <1>0, <1>1, <2>1, <2>2
  <1>3. CASE End(w) \/ Crash(w)
    BY <1>0, <1>1, <1>3 DEF End, Crash, Makes, NoPass
  <1>4. CASE StoreFails(w)
    <2>1. Makes(w, Leave(pass[w])) /\ UNCHANGED row
      BY <1>4 DEF StoreFails, Makes
    <2> QED  BY <1>0, <1>1, <2>1, LeaveIs
  <1>5. CASE LoseSession(w)
    BY <1>5 DEF LoseSession, Paused
  <1>6. ASSUME NEW g \in Hook, Begin(w, g)
        PROVE  Paused(h)'
    <2>1. Makes(w, GoOn(Opened(pass[w], g))) /\ UNCHANGED row /\ g # h
      BY <1>0, <1>6, BeginMakes DEF Begin
    <2>2. Opened(pass[w], g) \in Pass /\ h \notin Opened(pass[w], g).todo
          /\ h \notin Opened(pass[w], g).hook
      BY <1>0, <2>1, OpenedIs
    <2>3. h \notin GoOn(Opened(pass[w], g)).todo /\ h \notin GoOn(Opened(pass[w], g)).hook
      BY <2>2, GoOnIs
    <2> QED  BY <1>0, <1>1, <2>1, <2>3
  <1>7. ASSUME NEW g \in Hook, SecretLocked(w, g)
        PROVE  Paused(h)'
    <2>1. Makes(w, Leave(Without(pass[w], g))) /\ g # h /\ g \in pass[w].todo
      BY <1>0, <1>7, SecretMakes DEF SecretLocked
    <2>2. h \notin Leave(Without(pass[w], g)).todo /\ h \notin Leave(Without(pass[w], g)).hook
      BY <1>0, WithoutIs, LeaveIs
    <2>3. row'[h] = row[h]
      <3>1. pass[w].seen[g] \in Row
        BY <1>0 DEF Pass
      <3> QED  BY <1>0, <1>7, <2>1, <3>1, FailedType DEF SecretLocked
    <2> QED  BY <1>0, <1>1, <2>1, <2>2, <2>3
  <1>8. ASSUME NEW g \in Hook, NEW e \in pass[w].batch, Skip(w, g, e)
        PROVE  Paused(h)'
    <2>1. Makes(w, GoOn(After(pass[w], e))) /\ g # h
      BY <1>0, <1>8, SkipMakes DEF Skip, First
    <2>2. h \notin GoOn(After(pass[w], e)).todo /\ h \notin GoOn(After(pass[w], e)).hook
      BY <1>0, AfterIs, GoOnIs
    <2>3. row'[h] = row[h]
      BY <1>0, <1>8, <2>1 DEF Skip
    <2> QED  BY <1>0, <1>1, <2>1, <2>2, <2>3
  <1>9. ASSUME NEW g \in Hook, NEW e \in pass[w].batch, NEW ok \in BOOLEAN,
               Post(w, g, e, ok)
        PROVE  Paused(h)'
    <2>1. Makes(w, Heard(pass[w], ok)) /\ UNCHANGED row
      BY <1>0, <1>9, PostMakes DEF Post
    <2> QED  BY <1>0, <1>1, <2>1, HeardIs
  <1>10. ASSUME NEW g \in Hook, NEW e \in pass[w].batch, Succeed(w, g, e)
         PROVE  Paused(h)'
    <2>1. g # h
      BY <1>0, <1>10 DEF Succeed, Answered
    <2>2. row'[h] = row[h]
      BY <1>0, <1>10, <2>1 DEF Succeed
    <2>3. Makes(w, GoOn(Sent(pass[w], g, e))) \/ Makes(w, Leave(pass[w]))
      BY <1>10 DEF Succeed, Makes
    <2>4. h \notin GoOn(Sent(pass[w], g, e)).todo /\ h \notin GoOn(Sent(pass[w], g, e)).hook
      <3> DEFINE p == pass[w]
      <3>1. p \in Pass /\ h \notin p.todo /\ h \notin p.hook
        BY <1>0
      <3> HIDE DEF p
      <3>2. /\ Sent(p, g, e) \in Pass /\ Sent(p, g, e).todo = p.todo
            /\ Sent(p, g, e).hook = p.hook
        BY <3>1, SentIs
      <3>3. h \notin GoOn(Sent(p, g, e)).todo /\ h \notin GoOn(Sent(p, g, e)).hook
        BY <3>1, <3>2, GoOnIs
      <3> QED  BY <3>3 DEF p
    <2>5. h \notin Leave(pass[w]).todo /\ h \notin Leave(pass[w]).hook
      BY <1>0, LeaveIs
    <2> QED  BY <1>0, <1>1, <2>2, <2>3, <2>4, <2>5
  <1>11. ASSUME NEW g \in Hook, NEW e \in pass[w].batch, Fail(w, g, e)
         PROVE  Paused(h)'
    <2>1. Makes(w, Leave(pass[w])) /\ g # h
      BY <1>0, <1>11, FailMakes DEF Fail, Answered
    <2>2. row'[h] = row[h]
      <3>1. pass[w].seen[g] \in Row
        BY <1>0 DEF Pass
      <3> QED  BY <1>0, <1>11, <2>1, <3>1, FailedType DEF Fail
    <2> QED  BY <1>0, <1>1, <2>1, <2>2, LeaveIs
  <1> QED
    BY <1>2, <1>3, <1>4, <1>5, <1>6, <1>7, <1>8, <1>9, <1>10, <1>11 DEF PassStep

\* Only the administrator resumes or deletes it.
LEMMA OthersLeavePaused ==
  ASSUME TypeOK, NEW h \in Hook, Paused(h), NEW g \in Hook,
         AdminStep(g) \/ ComesDue(g) \/ Ages(g)
  PROVE  Paused(h)' \/ WriteStatus(h) \/ Delete(h)
  <1>0. row \in [Hook -> Row] /\ row[h].status = "disabled"
    BY DEF TypeOK, Paused
  <1>1. UNCHANGED pass
    BY DEF AdminStep, Create, EditKinds, OpenStatus, WriteStatus, Delete, ComesDue,
           Ages
  <1>2. CASE ComesDue(g) \/ Ages(g) \/ \E kinds \in Filters : EditKinds(g, kinds)
    <2>1. row'[h].status = row[h].status
      BY <1>0, <1>2 DEF ComesDue, Ages, EditKinds, Row
    <2> QED  BY <1>0, <1>1, <2>1 DEF Paused
  <1>3. CASE \/ \E kinds \in Filters : Create(g, kinds)
             \/ \E to \in {"active", "disabled"} : OpenStatus(g, to)
             \/ WriteStatus(g) \/ Delete(g)
    <2>1. g # h \/ UNCHANGED row => row'[h] = row[h]
      BY <1>0, <1>3 DEF Create, OpenStatus, WriteStatus, Delete
    <2>2. g = h => UNCHANGED row \/ WriteStatus(h) \/ Delete(h)
      BY <1>0, <1>3 DEF Create, OpenStatus
    <2> QED  BY <1>0, <1>1, <2>1, <2>2 DEF Paused
  <1> QED  BY <1>2, <1>3 DEF AdminStep

PausedHolds ==
  \A h \in Hook : Paused(h) =>
    /\ \A w \in Worker, e \in Event, ok \in BOOLEAN : ~Post(w, h, e, ok)
    /\ Paused(h)' \/ WriteStatus(h) \/ Delete(h)

\* DisableHolds fails: a pass that read the registration before it was disabled
\* may set it active again, and deliver to it meanwhile.  That is all that can go
\* wrong: once no such pass is under way, a disabled registration is sent
\* nothing and stays disabled, through every fault, until the administrator
\* writes its status or deletes it.
THEOREM DisableHoldsOncePassed == Spec => [][PausedHolds]_vars
  <1>1. IInv /\ [Next]_vars => [PausedHolds]_vars
    <2> SUFFICES ASSUME IInv, [Next]_vars, NEW h \in Hook, Paused(h)
                 PROVE  Paused(h)' \/ WriteStatus(h) \/ Delete(h)
      BY DEF PausedHolds, Paused, Post, First
    <2>0. TypeOK
      BY DEF IInv
    <2>2. CASE UNCHANGED <<row, pass>>
      BY <2>2 DEF Paused
    <2>3. CASE \/ \E k \in Kind : RecordEvent(k)
               \/ \E e \in open : CommitEvent(e) \/ LoseEvent(e)
               \/ \E id \in Id : SweepEvents(id)
               \/ UNCHANGED vars
      BY <2>2, <2>3 DEF RecordEvent, CommitEvent, LoseEvent, SweepEvents, Idle, vars
    <2>4. CASE \E g \in Hook : AdminStep(g) \/ ComesDue(g) \/ Ages(g)
      BY <2>0, <2>4, OthersLeavePaused
    <2>5. CASE \E w \in Worker :
                 PassStep(w) \/ StoreFails(w) \/ LoseSession(w) \/ Crash(w)
      BY <2>0, <2>5, PassLeavesPaused
    <2> QED  BY <2>3, <2>4, <2>5, HookAssumption DEF Next
  <1> QED  BY <1>1, Invariance, PTL DEF Spec
=============================================================================
