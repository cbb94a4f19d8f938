-------------------------- MODULE WebhooksRepeats --------------------------
(***************************************************************************)
(* Theorems about Webhooks: an endpoint is sent an event again only after  *)
(* a fault.  Before the first one, one pass works at a time, at the cursor *)
(* the row has, and what its endpoint accepted is at or behind that cursor *)
(* as soon as the answer is recorded.                                      *)
(***************************************************************************)
EXTENDS WebhooksProofs

OnePass ==
  /\ \A w \in Worker :
       /\ pass[w].stage = "off" => pass[w] = NoPass
       /\ pass[w].stage # "off" => w \in lock
  /\ \A v, w \in lock : v = w

\* A pass works at the cursor the row has.
AtCursor(w) ==
  /\ \A e, f \in pass[w].batch : e.id = f.id => e = f
  /\ \A h \in pass[w].todo :
       h \notin pass[w].hook /\ (Stored(h) => pass[w].seen[h].cursor = row[h].cursor)
  /\ \A h \in pass[w].hook, e \in pass[w].batch : Stored(h) => row[h].cursor < e.id

\* Event i was accepted and its answer is still to be recorded.
Awaits(w, h, i) ==
  /\ pass[w].stage = "answered" /\ pass[w].ok /\ h \in pass[w].hook
  /\ \E e \in pass[w].batch : e.id = i /\ IsFirst(e, pass[w].batch)

Settled(h) ==
  \A i \in accepted[h] :
    Stored(h) /\ (i <= row[h].cursor \/ \E w \in Worker : Awaits(w, h, i))

Orderly == OnePass /\ (\A w \in Worker : AtCursor(w)) /\ \A h \in Hook : Settled(h)

Unfaulted == faults = 0 => Orderly

\* A registration as the passes see it is what it was, or nobody has read it
\* and its endpoint accepted nothing.
Steady(h) ==
  \/ Stored(h)' = Stored(h) /\ row'[h].cursor = row[h].cursor
     /\ accepted'[h] = accepted[h]
  \/ accepted'[h] = {}
     /\ (~Stored(h)' \/ \A w \in Worker : h \notin pass[w].todo \cup pass[w].hook)

LEMMA NoPassOff == NoPass.stage = "off"
  BY DEF NoPass

LEMMA SteadyStep ==
  ASSUME TypeOK, Orderly, pass' = pass, lock' = lock, \A h \in Hook : Steady(h)
  PROVE  Orderly'
  <1>1. OnePass'
    BY DEF Orderly, OnePass
  <1>2. ASSUME NEW w \in Worker
        PROVE  AtCursor(w)'
    <2>1. pass[w].todo \subseteq Hook /\ pass[w].hook \subseteq Hook /\ AtCursor(w)
      BY DEF TypeOK, Pass, Orderly
    <2> QED  BY <2>1 DEF AtCursor, Steady
  <1>3. ASSUME NEW h \in Hook
        PROVE  Settled(h)'
    BY DEF Orderly, Settled, Steady, Awaits, IsFirst
  <1> QED  BY <1>1, <1>2, <1>3 DEF Orderly

\* Only the pass of w works.
LEMMA Others ==
  ASSUME OnePass, NEW w \in Worker, pass[w].stage # "off",
         NEW v \in Worker, v # w
  PROVE  pass[v] = NoPass
  BY DEF OnePass

\* A step of the one pass there is, before which no answer was waited for, or
\* that records the answer.
LEMMA OnlyStep ==
  ASSUME IInv, Orderly, NEW w \in Worker, pass[w].stage # "off",
         NEW q, Makes(w, q), pass'[w].stage # "off", lock' = lock,
         AtCursor(w)', \A h \in Hook : Settled(h)'
  PROVE  Orderly'
  <1>1. /\ pass'[w] = q
        /\ \A v \in Worker \ {w} : pass'[v] = NoPass
        /\ w \in lock
    BY Others DEF Makes, IInv, TypeOK, Orderly, OnePass
  <1>2. OnePass'
    <2>1. \A u, v \in lock : u = v
      BY DEF OnePass, Orderly
    <2>2. ASSUME NEW v \in Worker
          PROVE  /\ pass'[v].stage = "off" => pass'[v] = NoPass
                 /\ pass'[v].stage # "off" => v \in lock
      <3>1. CASE v = w
        BY <1>1, <3>1
      <3>2. CASE v # w
        BY <1>1, <3>2, NoPassOff
      <3> QED  BY <3>1, <3>2
    <2> QED  BY <2>1, <2>2 DEF OnePass
  <1>3. ASSUME NEW v \in Worker \ {w}
        PROVE  AtCursor(v)'
    BY <1>1 DEF AtCursor, NoPass
  <1> QED  BY <1>2, <1>3 DEF Orderly

\* When no answer is waited for, what was accepted is behind the cursor.
LEMMA Behind ==
  ASSUME Orderly, NEW w \in Worker, pass[w].stage # "off",
         pass[w].stage # "answered" \/ ~pass[w].ok,
         NEW h \in Hook, NEW i \in accepted[h]
  PROVE  Stored(h) /\ i <= row[h].cursor
  BY Others DEF Orderly, Settled, Awaits, NoPass

LEMMA StartAlone ==
  ASSUME IInv, Orderly, NEW w \in Worker, Start(w)
  PROVE  Orderly'
  <1>1. \A v \in Worker : pass[v] = NoPass
    BY DEF Orderly, OnePass, Start
  <1>2. /\ pass' = [pass EXCEPT ![w] = Locked] /\ lock' = {w}
        /\ row' = row /\ accepted' = accepted
    BY DEF Start, Locking, Locked
  <1>3. /\ pass'[w] = Locked
        /\ \A v \in Worker \ {w} : pass'[v] = NoPass
    BY <1>1, <1>2 DEF IInv, TypeOK
  <1>4. OnePass'
    <2>1. ASSUME NEW v \in Worker
          PROVE  /\ pass'[v].stage = "off" => pass'[v] = NoPass
                 /\ pass'[v].stage # "off" => v \in lock'
      <3>1. CASE v = w
        <4>1. Locked.stage = "rows"
          BY LockedIs DEF IInv, TypeOK
        <4> QED  BY <1>2, <1>3, <3>1, <4>1
      <3>2. CASE v # w
        BY <1>3, <3>2, NoPassOff
      <3> QED  BY <3>1, <3>2
    <2> QED  BY <1>2, <2>1 DEF OnePass
  <1>5. ASSUME NEW v \in Worker
        PROVE  AtCursor(v)'
    <2>1. CASE v # w
      BY <1>3, <2>1 DEF AtCursor, NoPass
    <2>2. CASE v = w
      BY <1>2, <1>3, <2>2, LockedIs DEF AtCursor, Stored, IInv, TypeOK
    <2> QED  BY <2>1, <2>2
  <1>6. ASSUME NEW h \in Hook
        PROVE  Settled(h)'
    <2>1. \A i \in accepted[h] : Stored(h) /\ i <= row[h].cursor
      BY <1>1 DEF Orderly, Settled, Awaits, NoPass
    <2> QED  BY <1>2, <2>1 DEF Settled, Stored
  <1> QED  BY <1>4, <1>5, <1>6 DEF Orderly

LEMMA EndAlone ==
  ASSUME IInv, Orderly, NEW w \in Worker, End(w)
  PROVE  Orderly'
  <1>1. /\ pass' = [pass EXCEPT ![w] = NoPass] /\ lock' = lock \ {w}
        /\ row' = row /\ accepted' = accepted /\ pass[w].stage = "rows"
    BY DEF End
  <1>2. \A v \in Worker : pass'[v] = NoPass
    BY <1>1, Others DEF Orderly, IInv, TypeOK
  <1>3. OnePass'
    BY <1>1, <1>2, NoPassOff DEF OnePass, Orderly
  <1>4. ASSUME NEW v \in Worker
        PROVE  AtCursor(v)'
    BY <1>2 DEF AtCursor, NoPass
  <1>5. ASSUME NEW h \in Hook
        PROVE  Settled(h)'
    BY <1>1, Behind DEF Settled, Stored
  <1> QED  BY <1>3, <1>4, <1>5 DEF Orderly

\* The pass leaves a registration, and no row's cursor moves.
LEMMA LeaveAlone ==
  ASSUME IInv, Orderly, NEW w \in Worker, pass[w].stage # "off",
         pass[w].stage # "answered" \/ ~pass[w].ok,
         NEW q \in Pass, Makes(w, Leave(q)),
         q.seen = pass[w].seen, q.todo \subseteq pass[w].todo,
         lock' = lock, accepted' = accepted,
         \A h \in Hook : Stored(h)' = Stored(h) /\ row'[h].cursor = row[h].cursor
  PROVE  Orderly'
  <1>1. pass'[w] = Leave(q)
    BY DEF Makes, IInv, TypeOK
  <1>2. AtCursor(w)'
    <2>1. AtCursor(w) /\ pass[w].todo \subseteq Hook
      BY DEF Orderly, IInv, TypeOK, Pass
    <2> QED  BY <1>1, <2>1, LeaveIs DEF AtCursor
  <1>3. ASSUME NEW h \in Hook
        PROVE  Settled(h)'
    BY Behind DEF Settled
  <1>4. pass'[w].stage # "off"
    BY <1>1, LeaveIs
  <1> QED  BY <1>2, <1>3, <1>4, OnlyStep

LEMMA BeginAlone ==
  ASSUME IInv, Orderly, NEW w \in Worker, NEW h \in Hook, Begin(w, h)
  PROVE  Orderly'
  <1> DEFINE p == Opened(pass[w], h)
  <1>0. /\ pass[w] \in Pass /\ TypeOK /\ LogTypeOK
        /\ pass[w].stage = "rows" /\ h \in pass[w].todo
        /\ row' = row /\ accepted' = accepted /\ lock' = lock
        /\ pass' = [pass EXCEPT ![w] = GoOn(p)]
    BY DEF IInv, TypeOK, Begin
  <1>1. /\ p \in Pass /\ p.todo = pass[w].todo \ {h} /\ p.hook = {h}
        /\ p.stage = "sending" /\ p.seen = pass[w].seen
        /\ p.batch = EventsAfter(pass[w].seen[h].cursor)
    BY <1>0, OpenedIs
  <1> HIDE DEF p
  <1>2. /\ pass'[w] = GoOn(p) /\ Makes(w, GoOn(p))
    BY <1>0 DEF Makes, TypeOK
  <1>3. /\ GoOn(p).todo = p.todo /\ GoOn(p).batch = p.batch
        /\ GoOn(p).hook \subseteq p.hook /\ GoOn(p).stage \in {"rows", "sending"}
        /\ \A g \in p.todo : GoOn(p).seen[g] = p.seen[g]
    BY <1>1, GoOnIs
  <1>4. AtCursor(w)'
    <2>1. /\ \A e, f \in pass'[w].batch : e.id = f.id => e = f
          /\ Stored(h) => \A e \in pass'[w].batch : row[h].cursor < e.id
      <3>1. \A e, f \in events : e.id = f.id => e = f
        BY DEF IInv, LogOK
      <3>2. Stored(h) => pass[w].seen[h].cursor = row[h].cursor
        BY <1>0 DEF Orderly, AtCursor
      <3>3. row[h].cursor \in Nat /\ \A e \in events : e.id \in Nat
        BY <1>0, EventAssumption DEF TypeOK, LogTypeOK, Row, Event, Id
      <3> QED  BY <1>1, <1>2, <1>3, <3>1, <3>2, <3>3 DEF EventsAfter
    <2>2. AtCursor(w)
      BY DEF Orderly
    <2> QED  BY <1>0, <1>1, <1>2, <1>3, <2>1, <2>2 DEF AtCursor, Stored
  <1>5. ASSUME NEW g \in Hook
        PROVE  Settled(g)'
    BY <1>0, Behind DEF Settled, Stored
  <1> QED  BY <1>0, <1>2, <1>3, <1>4, <1>5, OnlyStep

\* The events after the first.
LEMMA NextIsLater ==
  ASSUME IInv, NEW w \in Worker, AtCursor(w), NEW e \in pass[w].batch,
         IsFirst(e, pass[w].batch), NEW f \in pass[w].batch \ {e}
  PROVE  e.id \in Nat /\ f.id \in Nat /\ e.id < f.id
  <1>1. e.id \in Nat /\ f.id \in Nat
    BY EventAssumption DEF IInv, TypeOK, Pass, Event, Id
  <1> QED  BY <1>1 DEF AtCursor, IsFirst

\* The pass moves the cursor of h to its first event, and goes on.
LEMMA MovesOn ==
  ASSUME IInv, Orderly, NEW w \in Worker, pass[w].stage # "off",
         NEW h \in Hook, h \in pass[w].hook,
         NEW e \in pass[w].batch, IsFirst(e, pass[w].batch),
         NEW q \in Pass, Makes(w, GoOn(q)), q.stage # "off",
         q.todo = pass[w].todo, q.hook = pass[w].hook,
         q.batch = pass[w].batch \ {e},
         \A g \in Hook : q.seen[g].cursor = pass[w].seen[g].cursor,
         lock' = lock, accepted' = accepted,
         \A g \in Hook : Stored(g)' = Stored(g),
         \A g \in Hook \ {h} : row'[g].cursor = row[g].cursor,
         Stored(h) => row'[h].cursor = e.id
  PROVE  Orderly'
  <1>1. pass'[w] = GoOn(q)
    BY DEF Makes, IInv, TypeOK
  <1>2. /\ GoOn(q).todo = q.todo /\ GoOn(q).batch = q.batch
        /\ GoOn(q).hook \subseteq q.hook /\ GoOn(q).stage # "off"
        /\ \A g \in q.todo : GoOn(q).seen[g] = q.seen[g]
    BY GoOnIs
  <1>3. /\ AtCursor(w) /\ pass[w].todo \subseteq Hook
        /\ \A g \in pass[w].hook : g = h
    BY DEF Orderly, IInv, TypeOK, Pass, PassOK, ReadOK
  <1>4. AtCursor(w)'
    <2>1. \A f \in pass'[w].batch : e.id < f.id
      BY <1>1, <1>2, <1>3, NextIsLater
    <2> QED  BY <1>1, <1>2, <1>3, <2>1 DEF AtCursor
  <1>5. ASSUME NEW g \in Hook
        PROVE  Settled(g)'
    <2>1. ASSUME NEW i \in accepted[g]
          PROVE  Stored(g) /\ i <= row'[g].cursor
      <3>1. i \in Nat /\ e.id \in Nat /\ row[g].cursor \in Nat
        BY EventAssumption DEF IInv, TypeOK, Pass, Event, Id, Row
      <3>2. Stored(g)
        BY DEF Orderly, Settled
      <3>3. CASE i <= row[g].cursor
        <4>1. CASE g = h
          BY <1>3, <3>1, <3>2, <3>3, <4>1 DEF AtCursor
        <4>2. CASE g # h
          BY <3>2, <3>3, <4>2
        <4> QED  BY <4>1, <4>2
      <3>4. CASE ~(i <= row[g].cursor)
        <4>1. Awaits(w, g, i)
          BY <3>4, Others DEF Orderly, Settled, Awaits, NoPass
        <4>2. g = h
          BY <1>3, <4>1 DEF Awaits
        <4>3. i = e.id
          <5>1. PICK f \in pass[w].batch : f.id = i /\ IsFirst(f, pass[w].batch)
            BY <4>1 DEF Awaits
          <5> QED  BY <3>1, <5>1 DEF IsFirst
        <4> QED  BY <3>1, <3>2, <4>2, <4>3
      <3> QED  BY <3>3, <3>4
    <2> QED  BY <2>1 DEF Settled
  <1> QED  BY <1>1, <1>2, <1>4, <1>5, OnlyStep

LEMMA SkipAlone ==
  ASSUME IInv, Orderly, NEW w \in Worker, NEW h \in Hook, NEW e \in pass[w].batch,
         Skip(w, h, e)
  PROVE  Orderly'
  <1>1. /\ PassType /\ pass[w] \in Pass /\ row \in [Hook -> Row]
        /\ pass[w].stage = "sending" /\ h \in pass[w].hook
        /\ IsFirst(e, pass[w].batch)
        /\ lock' = lock /\ accepted' = accepted
        /\ row' = IF Stored(h) THEN [row EXCEPT ![h].cursor = e.id] ELSE row
    BY DEF IInv, TypeOK, PassType, Skip, First, IsFirst
  <1>2. /\ After(pass[w], e) \in Pass /\ After(pass[w], e).todo = pass[w].todo
        /\ After(pass[w], e).hook = pass[w].hook
        /\ After(pass[w], e).batch = pass[w].batch \ {e}
        /\ After(pass[w], e).stage = "sending"
        /\ After(pass[w], e).seen = pass[w].seen
    BY <1>1, AfterIs
  <1>3. /\ \A g \in Hook : Stored(g)' = Stored(g)
        /\ \A g \in Hook \ {h} : row'[g].cursor = row[g].cursor
        /\ Stored(h) => row'[h].cursor = e.id
    BY <1>1 DEF Stored, Row
  <1>4. Makes(w, GoOn(After(pass[w], e)))
    BY <1>1, SkipMakes
  <1> QED  BY <1>1, <1>2, <1>3, <1>4, MovesOn

LEMMA PostAlone ==
  ASSUME IInv, Orderly, NEW w \in Worker, NEW h \in Hook, NEW e \in pass[w].batch,
         NEW ok \in BOOLEAN, Post(w, h, e, ok)
  PROVE  Orderly'
  <1>1. /\ PassType /\ pass[w] \in Pass /\ accepted \in [Hook -> SUBSET Id]
        /\ pass[w].stage = "sending" /\ h \in pass[w].hook
        /\ IsFirst(e, pass[w].batch)
        /\ lock' = lock /\ row' = row
        /\ accepted' = IF ok /\ Stored(h)
                         THEN [accepted EXCEPT ![h] = @ \cup {e.id}] ELSE accepted
    BY DEF IInv, TypeOK, PassType, Post, First, IsFirst
  <1>2. Makes(w, Heard(pass[w], ok))
    BY <1>1, PostMakes
  <1>3. /\ pass'[w].todo = pass[w].todo /\ pass'[w].hook = pass[w].hook
        /\ pass'[w].batch = pass[w].batch /\ pass'[w].seen = pass[w].seen
        /\ pass'[w].stage = "answered" /\ pass'[w].ok = ok
    BY <1>1, <1>2, HeardIs DEF Makes, PassType
  <1>4. AtCursor(w)'
    BY <1>1, <1>3 DEF AtCursor, Orderly, Stored
  <1>5. ASSUME NEW g \in Hook
        PROVE  Settled(g)'
    <2>1. ASSUME NEW i \in accepted'[g]
          PROVE  Stored(g) /\ (i <= row[g].cursor \/ Awaits(w, g, i)')
      <3>1. CASE i \in accepted[g]
        BY <1>1, <3>1, Behind
      <3>2. CASE i \notin accepted[g]
        <4>1. g = h /\ ok /\ Stored(h) /\ i = e.id
          BY <1>1, <2>1, <3>2
        <4> QED  BY <1>1, <1>3, <4>1 DEF Awaits, IsFirst
      <3> QED  BY <3>1, <3>2
    <2> QED  BY <1>1, <2>1 DEF Settled, Stored
  <1> QED  BY <1>1, <1>2, <1>3, <1>4, <1>5, OnlyStep

LEMMA SucceedAlone ==
  ASSUME IInv, Orderly, NEW w \in Worker, NEW h \in Hook, NEW e \in pass[w].batch,
         Succeed(w, h, e)
  PROVE  Orderly'
  <1>1. /\ PassType /\ pass[w] \in Pass /\ row \in [Hook -> Row]
        /\ pass[w].stage = "answered" /\ h \in pass[w].hook
        /\ IsFirst(e, pass[w].batch)
        /\ lock' = lock /\ accepted' = accepted
        /\ row' = IF Stored(h)
                    THEN [row EXCEPT ![h] = [@ EXCEPT !.cursor = e.id,
                                               !.since = "never", !.waiting = FALSE]]
                    ELSE row
    BY DEF IInv, TypeOK, PassType, Succeed, Answered, IsFirst
  <1>2. /\ \A g \in Hook : Stored(g)' = Stored(g)
        /\ \A g \in Hook \ {h} : row'[g].cursor = row[g].cursor
        /\ Stored(h) => row'[h].cursor = e.id
    BY <1>1 DEF Stored, Row
  <1>3. CASE Stored(h)
    <2>1. Makes(w, GoOn(Sent(pass[w], h, e)))
      BY <1>1, <1>3, SucceedMakes
    <2>2. /\ Sent(pass[w], h, e) \in Pass
          /\ Sent(pass[w], h, e).todo = pass[w].todo
          /\ Sent(pass[w], h, e).hook = pass[w].hook
          /\ Sent(pass[w], h, e).batch = pass[w].batch \ {e}
          /\ Sent(pass[w], h, e).stage = "sending"
      BY <1>1, SentIs
    <2>3. \A g \in Hook : Sent(pass[w], h, e).seen[g].cursor = pass[w].seen[g].cursor
      BY <1>1, SentReads
    <2> QED  BY <1>1, <1>2, <2>1, <2>2, <2>3, MovesOn
  <1>4. CASE ~Stored(h)
    <2>1. pass'[w] = Leave(pass[w]) /\ Makes(w, Leave(pass[w])) /\ row' = row
      BY <1>1, <1>4, SucceedMakes DEF Makes, PassType
    <2>2. AtCursor(w)'
      <3>1. AtCursor(w)
        BY DEF Orderly
      <3> QED  BY <1>1, <2>1, <3>1, LeaveIs DEF AtCursor, Stored
    <2>3. ASSUME NEW g \in Hook
          PROVE  Settled(g)'
      <3>1. \A f \in pass[w].hook : f = h
        BY <1>1 DEF IInv, PassOK, ReadOK
      <3>2. \A i \in accepted[g] : Stored(g) /\ i <= row[g].cursor
        BY <1>4, <3>1, Others, <1>1 DEF Orderly, Settled, Awaits, NoPass
      <3> QED  BY <1>1, <2>1, <3>2 DEF Settled, Stored
    <2>4. pass'[w].stage # "off"
      BY <1>1, <2>1, LeaveIs
    <2> QED  BY <1>1, <2>1, <2>2, <2>3, <2>4, OnlyStep
  <1> QED  BY <1>3, <1>4

\* A failed attempt moves no cursor.
LEMMA FailedStays ==
  ASSUME TypeOK, NEW h \in Hook, NEW seen \in Row,
         row' = IF Stored(h) THEN Failed(h, seen) ELSE row
  PROVE  \A g \in Hook : Stored(g)' = Stored(g) /\ row'[g].cursor = row[g].cursor
  <1>1. CASE Stored(h)
    <2>1. /\ \A g \in Hook : g # h => row'[g] = row[g]
          /\ row'[h].cursor = row[h].cursor
          /\ row'[h].status \in {"active", "failing"}
      BY <1>1, FailedType DEF TypeOK
    <2> QED  BY <1>1, <2>1 DEF Stored
  <1>2. CASE ~Stored(h)
    BY <1>2 DEF Stored
  <1> QED  BY <1>1, <1>2

LEMMA PassAlone ==
  ASSUME IInv, Orderly, NEW w \in Worker, PassStep(w)
  PROVE  Orderly'
  <1>0. TypeOK /\ PassType /\ pass[w] \in Pass
    BY DEF IInv, TypeOK, PassType
  <1>1. ASSUME NEW h \in Hook, SecretLocked(w, h)
        PROVE  Orderly'
    <2>1. pass[w].seen[h] \in Row /\ pass[w].stage = "rows"
          /\ lock' = lock /\ accepted' = accepted
          /\ row' = IF Stored(h) THEN Failed(h, pass[w].seen[h]) ELSE row
      BY <1>0, <1>1 DEF SecretLocked, Pass
    <2>2. Makes(w, Leave(Without(pass[w], h)))
      BY <1>0, <1>1, SecretMakes
    <2>3. /\ Without(pass[w], h) \in Pass /\ Without(pass[w], h).seen = pass[w].seen
          /\ Without(pass[w], h).todo \subseteq pass[w].todo
      BY <1>0, WithoutIs
    <2>4. \A g \in Hook : Stored(g)' = Stored(g) /\ row'[g].cursor = row[g].cursor
      BY <1>0, <2>1, FailedStays
    <2> QED  BY <2>1, <2>2, <2>3, <2>4, LeaveAlone
  <1>2. ASSUME NEW h \in Hook, NEW e \in pass[w].batch, Fail(w, h, e)
        PROVE  Orderly'
    <2>1. pass[w].seen[h] \in Row /\ pass[w].stage = "answered" /\ ~pass[w].ok
          /\ lock' = lock /\ accepted' = accepted
          /\ row' = IF Stored(h) THEN Failed(h, pass[w].seen[h]) ELSE row
      BY <1>0, <1>2 DEF Fail, Answered, Pass
    <2>2. Makes(w, Leave(pass[w]))
      BY <1>0, <1>2, FailMakes
    <2>3. \A g \in Hook : Stored(g)' = Stored(g) /\ row'[g].cursor = row[g].cursor
      BY <1>0, <2>1, FailedStays
    <2> QED  BY <1>0, <2>1, <2>2, <2>3, LeaveAlone
  <1> QED  BY <1>1, <1>2, StartAlone, EndAlone, BeginAlone, SkipAlone, PostAlone,
              SucceedAlone DEF PassStep

LEMMA AdminAlone ==
  ASSUME IInv, Orderly, NEW h \in Hook, AdminStep(h) \/ ComesDue(h) \/ Ages(h)
  PROVE  Orderly'
  <1>0. /\ TypeOK /\ row \in [Hook -> Row] /\ accepted \in [Hook -> SUBSET Id]
        /\ pass' = pass /\ lock' = lock
    BY DEF IInv, TypeOK, AdminStep, Create, EditKinds, OpenStatus, WriteStatus, Delete,
           ComesDue, Ages
  <1>1. ASSUME NEW kinds \in Filters, Create(h, kinds)
        PROVE  \A g \in Hook : Steady(g)
    <2>1. /\ row[h].status = "none" /\ accepted' = accepted
          /\ \A g \in Hook \ {h} : row'[g] = row[g]
      BY <1>0, <1>1 DEF Create, historyVars
    <2>2. accepted[h] = {}
      BY <2>1 DEF Orderly, Settled, Stored
    <2>3. \A w \in Worker : h \notin pass[w].todo \cup pass[w].hook
      BY <2>1 DEF IInv, PassOK, ReadOK
    <2> QED  BY <2>1, <2>2, <2>3 DEF Steady, Stored
  <1>2. ASSUME Delete(h)
        PROVE  \A g \in Hook : Steady(g)
    <2>1. /\ row'[h].status = "deleted" /\ accepted'[h] = {}
          /\ \A g \in Hook \ {h} : row'[g] = row[g] /\ accepted'[g] = accepted[g]
      BY <1>0, <1>2 DEF Delete, NoRow
    <2> QED  BY <2>1 DEF Steady, Stored
  <1>3. ASSUME WriteStatus(h)
        PROVE  \A g \in Hook : Steady(g)
    <2>1. CASE ~Stored(h)
      <3>1. row' = row /\ accepted' = accepted
        BY <1>3, <2>1 DEF WriteStatus, historyVars
      <3> QED  BY <3>1 DEF Steady, Stored
    <2>2. CASE Stored(h)
      <3>1. /\ admin.to \in {"active", "disabled"}
            /\ row'[h].status = admin.to /\ row'[h].cursor = row[h].cursor
            /\ \A g \in Hook \ {h} : row'[g] = row[g]
            /\ accepted' = accepted
        BY <1>0, <1>3, <2>2 DEF WriteStatus, IInv, AdminOK, Row, historyVars
      <3> QED  BY <2>2, <3>1 DEF Steady, Stored
    <2> QED  BY <2>1, <2>2
  <1>4. ASSUME \/ \E kinds \in Filters : EditKinds(h, kinds)
               \/ \E to \in {"active", "disabled"} : OpenStatus(h, to)
               \/ ComesDue(h) \/ Ages(h)
        PROVE  \A g \in Hook : Steady(g)
    <2>1. /\ \A g \in Hook : row'[g].status = row[g].status
                               /\ row'[g].cursor = row[g].cursor
          /\ accepted' = accepted
      BY <1>0, <1>4 DEF EditKinds, OpenStatus, ComesDue, Ages, Row, historyVars
    <2> QED  BY <2>1 DEF Steady, Stored
  <1> QED  BY <1>0, <1>1, <1>2, <1>3, <1>4, SteadyStep DEF AdminStep

LEMMA UnfaultedInit == Init => Unfaulted
  BY DEF Init, NoPass, Unfaulted, Orderly, OnePass, AtCursor, Settled

LEMMA UnfaultedNext == IInv /\ Unfaulted /\ [Next]_vars => Unfaulted'
  <1> SUFFICES ASSUME IInv, Unfaulted, [Next]_vars, faults' = 0
               PROVE  Orderly'
    BY DEF Unfaulted
  <1>1. CASE UNCHANGED vars
    BY <1>1 DEF vars, logVars, historyVars, Unfaulted, Orderly, OnePass, AtCursor,
                Settled, Stored, Awaits, IsFirst
  <1>2. CASE \/ \E k \in Kind : RecordEvent(k)
             \/ \E e \in open : CommitEvent(e) \/ LoseEvent(e)
             \/ \E id \in Id : SweepEvents(id)
    <2>1. UNCHANGED <<row, pass, lock, faults, accepted>>
      BY <1>2 DEF RecordEvent, CommitEvent, LoseEvent, SweepEvents, Idle
    <2> QED  BY <2>1, SteadyStep DEF IInv, Unfaulted, Steady, Stored
  <1>3. ASSUME NEW h \in Hook, AdminStep(h) \/ ComesDue(h) \/ Ages(h)
        PROVE  Orderly'
    <2>1. faults' = faults
      BY <1>3 DEF AdminStep, Create, EditKinds, OpenStatus, WriteStatus, Delete,
                  ComesDue, Ages
    <2> QED  BY <1>3, <2>1, AdminAlone DEF Unfaulted
  <1>4. ASSUME NEW w \in Worker, PassStep(w)
        PROVE  Orderly'
    <2>1. faults' = faults
      BY <1>4 DEF PassStep, Start, Locking, End, Begin, SecretLocked, Skip, Post,
                  Succeed, Fail
    <2> QED  BY <1>4, <2>1, PassAlone DEF Unfaulted
  <1>5. ASSUME NEW w \in Worker, StoreFails(w) \/ LoseSession(w) \/ Crash(w)
        PROVE  FALSE
    <2>1. faults' = faults + 1 /\ faults \in Nat
      BY <1>5, HookAssumption DEF StoreFails, LoseSession, Crash, Faulted, IInv, TypeOK
    <2> QED  BY <2>1
  <1> QED  BY <1>1, <1>2, <1>3, <1>4, <1>5, HookAssumption DEF Next

\* Before the first fault no endpoint is sent an event it accepted: run_pass
\* goes on only with the lock, and works at the cursor the row has.
THEOREM OnlyFaultsRepeat == Spec => RepeatsNeedFaults
  <1> DEFINE NoRepeat ==
        faults = 0 =>
          \A w \in Worker, h \in Hook : \A e \in pass[w].batch, ok \in BOOLEAN :
            e.id \in accepted[h] => ~Post(w, h, e, ok)
  <1>1. IInv /\ Unfaulted => NoRepeat
    <2> SUFFICES ASSUME IInv, Orderly, NEW w \in Worker, NEW h \in Hook,
                        NEW e \in pass[w].batch, NEW ok \in BOOLEAN,
                        e.id \in accepted[h], Post(w, h, e, ok)
                 PROVE  FALSE
      BY DEF Unfaulted
    <2>1. pass[w].stage = "sending" /\ h \in pass[w].hook
      BY DEF Post, First
    <2>2. Stored(h) /\ e.id <= row[h].cursor
      BY <2>1, Behind
    <2>3. row[h].cursor < e.id
      BY <2>1, <2>2 DEF Orderly, AtCursor
    <2>4. e.id \in Nat /\ row[h].cursor \in Nat
      BY EventAssumption DEF IInv, TypeOK, Pass, Event, Id, Row
    <2> QED  BY <2>2, <2>3, <2>4
  <1>2. Spec => []Unfaulted
    BY Invariance, UnfaultedInit, UnfaultedNext, PTL DEF Spec
  <1>3. IInv /\ Unfaulted /\ [Next]_vars => [NoRepeat]_vars
    BY <1>1
  <1> QED  BY <1>2, <1>3, Invariance, PTL DEF Spec, RepeatsNeedFaults
=============================================================================
