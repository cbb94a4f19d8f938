---------------------------- MODULE ServerState ----------------------------
(***************************************************************************)
(* The frontend's keyed reads of server data (lib/server-state.ts): a      *)
(* ServerStateStore whose entries are observed by components, read again   *)
(* by refreshes, invalidations and polls, kept for a while after the last  *)
(* observer left, and forgotten on sign-out.                               *)
(*                                                                         *)
(* JavaScript runs one callback at a time, so an action is one callback: a *)
(* call into the store, a timer, a microtask, or the continuation of a     *)
(* request.  A microtask may run later here than in a browser, after any   *)
(* number of other callbacks.                                              *)
(*                                                                         *)
(* Data is the number of the server's change it was read at; the sequence  *)
(* number of a request is the slot it occupies while it is in flight, and  *)
(* owner is the slot whose sequence number equals the entry's.             *)
(***************************************************************************)
EXTENDS Naturals, FiniteSets

CONSTANTS
  Key,          \* the keys read
  Observer,     \* the components that observe them
  Retain,       \* [Key -> {"none", "window", "forever"}], from retainMs
  Polls,        \* the observers that poll, all with whileVisible
  Forgettable,  \* the sets of keys some call of forget names
  Changed,      \* the sets of keys some call of invalidate names
  MaxInFlight,  \* requests of one key in flight at once
  MaxGen,       \* entry objects of one key that something still refers to
  MaxTeardown,  \* microtasks and lost timers of one entry object
  MaxVersion,   \* changes of one key on the server
  MaxForget,    \* calls of forget that name one key
  MaxRefresh    \* calls of refresh of one key

ASSUME RetainAssumption == Retain \in [Key -> {"none", "window", "forever"}]
ASSUME ObserverAssumption == Polls \subseteq Observer
ASSUME CallAssumption ==
  Forgettable \subseteq SUBSET Key /\ Changed \subseteq SUBSET Key
ASSUME BoundAssumption ==
  /\ MaxInFlight \in Nat \ {0} /\ MaxGen \in Nat \ {0}
  /\ MaxTeardown \in Nat /\ MaxVersion \in Nat \ {0}
  /\ MaxForget \in Nat /\ MaxRefresh \in Nat

VARIABLES
  server,     \* [Key -> version], the state the server holds
  entry,      \* [Key -> Entry], entries.get(id), gen 0 when there is none
  request,    \* [Key -> [Slot -> Request]], the loads in flight
  teardown,   \* [Key -> [Gen -> Nat]], microtasks queued by stop functions
  stray,      \* [Key -> [Gen -> Nat]], retention timers nothing will clear
  at,         \* [Observer -> SUBSET Key], the key a component observes
  polling,    \* [Observer -> slot], the request a poll waits for, or 0
  era,        \* [Key -> Nat], calls of forget that named the key (history)
  told,       \* [Key -> version], the server at the last invalidation of the
              \* observed key (history)
  refreshes,  \* [Key -> Nat], calls of refresh
  hidden      \* the tab is hidden

storeVars == <<server, entry, request, teardown, stray, at, polling, era, told,
               refreshes>>
vars == <<storeVars, hidden>>

Slot == 1..MaxInFlight
Gen == 1..MaxGen

Entry == [gen : 0..MaxGen, observers : SUBSET Observer, data : 0..MaxVersion,
          from : 0..MaxForget, error : BOOLEAN, fetching : BOOLEAN,
          stale : BOOLEAN, owner : 0..MaxInFlight, retained : BOOLEAN,
          timer : BOOLEAN]

Request == [stage : {"free", "sent", "data", "error"}, aborted : BOOLEAN,
            data : 0..MaxVersion, from : 0..MaxForget]

NoEntry == [gen |-> 0, observers |-> {}, data |-> 0, from |-> 0,
            error |-> FALSE, fetching |-> FALSE, stale |-> FALSE, owner |-> 0,
            retained |-> FALSE, timer |-> FALSE]

Free == [stage |-> "free", aborted |-> FALSE, data |-> 0, from |-> 0]

-----------------------------------------------------------------------------
(* The entry and its requests.  A call works on the pair of them.          *)

Pair(k) == [e |-> entry[k], r |-> request[k]]

Exists(e) == e.gen # 0
Pending(e) == e.owner # 0
FreeSlots(r) == {i \in Slot : r[i].stage = "free"}

\* Abort the request in flight and stop any older one from publishing.
AbortOwner(p) == [i \in Slot |-> IF i = p.e.owner
                                   THEN [p.r[i] EXCEPT !.aborted = TRUE]
                                   ELSE p.r[i]]

Settle(p) == [e |-> [p.e EXCEPT !.owner = 0], r |-> AbortOwner(p)]

\* WRONG: the entry's sequence number runs ahead of its request's.
ReadAhead(p, slot, now) ==
  [e |-> [p.e EXCEPT !.owner = slot + 1, !.fetching = TRUE],
   r |-> [AbortOwner(p) EXCEPT ![slot] =
            [stage |-> "sent", aborted |-> FALSE, data |-> 0, from |-> now]]]

\* read(entry, true): start a request that alone may publish.
ReadIn(p, slot, now) ==
  [e |-> [p.e EXCEPT !.owner = slot, !.fetching = TRUE],
   r |-> [AbortOwner(p) EXCEPT ![slot] =
            [stage |-> "sent", aborted |-> FALSE, data |-> 0, from |-> now]]]

Read(p, now) == ReadIn(p, CHOOSE i \in FreeSlots(p.r) : TRUE, now)

\* read(entry, false): the request in flight, if any, is the answer.
ReadShared(p, now) == IF Pending(p.e) THEN p ELSE Read(p, now)

Delete(p) == [p EXCEPT !.e = NoEntry]

\* An entry object nothing refers to any more.
FreshGen(k) == {g \in Gen : teardown[k][g] = 0 /\ stray[k][g] = 0}

\* The entry object observe() works on: the one there is, or a new one.
GenFor(k) == IF Exists(entry[k]) THEN {entry[k].gen}
             ELSE {g \in FreshGen(k) : \A h \in FreshGen(k) : g <= h}

\* observe(): the entry is created, picked up within its retention window,
\* or shared.
Joined(p, o, gen, now) ==
  LET e == [p.e EXCEPT !.gen = gen, !.observers = @ \cup {o}]
      back == [e EXCEPT !.retained = FALSE, !.timer = FALSE, !.stale = TRUE]
  IN IF e.retained THEN ReadShared([p EXCEPT !.e = back], now)
     ELSE IF e.data = 0 /\ ~e.error THEN ReadShared([p EXCEPT !.e = e], now)
     ELSE [p EXCEPT !.e = e]

\* The stop function that observe() returned.
Left(p, o) == [p EXCEPT !.e.observers = @ \ {o}]

\* WRONG: the request in flight is not settled.
TornDownOnly(p, k) ==
  IF p.e.data = 0 \/ Retain[k] = "none"
    THEN Delete(p)
    ELSE [p EXCEPT !.e.retained = TRUE, !.e.fetching = FALSE,
                   !.e.timer = p.e.timer \/ Retain[k] = "window"]

\* The microtask a stop function queued, when nobody observes the entry.
TornDown(p, k) ==
  LET s == Settle(p)
  IN IF s.e.data = 0 \/ Retain[k] = "none"
       THEN Delete(s)
       ELSE [s EXCEPT !.e.retained = TRUE, !.e.fetching = FALSE,
                      !.e.timer = s.e.timer \/ Retain[k] = "window"]

\* WRONG: a request in flight is taken for the answer.
ForgottenSharing(p, now) ==
  LET idle == [p EXCEPT !.e = [NoEntry EXCEPT !.gen = p.e.gen,
                                 !.owner = p.e.owner,
                                 !.observers = p.e.observers]]
  IN IF p.e.observers = {} THEN Delete(Settle(p)) ELSE ReadShared(idle, now)

\* WRONG: observers are left with an empty entry that nothing reads.
ForgottenIdle(p, now) ==
  LET s == Settle(p)
  IN IF s.e.observers = {} THEN Delete(s)
     ELSE [s EXCEPT !.e = [NoEntry EXCEPT !.gen = s.e.gen,
                                          !.observers = s.e.observers]]

\* What forget() does to a key it names.
Forgotten(p, now) ==
  LET s == Settle(p)
      idle == [s EXCEPT !.e = [NoEntry EXCEPT !.gen = s.e.gen,
                                              !.observers = s.e.observers]]
  IN IF s.e.observers = {} THEN Delete(s) ELSE Read(idle, now)

\* WRONG: it does not ask whether the entry was picked up meanwhile.
ExpiredAnyway(p) == Delete(p)

\* The timer that deletes a retained entry, whichever of them fires.
Expired(p) == IF p.e.retained THEN Delete(p) ELSE p

Replace(k, p) ==
  /\ entry' = [entry EXCEPT ![k] = p.e]
  /\ request' = [request EXCEPT ![k] = p.r]

\* The bound MaxInFlight is the model's: a step that reads needs a slot.
CanRead(k) == FreeSlots(request[k]) # {}
-----------------------------------------------------------------------------
Init ==
  /\ server = [k \in Key |-> 1]
  /\ entry = [k \in Key |-> NoEntry]
  /\ request = [k \in Key |-> [i \in Slot |-> Free]]
  /\ teardown = [k \in Key |-> [g \in Gen |-> 0]]
  /\ stray = [k \in Key |-> [g \in Gen |-> 0]]
  /\ at = [o \in Observer |-> {}]
  /\ polling = [o \in Observer |-> 0]
  /\ era = [k \in Key |-> 0]
  /\ told = [k \in Key |-> 0]
  /\ refreshes = [k \in Key |-> 0]
  /\ hidden = FALSE

(* The server and the network.                                             *)

ServerChange(k) ==
  /\ server[k] < MaxVersion
  /\ server' = [server EXCEPT ![k] = @ + 1]
  /\ UNCHANGED <<entry, request, teardown, stray, at, polling, era, told,
                 refreshes, hidden>>

Reply(k, i, stage, data) ==
  /\ request[k][i].stage = "sent"
  /\ request' = [request EXCEPT ![k][i].stage = stage, ![k][i].data = data]
  /\ UNCHANGED <<server, entry, teardown, stray, at, polling, era, told,
                 refreshes, hidden>>

\* The server answers with what it holds now.
Answer(k, i) == Reply(k, i, "data", server[k])

\* The request fails, or an aborted one is refused by its signal.
Fail(k, i) == Reply(k, i, "error", 0)

(* Components.                                                             *)

\* A component mounts with key k, or its options changed: it subscribes.
Observe(o, k) ==
  /\ at[o] = {}
  /\ CanRead(k) /\ FreshGen(k) # {}
  /\ \E gen \in GenFor(k) : Replace(k, Joined(Pair(k), o, gen, era[k]))
  /\ at' = [at EXCEPT ![o] = {k}]
  /\ UNCHANGED <<server, teardown, stray, polling, era, told, refreshes, hidden>>

\* It unmounts, or unsubscribes before it subscribes again.
Unobserve(o, k) ==
  /\ k \in at[o]
  /\ teardown[k][entry[k].gen] + stray[k][entry[k].gen] < MaxTeardown
  /\ Replace(k, Left(Pair(k), o))
  /\ at' = [at EXCEPT ![o] = {}]
  /\ polling' = [polling EXCEPT ![o] = 0]
  /\ teardown' = [teardown EXCEPT ![k][entry[k].gen] = @ + 1]
  /\ UNCHANGED <<server, stray, era, told, refreshes, hidden>>

\* The microtask of a stop function of entry object g.
Teardown(k, g) ==
  /\ teardown[k][g] > 0
  /\ teardown' = [teardown EXCEPT ![k][g] = @ - 1]
  /\ IF entry[k].gen = g /\ entry[k].observers = {}
       THEN /\ Replace(k, TornDown(Pair(k), k))
            \* a second microtask arms a second timer and loses the first
            /\ stray' = [stray EXCEPT ![k][g] = IF entry[k].timer
                                                  THEN @ + 1 ELSE @]
       ELSE UNCHANGED <<entry, request, stray>>
  /\ UNCHANGED <<server, at, polling, era, told, refreshes, hidden>>

\* The retention timer fires.
Expire(k) ==
  /\ entry[k].timer
  /\ Replace(k, Expired([e |-> [entry[k] EXCEPT !.timer = FALSE],
                         r |-> request[k]]))
  /\ UNCHANGED <<server, teardown, stray, at, polling, era, told, refreshes,
                 hidden>>

\* A timer nothing cleared fires; one armed after it stays armed.
ExpireStray(k, g) ==
  /\ stray[k][g] > 0
  /\ IF entry[k].gen = g
       THEN /\ Replace(k, Expired(Pair(k)))
            /\ stray' = [stray EXCEPT ![k][g] =
                           IF entry[k].retained /\ entry[k].timer
                             THEN @ ELSE @ - 1]
       ELSE /\ stray' = [stray EXCEPT ![k][g] = @ - 1]
            /\ UNCHANGED <<entry, request>>
  /\ UNCHANGED <<server, teardown, at, polling, era, told, refreshes, hidden>>

(* Reads.                                                                  *)

\* WRONG: a request already in flight is taken for the answer.
RereadShared(S) ==
  LET observed == {k \in S : entry[k].observers # {}}
  IN /\ \A k \in observed : CanRead(k)
     /\ entry' = [k \in Key |-> IF k \in observed
                                  THEN ReadShared(Pair(k), era[k]).e
                                  ELSE entry[k]]
     /\ request' = [k \in Key |-> IF k \in observed
                                    THEN ReadShared(Pair(k), era[k]).r
                                    ELSE request[k]]
     /\ told' = [k \in Key |-> IF k \in observed THEN server[k] ELSE told[k]]
     /\ UNCHANGED <<server, teardown, stray, at, polling, era, hidden>>

\* Every observed key of S is read again, a request in flight aborted.
Reread(S) ==
  LET observed == {k \in S : entry[k].observers # {}}
  IN /\ \A k \in observed : CanRead(k)
     /\ entry' = [k \in Key |-> IF k \in observed
                                  THEN Read(Pair(k), era[k]).e ELSE entry[k]]
     /\ request' = [k \in Key |-> IF k \in observed
                                    THEN Read(Pair(k), era[k]).r
                                    ELSE request[k]]
     /\ told' = [k \in Key |-> IF k \in observed THEN server[k] ELSE told[k]]
     /\ UNCHANGED <<server, teardown, stray, at, polling, era, hidden>>

\* A write says what it changed.
Invalidate(S) ==
  /\ \E k \in S : told[k] < server[k]
  /\ Reread(S)
  /\ UNCHANGED refreshes

\* A component asks for its key again.
Refresh(k) ==
  /\ refreshes[k] < MaxRefresh
  /\ refreshes' = [refreshes EXCEPT ![k] = @ + 1]
  /\ Reread({k})

\* The tab is hidden or becomes visible.  Bound: it is hidden only when a poll
\* could start; only Poll looks at it.
Turn ==
  /\ hidden \/ \E o \in Polls : at[o] # {} /\ polling[o] = 0
  /\ hidden' = ~hidden
  /\ UNCHANGED storeVars

\* A poll's interval, or the tab becoming visible: never while it is hidden,
\* and never two at once.
Poll(o, k) ==
  /\ o \in Polls /\ k \in at[o]
  /\ ~hidden /\ polling[o] = 0
  /\ CanRead(k)
  /\ Replace(k, ReadShared(Pair(k), era[k]))
  /\ polling' = [polling EXCEPT ![o] = entry'[k].owner]
  /\ UNCHANGED <<server, teardown, stray, at, era, told, refreshes, hidden>>

\* WRONG: whatever comes in is published.
Anyone(k, i) == TRUE

\* A response publishes when its sequence number is still the entry's.
Owns(k, i) == entry[k].owner = i /\ ~request[k][i].aborted

\* WRONG: a poll whose request failed keeps waiting for it.
PollsServed(k, i) ==
  {o \in Observer : k \in at[o] /\ polling[o] = i /\ request[k][i].stage = "data"}

\* The polls that waited for a request.
PollsEnded(k, i) == {o \in Observer : k \in at[o] /\ polling[o] = i}

\* The request's continuation, its finally clause and the polls it ends.
\* onData and onError callbacks that call the store are steps of their own.
Continue(k, i) ==
  LET r == request[k][i]
      published == CASE ~Owns(k, i) -> entry[k]
                     [] Owns(k, i) /\ r.stage = "data" ->
                          [entry[k] EXCEPT !.data = r.data, !.from = r.from,
                             !.error = FALSE, !.fetching = FALSE,
                             !.stale = FALSE]
                     [] Owns(k, i) /\ r.stage = "error" ->
                          [entry[k] EXCEPT !.error = TRUE, !.fetching = FALSE,
                             !.stale = entry[k].data # 0]
  IN /\ r.stage \in {"data", "error"}
     /\ entry' = [entry EXCEPT ![k] = IF entry[k].owner = i
                                        THEN [published EXCEPT !.owner = 0]
                                        ELSE published]
     /\ request' = [request EXCEPT ![k][i] = Free]
     /\ polling' = [o \in Observer |-> IF o \in PollsEnded(k, i)
                                         THEN 0 ELSE polling[o]]
     /\ UNCHANGED <<server, teardown, stray, at, era, told, refreshes, hidden>>

\* forget(prefix, except): S is what it names without the key it spares.
Forget(S, unobservedOnly) ==
  LET dropped == {k \in S : unobservedOnly => entry[k].observers = {}}
      kept == {k \in dropped : Exists(entry[k])}
      next(k) == Forgotten(Pair(k), era[k] + 1)
  IN /\ \A k \in dropped : era[k] < MaxForget /\ CanRead(k)
     /\ entry' = [k \in Key |-> IF k \in kept THEN next(k).e ELSE entry[k]]
     /\ request' = [k \in Key |-> IF k \in kept THEN next(k).r
                                                ELSE request[k]]
     /\ era' = [k \in Key |-> IF k \in dropped THEN era[k] + 1 ELSE era[k]]
     /\ UNCHANGED <<server, teardown, stray, at, polling, told, refreshes,
                    hidden>>

Next ==
  \/ \E k \in Key :
       \/ ServerChange(k)
       \/ Refresh(k)
       \/ Expire(k)
       \/ \E i \in Slot : Answer(k, i) \/ Fail(k, i) \/ Continue(k, i)
       \/ \E g \in Gen : Teardown(k, g) \/ ExpireStray(k, g)
       \/ \E o \in Observer : Observe(o, k) \/ Unobserve(o, k) \/ Poll(o, k)
  \/ Turn
  \/ \E S \in Changed : Invalidate(S)
  \/ \E S \in Forgettable, only \in BOOLEAN : Forget(S, only)

Spec == Init /\ [][Next]_vars

\* The browser runs every microtask and continuation; a request ends, and the
\* requests of a key do not fail for ever; the intervals of a visible tab keep
\* firing.
Fairness ==
  /\ \A k \in Key :
       /\ \A i \in Slot : /\ WF_vars(Answer(k, i) \/ Fail(k, i))
                          /\ WF_vars(Continue(k, i))
       /\ SF_vars(\E i \in Slot : Answer(k, i))
       /\ \A g \in Gen : WF_vars(Teardown(k, g))
       /\ \A o \in Observer : WF_vars(Poll(o, k))

FairSpec == Spec /\ Fairness
-----------------------------------------------------------------------------
(* Properties.                                                             *)

TypeOK ==
  /\ server \in [Key -> 1..MaxVersion]
  /\ entry \in [Key -> Entry]
  /\ request \in [Key -> [Slot -> Request]]
  /\ teardown \in [Key -> [Gen -> Nat]]
  /\ stray \in [Key -> [Gen -> Nat]]
  /\ at \in [Observer -> SUBSET Key]
  /\ polling \in [Observer -> 0..MaxInFlight]
  /\ era \in [Key -> 0..MaxForget]
  /\ told \in [Key -> 0..MaxVersion]
  /\ refreshes \in [Key -> 0..MaxRefresh]
  /\ hidden \in BOOLEAN

\* Data read before the key was forgotten is not in the store again: not from
\* a kept entry, nor from a response that was in flight (observe, forget and
\* read of server-state.ts, lines 12 and 236).
ForgottenGone ==
  \A k \in Key : entry[k].data # 0 => entry[k].from = era[k]

\* The store drops no entry a component observes, whatever timer or microtask
\* of an earlier observer is still to come (lines 217-231).
ObserversKept ==
  \A k \in Key : entry[k].observers = {o \in Observer : k \in at[o]}

\* At most one request of a key may still publish, and none when nobody
\* observes the key and the microtasks of its stop functions ran (line 7).
OneLiveRequest ==
  \A k \in Key :
    LET live == {i \in Slot : request[k][i].stage # "free"
                              /\ ~request[k][i].aborted}
    IN /\ \A i, j \in live : i = j
       /\ entry[k].observers = {} /\ (\A g \in Gen : teardown[k][g] = 0)
            => live = {}

\* A key invalidated while it was observed is not shown as up to date with
\* data from before the write: it is fetching or marked stale (line 22).
InvalidatedNotFresh ==
  \A k \in Key :
    LET e == entry[k]
    IN e.observers # {} /\ e.data # 0 /\ ~e.fetching /\ ~e.stale
         => e.data >= told[k]

\* A request of k is in flight that may publish.
Coming(k) == \E i \in Slot : request[k][i].stage # "free" /\ Owns(k, i)

\* Nobody waits for an answer that cannot come: while a component is told that
\* its key is loading, or shows nothing or stale data without an error, some
\* request may still publish for it, whatever was aborted, forgotten, retained
\* or torn down meanwhile; and a poll waits only for a request that has yet to
\* end (lines 106, 201-210, 251-253 and 300-319).
NobodyWaitsInVain ==
  /\ \A k \in Key : entry[k].observers # {} =>
       /\ entry[k].fetching => Coming(k)
       /\ entry[k].data = 0 \/ entry[k].stale => Coming(k) \/ entry[k].error
  /\ \A o \in Observer : \A k \in at[o] :
       polling[o] # 0 => request[k][polling[o]].stage # "free"

\* What the store shows follows the server: never back to an older state of a
\* key, except by showing nothing in between (only the newest request may
\* publish, lines 14-15).
Follower == INSTANCE FollowsServer WITH
  Item <- Key, latest <- server, shown <- [k \in Key |-> entry[k].data]

ImplementsFollower == Follower!Spec

\* A component that polls sees the server's state again and again while the tab
\* stays visible, whatever refreshes, observers of the same key and failures
\* come in between; a hidden tab asks nothing (line 107).
PollCatchesUp ==
  \A k \in Key, o \in Polls :
    []<>(k \notin at[o] \/ hidden \/ entry[k].data = server[k])

\* An invalidated key that stays observed comes to show the write, or an error.
InvalidatedSettles ==
  \A k \in Key :
    (entry[k].observers # {} /\ entry[k].data < told[k])
      ~> (entry[k].data >= told[k] \/ entry[k].error
            \/ entry[k].observers = {})
=============================================================================
