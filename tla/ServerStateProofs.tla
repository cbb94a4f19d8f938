------------------------- MODULE ServerStateProofs -------------------------
(***************************************************************************)
(* Theorems about ServerState: the store never loses an entry a component  *)
(* observes, shows nothing from before a forget, and lets at most one      *)
(* request of a key publish.                                               *)
(*                                                                         *)
(* The operations work on the pair of an entry and its requests, so the    *)
(* lemmas first say what each of them makes of a pair, whatever key it     *)
(* belongs to; the steps then change the pair of one or several keys.      *)
(***************************************************************************)
EXTENDS ServerState, TLAPS

PairType == [e : Entry, r : [Slot -> Request]]

Alive(req) == req.stage # "free" /\ ~req.aborted

\* A request that may publish is the owner's, and read after the forget that
\* began era n; an entry without a generation is empty; a retained entry is
\* at rest; the data is of era n, not ahead of the server's version v nor of
\* the owner's answer; data from before the version t that the key was last
\* invalidated at is being replaced or marked.
PairOK(p, n, v, t) ==
  /\ p.e.owner # 0 => Alive(p.r[p.e.owner]) /\ p.r[p.e.owner].from = n
  /\ \A i \in Slot : Alive(p.r[i]) => i = p.e.owner
  /\ p.e.gen = 0 => p.e = NoEntry
  /\ p.e.retained => p.e.observers = {} /\ p.e.owner = 0
  /\ p.e.data # 0 => p.e.from = n
  /\ p.e.data <= v
  /\ p.e.owner # 0 /\ p.r[p.e.owner].stage = "data"
       => /\ p.e.data <= p.r[p.e.owner].data /\ p.r[p.e.owner].data <= v
          /\ t <= p.r[p.e.owner].data
  /\ t <= v
  /\ p.e.data # 0 /\ ~p.e.retained /\ ~p.e.fetching /\ ~p.e.stale
       => t <= p.e.data

\* An entry nobody observes is retained or has a microtask to come.
Watched(k) ==
  entry[k].gen # 0 /\ entry[k].observers = {} /\ ~entry[k].retained
    => teardown[k][entry[k].gen] > 0

\* A component observes one key at a time.
OneKeyEach == \A o \in Observer : \A k1, k2 \in at[o] : k1 = k2

PairsOK == \A k \in Key : PairOK(Pair(k), era[k], server[k], told[k])

\* What a step may do to the data: drop it, or show a later version.
Forward ==
  /\ server' = server
  /\ \A k \in Key : entry'[k].data = 0 \/ entry[k].data <= entry'[k].data

IInv == TypeOK /\ PairsOK /\ (\A k \in Key : Watched(k)) /\ ObserversKept
          /\ OneKeyEach
-----------------------------------------------------------------------------
(* What the operations make of a pair.                                     *)

LEMMA NoEntryType == NoEntry \in Entry
  BY BoundAssumption DEF NoEntry, Entry

LEMMA FreeType == Free \in Request
  BY BoundAssumption DEF Free, Request

LEMMA SettleOK ==
  ASSUME NEW p \in PairType, NEW n, NEW v \in Nat, NEW t \in Nat,
         PairOK(p, n, v, t)
  PROVE  /\ Settle(p) \in PairType
         /\ Settle(p).e = [p.e EXCEPT !.owner = 0]
         /\ \A i \in Slot : /\ ~Alive(Settle(p).r[i])
                            /\ Settle(p).r[i].stage = p.r[i].stage
<1>1. AbortOwner(p) \in [Slot -> Request]
  BY DEF AbortOwner, PairType, Request
<1>2. [p.e EXCEPT !.owner = 0] \in Entry
  BY BoundAssumption DEF PairType, Entry
<1>3. ASSUME NEW i \in Slot
      PROVE  ~Alive(AbortOwner(p)[i]) /\ AbortOwner(p)[i].stage = p.r[i].stage
  BY DEF AbortOwner, PairType, Request, PairOK, Alive
<1> QED
  BY <1>1, <1>2, <1>3 DEF Settle, PairType

LEMMA ReadInOK ==
  ASSUME NEW p \in PairType, NEW n \in 0..MaxForget, NEW v \in Nat, NEW t \in Nat,
         PairOK(p, n, v, t), NEW u \in Nat, u <= v,
         NEW slot \in FreeSlots(p.r), p.e.gen # 0, ~p.e.retained
  PROVE  /\ ReadIn(p, slot, n) \in PairType /\ PairOK(ReadIn(p, slot, n), n, v, u)
         /\ ReadIn(p, slot, n).e.observers = p.e.observers
         /\ ReadIn(p, slot, n).e.data = p.e.data
         /\ ReadIn(p, slot, n).e.gen = p.e.gen /\ ReadIn(p, slot, n).e.owner = slot
<1> DEFINE new == [stage |-> "sent", aborted |-> FALSE, data |-> 0, from |-> n]
           e == [p.e EXCEPT !.owner = slot, !.fetching = TRUE]
           r == [AbortOwner(p) EXCEPT ![slot] = new]
<1>1. slot \in Slot /\ slot # 0 /\ Slot \subseteq 0..MaxInFlight
  BY BoundAssumption DEF FreeSlots, Slot
<1>2. AbortOwner(p) \in [Slot -> Request]
  BY DEF AbortOwner, PairType, Request
<1>3. \A i \in Slot : ~Alive(AbortOwner(p)[i])
  BY DEF AbortOwner, PairType, Request, PairOK, Alive
<1>4. new \in Request
  BY BoundAssumption DEF Request
<1>5. r \in [Slot -> Request] /\ r[slot] = new
  BY <1>1, <1>2, <1>4
<1>6. \A i \in Slot : i # slot => r[i] = AbortOwner(p)[i]
  BY <1>2
<1>7. /\ e \in Entry /\ e.owner = slot /\ e.fetching /\ e.gen = p.e.gen /\ ~e.retained
      /\ e.data = p.e.data /\ e.from = p.e.from /\ e.observers = p.e.observers
  BY <1>1 DEF PairType, Entry
<1>8. ReadIn(p, slot, n) = [e |-> e, r |-> r]
  BY DEF ReadIn
<1>9. Alive(new) /\ new.from = n /\ new.stage # "data"
  BY DEF Alive
<1> HIDE DEF e, r, new
<1>10. [e |-> e, r |-> r] \in PairType
  BY <1>5, <1>7 DEF PairType
<1>11. PairOK([e |-> e, r |-> r], n, v, u)
  BY <1>1, <1>3, <1>5, <1>6, <1>7, <1>9 DEF PairOK
<1> QED
  BY <1>7, <1>8, <1>10, <1>11

LEMMA ReadOK ==
  ASSUME NEW p \in PairType, NEW n \in 0..MaxForget, NEW v \in Nat, NEW t \in Nat,
         PairOK(p, n, v, t), NEW u \in Nat, u <= v,
         FreeSlots(p.r) # {}, p.e.gen # 0, ~p.e.retained
  PROVE  /\ Read(p, n) \in PairType /\ PairOK(Read(p, n), n, v, u)
         /\ Read(p, n).e.observers = p.e.observers /\ Read(p, n).e.data = p.e.data
         /\ Read(p, n).e.gen = p.e.gen /\ Read(p, n).e.owner \in Slot
<1> DEFINE slot == CHOOSE i \in FreeSlots(p.r) : TRUE
<1>1. slot \in FreeSlots(p.r)
  OBVIOUS
<1>2. Read(p, n) = ReadIn(p, slot, n)
  BY DEF Read
<1>3. slot \in Slot
  BY <1>1 DEF FreeSlots
<1> HIDE DEF slot
<1> QED
  BY <1>1, <1>2, <1>3, ReadInOK

LEMMA ReadSharedOK ==
  ASSUME NEW p \in PairType, NEW n \in 0..MaxForget, NEW v \in Nat, NEW t \in Nat,
         PairOK(p, n, v, t),
         FreeSlots(p.r) # {}, p.e.gen # 0, ~p.e.retained
  PROVE  /\ ReadShared(p, n) \in PairType /\ PairOK(ReadShared(p, n), n, v, t)
         /\ ReadShared(p, n).e.observers = p.e.observers
         /\ ReadShared(p, n).e.data = p.e.data
         /\ ReadShared(p, n).e.gen = p.e.gen
<1>1. t <= v
  BY DEF PairOK
<1> QED
  BY <1>1, ReadOK DEF ReadShared

LEMMA DeleteOK ==
  ASSUME NEW p \in PairType, NEW n, NEW v \in Nat, NEW t \in Nat,
         PairOK(p, n, v, t), p.e.owner = 0
  PROVE  /\ Delete(p) \in PairType /\ PairOK(Delete(p), n, v, t)
         /\ Delete(p).e = NoEntry
<1>1. /\ Delete(p) \in PairType /\ Delete(p).e = NoEntry /\ Delete(p).r = p.r
  BY NoEntryType DEF Delete, PairType
<1>2. /\ NoEntry.owner = 0 /\ ~NoEntry.retained /\ NoEntry.data = 0
  BY DEF NoEntry
<1>3. PairOK(Delete(p), n, v, t)
  BY <1>1, <1>2 DEF PairOK
<1> QED
  BY <1>1, <1>3

LEMMA TornDownOK ==
  ASSUME NEW p \in PairType, NEW n, NEW v \in Nat, NEW t \in Nat,
         PairOK(p, n, v, t), NEW k \in Key,
         p.e.gen # 0, p.e.observers = {}
  PROVE  /\ TornDown(p, k) \in PairType /\ PairOK(TornDown(p, k), n, v, t)
         /\ TornDown(p, k).e.observers = {} /\ TornDown(p, k).e.data \in {0, p.e.data}
         /\ TornDown(p, k).e.gen # 0 => TornDown(p, k).e.retained
<1> DEFINE s == Settle(p)
           tm == s.e.timer \/ Retain[k] = "window"
           kept == [s EXCEPT !.e.retained = TRUE, !.e.fetching = FALSE,
                             !.e.timer = s.e.timer \/ Retain[k] = "window"]
<1>1. s \in PairType /\ s.e = [p.e EXCEPT !.owner = 0]
        /\ \A i \in Slot : ~Alive(s.r[i])
  BY SettleOK
<1>2. s.e.owner = 0 /\ s.e.gen # 0 /\ s.e.observers = {} /\ s.e.data = p.e.data
        /\ s.e.from = p.e.from /\ s.e.retained = p.e.retained
  BY <1>1 DEF PairType, Entry
<1>3. PairOK(s, n, v, t)
  BY <1>1, <1>2 DEF PairOK
<1>4. /\ Delete(s) \in PairType /\ PairOK(Delete(s), n, v, t) /\ Delete(s).e = NoEntry
  BY <1>1, <1>2, <1>3, DeleteOK
<1>5. kept \in PairType /\ kept.r = s.r /\ kept.e.retained
        /\ kept.e.owner = 0 /\ kept.e.observers = {} /\ kept.e.gen # 0
        /\ kept.e.data = s.e.data /\ kept.e.from = s.e.from
  BY <1>1, <1>2 DEF PairType, Entry
<1>6. PairOK(kept, n, v, t)
  BY <1>1, <1>3, <1>5 DEF PairOK
<1>7. TornDown(p, k) = Delete(s) \/ TornDown(p, k) = kept
  BY DEF TornDown
<1> HIDE DEF s, kept
<1> QED
  BY <1>2, <1>4, <1>5, <1>6, <1>7 DEF NoEntry

LEMMA ForgottenOK ==
  ASSUME NEW p \in PairType, NEW n, NEW v \in Nat, NEW t \in Nat,
         PairOK(p, n, v, t), p.e.gen # 0,
         NEW m \in 0..MaxForget, FreeSlots(p.r) # {}
  PROVE  /\ Forgotten(p, m) \in PairType /\ PairOK(Forgotten(p, m), m, v, t)
         /\ Forgotten(p, m).e.observers = p.e.observers /\ Forgotten(p, m).e.data = 0
         /\ Forgotten(p, m).e.gen # 0 => p.e.observers # {}
<1> DEFINE s == Settle(p)
           idleE == [NoEntry EXCEPT !.gen = s.e.gen, !.observers = s.e.observers]
           idle == [s EXCEPT !.e = idleE]
<1>1. s \in PairType /\ s.e = [p.e EXCEPT !.owner = 0]
        /\ \A i \in Slot : ~Alive(s.r[i]) /\ s.r[i].stage = p.r[i].stage
  BY SettleOK
<1>2. s.e.owner = 0 /\ s.e.gen = p.e.gen /\ s.e.observers = p.e.observers
        /\ s.e.gen \in 0..MaxGen /\ s.e.observers \in SUBSET Observer
  BY <1>1 DEF PairType, Entry
<1>3. CASE p.e.observers = {}
  <2>1. Delete(s) \in PairType /\ Delete(s).e = NoEntry /\ Delete(s).r = s.r
    BY <1>1, NoEntryType DEF Delete, PairType
  <2>2. PairOK(Delete(s), m, v, t)
    BY <1>1, <2>1 DEF PairOK, NoEntry
  <2> QED
    BY <1>2, <1>3, <2>1, <2>2 DEF Forgotten, NoEntry
<1>4. CASE p.e.observers # {}
  <2>1. /\ idleE \in Entry /\ idleE.owner = 0 /\ idleE.gen = p.e.gen
        /\ idleE.observers = p.e.observers /\ ~idleE.retained /\ idleE.data = 0
    BY <1>2, NoEntryType DEF Entry, NoEntry
  <2> HIDE DEF idleE
  <2>2. idle \in PairType /\ idle.e = idleE /\ idle.r = s.r
    BY <1>1, <2>1 DEF PairType
  <2>3. PairOK(idle, m, v, t)
    BY <1>1, <2>1, <2>2 DEF PairOK
  <2>4. FreeSlots(idle.r) # {}
    BY <1>1, <2>2 DEF FreeSlots
  <2>5. Forgotten(p, m) = Read(idle, m)
    BY <1>2, <1>4 DEF Forgotten, idleE
  <2> HIDE DEF idle
  <2> QED
    <3>1. t <= v
      BY DEF PairOK
    <3> QED
      BY <1>4, <2>1, <2>2, <2>3, <2>4, <2>5, <3>1, ReadOK
<1> QED
  BY <1>3, <1>4

LEMMA JoinedOK ==
  ASSUME NEW p \in PairType, NEW n \in 0..MaxForget, NEW v \in Nat, NEW t \in Nat,
         PairOK(p, n, v, t),
         FreeSlots(p.r) # {}, NEW gen \in Gen, NEW o \in Observer
  PROVE  /\ Joined(p, o, gen, n) \in PairType /\ PairOK(Joined(p, o, gen, n), n, v, t)
         /\ Joined(p, o, gen, n).e.observers = p.e.observers \cup {o}
         /\ Joined(p, o, gen, n).e.data = p.e.data
<1> DEFINE e == [p.e EXCEPT !.gen = gen, !.observers = @ \cup {o}]
           back == [e EXCEPT !.retained = FALSE, !.timer = FALSE, !.stale = TRUE]
           pe == [p EXCEPT !.e = e]
           pback == [p EXCEPT !.e = back]
<1>1. gen \in 0..MaxGen /\ gen # 0
  BY BoundAssumption DEF Gen
<1>2. /\ e \in Entry /\ e.gen # 0 /\ e.observers = p.e.observers \cup {o}
      /\ e.owner = p.e.owner /\ e.retained = p.e.retained
      /\ e.data = p.e.data /\ e.from = p.e.from
      /\ e.fetching = p.e.fetching /\ e.stale = p.e.stale
  BY <1>1 DEF PairType, Entry
<1>3. /\ back \in Entry /\ back.gen # 0 /\ back.observers = p.e.observers \cup {o}
      /\ back.owner = p.e.owner /\ ~back.retained /\ back.stale
      /\ back.data = p.e.data /\ back.from = p.e.from
  BY <1>1 DEF PairType, Entry
<1>4. Joined(p, o, gen, n) =
        IF e.retained THEN ReadShared(pback, n)
        ELSE IF e.data = 0 /\ ~e.error THEN ReadShared(pe, n) ELSE pe
  BY DEF Joined
<1> HIDE DEF e, back
<1>5. /\ pe \in PairType /\ pe.e = e /\ pe.r = p.r
      /\ pback \in PairType /\ pback.e = back /\ pback.r = p.r
  BY <1>2, <1>3 DEF PairType
<1> HIDE DEF pe, pback
<1>6. PairOK(pback, n, v, t)
  BY <1>3, <1>5 DEF PairOK
<1>7. e.retained \/ PairOK(pe, n, v, t)
  BY <1>2, <1>5 DEF PairOK
<1>8. CASE e.retained
  BY <1>3, <1>4, <1>5, <1>6, <1>8, ReadSharedOK
<1>9. CASE ~e.retained
  BY <1>2, <1>4, <1>5, <1>7, <1>9, ReadSharedOK
<1> QED
  BY <1>8, <1>9
-----------------------------------------------------------------------------
(* What a step that works on one key, or on several, does to the others.   *)

LEMMA PairTypes ==
  ASSUME TypeOK, NEW k \in Key
  PROVE  /\ Pair(k) \in PairType /\ Pair(k).e = entry[k] /\ Pair(k).r = request[k]
         /\ era[k] \in 0..MaxForget /\ server[k] \in Nat /\ told[k] \in Nat
  BY BoundAssumption DEF TypeOK, Pair, PairType

LEMMA Replaced ==
  ASSUME TypeOK, PairsOK, NEW k \in Key, NEW q \in PairType, Replace(k, q),
         PairOK(q, era[k], server[k], told[k]),
         UNCHANGED <<era, server, told>>
  PROVE  /\ entry' \in [Key -> Entry] /\ request' \in [Key -> [Slot -> Request]]
         /\ entry'[k] = q.e /\ (\A x \in Key : x # k => entry'[x] = entry[x])
         /\ PairsOK'
<1>1. /\ entry' \in [Key -> Entry] /\ request' \in [Key -> [Slot -> Request]]
      /\ entry'[k] = q.e /\ request'[k] = q.r
      /\ \A x \in Key : x # k => entry'[x] = entry[x] /\ request'[x] = request[x]
  BY DEF Replace, TypeOK, PairType
<1>2. q = [e |-> q.e, r |-> q.r]
  BY DEF PairType
<1>3. ASSUME NEW x \in Key PROVE PairOK(Pair(x), era[x], server[x], told[x])'
  <2>1. CASE x = k
    BY <1>1, <1>2, <2>1 DEF Pair
  <2>2. CASE x # k
    BY <1>1, <2>2 DEF Pair, PairsOK
  <2> QED
    BY <2>1, <2>2
<1> QED
  BY <1>1, <1>3 DEF PairsOK

\* Keys whose entries a step leaves alone.
LEMMA DataType ==
  ASSUME TypeOK, NEW k \in Key
  PROVE  entry[k].data \in Nat
<1>1. entry[k].data \in 0..MaxVersion
  BY DEF TypeOK, Entry
<1> QED
  BY <1>1, BoundAssumption

\* Several keys at once, with the eras they begin.
LEMMA ReplacedAll ==
  ASSUME TypeOK, PairsOK, NEW S \in SUBSET Key,
         NEW q \in [S -> PairType],
         \A k \in S : PairOK(q[k], era'[k], server'[k], told'[k]),
         entry' = [k \in Key |-> IF k \in S THEN q[k].e ELSE entry[k]],
         request' = [k \in Key |-> IF k \in S THEN q[k].r ELSE request[k]],
         \A k \in Key : k \notin S => PairOK(Pair(k), era'[k], server'[k], told'[k])
  PROVE  /\ entry' \in [Key -> Entry] /\ request' \in [Key -> [Slot -> Request]]
         /\ PairsOK'
<1>1. /\ entry' \in [Key -> Entry] /\ request' \in [Key -> [Slot -> Request]]
  BY DEF TypeOK, PairType
<1>2. ASSUME NEW x \in Key PROVE PairOK(Pair(x), era[x], server[x], told[x])'
  <2>1. CASE x \in S
    <3>1. q[x] = [e |-> q[x].e, r |-> q[x].r]
      BY <2>1 DEF PairType
    <3> QED
      BY <2>1, <3>1 DEF Pair
  <2>2. CASE x \notin S
    BY <2>2 DEF Pair
  <2> QED
    BY <2>1, <2>2
<1> QED
  BY <1>1, <1>2 DEF PairsOK
-----------------------------------------------------------------------------
LEMMA InitInv == Init => IInv
<1> SUFFICES ASSUME Init PROVE IInv
  OBVIOUS
<1>1. TypeOK
  <2>1. hidden \in BOOLEAN
    BY DEF Init
  <2>2. /\ entry \in [Key -> Entry] /\ request \in [Key -> [Slot -> Request]]
        /\ server \in [Key -> 1..MaxVersion]
    BY BoundAssumption, NoEntryType, FreeType DEF Init
  <2>3. /\ teardown \in [Key -> [Gen -> Nat]] /\ stray \in [Key -> [Gen -> Nat]]
        /\ at \in [Observer -> SUBSET Key] /\ polling \in [Observer -> 0..MaxInFlight]
        /\ era \in [Key -> 0..MaxForget] /\ told \in [Key -> 0..MaxVersion]
        /\ refreshes \in [Key -> 0..MaxRefresh]
    BY BoundAssumption DEF Init
  <2> QED
    BY <2>1, <2>2, <2>3 DEF TypeOK
<1>2. ASSUME NEW k \in Key PROVE PairOK(Pair(k), era[k], server[k], told[k])
  BY DEF Init, PairOK, Pair, NoEntry, Free, Alive
<1>3. ASSUME NEW k \in Key PROVE Watched(k)
  BY DEF Init, Watched, NoEntry
<1>4. ObserversKept /\ OneKeyEach
  BY DEF Init, ObserversKept, OneKeyEach, NoEntry
<1> QED
  BY <1>1, <1>2, <1>3, <1>4 DEF IInv, PairsOK
-----------------------------------------------------------------------------
(* The steps that work on one key.                                         *)

LEMMA ServerChangeInv ==
  ASSUME IInv, NEW k \in Key, ServerChange(k)
  PROVE  IInv'
<1>1. TypeOK'
  BY BoundAssumption DEF IInv, TypeOK, ServerChange
<1>2. UNCHANGED <<entry, request, teardown, at, era, told>>
  BY DEF ServerChange
<1>3. ASSUME NEW x \in Key PROVE PairOK(Pair(x), era[x], server[x], told[x])'
  <2>1. server[x] \in Nat /\ server'[x] \in Nat /\ server[x] <= server'[x]
    BY BoundAssumption DEF IInv, TypeOK, ServerChange
  <2>2. Pair(x) \in PairType /\ PairOK(Pair(x), era[x], server[x], told[x])
    BY PairTypes DEF IInv, PairsOK
  <2>3. /\ Pair(x).e.data \in Nat
        /\ Pair(x).e.owner # 0 => Pair(x).r[Pair(x).e.owner].data \in Nat
    BY <2>2, BoundAssumption DEF PairType, Entry, Request, Slot
  <2>4. Pair(x)' = Pair(x) /\ era'[x] = era[x] /\ told'[x] = told[x]
    BY <1>2 DEF Pair
  <2>5. told[x] \in Nat
    BY PairTypes DEF IInv
  <2> QED
    BY <2>1, <2>2, <2>3, <2>4, <2>5 DEF PairOK
<1> QED
  BY <1>1, <1>2, <1>3 DEF IInv, PairsOK, Watched, ObserversKept, OneKeyEach

\* A reply changes neither who may publish nor what the data will be from.
LEMMA ReplyInv ==
  ASSUME IInv, NEW k \in Key, NEW i \in Slot, NEW stage \in {"data", "error"},
         NEW data \in 0..MaxVersion, Reply(k, i, stage, data),
         stage = "data" => data = server[k]
  PROVE  IInv' /\ Forward
<1> USE DEF IInv
<1> DEFINE new == [request[k][i] EXCEPT !.stage = stage, !.data = data]
<1>1. /\ request' = [request EXCEPT ![k][i] = new]
      /\ request[k][i] \in Request /\ request[k][i].stage = "sent"
      /\ UNCHANGED <<server, entry, teardown, stray, at, polling, era, told,
                     refreshes, hidden>>
  BY DEF Reply, TypeOK
<1>2. /\ new \in Request /\ Alive(new) = Alive(request[k][i])
      /\ new.from = request[k][i].from
      /\ new.stage = "data" => new.data = server[k]
  BY <1>1 DEF Request, Alive
<1> HIDE DEF new
<1>3. /\ request' \in [Key -> [Slot -> Request]] /\ request'[k][i] = new
      /\ \A x \in Key, j \in Slot :
           x # k \/ j # i => request'[x][j] = request[x][j]
  BY <1>1, <1>2 DEF TypeOK
<1>4. TypeOK'
  BY <1>1, <1>3 DEF TypeOK
<1>5. ASSUME NEW x \in Key PROVE PairOK(Pair(x), era[x], server[x], told[x])'
  <2>1. entry[x] \in Entry /\ PairOK(Pair(x), era[x], server[x], told[x])
    BY DEF TypeOK, PairsOK
  <2>2. ASSUME NEW j \in Slot
        PROVE  /\ Alive(request'[x][j]) = Alive(request[x][j])
               /\ request'[x][j].from = request[x][j].from
    BY <1>2, <1>3
  <2>3. entry[x].owner # 0 => entry[x].owner \in Slot
    BY <2>1, BoundAssumption DEF Entry, Slot
  <2>4. /\ entry'[x] = entry[x] /\ server'[x] = server[x] /\ era'[x] = era[x]
        /\ told'[x] = told[x] /\ server[x] \in Nat /\ told[x] \in Nat
    BY <1>1, PairTypes
  <2>5. ASSUME NEW j \in Slot, request'[x][j].stage = "data"
        PROVE  request'[x][j] = request[x][j] \/ request'[x][j].data = server[x]
    BY <1>2, <1>3, <2>5
  <2> QED
    BY <2>1, <2>2, <2>3, <2>4, <2>5 DEF PairOK, Pair
<1> QED
  BY <1>1, <1>4, <1>5, DataType DEF PairsOK, Watched, ObserversKept, OneKeyEach,
                                    Forward

LEMMA ObserveInv ==
  ASSUME IInv, NEW o \in Observer, NEW k \in Key, Observe(o, k)
  PROVE  IInv' /\ Forward
<1> USE DEF IInv
<1>1. PICK gen \in GenFor(k) : Replace(k, Joined(Pair(k), o, gen, era[k]))
  BY DEF Observe
<1>2. gen \in Gen
  BY <1>1, BoundAssumption DEF GenFor, FreshGen, TypeOK, Entry, Exists, Gen
<1> DEFINE q == Joined(Pair(k), o, gen, era[k])
<1>3. q \in PairType /\ PairOK(q, era[k], server[k], told[k])
        /\ q.e.observers = entry[k].observers \cup {o}
        /\ q.e.data = entry[k].data
  <2>1. /\ Pair(k) \in PairType /\ PairOK(Pair(k), era[k], server[k], told[k])
        /\ Pair(k).e = entry[k] /\ Pair(k).r = request[k]
        /\ era[k] \in 0..MaxForget /\ server[k] \in Nat /\ told[k] \in Nat
    BY PairTypes DEF PairsOK
  <2>2. FreeSlots(request[k]) # {}
    BY DEF Observe, CanRead
  <2> QED
    BY <1>2, <2>1, <2>2, JoinedOK
<1> HIDE DEF q
<1>4. /\ at[o] = {} /\ at' = [at EXCEPT ![o] = {k}]
      /\ UNCHANGED <<server, teardown, stray, polling, era, told, refreshes,
                     hidden>>
  BY DEF Observe
<1>5. /\ entry' \in [Key -> Entry] /\ request' \in [Key -> [Slot -> Request]]
      /\ entry'[k] = q.e /\ (\A x \in Key : x # k => entry'[x] = entry[x])
      /\ PairsOK'
  BY <1>1, <1>3, <1>4, Replaced DEF q
<1>6. TypeOK'
  BY <1>4, <1>5 DEF TypeOK
<1>7. ASSUME NEW x \in Key PROVE Watched(x)'
  BY <1>3, <1>4, <1>5 DEF Watched
<1>8. ObserversKept'
  BY <1>3, <1>4, <1>5 DEF ObserversKept, TypeOK
<1>9. OneKeyEach'
  BY <1>4 DEF OneKeyEach, TypeOK
<1>10. Forward
  BY <1>3, <1>4, <1>5, DataType DEF Forward
<1> QED
  BY <1>5, <1>6, <1>7, <1>8, <1>9, <1>10

LEMMA UnobserveInv ==
  ASSUME IInv, NEW o \in Observer, NEW k \in Key, Unobserve(o, k)
  PROVE  IInv' /\ Forward
<1> USE DEF IInv
<1> DEFINE q == Left(Pair(k), o)
           g == entry[k].gen
<1>1. /\ k \in at[o] /\ at' = [at EXCEPT ![o] = {}]
      /\ polling' = [polling EXCEPT ![o] = 0]
      /\ teardown' = [teardown EXCEPT ![k][g] = @ + 1]
      /\ Replace(k, q)
      /\ UNCHANGED <<server, stray, era, told, refreshes, hidden>>
  BY DEF Unobserve
<1>2. o \in entry[k].observers /\ g # 0
  BY <1>1 DEF ObserversKept, PairsOK, PairOK, Pair, NoEntry
<1>3. g \in Gen
  BY <1>2, BoundAssumption DEF TypeOK, Entry, Gen
<1>4. q \in PairType /\ q.r = request[k] /\ q.e.gen = g
        /\ q.e.observers = entry[k].observers \ {o}
        /\ q.e.owner = entry[k].owner /\ q.e.retained = entry[k].retained
        /\ q.e.data = entry[k].data /\ q.e.from = entry[k].from
        /\ q.e.fetching = entry[k].fetching /\ q.e.stale = entry[k].stale
  <2> DEFINE e == [entry[k] EXCEPT !.observers = @ \ {o}]
  <2>1. entry[k] \in Entry /\ request[k] \in [Slot -> Request]
    BY DEF TypeOK
  <2>2. /\ e \in Entry /\ e.gen = g /\ e.observers = entry[k].observers \ {o}
        /\ e.owner = entry[k].owner /\ e.retained = entry[k].retained
        /\ e.data = entry[k].data /\ e.from = entry[k].from
        /\ e.fetching = entry[k].fetching /\ e.stale = entry[k].stale
    BY <2>1 DEF Entry
  <2>3. q = [e |-> e, r |-> request[k]]
    BY DEF Left, Pair
  <2> HIDE DEF e, q
  <2> QED
    BY <2>1, <2>2, <2>3 DEF PairType
<1> HIDE DEF q
<1>5. PairOK(q, era[k], server[k], told[k])
  BY <1>2, <1>4 DEF PairsOK, PairOK, Pair
<1>6. /\ entry' \in [Key -> Entry] /\ request' \in [Key -> [Slot -> Request]]
      /\ entry'[k] = q.e /\ (\A x \in Key : x # k => entry'[x] = entry[x])
      /\ PairsOK'
  BY <1>1, <1>4, <1>5, Replaced
<1>7. /\ teardown' \in [Key -> [Gen -> Nat]] /\ teardown'[k][g] > 0
      /\ \A x \in Key : x # k => teardown'[x] = teardown[x]
  BY <1>1, <1>3 DEF TypeOK
<1>8. TypeOK'
  BY <1>1, <1>6, <1>7, BoundAssumption DEF TypeOK
<1>9. ASSUME NEW x \in Key PROVE Watched(x)'
  BY <1>4, <1>6, <1>7 DEF Watched
<1>10. ASSUME NEW x \in Key
       PROVE  entry'[x].observers = {c \in Observer : x \in at'[c]}
  <2>1. entry[x].observers = {c \in Observer : x \in at[c]}
    BY DEF ObserversKept
  <2>2. at'[o] = {} /\ \A c \in Observer : c # o => at'[c] = at[c]
    BY <1>1 DEF TypeOK
  <2>3. CASE x = k
    BY <1>4, <1>6, <2>1, <2>2, <2>3
  <2>4. CASE x # k
    <3>1. x \notin at[o]
      BY <1>1, <2>4 DEF OneKeyEach
    <3> QED
      BY <1>6, <2>1, <2>2, <2>4, <3>1
  <2> QED
    BY <2>3, <2>4
<1>11. OneKeyEach'
  BY <1>1 DEF OneKeyEach, TypeOK
<1>12. Forward
  BY <1>1, <1>4, <1>6, DataType DEF Forward
<1> QED
  BY <1>6, <1>8, <1>9, <1>10, <1>11, <1>12 DEF ObserversKept

\* Whoever drops a retained entry drops one nobody observes.
LEMMA ExpiredOK ==
  ASSUME NEW p \in PairType, NEW n, NEW v \in Nat, NEW t \in Nat,
         PairOK(p, n, v, t)
  PROVE  /\ Expired(p) \in PairType /\ PairOK(Expired(p), n, v, t)
         /\ Expired(p).e.observers = p.e.observers
         /\ Expired(p).e.data \in {0, p.e.data}
         /\ Expired(p).e.gen # 0 => Expired(p) = p /\ ~p.e.retained
<1>1. CASE p.e.retained
  <2>1. p.e.owner = 0 /\ p.e.observers = {}
    BY <1>1 DEF PairOK
  <2> QED
    BY <1>1, <2>1, DeleteOK DEF Expired, NoEntry
<1>2. CASE ~p.e.retained
  BY <1>2 DEF Expired
<1> QED
  BY <1>1, <1>2

\* A step on k that leaves the components and the key's observers alone.
LEMMA KeptInv ==
  ASSUME IInv, NEW k \in Key, NEW q \in PairType, Replace(k, q),
         PairOK(q, era[k], server[k], told[k]), q.e.observers = entry[k].observers,
         q.e.data = 0 \/ q.e.data = entry[k].data \/ entry[k].data <= q.e.data,
         UNCHANGED <<server, at, era, told, refreshes, hidden>>,
         teardown' \in [Key -> [Gen -> Nat]], stray' \in [Key -> [Gen -> Nat]],
         polling' \in [Observer -> 0..MaxInFlight],
         \A x \in Key : x # k => teardown'[x] = teardown[x],
         q.e.gen # 0 /\ q.e.observers = {} /\ ~q.e.retained
           => teardown'[k][q.e.gen] > 0
  PROVE  IInv' /\ Forward
<1> USE DEF IInv
<1>1. /\ entry' \in [Key -> Entry] /\ request' \in [Key -> [Slot -> Request]]
      /\ entry'[k] = q.e /\ (\A x \in Key : x # k => entry'[x] = entry[x])
      /\ PairsOK'
  BY Replaced
<1>2. TypeOK'
  BY <1>1 DEF TypeOK
<1>3. ASSUME NEW x \in Key PROVE Watched(x)'
  BY <1>1 DEF Watched
<1>4. ObserversKept' /\ OneKeyEach'
  BY <1>1 DEF ObserversKept, OneKeyEach
<1>5. Forward
  BY <1>1, DataType DEF Forward
<1> QED
  BY <1>1, <1>2, <1>3, <1>4, <1>5

LEMMA TeardownInv ==
  ASSUME IInv, NEW k \in Key, NEW g \in Gen, Teardown(k, g)
  PROVE  IInv' /\ Forward
<1> USE DEF IInv
<1>1. /\ teardown[k][g] > 0
      /\ teardown' = [teardown EXCEPT ![k][g] = @ - 1]
      /\ UNCHANGED <<server, at, polling, era, told, refreshes, hidden>>
  BY DEF Teardown
<1>2. /\ teardown' \in [Key -> [Gen -> Nat]]
      /\ \A x \in Key : x # k => teardown'[x] = teardown[x]
      /\ \A h \in Gen : h # g => teardown'[k][h] = teardown[k][h]
  BY <1>1 DEF TypeOK
<1>3. Pair(k) \in PairType /\ PairOK(Pair(k), era[k], server[k], told[k])
        /\ Pair(k).e = entry[k]
        /\ Pair(k).r = request[k] /\ server[k] \in Nat /\ told[k] \in Nat
  BY PairTypes DEF PairsOK
<1>4. CASE entry[k].gen = g /\ entry[k].observers = {}
  <2> DEFINE q == TornDown(Pair(k), k)
  <2>1. Replace(k, q) /\ stray' \in [Key -> [Gen -> Nat]]
    <3>1. stray' = [stray EXCEPT ![k][g] = IF entry[k].timer THEN @ + 1 ELSE @]
            /\ Replace(k, q)
      BY <1>4 DEF Teardown
    <3> QED
      BY <3>1 DEF TypeOK
  <2>2. g # 0
    BY BoundAssumption DEF Gen
  <2>3. /\ q \in PairType /\ PairOK(q, era[k], server[k], told[k])
        /\ q.e.observers = {}
        /\ q.e.data = 0 \/ q.e.data = entry[k].data
        /\ q.e.gen # 0 => q.e.retained
    BY <1>3, <1>4, <2>2, TornDownOK
  <2> HIDE DEF q
  <2> QED
    BY <1>1, <1>2, <1>4, <2>1, <2>3, KeptInv, DataType DEF TypeOK
<1>5. CASE ~(entry[k].gen = g /\ entry[k].observers = {})
  <2>1. UNCHANGED <<entry, request, stray>>
    BY <1>5 DEF Teardown
  <2>2. TypeOK'
    BY <1>1, <1>2, <2>1 DEF TypeOK
  <2>3. ASSUME NEW x \in Key PROVE Watched(x)'
    <3>1. CASE x = k
      <4>1. entry[k].gen # 0 => entry[k].gen \in Gen
        <5>1. entry[k].gen \in 0..MaxGen
          BY DEF TypeOK, Entry
        <5> QED
          BY <5>1, BoundAssumption DEF Gen
      <4> QED
        BY <1>2, <1>5, <2>1, <3>1, <4>1 DEF Watched
    <3>2. CASE x # k
      BY <1>2, <2>1, <3>2 DEF Watched
    <3> QED
      BY <3>1, <3>2
  <2> QED
    BY <1>1, <2>1, <2>2, <2>3, DataType
       DEF PairsOK, Pair, ObserversKept, OneKeyEach, Forward
<1> QED
  BY <1>4, <1>5

LEMMA ExpireInv ==
  ASSUME IInv, NEW k \in Key, Expire(k)
  PROVE  IInv' /\ Forward
<1> USE DEF IInv
<1> DEFINE e == [entry[k] EXCEPT !.timer = FALSE]
           p == [e |-> e, r |-> request[k]]
           q == Expired(p)
<1>1. /\ Replace(k, q) /\ entry[k].timer
      /\ UNCHANGED <<server, teardown, stray, at, polling, era, told, refreshes,
                     hidden>>
  BY DEF Expire
<1>2. /\ e \in Entry /\ e.gen = entry[k].gen /\ e.observers = entry[k].observers
      /\ e.owner = entry[k].owner /\ e.retained = entry[k].retained
      /\ e.data = entry[k].data /\ e.from = entry[k].from
      /\ e.fetching = entry[k].fetching /\ e.stale = entry[k].stale
  BY DEF TypeOK, Entry
<1>3. entry[k].gen # 0
  BY <1>1 DEF PairsOK, PairOK, Pair, NoEntry
<1> HIDE DEF e
<1>4. p \in PairType /\ p.e = e /\ p.r = request[k]
  BY <1>2 DEF TypeOK, PairType
<1> HIDE DEF p
<1>5. PairOK(p, era[k], server[k], told[k])
  BY <1>2, <1>3, <1>4 DEF PairsOK, PairOK, Pair
<1>6. /\ q \in PairType /\ PairOK(q, era[k], server[k], told[k])
      /\ q.e.observers = entry[k].observers
      /\ q.e.data = 0 \/ q.e.data = entry[k].data
      /\ q.e.gen # 0 => q = p /\ ~p.e.retained
  BY <1>2, <1>4, <1>5, ExpiredOK, PairTypes
<1> HIDE DEF q
<1> QED
  BY <1>1, <1>2, <1>4, <1>6, KeptInv, DataType DEF TypeOK, Watched

LEMMA ExpireStrayInv ==
  ASSUME IInv, NEW k \in Key, NEW g \in Gen, ExpireStray(k, g)
  PROVE  IInv' /\ Forward
<1> USE DEF IInv
<1>1. /\ stray[k][g] > 0
      /\ UNCHANGED <<server, teardown, at, polling, era, told, refreshes, hidden>>
  BY DEF ExpireStray
<1>2. CASE entry[k].gen = g
  <2> DEFINE q == Expired(Pair(k))
  <2>1. /\ Replace(k, q)
        /\ stray' = [stray EXCEPT ![k][g] =
                       IF entry[k].retained /\ entry[k].timer THEN @ ELSE @ - 1]
    BY <1>2 DEF ExpireStray
  <2>2. stray' \in [Key -> [Gen -> Nat]]
    BY <1>1, <2>1 DEF TypeOK
  <2>3. Pair(k) \in PairType /\ PairOK(Pair(k), era[k], server[k], told[k])
          /\ Pair(k).e = entry[k]
          /\ server[k] \in Nat /\ told[k] \in Nat
    BY PairTypes DEF PairsOK
  <2>4. /\ q \in PairType /\ PairOK(q, era[k], server[k], told[k])
        /\ q.e.observers = entry[k].observers
        /\ q.e.data = 0 \/ q.e.data = entry[k].data
        /\ q.e.gen # 0 => q = Pair(k) /\ ~entry[k].retained
    BY <2>3, ExpiredOK
  <2> HIDE DEF q
  <2> QED
    BY <1>1, <2>1, <2>2, <2>3, <2>4, KeptInv, DataType DEF TypeOK, Watched
<1>3. CASE entry[k].gen # g
  <2>1. /\ stray' = [stray EXCEPT ![k][g] = @ - 1]
        /\ UNCHANGED <<entry, request>>
    BY <1>3 DEF ExpireStray
  <2>2. TypeOK'
    BY <1>1, <2>1 DEF TypeOK
  <2> QED
    BY <1>1, <2>1, <2>2, DataType
       DEF PairsOK, Pair, Watched, ObserversKept, OneKeyEach, Forward
<1> QED
  BY <1>2, <1>3

LEMMA PollInv ==
  ASSUME IInv, NEW o \in Observer, NEW k \in Key, Poll(o, k)
  PROVE  IInv' /\ Forward
<1> USE DEF IInv
<1> DEFINE q == ReadShared(Pair(k), era[k])
<1>1. /\ k \in at[o] /\ CanRead(k) /\ Replace(k, q)
      /\ polling' = [polling EXCEPT ![o] = entry'[k].owner]
      /\ UNCHANGED <<server, teardown, stray, at, era, told, refreshes, hidden>>
  BY DEF Poll
<1>2. Pair(k) \in PairType /\ PairOK(Pair(k), era[k], server[k], told[k])
        /\ Pair(k).e = entry[k]
        /\ Pair(k).r = request[k] /\ era[k] \in 0..MaxForget
        /\ server[k] \in Nat /\ told[k] \in Nat
  BY PairTypes DEF PairsOK
<1>3. entry[k].observers # {} /\ entry[k].gen # 0 /\ ~entry[k].retained
  BY <1>1, <1>2 DEF ObserversKept, PairOK, NoEntry
<1>4. /\ q \in PairType /\ PairOK(q, era[k], server[k], told[k])
      /\ q.e.observers = entry[k].observers
      /\ q.e.gen = entry[k].gen /\ q.e.data = entry[k].data
  BY <1>1, <1>2, <1>3, ReadSharedOK DEF CanRead
<1> HIDE DEF q
<1>5. entry'[k].owner \in 0..MaxInFlight
  BY <1>1, <1>4 DEF Replace, TypeOK, PairType, Entry
<1>6. polling' \in [Observer -> 0..MaxInFlight]
  BY <1>1, <1>5 DEF TypeOK
<1> QED
  BY <1>1, <1>3, <1>4, <1>6, KeptInv, DataType DEF TypeOK

\* Only the owner's response publishes, and it is from the current era.
LEMMA ContinueInv ==
  ASSUME IInv, NEW k \in Key, NEW i \in Slot, Continue(k, i)
  PROVE  IInv' /\ Forward
<1> USE DEF IInv
<1> DEFINE r == request[k][i]
           served == [entry[k] EXCEPT !.data = r.data, !.from = r.from,
                        !.error = FALSE, !.fetching = FALSE, !.stale = FALSE]
           failed == [entry[k] EXCEPT !.error = TRUE, !.fetching = FALSE,
                        !.stale = entry[k].data # 0]
           published == CASE ~Owns(k, i) -> entry[k]
                          [] Owns(k, i) /\ r.stage = "data" -> served
                          [] Owns(k, i) /\ r.stage = "error" -> failed
           e == IF entry[k].owner = i THEN [published EXCEPT !.owner = 0]
                                      ELSE published
           q == [e |-> e, r |-> [request[k] EXCEPT ![i] = Free]]
<1>1. /\ r.stage \in {"data", "error"}
      /\ entry' = [entry EXCEPT ![k] = e]
      /\ request' = [request EXCEPT ![k][i] = Free]
      /\ polling' = [o \in Observer |-> IF o \in PollsEnded(k, i)
                                          THEN 0 ELSE polling[o]]
      /\ UNCHANGED <<server, teardown, stray, at, era, told, refreshes, hidden>>
  BY DEF Continue
<1>2. /\ entry[k] \in Entry /\ request[k] \in [Slot -> Request]
      /\ PairOK(Pair(k), era[k], server[k], told[k]) /\ i # 0 /\ r \in Request
  <2>1. entry[k] \in Entry /\ request[k] \in [Slot -> Request]
    BY DEF TypeOK
  <2>2. PairOK(Pair(k), era[k], server[k], told[k])
    BY DEF PairsOK
  <2>3. i # 0
    BY BoundAssumption DEF Slot
  <2> QED
    BY <2>1, <2>2, <2>3
<1>3. Owns(k, i) => /\ entry[k].gen # 0 /\ entry[k].owner = i /\ r.from = era[k]
                    /\ ~entry[k].retained
                    /\ r.stage = "data" => r.data <= server[k]
                                            /\ entry[k].data <= r.data
                                            /\ told[k] <= r.data
  BY <1>2 DEF Owns, PairOK, Pair, NoEntry
<1>4. /\ served \in Entry /\ served.data = r.data /\ served.from = r.from
      /\ served.gen = entry[k].gen /\ served.observers = entry[k].observers
      /\ served.owner = entry[k].owner /\ served.retained = entry[k].retained
  BY <1>2 DEF Entry, Request
<1>5. /\ failed \in Entry /\ failed.data = entry[k].data /\ failed.from = entry[k].from
      /\ failed.gen = entry[k].gen /\ failed.observers = entry[k].observers
      /\ failed.owner = entry[k].owner /\ failed.retained = entry[k].retained
      /\ failed.data # 0 => failed.stale
  <2> DEFINE old == entry[k].data # 0
             f == [entry[k] EXCEPT !.error = TRUE, !.fetching = FALSE, !.stale = old]
  <2>1. old \in BOOLEAN
    OBVIOUS
  <2> HIDE DEF old
  <2>2. /\ f \in Entry /\ f.data = entry[k].data /\ f.from = entry[k].from
        /\ f.gen = entry[k].gen /\ f.observers = entry[k].observers
        /\ f.owner = entry[k].owner /\ f.retained = entry[k].retained
        /\ f.stale = old
    BY <1>2, <2>1 DEF Entry
  <2> QED
    BY <2>2 DEF old
<1>6. \/ ~Owns(k, i) /\ published = entry[k]
      \/ Owns(k, i) /\ r.stage = "data" /\ published = served
      \/ Owns(k, i) /\ published = failed
  BY <1>1
<1> HIDE DEF served, failed, published
<1>7. /\ published \in Entry /\ published.gen = entry[k].gen
      /\ published.observers = entry[k].observers
      /\ published.owner = entry[k].owner
      /\ published.retained = entry[k].retained
      /\ published.data # 0 => published.from = era[k]
      /\ published.data <= server[k]
      /\ entry[k].data <= published.data
      /\ entry[k].owner # i => published.data = entry[k].data
      /\ published.data # 0 /\ ~published.retained /\ ~published.fetching
           /\ ~published.stale => told[k] <= published.data
      /\ entry[k].gen = 0 => published = entry[k]
  <2>1. /\ entry[k].data # 0 => entry[k].from = era[k]
        /\ entry[k].data <= server[k] /\ entry[k].data \in Nat
        /\ entry[k].data # 0 /\ ~entry[k].retained /\ ~entry[k].fetching
             /\ ~entry[k].stale => told[k] <= entry[k].data
    BY <1>2, DataType DEF PairOK, Pair
  <2>2. CASE ~Owns(k, i) /\ published = entry[k]
    BY <1>2, <2>1, <2>2
  <2>3. CASE Owns(k, i) /\ r.stage = "data" /\ published = served
    BY <1>3, <1>4, <2>3
  <2>4. CASE Owns(k, i) /\ published = failed
    BY <1>3, <1>5, <2>1, <2>4
  <2> QED
    BY <1>6, <2>2, <2>3, <2>4
<1>8. /\ e \in Entry /\ e.gen = published.gen /\ e.observers = published.observers
      /\ e.retained = published.retained /\ e.data = published.data
      /\ e.from = published.from /\ e.fetching = published.fetching
      /\ e.stale = published.stale
      /\ e.owner = IF entry[k].owner = i THEN 0 ELSE entry[k].owner
  BY <1>7, BoundAssumption DEF Entry
<1>9. entry[k].gen = 0 => e = NoEntry
  BY <1>2, <1>7 DEF PairOK, Pair, NoEntry
<1> HIDE DEF e
<1>10. /\ q \in PairType /\ q.e = e /\ q.r[i] = Free
       /\ \A j \in Slot : j # i => q.r[j] = request[k][j]
  BY <1>2, <1>8, FreeType DEF PairType
<1>11. Replace(k, q)
  BY <1>1 DEF Replace, TypeOK
<1> HIDE DEF q
<1>12. PairOK(q, era[k], server[k], told[k])
  <2>1. ~Alive(Free)
    BY DEF Free, Alive
  <2>2. entry[k].owner # 0 => entry[k].owner \in Slot
    BY <1>2, BoundAssumption DEF Entry, Slot
  <2>3. PairOK([e |-> entry[k], r |-> request[k]], era[k], server[k], told[k])
    BY <1>2 DEF Pair
  <2>4. q.e.owner # 0 => q.e.owner = entry[k].owner /\ q.e.owner # i
    BY <1>8, <1>10
  <2> QED
    BY <1>7, <1>8, <1>9, <1>10, <2>1, <2>2, <2>3, <2>4 DEF PairOK
<1>13. polling' \in [Observer -> 0..MaxInFlight]
  BY <1>1, BoundAssumption DEF TypeOK
<1> QED
  BY <1>1, <1>7, <1>8, <1>10, <1>11, <1>12, <1>13, KeptInv DEF TypeOK, Watched
-----------------------------------------------------------------------------
(* The steps that work on several keys.                                    *)

LEMMA RereadInv ==
  ASSUME IInv, NEW S \in SUBSET Key, Reread(S),
         refreshes' \in [Key -> 0..MaxRefresh]
  PROVE  IInv' /\ Forward
<1> USE DEF IInv
<1> DEFINE observed == {k \in S : entry[k].observers # {}}
           q == [k \in observed |-> Read(Pair(k), era[k])]
<1>1. /\ \A k \in observed : CanRead(k)
      /\ entry' = [k \in Key |-> IF k \in observed
                                   THEN Read(Pair(k), era[k]).e ELSE entry[k]]
      /\ request' = [k \in Key |-> IF k \in observed
                                     THEN Read(Pair(k), era[k]).r
                                     ELSE request[k]]
      /\ told' = [k \in Key |-> IF k \in observed THEN server[k] ELSE told[k]]
      /\ UNCHANGED <<server, teardown, stray, at, polling, era, hidden>>
  BY DEF Reread
<1>2. observed \in SUBSET Key
  OBVIOUS
<1>3. ASSUME NEW k \in observed
      PROVE  /\ q[k] \in PairType /\ PairOK(q[k], era[k], server[k], server[k])
             /\ q[k].e.observers = entry[k].observers /\ entry[k].observers # {}
             /\ q[k].e.data = entry[k].data
  <2>1. k \in Key /\ entry[k].observers # {} /\ FreeSlots(request[k]) # {}
    BY <1>1 DEF CanRead
  <2>2. /\ Pair(k) \in PairType /\ PairOK(Pair(k), era[k], server[k], told[k])
        /\ Pair(k).e = entry[k] /\ Pair(k).r = request[k]
        /\ era[k] \in 0..MaxForget /\ server[k] \in Nat /\ told[k] \in Nat
    BY <2>1, PairTypes DEF PairsOK
  <2>3. entry[k].gen # 0 /\ ~entry[k].retained
    BY <2>1, <2>2 DEF PairOK, NoEntry
  <2>4. q[k] = Read(Pair(k), era[k])
    OBVIOUS
  <2> QED
    BY <2>1, <2>2, <2>3, <2>4, ReadOK
<1>4. /\ entry' = [k \in Key |-> IF k \in observed THEN q[k].e ELSE entry[k]]
      /\ request' = [k \in Key |-> IF k \in observed THEN q[k].r ELSE request[k]]
      /\ q \in [observed -> PairType]
  BY <1>1, <1>3
<1> HIDE DEF q, observed
<1>5. \A k \in observed : PairOK(q[k], era'[k], server'[k], told'[k])
  BY <1>1, <1>2, <1>3
<1>6. \A k \in Key : k \notin observed => PairOK(Pair(k), era'[k], server'[k], told'[k])
  BY <1>1 DEF PairsOK
<1>7. /\ entry' \in [Key -> Entry] /\ request' \in [Key -> [Slot -> Request]]
      /\ PairsOK'
  BY <1>2, <1>4, <1>5, <1>6, ReplacedAll
<1>8. told' \in [Key -> 0..MaxVersion]
  BY <1>1 DEF TypeOK
<1>9. TypeOK'
  BY <1>1, <1>7, <1>8 DEF TypeOK
<1>10. ASSUME NEW k \in Key
       PROVE  /\ entry'[k].observers = entry[k].observers
              /\ entry'[k] = entry[k] \/ entry[k].observers # {}
  BY <1>3, <1>4
<1>11. ASSUME NEW k \in Key PROVE Watched(k)'
  BY <1>1, <1>10 DEF Watched
<1>12. ObserversKept' /\ OneKeyEach'
  BY <1>1, <1>10 DEF ObserversKept, OneKeyEach
<1>13. Forward
  BY <1>1, <1>3, <1>4, DataType DEF Forward
<1> QED
  BY <1>7, <1>9, <1>11, <1>12, <1>13

LEMMA ForgetInv ==
  ASSUME IInv, NEW S \in SUBSET Key, NEW only \in BOOLEAN, Forget(S, only)
  PROVE  IInv' /\ Forward
<1> USE DEF IInv
<1> DEFINE dropped == {k \in S : only => entry[k].observers = {}}
           kept == {k \in dropped : Exists(entry[k])}
           q == [k \in kept |-> Forgotten(Pair(k), era[k] + 1)]
<1>1. /\ \A k \in dropped : era[k] < MaxForget /\ CanRead(k)
      /\ entry' = [k \in Key |-> IF k \in kept
                                   THEN Forgotten(Pair(k), era[k] + 1).e
                                   ELSE entry[k]]
      /\ request' = [k \in Key |-> IF k \in kept
                                     THEN Forgotten(Pair(k), era[k] + 1).r
                                     ELSE request[k]]
      /\ era' = [k \in Key |-> IF k \in dropped THEN era[k] + 1 ELSE era[k]]
      /\ UNCHANGED <<server, teardown, stray, at, polling, told, refreshes, hidden>>
  BY DEF Forget
<1>2. kept \in SUBSET Key /\ kept \subseteq dropped /\ dropped \subseteq Key
  OBVIOUS
<1>3. /\ era' \in [Key -> 0..MaxForget]
      /\ \A k \in dropped : era[k] + 1 \in 0..MaxForget /\ era'[k] = era[k] + 1
      /\ \A k \in Key : k \notin dropped => era'[k] = era[k]
  <2>1. ASSUME NEW k \in dropped PROVE era[k] + 1 \in 0..MaxForget /\ k \in Key
    <3>1. era[k] < MaxForget /\ era[k] \in 0..MaxForget
      BY <1>1, <1>2 DEF TypeOK
    <3> QED
      BY <1>2, <3>1, BoundAssumption
  <2>2. \A k \in Key : era[k] \in 0..MaxForget
    BY DEF TypeOK
  <2> HIDE DEF dropped
  <2> QED
    BY <1>1, <2>1, <2>2
<1>4. ASSUME NEW k \in kept
      PROVE  /\ q[k] \in PairType /\ PairOK(q[k], era[k] + 1, server[k], told[k])
             /\ q[k].e.observers = entry[k].observers
             /\ q[k].e.data = 0
             /\ q[k].e.gen # 0 => entry[k].observers # {}
  <2>1. k \in Key /\ entry[k].gen # 0 /\ FreeSlots(request[k]) # {}
    BY <1>1, <1>2 DEF CanRead, Exists
  <2>2. /\ Pair(k) \in PairType /\ PairOK(Pair(k), era[k], server[k], told[k])
        /\ Pair(k).e = entry[k] /\ Pair(k).r = request[k]
        /\ server[k] \in Nat /\ told[k] \in Nat
    BY <2>1, PairTypes DEF PairsOK
  <2> DEFINE m == era[k] + 1
             f == Forgotten(Pair(k), m)
  <2>3. q[k] = f /\ m \in 0..MaxForget
    BY <1>3
  <2> HIDE DEF m, q
  <2>4. /\ f \in PairType /\ PairOK(f, m, server[k], told[k]) /\ f.e.data = 0
        /\ f.e.observers = Pair(k).e.observers
        /\ f.e.gen # 0 => Pair(k).e.observers # {}
    BY <2>1, <2>2, <2>3, ForgottenOK
  <2> QED
    BY <2>2, <2>3, <2>4 DEF m
<1>5. /\ entry' = [k \in Key |-> IF k \in kept THEN q[k].e ELSE entry[k]]
      /\ request' = [k \in Key |-> IF k \in kept THEN q[k].r ELSE request[k]]
      /\ q \in [kept -> PairType]
  BY <1>1, <1>4
<1>6. ASSUME NEW k \in Key, k \notin kept
      PROVE  PairOK(Pair(k), era'[k], server'[k], told'[k])
  <2>1. CASE k \in dropped
    <3>1. entry[k].gen = 0
      BY <1>6, <2>1 DEF Exists
    <3>2. entry[k] = NoEntry /\ PairOK(Pair(k), era[k], server[k], told[k])
      BY <3>1 DEF PairsOK, PairOK, Pair
    <3>3. NoEntry.owner = 0 /\ NoEntry.data = 0 /\ ~NoEntry.retained
      BY DEF NoEntry
    <3> QED
      BY <1>1, <3>2, <3>3 DEF PairOK, Pair
  <2>2. CASE k \notin dropped
    BY <1>1, <1>3, <2>2 DEF PairsOK
  <2> QED
    BY <2>1, <2>2
<1>7. ASSUME NEW k \in kept PROVE PairOK(q[k], era'[k], server'[k], told'[k])
  BY <1>1, <1>2, <1>3, <1>4
<1> HIDE DEF q, kept, dropped
<1>8. /\ entry' \in [Key -> Entry] /\ request' \in [Key -> [Slot -> Request]]
      /\ PairsOK'
  BY <1>2, <1>5, <1>6, <1>7, ReplacedAll
<1>9. TypeOK'
  BY <1>1, <1>3, <1>8 DEF TypeOK
<1>10. ASSUME NEW k \in Key
       PROVE  /\ entry'[k].observers = entry[k].observers
              /\ \/ entry'[k] = entry[k] \/ entry[k].observers # {}
                 \/ entry'[k].gen = 0
  BY <1>4, <1>5
<1>11. ASSUME NEW k \in Key PROVE Watched(k)'
  BY <1>1, <1>10 DEF Watched
<1>12. ObserversKept' /\ OneKeyEach'
  BY <1>1, <1>10 DEF ObserversKept, OneKeyEach
<1>13. Forward
  BY <1>1, <1>4, <1>5, DataType DEF Forward
<1> QED
  BY <1>8, <1>9, <1>11, <1>12, <1>13
-----------------------------------------------------------------------------
(* The invariant and what follows from it.                                 *)

\* A step of the server is the specification's Change, any other one is Forward.
LEMMA NextInv ==
  IInv /\ [Next]_vars => IInv' /\ (Forward \/ \E k \in Key : ServerChange(k))
<1> SUFFICES ASSUME IInv, [Next]_vars
             PROVE  IInv' /\ (Forward \/ \E k \in Key : ServerChange(k))
  OBVIOUS
<1>1. ASSUME NEW k \in Key, ServerChange(k) PROVE IInv'
  BY <1>1, ServerChangeInv
<1>2. ASSUME NEW k \in Key, Refresh(k) PROVE IInv' /\ Forward
  <2>1. Reread({k}) /\ {k} \in SUBSET Key
    BY <1>2 DEF Refresh
  <2>2. refreshes' \in [Key -> 0..MaxRefresh]
    BY <1>2, BoundAssumption DEF Refresh, IInv, TypeOK
  <2> QED
    BY <2>1, <2>2, RereadInv
<1>3. ASSUME NEW k \in Key, Expire(k) PROVE IInv' /\ Forward
  BY <1>3, ExpireInv
<1>4. ASSUME NEW k \in Key, NEW i \in Slot, Answer(k, i) PROVE IInv' /\ Forward
  <2>1. Reply(k, i, "data", server[k]) /\ server[k] \in 0..MaxVersion
    BY <1>4 DEF Answer, IInv, TypeOK
  <2> QED
    BY <2>1, ReplyInv
<1>5. ASSUME NEW k \in Key, NEW i \in Slot, Fail(k, i) PROVE IInv' /\ Forward
  <2>1. Reply(k, i, "error", 0) /\ 0 \in 0..MaxVersion
    BY <1>5, BoundAssumption DEF Fail
  <2> QED
    BY <2>1, ReplyInv
<1>6. ASSUME NEW k \in Key, NEW i \in Slot, Continue(k, i) PROVE IInv' /\ Forward
  BY <1>6, ContinueInv
<1>7. ASSUME NEW k \in Key, NEW g \in Gen, Teardown(k, g) PROVE IInv' /\ Forward
  BY <1>7, TeardownInv
<1>8. ASSUME NEW k \in Key, NEW g \in Gen, ExpireStray(k, g) PROVE IInv' /\ Forward
  BY <1>8, ExpireStrayInv
<1>9. ASSUME NEW k \in Key, NEW o \in Observer, Observe(o, k) PROVE IInv' /\ Forward
  BY <1>9, ObserveInv
<1>10. ASSUME NEW k \in Key, NEW o \in Observer, Unobserve(o, k) PROVE IInv' /\ Forward
  BY <1>10, UnobserveInv
<1>11. ASSUME NEW k \in Key, NEW o \in Observer, Poll(o, k) PROVE IInv' /\ Forward
  BY <1>11, PollInv
<1>12. ASSUME NEW S \in Changed, Invalidate(S) PROVE IInv' /\ Forward
  <2>1. Reread(S) /\ S \in SUBSET Key /\ refreshes' = refreshes
    BY <1>12, CallAssumption DEF Invalidate
  <2> QED
    BY <2>1, RereadInv DEF IInv, TypeOK
<1>13. ASSUME NEW S \in Forgettable, NEW only \in BOOLEAN, Forget(S, only)
       PROVE  IInv' /\ Forward
  BY <1>13, ForgetInv, CallAssumption
<1>14. CASE Turn \/ UNCHANGED vars
  <2>1. UNCHANGED storeVars /\ hidden' \in BOOLEAN
    BY <1>14 DEF Turn, vars, IInv, TypeOK
  <2>2. IInv'
    BY <2>1 DEF storeVars, IInv, TypeOK, PairsOK, Pair, Watched, ObserversKept,
                OneKeyEach
  <2>3. Forward
    BY <2>1, DataType DEF storeVars, IInv, Forward
  <2> QED
    BY <2>2, <2>3
<1> QED
  BY <1>1, <1>2, <1>3, <1>4, <1>5, <1>6, <1>7, <1>8, <1>9, <1>10, <1>11, <1>12,
     <1>13, <1>14 DEF Next

THEOREM Invariance == Spec => []IInv
  BY InitInv, NextInv, PTL DEF Spec

\* Every reachable state of the store, its requests and its observers is well
\* typed.
THEOREM StoreTypes == Spec => []TypeOK
<1>1. IInv => TypeOK
  BY DEF IInv
<1> QED
  BY <1>1, Invariance, PTL

\* No retention timer and no microtask of an earlier observer drops an entry
\* that a component observes: lines 211-232 of server-state.ts.
THEOREM ObserversStay == Spec => []ObserversKept
<1>1. IInv => ObserversKept
  BY DEF IInv
<1> QED
  BY <1>1, Invariance, PTL

\* What was read before a forget is never in the store after it, whichever
\* responses were in flight: lines 241-263 and 285-323.
THEOREM ForgottenStaysGone == Spec => []ForgottenGone
<1>1. IInv => ForgottenGone
  BY DEF IInv, PairsOK, PairOK, Pair, ForgottenGone
<1> QED
  BY <1>1, Invariance, PTL

\* Data from before a write that named an observed key is never shown as up to
\* date: it is fetching or marked stale until a later answer: lines 272-323.
THEOREM InvalidatedShows == Spec => []InvalidatedNotFresh
<1>1. ASSUME IInv, NEW k \in Key, entry[k].observers # {}, entry[k].data # 0,
             ~entry[k].fetching, ~entry[k].stale
      PROVE  entry[k].data >= told[k]
  <2>1. /\ entry[k].retained => entry[k].observers = {}
        /\ ~entry[k].retained => told[k] <= entry[k].data
    BY <1>1 DEF IInv, PairsOK, PairOK, Pair
  <2>2. entry[k].data \in Nat /\ told[k] \in Nat
    BY <1>1, DataType, PairTypes DEF IInv
  <2> QED
    BY <1>1, <2>1, <2>2
<1>2. IInv => InvalidatedNotFresh
  BY <1>1 DEF InvalidatedNotFresh
<1> QED
  BY <1>2, Invariance, PTL

\* At most one request of a key may publish, and none of a key that nobody
\* observes once the microtasks have run: lines 211-232 and 285-323.
THEOREM OneRequestLives == Spec => []OneLiveRequest
<1>1. ASSUME IInv PROVE OneLiveRequest
  <2> USE <1>1 DEF IInv
  <2>1. ASSUME NEW k \in Key, NEW i \in Slot, Alive(request[k][i])
        PROVE  i = entry[k].owner
    BY <2>1 DEF PairsOK, PairOK, Pair
  <2>2. ASSUME NEW k \in Key, entry[k].observers = {},
               \A g \in Gen : teardown[k][g] = 0
        PROVE  entry[k].owner = 0
    <3>1. entry[k].gen # 0 => entry[k].gen \in Gen
      <4>1. entry[k].gen \in 0..MaxGen
        BY DEF TypeOK, Entry
      <4> QED
        BY <4>1, BoundAssumption DEF Gen
    <3>2. entry[k].gen = 0 \/ entry[k].retained
      BY <2>2, <3>1 DEF Watched
    <3> QED
      BY <3>2 DEF PairsOK, PairOK, Pair, NoEntry
  <2>3. 0 \notin Slot
    BY DEF Slot
  <2> QED
    BY <2>1, <2>2, <2>3 DEF OneLiveRequest, Alive
<1> QED
  BY <1>1, Invariance, PTL

\* What the store shows of a key only moves to later states of it, or is
\* dropped: the store implements FollowsServer (lines 7-24 and 285-323).
THEOREM ImplementsFollowsServer == Spec => ImplementsFollower
<1>1. Init => Follower!Init
  BY DEF Init, Follower!Init, NoEntry
<1>2. ASSUME IInv, IInv', [Next]_vars,
             Forward \/ \E k \in Key : ServerChange(k)
      PROVE  [Follower!Next]_(Follower!vars)
  <2>1. CASE Forward
    <3>1. ASSUME NEW k \in Key
          PROVE  /\ entry[k].data \in Nat /\ entry'[k].data \in Nat
                 /\ server'[k] \in Nat /\ entry'[k].data <= server'[k]
      <4>1. entry[k].data \in Nat
        BY <1>2, DataType DEF IInv
      <4>2. entry'[k].data \in 0..MaxVersion /\ server'[k] \in 1..MaxVersion
        BY <1>2 DEF IInv, TypeOK, Entry
      <4>3. entry'[k].data <= server'[k]
        BY <1>2 DEF IInv, PairsOK, PairOK, Pair
      <4> QED
        BY <4>1, <4>2, <4>3, BoundAssumption
    <3> QED
      BY <2>1, <3>1 DEF Forward, Follower!Next, Follower!Show
  <2>2. ASSUME NEW k \in Key, ServerChange(k) PROVE Follower!Change(k)
    <3>1. server \in [Key -> 1..MaxVersion] /\ UNCHANGED entry
          /\ server' = [server EXCEPT ![k] = server[k] + 1]
      BY <1>2, <2>2 DEF IInv, TypeOK, ServerChange
    <3>2. server'[k] = server[k] + 1 /\ server[k] \in Nat
      BY <3>1, BoundAssumption
    <3> QED
      BY <3>1, <3>2 DEF Follower!Change
  <2> QED
    BY <1>2, <2>1, <2>2 DEF Follower!Next
<1> QED
  BY <1>1, <1>2, NextInv, Invariance, PTL DEF Spec, ImplementsFollower, Follower!Spec
-----------------------------------------------------------------------------
(* What is waited for is still to come.                                    *)

\* An entry that is loading, or has nothing to show or stale data and no error,
\* has a request of its own; an answer holds a version of the server.
WaitOK(p) ==
  /\ p.e.gen # 0 /\ ~p.e.retained =>
       /\ p.e.fetching => p.e.owner # 0
       /\ p.e.data = 0 \/ p.e.stale => p.e.owner # 0 \/ p.e.error
  /\ \A i \in Slot : p.r[i].stage = "data" => p.r[i].data # 0

\* A step from p to q ends no request.
NoneEnds(p, q) == \A i \in Slot : q.r[i].stage = "free" => p.r[i].stage = "free"

\* A poll that waits, waits for a request in flight.
PollsOK ==
  \A o \in Observer :
    /\ at[o] = {} => polling[o] = 0
    /\ \A k \in at[o] : polling[o] # 0 => request[k][polling[o]].stage # "free"

WaitsOK == \A k \in Key : WaitOK(Pair(k))

WInv == IInv /\ WaitsOK /\ PollsOK

LEMMA AbortWaits ==
  ASSUME NEW p \in PairType, NEW i \in Slot
  PROVE  /\ AbortOwner(p)[i].stage = p.r[i].stage
         /\ AbortOwner(p)[i].data = p.r[i].data
  BY DEF AbortOwner, PairType, Request

LEMMA SettleWaits ==
  ASSUME NEW p \in PairType
  PROVE  /\ Settle(p) \in PairType /\ Settle(p).e = [p.e EXCEPT !.owner = 0]
         /\ \A i \in Slot : /\ Settle(p).r[i].stage = p.r[i].stage
                            /\ Settle(p).r[i].data = p.r[i].data
<1>1. AbortOwner(p) \in [Slot -> Request]
  BY DEF AbortOwner, PairType, Request
<1>2. [p.e EXCEPT !.owner = 0] \in Entry
  BY BoundAssumption DEF PairType, Entry
<1> QED
  BY <1>1, <1>2, AbortWaits DEF Settle, PairType

LEMMA ReadWaits ==
  ASSUME NEW p \in PairType, NEW n, FreeSlots(p.r) # {},
         \A i \in Slot : p.r[i].stage = "data" => p.r[i].data # 0
  PROVE  WaitOK(Read(p, n)) /\ NoneEnds(p, Read(p, n))
<1> DEFINE slot == CHOOSE i \in FreeSlots(p.r) : TRUE
           new == [stage |-> "sent", aborted |-> FALSE, data |-> 0, from |-> n]
           e == [p.e EXCEPT !.owner = slot, !.fetching = TRUE]
           r == [AbortOwner(p) EXCEPT ![slot] = new]
<1>1. slot \in FreeSlots(p.r)
  OBVIOUS
<1>2. slot \in Slot /\ slot # 0
  BY <1>1 DEF FreeSlots, Slot
<1> HIDE DEF slot
<1>3. e.owner = slot
  BY DEF PairType, Entry
<1>4. \A i \in Slot : r[i] = IF i = slot THEN new ELSE AbortOwner(p)[i]
  BY DEF AbortOwner
<1>5. new.stage = "sent"
  OBVIOUS
<1>6. Read(p, n) = [e |-> e, r |-> r]
  BY DEF Read, ReadIn, slot
<1> HIDE DEF new, e, r
<1>7. ASSUME NEW i \in Slot
      PROVE  /\ r[i].stage = "data" => r[i].data # 0
             /\ r[i].stage = "free" => p.r[i].stage = "free"
  BY <1>4, <1>5, AbortWaits
<1> QED
  BY <1>2, <1>3, <1>6, <1>7 DEF WaitOK, NoneEnds

LEMMA SharedWaits ==
  ASSUME NEW p \in PairType, NEW n, FreeSlots(p.r) # {},
         \A i \in Slot : p.r[i].stage = "data" => p.r[i].data # 0
  PROVE  WaitOK(ReadShared(p, n)) /\ NoneEnds(p, ReadShared(p, n))
<1>1. CASE Pending(p.e)
  BY <1>1 DEF ReadShared, Pending, WaitOK, NoneEnds
<1>2. CASE ~Pending(p.e)
  BY <1>2, ReadWaits DEF ReadShared
<1> QED
  BY <1>1, <1>2

\* What observe, the microtask, forget and a retention timer make of a pair.
LEMMA JoinedWaits ==
  ASSUME NEW p \in PairType, WaitOK(p), p.e.gen = 0 => p.e = NoEntry,
         FreeSlots(p.r) # {}, NEW gen \in Gen, NEW o \in Observer, NEW n
  PROVE  WaitOK(Joined(p, o, gen, n)) /\ NoneEnds(p, Joined(p, o, gen, n))
<1> DEFINE e == [p.e EXCEPT !.gen = gen, !.observers = @ \cup {o}]
           back == [e EXCEPT !.retained = FALSE, !.timer = FALSE, !.stale = TRUE]
           pe == [p EXCEPT !.e = e]
           pback == [p EXCEPT !.e = back]
<1>1. gen \in 0..MaxGen
  BY BoundAssumption DEF Gen
<1>2. /\ e \in Entry /\ e.owner = p.e.owner /\ e.retained = p.e.retained
      /\ e.data = p.e.data /\ e.fetching = p.e.fetching /\ e.stale = p.e.stale
      /\ e.error = p.e.error
  BY <1>1 DEF PairType, Entry
<1>3. back \in Entry
  BY <1>1 DEF PairType, Entry
<1>4. Joined(p, o, gen, n) =
        IF e.retained THEN ReadShared(pback, n)
        ELSE IF e.data = 0 /\ ~e.error THEN ReadShared(pe, n) ELSE pe
  BY DEF Joined
<1> HIDE DEF e, back
<1>5. /\ pe \in PairType /\ pe.e = e /\ pe.r = p.r
      /\ pback \in PairType /\ pback.r = p.r
  BY <1>2, <1>3 DEF PairType
<1> HIDE DEF pe, pback
<1>6. \A i \in Slot : p.r[i].stage = "data" => p.r[i].data # 0
  BY DEF WaitOK
<1>7. CASE e.retained
  BY <1>4, <1>5, <1>6, <1>7, SharedWaits DEF NoneEnds
<1>8. CASE ~e.retained /\ e.data = 0 /\ ~e.error
  BY <1>4, <1>5, <1>6, <1>8, SharedWaits DEF NoneEnds
<1>9. CASE ~e.retained /\ ~(e.data = 0 /\ ~e.error)
  <2>1. p.e.gen # 0
    BY <1>2, <1>9 DEF NoEntry
  <2> QED
    BY <1>2, <1>4, <1>5, <1>6, <1>9, <2>1 DEF WaitOK, NoneEnds
<1> QED
  BY <1>7, <1>8, <1>9

LEMMA DeleteWaits ==
  ASSUME NEW p \in PairType,
         \A i \in Slot : p.r[i].stage = "data" => p.r[i].data # 0
  PROVE  WaitOK(Delete(p)) /\ NoneEnds(p, Delete(p))
<1>1. Delete(p).e.gen = 0 /\ Delete(p).r = p.r
  BY DEF Delete, NoEntry, PairType
<1> QED
  BY <1>1 DEF WaitOK, NoneEnds

LEMMA TornDownWaits ==
  ASSUME NEW p \in PairType, WaitOK(p), NEW k \in Key
  PROVE  WaitOK(TornDown(p, k)) /\ NoneEnds(p, TornDown(p, k))
<1> DEFINE s == Settle(p)
           kept == [s EXCEPT !.e.retained = TRUE, !.e.fetching = FALSE,
                             !.e.timer = s.e.timer \/ Retain[k] = "window"]
<1>1. /\ s \in PairType
      /\ \A i \in Slot : s.r[i].stage = p.r[i].stage /\ s.r[i].data = p.r[i].data
  BY SettleWaits
<1>2. TornDown(p, k) = Delete(s) \/ TornDown(p, k) = kept
  BY DEF TornDown
<1> HIDE DEF s
<1>3. \A i \in Slot : s.r[i].stage = "data" => s.r[i].data # 0
  BY <1>1 DEF WaitOK
<1>4. WaitOK(Delete(s)) /\ NoneEnds(p, Delete(s))
  BY <1>1, <1>3, DeleteWaits DEF NoneEnds
<1>5. WaitOK(kept) /\ NoneEnds(p, kept)
  <2>1. kept.e.retained /\ kept.r = s.r
    BY <1>1 DEF PairType, Entry
  <2> HIDE DEF kept
  <2> QED
    BY <1>1, <1>3, <2>1 DEF WaitOK, NoneEnds
<1> QED
  BY <1>2, <1>4, <1>5

LEMMA ForgottenWaits ==
  ASSUME NEW p \in PairType, WaitOK(p), FreeSlots(p.r) # {}, NEW m
  PROVE  WaitOK(Forgotten(p, m)) /\ NoneEnds(p, Forgotten(p, m))
<1> DEFINE s == Settle(p)
           idleE == [NoEntry EXCEPT !.gen = s.e.gen, !.observers = s.e.observers]
           idle == [s EXCEPT !.e = idleE]
<1>1. /\ s \in PairType /\ s.e \in Entry
      /\ \A i \in Slot : s.r[i].stage = p.r[i].stage /\ s.r[i].data = p.r[i].data
  BY SettleWaits DEF PairType
<1>2. Forgotten(p, m) = IF s.e.observers = {} THEN Delete(s) ELSE Read(idle, m)
  BY DEF Forgotten
<1> HIDE DEF s
<1>3. \A i \in Slot : s.r[i].stage = "data" => s.r[i].data # 0
  BY <1>1 DEF WaitOK
<1>4. WaitOK(Delete(s)) /\ NoneEnds(p, Delete(s))
  BY <1>1, <1>3, DeleteWaits DEF NoneEnds
<1>5. WaitOK(Read(idle, m)) /\ NoneEnds(p, Read(idle, m))
  <2>1. idleE \in Entry
    BY <1>1, NoEntryType DEF Entry
  <2> HIDE DEF idleE
  <2>2. idle \in PairType /\ idle.r = s.r
    BY <1>1, <2>1 DEF PairType
  <2>3. FreeSlots(idle.r) # {}
    BY <1>1, <2>2 DEF FreeSlots
  <2> HIDE DEF idle
  <2> QED
    BY <1>1, <1>3, <2>2, <2>3, ReadWaits DEF NoneEnds
<1> QED
  BY <1>2, <1>4, <1>5

LEMMA ExpiredWaits ==
  ASSUME NEW p \in PairType, WaitOK(p)
  PROVE  WaitOK(Expired(p)) /\ NoneEnds(p, Expired(p))
<1>1. \A i \in Slot : p.r[i].stage = "data" => p.r[i].data # 0
  BY DEF WaitOK
<1> QED
  BY <1>1, DeleteWaits DEF Expired, NoneEnds

\* Components keep what they wait for when no request ends.
LEMMA PollsKept ==
  ASSUME TypeOK, PollsOK,
         \A k \in Key : \A i \in Slot :
           request'[k][i].stage = "free" => request[k][i].stage = "free",
         \A o \in Observer : polling'[o] = 0
                               \/ (polling'[o] = polling[o] /\ at'[o] = at[o])
  PROVE  PollsOK'
<1>1. \A o \in Observer : /\ at[o] \subseteq Key
                          /\ polling[o] # 0 => polling[o] \in Slot
  BY BoundAssumption DEF TypeOK, Slot
<1> QED
  BY <1>1 DEF PollsOK

\* A step that works on the pair of one key and ends no request.
LEMMA OneKeyWaits ==
  ASSUME TypeOK, WaitsOK, PollsOK, NEW k \in Key, NEW q, Replace(k, q),
         WaitOK(q), NoneEnds(Pair(k), q)
  PROVE  /\ WaitsOK'
         /\ (\A o \in Observer : polling'[o] = 0
                \/ (polling'[o] = polling[o] /\ at'[o] = at[o])) => PollsOK'
<1>1. /\ entry'[k] = q.e /\ request'[k] = q.r
      /\ \A x \in Key : x # k => entry'[x] = entry[x] /\ request'[x] = request[x]
  BY DEF Replace, TypeOK
<1>2. Pair(k)'.e = q.e /\ Pair(k)'.r = q.r
  BY <1>1 DEF Pair
<1>3. \A x \in Key : x # k => Pair(x)' = Pair(x)
  BY <1>1 DEF Pair
<1>4. WaitsOK'
  BY <1>2, <1>3 DEF WaitsOK, WaitOK
<1>5. \A x \in Key : \A i \in Slot :
        request'[x][i].stage = "free" => request[x][i].stage = "free"
  BY <1>1 DEF NoneEnds, Pair
<1> QED
  BY <1>4, <1>5, PollsKept

\* The same for a step on several keys.
LEMMA KeysWait ==
  ASSUME TypeOK, WaitsOK, PollsOK, UNCHANGED <<at, polling>>, NEW S \in SUBSET Key,
         NEW q, \A k \in S : WaitOK(q[k]) /\ NoneEnds(Pair(k), q[k]),
         entry' = [k \in Key |-> IF k \in S THEN q[k].e ELSE entry[k]],
         request' = [k \in Key |-> IF k \in S THEN q[k].r ELSE request[k]]
  PROVE  WaitsOK' /\ PollsOK'
<1>1. ASSUME NEW k \in S PROVE Pair(k)'.e = q[k].e /\ Pair(k)'.r = q[k].r
  BY <1>1 DEF Pair
<1>2. ASSUME NEW k \in Key, k \notin S PROVE Pair(k)' = Pair(k)
  BY <1>2 DEF Pair
<1>3. WaitsOK'
  BY <1>1, <1>2 DEF WaitsOK, WaitOK
<1>4. \A k \in Key : \A i \in Slot :
        request'[k][i].stage = "free" => request[k][i].stage = "free"
  BY DEF NoneEnds, Pair
<1> QED
  BY <1>3, <1>4, PollsKept

\* What an answer or a failure makes of an entry.
LEMMA ContinueTypes ==
  ASSUME NEW x \in Entry, NEW r \in Request
  PROVE  /\ [x EXCEPT !.data = r.data, !.from = r.from, !.error = FALSE,
                      !.fetching = FALSE, !.stale = FALSE] \in Entry
         /\ [x EXCEPT !.error = TRUE, !.fetching = FALSE, !.stale = x.data # 0]
              \in Entry
<1> DEFINE old == x.data # 0
<1>1. old \in BOOLEAN
  OBVIOUS
<1> HIDE DEF old
<1>2. [x EXCEPT !.error = TRUE, !.fetching = FALSE, !.stale = old] \in Entry
  BY <1>1 DEF Entry
<1>3. [x EXCEPT !.data = r.data, !.from = r.from, !.error = FALSE,
                !.fetching = FALSE, !.stale = FALSE] \in Entry
  BY DEF Entry, Request
<1> QED
  BY <1>2, <1>3 DEF old

\* The owner's answer or failure is what its entry was waiting for, and ends the
\* polls that waited for it.
LEMMA ContinueWaits ==
  ASSUME IInv, WaitsOK, PollsOK, NEW k \in Key, NEW i \in Slot, Continue(k, i)
  PROVE  WaitsOK' /\ PollsOK'
<1> DEFINE r == request[k][i]
           served == [entry[k] EXCEPT !.data = r.data, !.from = r.from,
                        !.error = FALSE, !.fetching = FALSE, !.stale = FALSE]
           failed == [entry[k] EXCEPT !.error = TRUE, !.fetching = FALSE,
                        !.stale = entry[k].data # 0]
           published == CASE ~Owns(k, i) -> entry[k]
                          [] Owns(k, i) /\ r.stage = "data" -> served
                          [] Owns(k, i) /\ r.stage = "error" -> failed
           e == IF entry[k].owner = i THEN [published EXCEPT !.owner = 0]
                                      ELSE published
           rs == [request[k] EXCEPT ![i] = Free]
           q == [e |-> e, r |-> rs]
<1>1. /\ r.stage \in {"data", "error"}
      /\ entry' = [entry EXCEPT ![k] = e]
      /\ request' = [request EXCEPT ![k][i] = Free]
      /\ polling' = [o \in Observer |-> IF o \in PollsEnded(k, i)
                                          THEN 0 ELSE polling[o]]
      /\ UNCHANGED at
  BY DEF Continue
<1>2. /\ TypeOK /\ entry[k] \in Entry /\ request[k] \in [Slot -> Request]
      /\ PairOK(Pair(k), era[k], server[k], told[k]) /\ i # 0 /\ WaitOK(Pair(k))
  BY DEF IInv, TypeOK, PairsOK, WaitsOK, Slot
<1>3. entry[k].owner = i => Owns(k, i)
  BY <1>2 DEF PairOK, Pair, Alive, Owns
<1>4. \A j \in Slot : rs[j] = IF j = i THEN Free ELSE request[k][j]
  BY <1>2
<1>5. WaitOK(q)
  <2>1. r \in Request
    BY <1>2
  <2>2. served \in Entry /\ failed \in Entry
    BY <1>2, <2>1, ContinueTypes
  <2>3. /\ served.fetching = FALSE /\ served.stale = FALSE /\ served.data = r.data
        /\ failed.fetching = FALSE /\ failed.error = TRUE
    BY <1>2 DEF Entry
  <2>4. Owns(k, i) => entry[k].owner = i
    BY DEF Owns
  <2>5. r.stage = "data" => r.data # 0
    BY <1>2 DEF WaitOK, Pair
  <2>6. CASE entry[k].owner = i
    <3>1. /\ ~published.fetching
          /\ published.data = 0 \/ published.stale => published.error
      BY <1>1, <1>3, <2>3, <2>5, <2>6
    <3>2. published \in {served, failed}
      BY <1>1, <1>3, <2>6
    <3> HIDE DEF served, failed, published
    <3>3. published \in Entry
      BY <2>2, <3>2
    <3>4. e.fetching = published.fetching /\ e.data = published.data
          /\ e.stale = published.stale /\ e.error = published.error
      BY <2>6, <3>3 DEF Entry
    <3> HIDE DEF e
    <3>5. \A j \in Slot : rs[j].stage = "data" => rs[j].data # 0
      BY <1>2, <1>4 DEF WaitOK, Pair, Free
    <3> HIDE DEF rs
    <3> QED
      BY <3>1, <3>4, <3>5 DEF WaitOK
  <2>7. CASE entry[k].owner # i
    <3>1. e = entry[k]
      BY <2>4, <2>7
    <3> HIDE DEF e
    <3>2. \A j \in Slot : rs[j].stage = "data" => rs[j].data # 0
      BY <1>2, <1>4 DEF WaitOK, Pair, Free
    <3> HIDE DEF rs
    <3> QED
      BY <1>2, <3>1, <3>2 DEF WaitOK, Pair
  <2> QED
    BY <2>6, <2>7
<1> HIDE DEF e, published, served, failed
<1>6. WaitsOK'
  <2>1. entry'[k] = e /\ request'[k] = rs
        /\ \A x \in Key : x # k => entry'[x] = entry[x] /\ request'[x] = request[x]
    BY <1>1, <1>2 DEF TypeOK
  <2>2. Pair(k)' = q
    BY <2>1 DEF Pair
  <2> HIDE DEF q
  <2>3. \A x \in Key : x # k => Pair(x)' = Pair(x)
    BY <2>1 DEF Pair
  <2> QED
    BY <1>5, <2>2, <2>3 DEF WaitsOK, WaitOK
<1>7. PollsOK'
  <2>1. \A o \in Observer : at[o] \subseteq Key
    BY <1>2 DEF TypeOK
  <2>2. ASSUME NEW o \in Observer, at[o] = {} PROVE polling'[o] = 0
    BY <1>1, <2>2 DEF PollsOK
  <2>3. ASSUME NEW o \in Observer, NEW x \in at[o], polling'[o] # 0
        PROVE  request'[x][polling'[o]].stage # "free"
    <3>1. polling'[o] = polling[o] /\ ~(k \in at[o] /\ polling[o] = i)
      BY <1>1, <2>3 DEF PollsEnded
    <3>2. request[x][polling[o]].stage # "free"
      BY <2>3, <3>1 DEF PollsOK
    <3>3. x # k \/ polling[o] # i
      BY <2>3, <3>1
    <3>4. polling[o] \in Slot /\ x \in Key
      BY <1>2, <2>1, <2>3, <3>1, BoundAssumption DEF TypeOK, Slot
    <3>5. request'[x][polling[o]] = request[x][polling[o]]
      BY <1>1, <1>2, <3>3, <3>4 DEF TypeOK
    <3> QED
      BY <3>1, <3>2, <3>5
  <2> QED
    BY <1>1, <2>2, <2>3 DEF PollsOK
<1> QED
  BY <1>6, <1>7

\* Each call, timer, microtask and continuation leaves a request behind whoever
\* is told to wait.
LEMMA WaitsKept ==
  ASSUME WInv, IInv', [Next]_vars
  PROVE  WaitsOK' /\ PollsOK'
<1>1. /\ IInv /\ TypeOK /\ WaitsOK /\ PollsOK /\ PairsOK
      /\ \A k \in Key : /\ Pair(k) \in PairType /\ WaitOK(Pair(k))
                        /\ Pair(k).e = entry[k] /\ Pair(k).r = request[k]
                        /\ entry[k].gen = 0 => entry[k] = NoEntry
  <2>1. IInv /\ TypeOK /\ WaitsOK /\ PollsOK /\ PairsOK
    BY DEF WInv, IInv
  <2> QED
    BY <2>1, PairTypes DEF WaitsOK, PairsOK, PairOK
<1>2. ASSUME NEW k \in Key, ServerChange(k) PROVE WaitsOK' /\ PollsOK'
  BY <1>1, <1>2 DEF ServerChange, WaitsOK, PollsOK, Pair, WaitOK
<1>3. ASSUME NEW k \in Key, NEW i \in Slot, Answer(k, i) \/ Fail(k, i)
      PROVE  WaitsOK' /\ PollsOK'
  <2>1. PICK stage \in {"data", "error"}, data \in Nat :
          Reply(k, i, stage, data) /\ (stage = "data" => data # 0)
    <3>1. server[k] \in Nat /\ server[k] # 0
      BY <1>1, BoundAssumption DEF TypeOK
    <3> QED
      BY <1>3, <3>1 DEF Answer, Fail
  <2> DEFINE s == [request[k][i] EXCEPT !.stage = stage, !.data = data]
             r == [request[k] EXCEPT ![i] = s]
             q == [e |-> entry[k], r |-> r]
  <2>2. /\ request' = [request EXCEPT ![k] = r]
        /\ UNCHANGED <<entry, at, polling>>
    BY <1>1, <2>1 DEF Reply, TypeOK
  <2>3. Replace(k, q)
    BY <1>1, <2>2 DEF Replace, TypeOK
  <2>4. s.stage = stage /\ s.data = data
    BY <1>1 DEF TypeOK, Request
  <2>5. \A j \in Slot : r[j] = IF j = i THEN s ELSE request[k][j]
    BY <1>1 DEF TypeOK
  <2> HIDE DEF s, r
  <2>6. WaitOK(q) /\ NoneEnds(Pair(k), q)
    BY <1>1, <2>1, <2>4, <2>5 DEF WaitOK, NoneEnds, Pair
  <2> QED
    BY <1>1, <2>2, <2>3, <2>6, OneKeyWaits
<1>4. ASSUME NEW o \in Observer, NEW k \in Key, Observe(o, k)
      PROVE  WaitsOK' /\ PollsOK'
  <2>1. PICK gen \in GenFor(k) : Replace(k, Joined(Pair(k), o, gen, era[k]))
    BY <1>4 DEF Observe
  <2>2. gen \in Gen
    BY <1>1, <2>1, BoundAssumption DEF GenFor, FreshGen, TypeOK, Entry, Exists, Gen
  <2>3. /\ FreeSlots(request[k]) # {} /\ at[o] = {}
        /\ at' = [at EXCEPT ![o] = {k}] /\ UNCHANGED polling
    BY <1>4 DEF Observe, CanRead
  <2>4. \A u \in Observer : polling'[u] = 0
                              \/ (polling'[u] = polling[u] /\ at'[u] = at[u])
    BY <1>1, <2>3 DEF PollsOK, TypeOK
  <2> DEFINE q == Joined(Pair(k), o, gen, era[k])
  <2>5. WaitOK(q) /\ NoneEnds(Pair(k), q)
    BY <1>1, <2>2, <2>3, JoinedWaits
  <2> HIDE DEF q
  <2> QED
    BY <1>1, <2>1, <2>4, <2>5, OneKeyWaits DEF q
<1>5. ASSUME NEW o \in Observer, NEW k \in Key, Unobserve(o, k)
      PROVE  WaitsOK' /\ PollsOK'
  <2> DEFINE q == Left(Pair(k), o)
  <2>1. Replace(k, q) /\ polling' = [polling EXCEPT ![o] = 0]
        /\ at' = [at EXCEPT ![o] = {}]
    BY <1>5 DEF Unobserve
  <2>2. /\ q.r = request[k] /\ q.e.gen = entry[k].gen /\ q.e.data = entry[k].data
        /\ q.e.retained = entry[k].retained /\ q.e.fetching = entry[k].fetching
        /\ q.e.owner = entry[k].owner /\ q.e.stale = entry[k].stale
        /\ q.e.error = entry[k].error
    BY <1>1 DEF Left, PairType, Entry
  <2> HIDE DEF q
  <2>3. WaitOK(q) /\ NoneEnds(Pair(k), q)
    BY <1>1, <2>2 DEF WaitOK, NoneEnds
  <2>4. \A u \in Observer : polling'[u] = 0
                              \/ (polling'[u] = polling[u] /\ at'[u] = at[u])
    BY <1>1, <2>1 DEF TypeOK
  <2> QED
    BY <1>1, <2>1, <2>3, <2>4, OneKeyWaits
<1>6. ASSUME NEW k \in Key, NEW g \in Gen, Teardown(k, g)
      PROVE  WaitsOK' /\ PollsOK'
  <2>1. UNCHANGED <<at, polling>>
        /\ (Replace(k, TornDown(Pair(k), k)) \/ UNCHANGED <<entry, request>>)
    BY <1>6 DEF Teardown
  <2>2. CASE Replace(k, TornDown(Pair(k), k))
    BY <1>1, <2>1, <2>2, TornDownWaits, OneKeyWaits
  <2>3. CASE UNCHANGED <<entry, request>>
    BY <1>1, <2>1, <2>3 DEF WaitsOK, PollsOK, Pair, WaitOK
  <2> QED
    BY <2>1, <2>2, <2>3
<1>7. ASSUME NEW k \in Key, Expire(k) PROVE WaitsOK' /\ PollsOK'
  <2> DEFINE e == [entry[k] EXCEPT !.timer = FALSE]
             p == [e |-> e, r |-> request[k]]
  <2>1. UNCHANGED <<at, polling>> /\ Replace(k, Expired(p))
    BY <1>7 DEF Expire
  <2>2. /\ e \in Entry /\ e.gen = entry[k].gen /\ e.data = entry[k].data
        /\ e.retained = entry[k].retained /\ e.fetching = entry[k].fetching
        /\ e.owner = entry[k].owner /\ e.stale = entry[k].stale
        /\ e.error = entry[k].error
    BY <1>1 DEF TypeOK, Entry
  <2> HIDE DEF e
  <2>3. p \in PairType /\ WaitOK(p) /\ p.r = request[k]
    BY <1>1, <2>2 DEF PairType, WaitOK, TypeOK
  <2> HIDE DEF p
  <2>4. WaitOK(Expired(p)) /\ NoneEnds(Pair(k), Expired(p))
    BY <1>1, <2>3, ExpiredWaits DEF NoneEnds
  <2> QED
    BY <1>1, <2>1, <2>4, OneKeyWaits
<1>8. ASSUME NEW k \in Key, NEW g \in Gen, ExpireStray(k, g)
      PROVE  WaitsOK' /\ PollsOK'
  <2>1. UNCHANGED <<at, polling>>
        /\ (Replace(k, Expired(Pair(k))) \/ UNCHANGED <<entry, request>>)
    BY <1>8 DEF ExpireStray
  <2>2. CASE Replace(k, Expired(Pair(k)))
    BY <1>1, <2>1, <2>2, ExpiredWaits, OneKeyWaits
  <2>3. CASE UNCHANGED <<entry, request>>
    BY <1>1, <2>1, <2>3 DEF WaitsOK, PollsOK, Pair, WaitOK
  <2> QED
    BY <2>1, <2>2, <2>3
<1>9. ASSUME NEW o \in Observer, NEW k \in Key, Poll(o, k)
      PROVE  WaitsOK' /\ PollsOK'
  <2> DEFINE q == ReadShared(Pair(k), era[k])
  <2>1. /\ k \in at[o] /\ FreeSlots(request[k]) # {} /\ Replace(k, q)
        /\ polling' = [polling EXCEPT ![o] = entry'[k].owner] /\ UNCHANGED at
    BY <1>9 DEF Poll, CanRead
  <2>2. WaitOK(q) /\ NoneEnds(Pair(k), q)
    BY <1>1, <2>1, SharedWaits DEF WaitOK
  <2>3. WaitsOK'
    BY <1>1, <2>1, <2>2, OneKeyWaits
  <2>4. \A x \in Key : \A i \in Slot :
          request'[x][i].stage = "free" => request[x][i].stage = "free"
    BY <1>1, <2>1, <2>2 DEF Replace, TypeOK, NoneEnds
  <2>5. at[o] = {k}
    BY <1>1, <2>1 DEF IInv, OneKeyEach
  <2>6. polling'[o] # 0 => request'[k][polling'[o]].stage # "free"
    <3>1. entry'[k].owner # 0 => Alive(request'[k][entry'[k].owner])
      BY DEF IInv, PairsOK, PairOK, Pair
    <3> QED
      BY <1>1, <2>1, <3>1 DEF Alive, TypeOK
  <2>7. \A u \in Observer : u # o => polling'[u] = polling[u]
    BY <1>1, <2>1 DEF TypeOK
  <2>8. \A u \in Observer : /\ at[u] \subseteq Key
                            /\ polling[u] # 0 => polling[u] \in Slot
    BY <1>1, BoundAssumption DEF TypeOK, Slot
  <2>9. PollsOK'
    BY <1>1, <2>1, <2>4, <2>5, <2>6, <2>7, <2>8 DEF PollsOK
  <2> QED
    BY <2>3, <2>9
<1>10. ASSUME NEW k \in Key, NEW i \in Slot, Continue(k, i)
       PROVE  WaitsOK' /\ PollsOK'
  BY <1>1, <1>10, ContinueWaits
<1>11. ASSUME NEW S \in SUBSET Key, Reread(S) PROVE WaitsOK' /\ PollsOK'
  <2> DEFINE observed == {k \in S : entry[k].observers # {}}
             q == [k \in observed |-> Read(Pair(k), era[k])]
  <2>1. /\ \A k \in observed : FreeSlots(request[k]) # {}
        /\ entry' = [k \in Key |-> IF k \in observed THEN q[k].e ELSE entry[k]]
        /\ request' = [k \in Key |-> IF k \in observed THEN q[k].r ELSE request[k]]
        /\ UNCHANGED <<at, polling>>
    BY <1>11 DEF Reread, CanRead
  <2>2. ASSUME NEW k \in observed PROVE WaitOK(q[k]) /\ NoneEnds(Pair(k), q[k])
    <3>1. k \in Key /\ q[k] = Read(Pair(k), era[k])
      OBVIOUS
    <3> QED
      BY <1>1, <2>1, <3>1, ReadWaits DEF WaitOK
  <2>3. observed \in SUBSET Key
    OBVIOUS
  <2> HIDE DEF q, observed
  <2> QED
    BY <1>1, <2>1, <2>2, <2>3, KeysWait
<1>12. ASSUME NEW S \in SUBSET Key, NEW only \in BOOLEAN, Forget(S, only)
       PROVE  WaitsOK' /\ PollsOK'
  <2> DEFINE dropped == {k \in S : only => entry[k].observers = {}}
             kept == {k \in dropped : Exists(entry[k])}
             q == [k \in kept |-> Forgotten(Pair(k), era[k] + 1)]
  <2>1. /\ \A k \in kept : FreeSlots(request[k]) # {}
        /\ entry' = [k \in Key |-> IF k \in kept THEN q[k].e ELSE entry[k]]
        /\ request' = [k \in Key |-> IF k \in kept THEN q[k].r ELSE request[k]]
        /\ UNCHANGED <<at, polling>>
    BY <1>12 DEF Forget, CanRead
  <2>2. ASSUME NEW k \in kept PROVE WaitOK(q[k]) /\ NoneEnds(Pair(k), q[k])
    <3>1. k \in Key /\ q[k] = Forgotten(Pair(k), era[k] + 1)
      OBVIOUS
    <3> QED
      BY <1>1, <2>1, <3>1, ForgottenWaits
  <2>3. kept \in SUBSET Key
    OBVIOUS
  <2> HIDE DEF q, kept, dropped
  <2> QED
    BY <1>1, <2>1, <2>2, <2>3, KeysWait
<1>13. ASSUME NEW k \in Key, Refresh(k) PROVE WaitsOK' /\ PollsOK'
  BY <1>11, <1>13 DEF Refresh
<1>14. ASSUME NEW S \in Changed, Invalidate(S) PROVE WaitsOK' /\ PollsOK'
  BY <1>11, <1>14, CallAssumption DEF Invalidate
<1>15. ASSUME NEW S \in Forgettable, NEW only \in BOOLEAN, Forget(S, only)
       PROVE  WaitsOK' /\ PollsOK'
  BY <1>12, <1>15, CallAssumption
<1>16. CASE Turn \/ UNCHANGED vars
  <2>1. UNCHANGED storeVars
    BY <1>16 DEF Turn, vars
  <2> QED
    BY <1>1, <2>1 DEF storeVars, WaitsOK, PollsOK, Pair, WaitOK
<1> QED
  BY <1>2, <1>3, <1>4, <1>5, <1>6, <1>7, <1>8, <1>9, <1>10, <1>13, <1>14, <1>15,
     <1>16 DEF Next

\* Whoever is told to wait has a request to wait for: no abort, forget,
\* teardown or retention leaves a component with a spinner, an empty or a stale
\* key, or a poll, that nothing will ever answer.
THEOREM NobodyWaits == Spec => []NobodyWaitsInVain
<1>1. Init => WInv
  <2> SUFFICES ASSUME Init PROVE WInv
    OBVIOUS
  <2>1. WaitsOK
    BY DEF Init, WaitsOK, WaitOK, Pair, NoEntry, Free
  <2>2. PollsOK
    BY DEF Init, PollsOK
  <2> QED
    BY <2>1, <2>2, InitInv DEF WInv
<1>2. WInv /\ [Next]_vars => WInv'
  BY NextInv, WaitsKept DEF WInv
<1>3. WInv => NobodyWaitsInVain
  <2> SUFFICES ASSUME WInv PROVE NobodyWaitsInVain
    OBVIOUS
  <2>1. ASSUME NEW k \in Key, entry[k].owner # 0 PROVE Coming(k)
    <3>1. Alive(request[k][entry[k].owner])
      BY <2>1 DEF WInv, IInv, PairsOK, PairOK, Pair
    <3>2. entry[k].owner \in Slot
      BY <2>1, BoundAssumption DEF WInv, IInv, TypeOK, Entry, Slot
    <3> QED
      BY <3>1, <3>2 DEF Coming, Owns, Alive
  <2>2. ASSUME NEW k \in Key, entry[k].observers # {}
        PROVE  /\ entry[k].fetching => entry[k].owner # 0
               /\ entry[k].data = 0 \/ entry[k].stale
                    => entry[k].owner # 0 \/ entry[k].error
    <3>1. entry[k].gen # 0 /\ ~entry[k].retained
      BY <2>2 DEF WInv, IInv, PairsOK, PairOK, Pair, NoEntry
    <3> QED
      BY <3>1 DEF WInv, WaitsOK, WaitOK, Pair
  <2>3. PollsOK
    BY DEF WInv
  <2> QED
    BY <2>1, <2>2, <2>3 DEF NobodyWaitsInVain, PollsOK
<1> QED
  BY <1>1, <1>2, <1>3, PTL DEF Spec
=============================================================================
