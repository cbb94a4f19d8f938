------------------------------ MODULE EventLog ------------------------------
(***************************************************************************)
(* The append-only event log (services/event_log.py).  A writer takes the  *)
(* next id from the head row and keeps that row locked until its           *)
(* transaction ends, so at most one id is taken and not yet committed.     *)
(* Rows past their retention are deleted when the backend starts.          *)
(***************************************************************************)
EXTENDS Naturals, FiniteSets

CONSTANTS
  Kind,        \* kinds of events
  MaxEvents    \* events recorded

ASSUME EventAssumption == MaxEvents \in Nat

VARIABLES
  head,        \* ws_event_head.cursor
  open,        \* events inserted by transactions that have not ended
  events,      \* ws_events, the committed rows
  swept        \* ids of deleted rows (history)

logVars == <<head, open, events, swept>>

Id == 1..MaxEvents
Event == [id : Id, kind : Kind]

LogTypeOK ==
  /\ head \in 0..MaxEvents
  /\ open \subseteq Event /\ events \subseteq Event
  /\ swept \subseteq Id

LogInit == head = 0 /\ open = {} /\ events = {} /\ swept = {}

\* WRONG: ids from a sequence, which no transaction waits for.
RecordFromSequence(k) ==
  LET id == head + Cardinality(open) + 1
  IN /\ id <= MaxEvents
     /\ open' = open \cup {[id |-> id, kind |-> k]}
     /\ UNCHANGED <<head, events, swept>>

\* _insert(): the head row is updated, so a second writer waits here.
Record(k) ==
  LET id == head + 1
  IN /\ open = {}
     /\ id <= MaxEvents
     /\ open' = {[id |-> id, kind |-> k]}
     /\ UNCHANGED <<head, events, swept>>

Commit(e) ==
  /\ e \in open
  /\ open' = open \ {e}
  /\ head' = IF e.id > head THEN e.id ELSE head
  /\ events' = events \cup {e}
  /\ UNCHANGED swept

\* The caller's transaction fails, and the head row is what it was.
Rollback(e) ==
  /\ e \in open
  /\ open' = open \ {e}
  /\ UNCHANGED <<head, events, swept>>

\* sweep_older_than(): the rows up to some id are old enough.
Sweep(id) ==
  LET old == {e \in events : e.id <= id}
  IN /\ old # {}
     /\ events' = events \ old
     /\ swept' = swept \cup {e.id : e \in old}
     /\ UNCHANGED <<head, open>>
=============================================================================
