---------------------------- MODULE LiveComments ----------------------------
(***************************************************************************)
(* useLiveComments (features/live-comments/use-live-comments.ts), one      *)
(* mounted viewer of a project's comments, on the stream of CommentStream: *)
(* the socket says which thread changed, HTTP reads say what it is now,    *)
(* and the viewer's own writes are applied from their responses            *)
(* (components/visualizer.tsx), one write at a time here.                  *)
(*                                                                         *)
(* The list shown may hold a thread twice: a create that is answered after *)
(* a read brought the thread appends it again.  Reads of one thread then   *)
(* replace its first entry only.                                           *)
(***************************************************************************)
EXTENDS CommentStream

CONSTANTS
  Here,               \* the threads of the viewer's scope
  Own,                \* the threads the viewer writes
  MaxThreadRefresh    \* MAX_THREAD_REFRESH

ASSUME ScopeAssumption ==
  Here \subseteq Thread /\ Own \subseteq Here /\ MaxThreadRefresh \in Nat

VARIABLES
  view,       \* [Here -> [ver, listed, twin]], the comments shown: whether a
              \* thread is listed, as of which change, and as of which change
              \* its second entry is, 0 if there is none
  cursor,     \* the stream cursor the viewer reconnects from
  read,       \* the read in flight
  pending,    \* [Here -> Nat], pendingThreads, 0 when the thread is not in it
  due,        \* snapshotDue
  again,      \* refreshAgain
  loaded,     \* hasSnapshot
  timer,      \* refreshTimer is set
  polling,    \* pollTimer is set
  retrying,   \* retryTimer is set
  link,       \* the viewer's socket
  after,      \* the cursor in its URL until the server accepts it
  mine,       \* the viewer's own write whose response is still to come
  failed,     \* the last snapshot read failed (history)
  overtaken   \* threads an own response showed older than before (history)

readVars == <<read, pending, due, again, loaded, timer>>
linkVars == <<polling, retrying, link, after>>
history == <<failed, overtaken>>
clientVars == <<view, cursor, readVars, linkVars, mine, history>>
vars == <<streamVars, clientVars>>

NoThreads == [t \in Here |-> 0]
NoRead == [kind |-> "none", stage |-> "none", head |-> 0, batch |-> NoThreads,
           got |-> [t \in Here |-> [ver |-> 0, live |-> FALSE]],
           left |-> {}, edited |-> FALSE]
Snapshot == [NoRead EXCEPT !.kind = "snapshot", !.stage = "sent"]
Threads == [NoRead EXCEPT !.kind = "threads", !.batch = pending,
                          !.left = {t \in Here : pending[t] # 0}]

Entry(v, listed, twin) == [ver |-> v, listed |-> listed, twin |-> twin]

NoWrite == [kind |-> "none", thread |-> {}, ver |-> 0]

InFlight == read.kind # "none"
Later(a, b) == IF a > b THEN a ELSE b

\* A thread as the server holds it now, null when it was deleted.
Live(t) == row[t] # 0 /\ t \notin gone
RowNow(t) == [ver |-> row[t], live |-> Live(t)]

Init ==
  /\ StreamInit
  /\ view = [t \in Here |-> Entry(0, FALSE, 0)]
  /\ cursor = 0
  /\ read = Snapshot
  /\ pending = NoThreads
  /\ due = FALSE /\ again = FALSE /\ loaded = FALSE /\ timer = FALSE
  /\ polling = TRUE /\ retrying = FALSE
  /\ link = "first" /\ after = 0
  /\ mine = NoWrite
  /\ failed = FALSE /\ overtaken = {}

\* armTimer(): during a read, its end will arm the timer.
Arm == IF InFlight THEN again' = TRUE /\ UNCHANGED timer
                   ELSE timer' = TRUE /\ UNCHANGED again

\* scheduleRefresh(): a poll, the tab becoming visible, or a caller asks.
ScheduleRefresh ==
  /\ due' = TRUE
  /\ Arm
  /\ UNCHANGED <<streamVars, view, cursor, read, pending, loaded, linkVars,
                 mine, history>>

Poll == polling /\ ScheduleRefresh

Refresh == ScheduleRefresh

(* Reads.                                                                  *)

\* WRONG: a read is applied whatever happened meanwhile.
AlwaysCurrent == FALSE

\* localVersion moved while the read was in flight: the viewer's own edit was
\* applied, and what was read may be older.
Outdated == read.edited

\* The coalescing timer fires and starts a snapshot or thread reads.
TimerFires ==
  LET many == Cardinality({t \in Here : pending[t] # 0}) > MaxThreadRefresh
  IN /\ timer
     /\ timer' = FALSE
     /\ CASE due \/ ~loaded \/ many ->
               read' = Snapshot /\ due' = FALSE /\ pending' = NoThreads
          [] ~(due \/ ~loaded \/ many) /\ pending # NoThreads ->
               read' = Threads /\ pending' = NoThreads /\ UNCHANGED due
          [] ~(due \/ ~loaded \/ many) /\ pending = NoThreads ->
               UNCHANGED <<read, due, pending>>
     /\ UNCHANGED <<streamVars, view, cursor, again, loaded, linkVars, mine,
                    history>>

\* The server reads the cursor of a snapshot before its threads.
ReadCursor ==
  /\ read.kind = "snapshot" /\ read.stage = "sent"
  /\ read' = [read EXCEPT !.stage = "cursor", !.head = StreamHead]
  /\ UNCHANGED <<streamVars, view, cursor, pending, due, again, loaded, timer,
                 linkVars, mine, history>>

ReadRows ==
  /\ read.kind = "snapshot" /\ read.stage = "cursor"
  /\ read' = [read EXCEPT !.stage = "rows", !.got = [t \in Here |-> RowNow(t)]]
  /\ UNCHANGED <<streamVars, view, cursor, pending, due, again, loaded, timer,
                 linkVars, mine, history>>

\* The requests of one batch are answered one by one.
ReadThread(t) ==
  /\ read.kind = "threads" /\ t \in read.left
  /\ read' = [read EXCEPT !.left = @ \ {t}, !.got[t] = RowNow(t)]
  /\ UNCHANGED <<streamVars, view, cursor, pending, due, again, loaded, timer,
                 linkVars, mine, history>>

\* WRONG: the next change is skipped.
FromNext == cursor + 1

\* The cursor in the socket's URL.
From == cursor

\* The finally clause of a read: what was asked for meanwhile is armed, and
\* after the first read of all the socket is opened.
Finish(asked) ==
  /\ read' = NoRead
  /\ timer' = (timer \/ asked)
  /\ again' = FALSE
  /\ IF link = "first" THEN link' = "connecting" /\ after' = From'
                       ELSE UNCHANGED <<link, after>>
  /\ UNCHANGED <<streamVars, polling, retrying, mine>>

\* A snapshot arrives; after an own edit it may be older than the view and is
\* read again.
SnapshotArrives ==
  /\ read.kind = "snapshot" /\ read.stage = "rows"
  /\ IF Outdated
       THEN /\ due' = TRUE
            /\ UNCHANGED <<view, cursor, loaded, failed, overtaken>>
            /\ Finish(TRUE)
       ELSE /\ cursor' = read.head
            /\ loaded' = TRUE
            /\ view' = [t \in Here |-> Entry(read.got[t].ver, read.got[t].live, 0)]
            /\ failed' = FALSE /\ overtaken' = {}
            /\ UNCHANGED due
            /\ Finish(again)
  /\ UNCHANGED pending

SnapshotFails ==
  /\ read.kind = "snapshot"
  /\ failed' = TRUE
  /\ UNCHANGED <<view, cursor, pending, due, loaded, overtaken>>
  /\ Finish(again)

\* WRONG: a deleted thread is taken from its first entry only.
ReplacedFirst(v, got) == Entry(got.ver, got.live \/ v.twin # 0, 0)

\* One thread was read: all its entries go, or the first is replaced, or it
\* is appended.
Replaced(v, got) == Entry(got.ver, got.live, IF got.live THEN v.twin ELSE 0)

\* All threads of a batch arrive; after an own edit they are read again.
ThreadsArrive ==
  LET batch == {t \in Here : read.batch[t] # 0}
      reached == {c \in 0..MaxHead :
                    c = cursor \/ \E t \in batch : c = read.batch[t]}
  IN /\ read.kind = "threads" /\ read.left = {}
     /\ IF Outdated
          THEN /\ pending' = [t \in Here |-> Later(pending[t], read.batch[t])]
               /\ UNCHANGED <<view, cursor, overtaken>>
               /\ Finish(TRUE)
          ELSE /\ view' = [t \in Here |-> IF t \in batch THEN Replaced(view[t], read.got[t])
                                                         ELSE view[t]]
               /\ \E c \in reached :
                    (\A d \in reached : d <= c) /\ cursor' = c
               /\ overtaken' = overtaken \ batch
               /\ Finish(again)
               /\ UNCHANGED pending
     /\ UNCHANGED <<due, loaded, failed>>

\* WRONG: a batch that failed is dropped.
ThreadsFailQuietly ==
  /\ read.kind = "threads"
  /\ UNCHANGED <<view, cursor, pending, due, loaded, failed, overtaken>>
  /\ Finish(again)

\* One of them failed: the snapshot decides.
ThreadsFail ==
  /\ read.kind = "threads"
  /\ due' = TRUE
  /\ UNCHANGED <<view, cursor, pending, loaded, failed, overtaken>>
  /\ Finish(TRUE)

(* The socket.                                                             *)

\* The retry timer fires: connect() with the cursor reached so far.
Connect ==
  /\ retrying
  /\ retrying' = FALSE
  /\ link' = "connecting" /\ after' = From
  /\ UNCHANGED <<streamVars, view, cursor, readVars, polling, mine, history>>

Accepted ==
  /\ link = "connecting"
  /\ Accept(after)
  /\ link' = "accepted" /\ after' = 0
  /\ UNCHANGED <<view, cursor, readVars, polling, retrying, mine, history>>

\* onopen: polling stops and a snapshot is due.
Open ==
  /\ link = "accepted"
  /\ link' = "open"
  /\ polling' = FALSE
  /\ due' = TRUE
  /\ Arm
  /\ UNCHANGED <<streamVars, view, cursor, read, pending, loaded, retrying,
                 after, mine, history>>

\* onmessage: a change of a thread of this scope, newer than the cursor.
Change ==
  LET c == channel[1]
      t == log[c]
  IN /\ link = "open" /\ channel # <<>> /\ c # Resync
     /\ channel' = Tail(channel)
     /\ IF c > cursor /\ t \in Here
          THEN pending' = [pending EXCEPT ![t] = Later(@, c)] /\ Arm
          ELSE UNCHANGED <<pending, again, timer>>
     /\ UNCHANGED <<row, gone, log, socket, wake, checked, view, cursor, read,
                    due, loaded, linkVars, mine, history>>

\* onmessage: resync; the viewer closes the socket itself.
ResyncArrives ==
  /\ link = "open" /\ channel # <<>> /\ channel[1] = Resync
  /\ channel' = <<>>
  /\ link' = "closing"
  /\ due' = TRUE
  /\ Arm
  /\ UNCHANGED <<row, gone, log, socket, wake, checked, view, cursor, read,
                 pending, loaded, polling, retrying, after, mine, history>>

\* onclose, however the connection ended.
Close ==
  /\ link \in {"connecting", "accepted", "open", "closing"}
  /\ Hangup
  /\ link' = "closed"
  /\ polling' = TRUE /\ retrying' = TRUE
  /\ after' = 0
  /\ UNCHANGED <<view, cursor, readVars, mine, history>>

(* Writes.                                                                 *)

\* Someone else's write, or a tracker's.
OthersWrite(t, removes) == Write(t, removes) /\ UNCHANGED clientVars

\* The viewer's own write commits; its response is on the way.
OwnWrite(t, removes) ==
  /\ mine = NoWrite
  /\ Write(t, removes)
  /\ mine' = [kind |-> CASE removes -> "delete"
                         [] ~removes /\ row[t] = 0 -> "create"
                         [] ~removes /\ row[t] # 0 -> "update",
              thread |-> {t}, ver |-> StreamHead + 1]
  /\ UNCHANGED <<view, cursor, readVars, linkVars, history>>

\* The response arrives and setComments() applies it to the list shown: a
\* created thread is appended, an update replaces every entry of the thread.
ApplyOwn(t) ==
  LET v == view[t]
      shown == CASE mine.kind = "create" /\ ~v.listed -> Entry(mine.ver, TRUE, 0)
                 [] mine.kind = "create" /\ v.listed -> [v EXCEPT !.twin = mine.ver]
                 [] mine.kind = "update" /\ v.listed ->
                      Entry(mine.ver, TRUE, IF v.twin = 0 THEN 0 ELSE mine.ver)
                 [] mine.kind = "update" /\ ~v.listed -> v
                 [] mine.kind = "delete" -> Entry(mine.ver, FALSE, 0)
  IN /\ t \in mine.thread
     /\ view' = [view EXCEPT ![t] = shown]
     /\ read' = IF InFlight THEN [read EXCEPT !.edited = TRUE] ELSE read
     /\ overtaken' = IF shown.ver < v.ver THEN overtaken \cup {t}
                                          ELSE overtaken
     /\ mine' = NoWrite
     /\ UNCHANGED <<streamVars, cursor, pending, due, again, loaded, timer,
                    linkVars, failed>>

\* The response is lost: nothing is applied.
OwnFails ==
  /\ mine # NoWrite
  /\ mine' = NoWrite
  /\ UNCHANGED <<streamVars, view, cursor, readVars, linkVars, history>>

Server == Replay \/ Woken \/ Check

Next ==
  \/ Poll \/ Refresh \/ TimerFires
  \/ ReadCursor \/ ReadRows \/ \E t \in Here : ReadThread(t)
  \/ SnapshotArrives \/ SnapshotFails \/ ThreadsArrive \/ ThreadsFail
  \/ Connect \/ Accepted \/ Open \/ Change \/ ResyncArrives \/ Close
  \/ Server /\ UNCHANGED clientVars
  \/ \E t \in Thread, removes \in BOOLEAN : OthersWrite(t, removes)
  \/ \E t \in Own, removes \in BOOLEAN : OwnWrite(t, removes)
  \/ \E t \in Here : ApplyOwn(t)
  \/ OwnFails

Spec == Init /\ [][Next]_vars

\* Timers fire, requests and handlers end, frames of an open socket arrive, and
\* a socket the viewer closed reports it.  Nothing makes a request succeed, a
\* connection open, a NOTIFY arrive or an own response come back.
Fairness ==
  /\ WF_vars(Poll) /\ WF_vars(TimerFires)
  /\ WF_vars(ReadCursor) /\ WF_vars(ReadRows)
  /\ \A t \in Here : WF_vars(ReadThread(t))
  /\ WF_vars(SnapshotArrives \/ SnapshotFails)
  /\ WF_vars(ThreadsArrive \/ ThreadsFail)
  /\ WF_vars(Connect)
  /\ WF_vars(Change \/ ResyncArrives)
  /\ WF_vars(link = "closing" /\ Close)
  /\ WF_vars(Replay /\ UNCHANGED clientVars)
  /\ WF_vars(Woken /\ UNCHANGED clientVars)
  /\ WF_vars(Check /\ UNCHANGED clientVars)

FairSpec == Spec /\ Fairness
-----------------------------------------------------------------------------
(* Properties.                                                             *)

Cursors == [Here -> 0..MaxHead]

TypeOK ==
  /\ StreamTypeOK
  /\ view \in [Here -> [ver : 0..MaxHead, listed : BOOLEAN, twin : 0..MaxHead]]
  /\ cursor \in 0..MaxHead
  /\ read \in [kind : {"none", "snapshot", "threads"},
               stage : {"none", "sent", "cursor", "rows"}, head : 0..MaxHead,
               batch : Cursors, left : SUBSET Here, edited : BOOLEAN,
               got : [Here -> [ver : 0..MaxHead, live : BOOLEAN]]]
  /\ pending \in Cursors
  /\ due \in BOOLEAN /\ again \in BOOLEAN /\ loaded \in BOOLEAN
  /\ timer \in BOOLEAN /\ polling \in BOOLEAN /\ retrying \in BOOLEAN
  /\ link \in {"first", "connecting", "accepted", "open", "closing", "closed"}
  /\ after \in 0..MaxHead
  /\ mine \in [kind : {"none", "create", "update", "delete"},
               thread : SUBSET Own, ver : 0..MaxHead]
  /\ failed \in BOOLEAN /\ overtaken \subseteq Here

\* The viewer's cursor of thread t, as of stream cursor c.
Changes(t, c) == {i \in 1..c : log[i] = t}

Covered(t) == \A i \in Changes(t, cursor) : i <= view[t].ver

\* "its cursor is advanced only after a successful snapshot read.  A reconnect
\* can therefore replay changes missed during a failed read" (lines 49-51):
\* every change up to the cursor, which a reconnect does not replay, is shown.
CursorCovers == loaded => \A t \in Here : t \notin overtaken => Covered(t)

\* The same where the last snapshot read did not fail.
CursorCoversReads ==
  loaded /\ ~failed => \A t \in Here : t \notin overtaken => Covered(t)

\* What a viewer shows of a thread, at its first entry, goes back in time only
\* when the response to its own write comes in late.  No read takes it back,
\* however late it was answered and whatever the socket announced (lines
\* 170-173, 221-225).
ReadsMoveForward ==
  [][\A t \in Here : view'[t].ver < view[t].ver
                       => t \in mine.thread /\ mine'.kind = "none"]_vars

\* Nothing is on the way to an open viewer: no read and no timer, no frame, and
\* the handler and the check have read the log to its end.
AtRest ==
  /\ ~InFlight /\ ~timer
  /\ link = "open" /\ channel = <<>>
  /\ socket.open => /\ ~socket.reading /\ ~wake
                    /\ checked = {StreamHead}

\* The thread is listed exactly if it exists, and its first entry is what it is
\* now.  A second entry, of a thread this viewer created, may be older.
ShownAsIs(t) ==
  /\ view[t].ver = row[t] /\ (view[t].listed <=> Live(t))
  /\ view[t].twin # 0 => view[t].listed /\ t \in Own

\* A viewer on an open socket that has come to rest shows the project as it is,
\* but for second entries: no wakeup, frame or reason to read is dropped for
\* good, however NOTIFYs are lost, sockets drop and reads cross edits.  Polling
\* has stopped, so whatever is missed here stays missed until the project
\* changes again; a second entry stays until the next snapshot.
RestShowsAll ==
  AtRest /\ ~failed => \A t \in Here : ShownAsIs(t) \/ t \in overtaken

\* What a viewer shows of a thread at its first entry, deletion included, is a
\* state the thread was in, and moves only to later ones; a thread that an own
\* response took back counts as not shown until it was read again.
Follower == INSTANCE FollowsServer WITH
  Item <- Here,
  latest <- [t \in Here |-> row[t] + 1],
  shown <- [t \in Here |-> IF view[t].ver = 0 \/ t \in overtaken
                             THEN 0 ELSE view[t].ver + 1]

ImplementsFollower == Follower!Spec

\* Once the project is no longer changed, the viewer comes to show it as it
\* is, but for second entries, through lost NOTIFYs, dropped sockets and reads
\* that raced with edits, unless its last snapshot read failed or an own
\* response came in late.
Converges == <>[](\A t \in Here : ShownAsIs(t) \/ failed \/ t \in overtaken)
=============================================================================
