--------------------------- MODULE CommentStream ---------------------------
(***************************************************************************)
(* The backend of live comments for one project: threads and the change    *)
(* log written in one transaction (comment_live_events.py), the wakeups of *)
(* a process-local broker (comment_live_broker.py) and the socket that     *)
(* replays the log to one viewer (api/comment_live.py).                    *)
(*                                                                         *)
(* A thread's state is the cursor of its last change.  Writers of a        *)
(* project wait for each other on its stream head, so a transaction is one *)
(* step.  NOTIFY may be lost; the broker's periodic check may not.         *)
(***************************************************************************)
EXTENDS Naturals, Sequences, FiniteSets

CONSTANTS
  Thread,     \* comment threads of the project
  MaxHead,    \* changes of the project
  MaxReplay   \* _MAX_SOCKET_REPLAY, events one wakeup may replay

ASSUME StreamAssumption == MaxHead \in Nat /\ MaxReplay \in Nat \ {0}

VARIABLES
  row,        \* [Thread -> Nat], cursor of the thread's last change, 0: none yet
  gone,       \* deleted threads
  log,        \* comment_change_events, log[c] is the thread changed at c
  socket,     \* the handler of the viewer's socket
  wake,       \* its queue holds a wakeup
  checked,    \* last_cursor of the project's check, {} before its first
  channel     \* frames sent and not yet received, a cursor each, 0 is resync

streamVars == <<row, gone, log, socket, wake, checked, channel>>

StreamHead == Len(log)
Resync == 0

Socket == [open : BOOLEAN, reading : BOOLEAN, cursor : Nat]
NoSocket == [open |-> FALSE, reading |-> FALSE, cursor |-> 0]

StreamTypeOK ==
  /\ row \in [Thread -> 0..MaxHead] /\ gone \subseteq Thread
  /\ log \in Seq(Thread) /\ Len(log) <= MaxHead
  /\ socket \in Socket /\ wake \in BOOLEAN
  /\ checked \subseteq 0..MaxHead
  /\ channel \in Seq(0..MaxHead)

StreamInit ==
  /\ row = [t \in Thread |-> 0]
  /\ gone = {}
  /\ log = <<>>
  /\ socket = NoSocket
  /\ wake = FALSE
  /\ checked = {}
  /\ channel = <<>>

\* A comment write: the thread and its change event commit together, and the
\* NOTIFY that follows wakes the subscriber or is lost.
Write(t, removes) ==
  /\ StreamHead < MaxHead
  /\ t \notin gone
  /\ removes => row[t] # 0
  /\ row' = [row EXCEPT ![t] = StreamHead + 1]
  /\ gone' = IF removes THEN gone \cup {t} ELSE gone
  /\ log' = Append(log, t)
  /\ wake' \in {wake, wake \/ socket.open}
  /\ UNCHANGED <<socket, checked, channel>>

\* The socket is accepted: it subscribes, then replays from its cursor.
Accept(after) ==
  /\ ~socket.open
  /\ socket' = [open |-> TRUE, reading |-> TRUE, cursor |-> after]
  /\ wake' = FALSE
  /\ channel' = <<>>
  /\ UNCHANGED <<row, gone, log, checked>>

\* Events of a batch are sent in order; a viewer too far behind is told to
\* read a snapshot, and the handler ends.
Replay ==
  LET behind == StreamHead - socket.cursor
      sent == IF behind > MaxReplay THEN MaxReplay ELSE behind
      frames == [i \in 1..sent |-> socket.cursor + i]
  IN /\ socket.open /\ socket.reading
     /\ IF behind > MaxReplay
          THEN /\ channel' = Append(channel \o frames, Resync)
               /\ socket' = NoSocket
               /\ wake' = FALSE
               /\ checked' \in {checked, {}}
          ELSE /\ channel' = channel \o frames
               /\ socket' = [socket EXCEPT !.reading = FALSE,
                                           !.cursor = @ + sent]
               /\ UNCHANGED <<wake, checked>>
     /\ UNCHANGED <<row, gone, log>>

\* The handler takes the wakeup from its queue and reads the log again.
Woken ==
  /\ socket.open /\ ~socket.reading /\ wake
  /\ wake' = FALSE
  /\ socket' = [socket EXCEPT !.reading = TRUE]
  /\ UNCHANGED <<row, gone, log, checked, channel>>

\* WRONG: the first look after a subscription only notes how far the log is.
CheckQuiet ==
  /\ socket.open
  /\ wake' = (wake \/ checked \notin {{}, {StreamHead}})
  /\ checked' = {StreamHead}
  /\ UNCHANGED <<row, gone, log, socket, channel>>

\* Every few seconds while the project has subscribers.
Check ==
  /\ socket.open
  /\ wake' = (wake \/ checked # {StreamHead})
  /\ checked' = {StreamHead}
  /\ UNCHANGED <<row, gone, log, socket, channel>>

\* The connection ends.  The check ends with the project's last subscriber;
\* other viewers of the process keep it running.
Hangup ==
  /\ socket' = NoSocket
  /\ wake' = FALSE
  /\ channel' = <<>>
  /\ checked' \in {checked, {}}
  /\ UNCHANGED <<row, gone, log>>
=============================================================================
