------------------------- MODULE LiveCommentsProofs -------------------------
(***************************************************************************)
(* Theorems about LiveComments: the cursor a viewer reconnects from passes *)
(* no change it does not show, and no read takes a thread back, whatever   *)
(* the socket loses and however reads, edits and reconnects cross.         *)
(***************************************************************************)
EXTENDS LiveComments, SequenceTheorems, TLAPS

\* The changes of t.
Of(t) == {i \in 1..Len(log) : log[i] = t}

\* Change i has not reached the viewer's handler on this connection.
Unheard(i) ==
  /\ channel # <<>> /\ channel[1] # Resync => channel[1] <= i
  /\ channel = <<>> /\ socket.open => socket.cursor < i

\* Nor has any later one that the viewer still has to read.
Ahead(i) == Unheard(i) /\ \A t \in Here : pending[t] < i

LogOK == \A t \in Thread : row[t] <= Len(log) /\ \A i \in Of(t) : i <= row[t]

\* Frames name consecutive changes and end with the socket's cursor or with a
\* resync, after which the socket is closed.
FramesOK ==
  /\ socket.open => socket.cursor <= Len(log)
  /\ \A n \in 1..Len(channel) :
       /\ channel[n] <= Len(log)
       /\ channel[n] = Resync => ~socket.open /\ n = Len(channel)
       /\ channel[n] # Resync => channel[n] + 1 = channel[1] + n
  /\ socket.open /\ channel # <<>> => channel[Len(channel)] = socket.cursor

ReadOK ==
  /\ timer => read.kind = "none"
  /\ read.kind # "threads" => \A t \in Here : read.batch[t] = 0
  /\ cursor <= Len(log) /\ after <= cursor
  /\ \A t \in Here : pending[t] <= Len(log) /\ read.batch[t] <= Len(log)

\* The threads of a batch that were read.
Got == {t \in Here : read.batch[t] # 0 /\ t \notin read.left}

\* What was read is no older than what is shown, unless an own edit came in.
FreshOK ==
  /\ \A t \in Here : view[t].ver <= row[t] /\ read.got[t].ver <= row[t]
  /\ \A t \in mine.thread : mine.kind # "none" /\ mine.ver <= row[t]
  /\ ~read.edited /\ read.kind = "snapshot" /\ read.stage = "rows" =>
       \A t \in Here : view[t].ver <= read.got[t].ver
  /\ ~read.edited /\ read.kind = "threads" =>
       \A t \in Got : view[t].ver <= read.got[t].ver

\* A snapshot holds every change up to its cursor, and what comes after it is
\* pending or unheard.
SnapshotOK ==
  read.kind = "snapshot" /\ read.stage \in {"cursor", "rows"} =>
    /\ cursor <= read.head /\ read.head <= Len(log)
    /\ \A t \in Here : \A i \in Of(t) :
         i > read.head => i <= pending[t] \/ Ahead(i)
    /\ read.stage = "rows" => \A t \in Here : \A i \in Of(t) :
         i <= read.head => i <= read.got[t].ver

\* So do the threads of a batch, up to the highest cursor in it.
BatchOK ==
  read.kind = "threads" => \A t \in Got : \A i \in Of(t) :
    i > read.got[t].ver =>
      /\ cursor < i /\ \A u \in Here : read.batch[u] < i
      /\ i <= pending[t] \/ Ahead(i)

\* A change the viewer does not show is past its cursor; some read to come, or
\* a frame to come, will tell; and no batch reaches past it without it.
Told(t, i) ==
  \/ due \/ read.kind = "snapshot"
  \/ i <= pending[t] \/ i <= read.batch[t]
  \/ Ahead(i) /\ \A u \in Here : read.batch[u] < i

ViewOK ==
  loaded /\ ~failed =>
    \A t \in Here \ overtaken : \A i \in Of(t) :
      i > view[t].ver =>
        /\ cursor < i
        /\ Told(t, i)
        /\ read.kind = "threads" =>
             i <= read.batch[t] \/ \A u \in Here : read.batch[u] < i

IInv ==
  /\ TypeOK /\ LogOK /\ FramesOK /\ ReadOK /\ FreshOK
  /\ SnapshotOK /\ BatchOK /\ ViewOK

\* What is asked for is armed, or the read in flight will arm it.
AskedOK == due \/ pending # NoThreads => timer \/ (InFlight /\ again)

\* As long as no snapshot was applied, one is read or due.
LoadOK == ~loaded /\ ~failed => read.kind = "snapshot" \/ due

\* A viewer whose handler has ended finds a resync behind the frames it reads.
OpenOK ==
  link \in {"accepted", "open"} /\ ~socket.open =>
    channel # <<>> /\ channel[Len(channel)] = Resync

\* A handler that waits with no wakeup has sent all that the check has noted.
CheckOK ==
  /\ checked \subseteq 0..Len(log)
  /\ socket.open /\ ~socket.reading /\ ~wake =>
       \A c \in checked : c <= socket.cursor

\* A thread's cursor is the one of a change of it.
RowOK == \A t \in Thread : row[t] # 0 => row[t] \in Of(t)

\* Who has thread t as of its last change has it listed if it exists.
Agrees(ver, listed, t) == ver = row[t] => (listed <=> Live(t))

\* What is shown, was read and is to be applied agrees with the project, and
\* only a listed thread of the viewer's own has a second entry.
ListedOK ==
  /\ \A t \in Here : /\ Agrees(view[t].ver, view[t].listed, t)
                     /\ Agrees(read.got[t].ver, read.got[t].live, t)
                     /\ view[t].twin # 0 => view[t].listed /\ t \in Own
  /\ \A t \in mine.thread :
       mine.ver # 0 /\ Agrees(mine.ver, mine.kind # "delete", t)

RestInv ==
  IInv /\ AskedOK /\ LoadOK /\ OpenOK /\ CheckOK /\ RowOK /\ ListedOK
-----------------------------------------------------------------------------
(* Types.                                                                  *)

\* The bounds are numbers, and the scope is part of the project.
LEMMA NatBound == MaxHead \in Nat /\ MaxReplay \in Nat \ {0}
                    /\ Here \subseteq Thread /\ Own \subseteq Here
  BY StreamAssumption, ScopeAssumption

\* The log grows by one change.
LEMMA LogGrows ==
  ASSUME NEW t \in Thread, log \in Seq(Thread), log' = Append(log, t)
  PROVE  /\ log' \in Seq(Thread) /\ Len(log') = Len(log) + 1
         /\ Len(log) \in Nat
         /\ \A u \in Thread : \A i \in Of(u)' :
              i \in Of(u) \/ (u = t /\ i = Len(log) + 1)
  BY DEF Of

\* A step of the socket's handler sends consecutive changes.
LEMMA FramesSent ==
  ASSUME NEW n \in Nat, NEW c \in Nat, c + n <= MaxHead
  PROVE  /\ [i \in 1..n |-> c + i] \in Seq(0..MaxHead)
         /\ Len([i \in 1..n |-> c + i]) = n
         /\ \A k \in 1..n : [i \in 1..n |-> c + i][k] = c + k
  BY NatBound

ReadType ==
  [kind : {"none", "snapshot", "threads"},
   stage : {"none", "sent", "cursor", "rows"}, head : 0..MaxHead,
   batch : Cursors, left : SUBSET Here, edited : BOOLEAN,
   got : [Here -> [ver : 0..MaxHead, live : BOOLEAN]]]

\* What a read returns of a thread.
LEMMA RowTypes == TypeOK => \A t \in Here : RowNow(t) \in [ver : 0..MaxHead, live : BOOLEAN]
  BY NatBound DEF TypeOK, StreamTypeOK, RowNow, Live

\* The reads there are.
LEMMA ReadTypes ==
  /\ NoThreads \in Cursors
  /\ NoRead \in ReadType /\ Snapshot \in ReadType
  /\ pending \in Cursors => Threads \in ReadType
<1> USE NatBound
<1>1. NoThreads \in Cursors
  BY DEF NoThreads, Cursors
<1>2. [t \in Here |-> [ver |-> 0, live |-> FALSE]]
        \in [Here -> [ver : 0..MaxHead, live : BOOLEAN]]
  OBVIOUS
<1>3. NoRead \in ReadType
  BY <1>1, <1>2 DEF NoRead, ReadType
<1>4. Snapshot \in ReadType
  BY <1>3 DEF Snapshot, ReadType
<1>5. pending \in Cursors => Threads \in ReadType
  <2> DEFINE unread == {t \in Here : pending[t] # 0}
  <2>1. unread \in SUBSET Here
    OBVIOUS
  <2> HIDE DEF unread
  <2>2. [NoRead EXCEPT !.kind = "threads", !.batch = pending, !.left = unread]
          \in ReadType \/ pending \notin Cursors
    BY <1>3, <2>1 DEF ReadType
  <2> QED
    BY <2>2 DEF Threads, unread
<1> QED
  BY <1>1, <1>3, <1>4, <1>5

\* The handlers there are.
LEMMA SocketTypes ==
  /\ NoSocket \in Socket
  /\ \A c \in Nat : [open |-> TRUE, reading |-> TRUE, cursor |-> c] \in Socket
  /\ \A s \in Socket : [s EXCEPT !.reading = TRUE] \in Socket
  /\ \A s \in Socket, n \in Nat :
       [s EXCEPT !.reading = FALSE, !.cursor = @ + n] \in Socket
<1>1. NoSocket \in Socket
  BY DEF NoSocket, Socket
<1>2. ASSUME NEW c \in Nat
      PROVE  [open |-> TRUE, reading |-> TRUE, cursor |-> c] \in Socket
  BY DEF Socket
<1>3. ASSUME NEW s \in Socket PROVE [s EXCEPT !.reading = TRUE] \in Socket
  BY DEF Socket
<1>4. ASSUME NEW s \in Socket, NEW n \in Nat
      PROVE  [s EXCEPT !.reading = FALSE, !.cursor = @ + n] \in Socket
  <2>1. s.cursor + n \in Nat
    BY DEF Socket
  <2> QED
    BY <2>1 DEF Socket
<1> QED
  BY <1>1, <1>2, <1>3, <1>4

\* The types at first.
LEMMA TypeInit == Init => TypeOK
<1> SUFFICES ASSUME Init PROVE TypeOK OBVIOUS
<1> USE NatBound
<1>1. StreamTypeOK
  <2>1. log \in Seq(Thread) /\ Len(log) = 0
    BY EmptySeq DEF Init, StreamInit
  <2>2. channel \in Seq(0..MaxHead)
    BY EmptySeq DEF Init, StreamInit
  <2>3. socket \in Socket
    BY SocketTypes DEF Init, StreamInit
  <2>4. row \in [Thread -> 0..MaxHead] /\ gone \subseteq Thread
        /\ checked \subseteq 0..MaxHead
    BY DEF Init, StreamInit
  <2>5. wake \in BOOLEAN
    BY DEF Init, StreamInit
  <2> QED
    BY <2>1, <2>2, <2>3, <2>4, <2>5 DEF StreamTypeOK
<1>2. pending \in Cursors /\ read \in ReadType
  BY ReadTypes DEF Init
<1>3. view \in [Here -> [ver : 0..MaxHead, listed : BOOLEAN, twin : 0..MaxHead]]
  BY DEF Init, Entry
<1>4. mine \in [kind : {"none", "create", "update", "delete"},
               thread : SUBSET Own, ver : 0..MaxHead]
  BY DEF Init, NoWrite
<1>5. cursor \in 0..MaxHead /\ after \in 0..MaxHead
  BY DEF Init
<1>6. /\ due \in BOOLEAN /\ again \in BOOLEAN /\ loaded \in BOOLEAN
      /\ timer \in BOOLEAN /\ polling \in BOOLEAN /\ retrying \in BOOLEAN
      /\ link \in {"first", "connecting", "accepted", "open", "closing", "closed"}
      /\ failed \in BOOLEAN /\ overtaken \subseteq Here
  BY DEF Init
<1> QED
  BY <1>1, <1>2, <1>3, <1>4, <1>5, <1>6 DEF TypeOK, ReadType

\* Steps of the stream.
LEMMA WriteTypes ==
  ASSUME StreamTypeOK, NEW t \in Thread, NEW removes \in BOOLEAN,
         Write(t, removes)
  PROVE  /\ StreamTypeOK' /\ Len(log') = Len(log) + 1
         /\ \A u \in Thread : \A i \in Of(u)' :
              i \in Of(u) \/ (u = t /\ i = Len(log) + 1)
<1> USE NatBound DEF StreamTypeOK, Write, StreamHead
<1>1. /\ log' \in Seq(Thread) /\ Len(log') = Len(log) + 1 /\ Len(log) \in Nat
      /\ \A u \in Thread : \A i \in Of(u)' :
           i \in Of(u) \/ (u = t /\ i = Len(log) + 1)
  BY LogGrows
<1>2. row' \in [Thread -> 0..MaxHead] /\ Len(log') <= MaxHead
  BY <1>1
<1>3. gone' \subseteq Thread /\ wake' \in BOOLEAN
  BY DEF Socket
<1>4. socket' \in Socket /\ checked' \subseteq 0..MaxHead
      /\ channel' \in Seq(0..MaxHead)
  OBVIOUS
<1> QED
  BY <1>1, <1>2, <1>3, <1>4

LEMMA AcceptTypes ==
  ASSUME StreamTypeOK, NEW c \in 0..MaxHead, Accept(c)
  PROVE  StreamTypeOK'
<1> USE NatBound DEF StreamTypeOK, Accept
<1>1. channel' \in Seq(0..MaxHead)
  BY EmptySeq
<1>2. c \in Nat /\ socket' = [open |-> TRUE, reading |-> TRUE, cursor |-> c]
  OBVIOUS
<1>3. socket' \in Socket
  BY <1>2, SocketTypes
<1> QED
  BY <1>1, <1>3

LEMMA ReplayTypes ==
  ASSUME StreamTypeOK, socket.open => socket.cursor <= Len(log), Replay
  PROVE  StreamTypeOK'
<1> USE NatBound DEF StreamTypeOK, StreamHead
<1> DEFINE behind == StreamHead - socket.cursor
           sent == IF behind > MaxReplay THEN MaxReplay ELSE behind
           frames == [i \in 1..sent |-> socket.cursor + i]
<1>1. /\ channel' \in {channel \o frames, Append(channel \o frames, Resync)}
      /\ socket' \in {NoSocket, [socket EXCEPT !.reading = FALSE, !.cursor = @ + sent]}
      /\ wake' \in {wake, FALSE} /\ checked' \in {checked, {}}
      /\ UNCHANGED <<row, gone, log>> /\ socket.open
  BY DEF Replay
<1>2. socket.cursor \in Nat /\ Len(log) \in Nat
  BY DEF Socket
<1>3. sent \in Nat /\ socket.cursor + sent <= MaxHead
  BY <1>1, <1>2
<1>4. frames \in Seq(0..MaxHead)
  BY <1>2, <1>3, FramesSent
<1> HIDE DEF frames, sent, behind
<1>5. channel \o frames \in Seq(0..MaxHead)
  BY <1>4, ConcatProperties
<1>6. Append(channel \o frames, Resync) \in Seq(0..MaxHead)
  BY <1>5 DEF Resync
<1>7. socket' \in Socket
  BY <1>1, <1>3, SocketTypes
<1> QED
  BY <1>1, <1>5, <1>6, <1>7

LEMMA OtherStreamTypes ==
  ASSUME StreamTypeOK, Woken \/ Check \/ Hangup
  PROVE  StreamTypeOK'
<1> USE NatBound DEF StreamTypeOK
<1>1. CASE Woken
  <2>1. socket' \in Socket
    BY <1>1, SocketTypes DEF Woken
  <2> QED
    BY <1>1, <2>1 DEF Woken
<1>2. CASE Check
  <2>1. wake' \in BOOLEAN
    BY <1>2 DEF Check
  <2>2. checked' \subseteq 0..MaxHead
    BY <1>2 DEF Check, StreamHead
  <2> QED
    BY <1>2, <2>1, <2>2 DEF Check
<1>3. CASE Hangup
  <2>1. socket' \in Socket
    BY <1>3, SocketTypes DEF Hangup
  <2>2. channel' \in Seq(0..MaxHead)
    BY <1>3, EmptySeq DEF Hangup
  <2> QED
    BY <1>3, <2>1, <2>2 DEF Hangup
<1> QED
  BY <1>1, <1>2, <1>3
-----------------------------------------------------------------------------
(* The invariant at first, and steps that leave the viewer's reads alone.   *)

\* The invariant holds when the viewer is mounted.
LEMMA InvInit == Init => IInv
<1> SUFFICES ASSUME Init PROVE IInv OBVIOUS
<1> USE NatBound
<1>1. TypeOK
  BY TypeInit
<1>2. Len(log) = 0 /\ log = <<>> /\ channel = <<>> /\ Len(channel) = 0
  BY EmptySeq DEF Init, StreamInit
<1>3. \A t \in Thread : Of(t) = {}
  BY <1>2 DEF Of
<1>4. LogOK
  BY <1>2, <1>3 DEF LogOK, Init, StreamInit
<1>5. FramesOK
  BY <1>2 DEF FramesOK, Init, StreamInit, NoSocket
<1>6. /\ read.kind = "snapshot" /\ read.stage = "sent" /\ ~read.edited
      /\ \A t \in Here : read.batch[t] = 0 /\ read.got[t].ver = 0
  BY DEF Init, Snapshot, NoRead, NoThreads
<1>7. ReadOK
  BY <1>2, <1>6 DEF ReadOK, Init, NoThreads
<1>8. FreshOK
  BY <1>6 DEF FreshOK, Init, StreamInit, NoWrite, Entry
<1>9. SnapshotOK /\ BatchOK /\ ViewOK
  BY <1>6 DEF SnapshotOK, BatchOK, ViewOK, Init
<1> QED
  BY <1>1, <1>4, <1>5, <1>7, <1>8, <1>9 DEF IInv

\* What is known of numbers in a state that has its types.
LEMMA Numbers ==
  ASSUME TypeOK
  PROVE  /\ cursor \in Nat /\ after \in Nat /\ Len(log) \in Nat /\ Len(channel) \in Nat
         /\ read.head \in Nat /\ mine.ver \in Nat
         /\ mine.thread \subseteq Here /\ overtaken \subseteq Here
         /\ \A t \in Here :
              /\ t \in Thread /\ row[t] \in Nat /\ view[t].ver \in Nat
              /\ pending[t] \in Nat /\ read.batch[t] \in Nat
              /\ read.got[t].ver \in Nat
         /\ \A t \in Thread : row[t] \in Nat /\ Of(t) \subseteq 1..Len(log)
         /\ \A n \in 1..Len(channel) : channel[n] \in Nat
         /\ socket.cursor \in Nat
<1> USE NatBound
<1>1. Len(log) \in Nat /\ Len(channel) \in Nat
      /\ \A n \in 1..Len(channel) : channel[n] \in Nat
  <2>1. channel \in Seq(0..MaxHead) /\ log \in Seq(Thread)
    BY DEF TypeOK, StreamTypeOK
  <2> QED
    BY <2>1, ElementOfSeq, LenProperties
<1>2. socket.cursor \in Nat
  BY DEF TypeOK, StreamTypeOK, Socket
<1>3. \A t \in Thread : row[t] \in Nat /\ Of(t) \subseteq 1..Len(log)
  BY DEF TypeOK, StreamTypeOK, Of
<1>4. /\ cursor \in Nat /\ after \in Nat /\ read.head \in Nat /\ mine.ver \in Nat
      /\ mine.thread \subseteq Here /\ overtaken \subseteq Here
  BY DEF TypeOK
<1>5. \A t \in Here : view[t].ver \in Nat /\ pending[t] \in Nat
                        /\ read.batch[t] \in Nat /\ read.got[t].ver \in Nat
  BY DEF TypeOK, Cursors
<1> QED
  BY <1>1, <1>2, <1>3, <1>4, <1>5

\* What is shown, read and written stays, and no change still to come is lost.
LEMMA HeardKept ==
  ASSUME IInv, TypeOK', FramesOK',
         UNCHANGED <<row, log, view, cursor, read, loaded, failed, overtaken>>,
         mine' \in {mine, NoWrite}, due => due',
         timer' => read.kind = "none", after' <= cursor,
         \A t \in Here : pending[t] <= pending'[t] /\ pending'[t] <= Len(log),
         \A t \in Here : \A i \in Of(t) :
           cursor < i /\ Ahead(i) => i <= pending'[t] \/ Ahead(i)'
  PROVE  IInv'
<1> USE Numbers DEF IInv
<1>1. \A t \in Thread : Of(t)' = Of(t)
  BY DEF Of
<1>2. LogOK'
  BY <1>1 DEF LogOK
<1>3. ReadOK'
  BY DEF ReadOK
<1>4. FreshOK'
  BY DEF FreshOK, Got, NoWrite
<1>5. \A t \in Here : pending'[t] \in Nat
  BY DEF TypeOK, Cursors
<1>6. \A t \in Here : \A i \in Of(t) :
        /\ i \in 1..Len(log)
        /\ i <= pending[t] => i <= pending'[t]
  BY <1>5
<1>7. SnapshotOK'
  BY <1>1, <1>6 DEF SnapshotOK
<1>8. BatchOK'
  BY <1>1, <1>6 DEF BatchOK, Got
<1>9. ViewOK'
  BY <1>1, <1>6 DEF ViewOK, Told
<1> QED
  BY <1>2, <1>3, <1>4, <1>7, <1>8, <1>9

\* The same where no frame is heard.
LEMMA ClientKept ==
  ASSUME IInv, TypeOK', FramesOK',
         UNCHANGED <<row, log, view, cursor, read, pending, loaded, failed, overtaken>>,
         mine' \in {mine, NoWrite}, due => due',
         timer' => read.kind = "none", after' <= cursor,
         \A i \in 1..Len(log) : cursor < i /\ Unheard(i) => Unheard(i)'
  PROVE  IInv'
<1> USE Numbers DEF IInv
<1>1. \A t \in Here : pending[t] <= pending'[t] /\ pending'[t] <= Len(log)
  BY DEF ReadOK
<1>2. \A t \in Here : \A i \in Of(t) :
        cursor < i /\ Ahead(i) => i <= pending'[t] \/ Ahead(i)'
  BY DEF Ahead
<1> QED
  BY <1>1, <1>2, HeardKept

\* Requests for a read, and a connection that opens.
LEMMA AskStep ==
  ASSUME IInv, ScheduleRefresh \/ Connect \/ Open \/ OwnFails
  PROVE  IInv'
<1> USE NatBound
<1>1. TypeOK /\ ReadOK /\ FramesOK
  BY DEF IInv
<1>2. /\ UNCHANGED <<streamVars, view, cursor, read, pending, loaded, failed, overtaken>>
      /\ timer' => read.kind = "none" \/ timer
      /\ due => due'
      /\ after' \in {after, cursor}
      /\ mine' \in {mine, NoWrite}
  <2>1. ASSUME ScheduleRefresh \/ Open
        PROVE  timer' => read.kind = "none" \/ timer
    BY <2>1 DEF ScheduleRefresh, Open, Arm, InFlight
  <2>2. ASSUME Connect \/ OwnFails PROVE timer' = timer
    BY <2>2 DEF Connect, OwnFails, readVars, history
  <2>3. UNCHANGED <<streamVars, view, cursor, read, pending, loaded, failed, overtaken>>
    BY DEF ScheduleRefresh, Connect, Open, OwnFails, readVars, linkVars, history
  <2>4. due => due'
    BY DEF ScheduleRefresh, Connect, Open, OwnFails, readVars, linkVars, history
  <2>5. after' \in {after, cursor}
    BY DEF ScheduleRefresh, Connect, Open, OwnFails, From, linkVars
  <2>6. mine' \in {mine, NoWrite}
    BY DEF ScheduleRefresh, Connect, Open, OwnFails
  <2> QED
    BY <2>1, <2>2, <2>3, <2>4, <2>5, <2>6
<1>3. TypeOK'
  <2>1. StreamTypeOK'
    BY <1>1, <1>2 DEF TypeOK, StreamTypeOK, streamVars
  <2>2. /\ due' \in BOOLEAN /\ again' \in BOOLEAN /\ timer' \in BOOLEAN
        /\ polling' \in BOOLEAN /\ retrying' \in BOOLEAN
    BY <1>1 DEF ScheduleRefresh, Connect, Open, OwnFails, Arm, TypeOK, readVars,
                linkVars, history
  <2>3. link' \in {"first", "connecting", "accepted", "open", "closing", "closed"}
    BY <1>1 DEF ScheduleRefresh, Connect, Open, OwnFails, TypeOK, linkVars
  <2>4. after' \in 0..MaxHead
    BY <1>1, <1>2 DEF TypeOK
  <2>5. mine' \in [kind : {"none", "create", "update", "delete"},
                  thread : SUBSET Own, ver : 0..MaxHead]
    BY <1>1, <1>2 DEF TypeOK, NoWrite
  <2> QED
    BY <1>1, <1>2, <2>1, <2>2, <2>3, <2>4, <2>5 DEF TypeOK, Cursors
<1>4. FramesOK' /\ \A i \in 1..Len(log) : Unheard(i) => Unheard(i)'
  BY <1>1, <1>2 DEF FramesOK, Unheard, streamVars
<1>5. after' <= cursor
  BY <1>1, <1>2, Numbers DEF ReadOK
<1> QED
  BY <1>1, <1>2, <1>3, <1>4, <1>5, ClientKept DEF ReadOK, streamVars

\* The server's handler and the broker, for a viewer who does nothing.
LEMMA ServerStep ==
  ASSUME IInv, Server, UNCHANGED clientVars
  PROVE  IInv'
<1> USE NatBound
<1>1. TypeOK /\ ReadOK /\ FramesOK /\ StreamTypeOK
  BY DEF IInv, TypeOK
<1>2. StreamTypeOK'
  BY <1>1, ReplayTypes, OtherStreamTypes DEF Server, FramesOK
<1>3. TypeOK'
  BY <1>1, <1>2 DEF TypeOK, clientVars, readVars, linkVars, history, Cursors
<1>4. UNCHANGED <<row, log>>
  BY DEF Server, Replay, Woken, Check
<1>5. FramesOK' /\ \A i \in 1..Len(log) : Unheard(i) => Unheard(i)'
  <2>1. CASE Woken \/ Check
    <3>1. UNCHANGED <<channel, log>> /\ socket'.open = socket.open
          /\ socket'.cursor = socket.cursor
      BY <1>1, <2>1 DEF Woken, Check, StreamTypeOK, Socket
    <3> QED
      BY <1>1, <3>1 DEF FramesOK, Unheard
  <2>2. CASE Replay
    <3> DEFINE behind == StreamHead - socket.cursor
               sent == IF behind > MaxReplay THEN MaxReplay ELSE behind
               frames == [i \in 1..sent |-> socket.cursor + i]
               long == channel \o frames
    <3>1. /\ socket.open /\ socket.cursor \in Nat /\ Len(log) \in Nat
          /\ sent \in Nat /\ socket.cursor + sent <= Len(log)
          /\ behind > MaxReplay => sent > 0
      BY <1>1, <2>2, Numbers DEF Replay, FramesOK, StreamHead
    <3>2. \/ channel' = Append(long, Resync) /\ ~socket'.open /\ sent > 0
          \/ channel' = long /\ socket'.cursor = socket.cursor + sent
      <4>1. CASE behind > MaxReplay
        <5>1. channel' = Append(long, Resync) /\ socket' = NoSocket
          BY <2>2, <4>1 DEF Replay
        <5> QED
          BY <3>1, <4>1, <5>1 DEF NoSocket
      <4>2. CASE ~(behind > MaxReplay)
        <5>1. channel' = long
              /\ socket' = [socket EXCEPT !.reading = FALSE, !.cursor = @ + sent]
          BY <2>2, <4>2 DEF Replay
        <5>2. socket'.cursor = socket.cursor + sent
          BY <1>1, <5>1 DEF StreamTypeOK, Socket
        <5> QED
          BY <5>1, <5>2
      <4> QED
        BY <4>1, <4>2
    <3> HIDE DEF sent, behind
    <3>3. channel \in Seq(0..MaxHead) /\ socket.cursor + sent <= MaxHead
      BY <1>1, <3>1 DEF StreamTypeOK
    <3>4. \A k \in 1..Len(channel) :
            channel[k] # Resync /\ channel[k] + 1 = channel[1] + k
      BY <1>1, <3>1 DEF FramesOK
    <3>5. channel # <<>> => channel[Len(channel)] = socket.cursor
      BY <1>1, <3>1 DEF FramesOK
    <3>6. /\ long \in Seq(0..MaxHead) /\ Len(long) = Len(channel) + sent
          /\ Len(channel) \in Nat
          /\ \A k \in 1..Len(channel) + sent :
               long[k] # Resync /\ long[k] + Len(channel) = socket.cursor + k
      <4>1. /\ frames \in Seq(0..MaxHead) /\ Len(frames) = sent
            /\ \A k \in 1..sent : frames[k] = socket.cursor + k
        BY <3>1, <3>3, NatBound
      <4> DEFINE c == socket.cursor
      <4>2. /\ c \in Nat /\ sent \in Nat /\ c + sent <= MaxHead
            /\ channel \in Seq(0..MaxHead)
            /\ frames \in Seq(0..MaxHead) /\ Len(frames) = sent
        BY <3>1, <3>3, <4>1
      <4>3. \A k \in 1..sent : frames[k] = c + k
        BY <4>1
      <4>4. channel # <<>> => channel[Len(channel)] = c
        BY <3>5
      <4> HIDE DEF frames, c
      <4>5. /\ long \in Seq(0..MaxHead) /\ Len(long) = Len(channel) + sent
            /\ \A k \in 1..Len(channel) + sent : long[k] =
                 IF k <= Len(channel) THEN channel[k] ELSE frames[k - Len(channel)]
        BY <4>2, ConcatProperties
      <4> HIDE DEF long
      <4>6. Len(channel) \in Nat /\ \A k \in 1..Len(channel) : channel[k] \in Nat
        BY <4>2, LenProperties, ElementOfSeq, NatBound
      <4>7. ASSUME NEW k \in 1..Len(channel) + sent
            PROVE  long[k] # Resync /\ long[k] + Len(channel) = c + k
        <5>1. CASE k <= Len(channel)
          <6>1. /\ Len(channel) \in 1..Len(channel) /\ 1 \in 1..Len(channel)
                /\ k \in 1..Len(channel)
            BY <4>2, <4>6, <5>1
          <6>2. channel # <<>>
            BY <6>1
          <6>3. c + 1 = channel[1] + Len(channel) /\ channel[k] + 1 = channel[1] + k
                /\ channel[k] # Resync
            BY <3>4, <4>4, <6>1, <6>2
          <6>4. long[k] = channel[k]
            BY <4>5, <5>1
          <6> DEFINE l == Len(channel) a == channel[1] b == channel[k]
          <6>5. /\ l \in Nat /\ a \in Nat /\ b \in Nat /\ k \in Nat
                /\ c + 1 = a + l /\ b + 1 = a + k
            BY <4>6, <6>1, <6>3
          <6> HIDE DEF l, a, b
          <6>6. b + l = c + k
            BY <4>2, <6>5
          <6> QED
            BY <6>3, <6>4, <6>6 DEF l, a, b
        <5>2. CASE ~(k <= Len(channel))
          <6>1. k - Len(channel) \in 1..sent
            BY <4>2, <4>6, <5>2
          <6>2. long[k] = frames[k - Len(channel)]
            BY <4>5, <5>2
          <6>3. long[k] = c + (k - Len(channel))
            BY <4>3, <6>1, <6>2
          <6> QED
            BY <4>2, <4>6, <6>1, <6>3 DEF Resync
        <5> QED
          BY <5>1, <5>2
      <4> QED
        BY <4>5, <4>6, <4>7 DEF c
    <3> HIDE DEF frames
    <3> HIDE DEF long
    <3>7. \A k \in 1..Len(long) : long[k] \in Nat
      BY <3>6, ElementOfSeq, NatBound
    <3>8. ASSUME long # <<>> PROVE 1 \in 1..Len(long)
      BY <3>6, <3>8, EmptySeq
    <3>9. ASSUME channel # <<>>
          PROVE  channel[1] \in Nat /\ channel[1] + Len(channel) = socket.cursor + 1
      <4>1. Len(channel) \in 1..Len(channel) /\ 1 \in 1..Len(channel)
        BY <3>3, <3>6, <3>9, EmptySeq
      <4>2. socket.cursor + 1 = channel[1] + Len(channel)
        BY <3>4, <3>5, <3>9, <4>1
      <4>3. channel[1] \in Nat
        BY <3>3, <4>1, ElementOfSeq, NatBound
      <4> QED
        BY <3>1, <3>6, <4>2, <4>3
    <3>10. ASSUME NEW i \in 1..Len(log), Unheard(i), long # <<>> PROVE long[1] <= i
      <4>1. long[1] \in Nat /\ long[1] + Len(channel) = socket.cursor + 1
        BY <3>6, <3>7, <3>8, <3>10
      <4>2. CASE channel = <<>>
        <5>1. Len(channel) = 0 /\ socket.cursor < i
          BY <3>1, <3>10, <4>2 DEF Unheard
        <5> QED
          BY <3>1, <4>1, <5>1
      <4>3. CASE channel # <<>>
        <5>1. 1 \in 1..Len(channel)
          BY <3>3, <3>6, <4>3, EmptySeq
        <5>2. channel[1] <= i
          BY <3>4, <3>10, <4>3, <5>1 DEF Unheard
        <5> QED
          BY <3>1, <3>6, <3>9, <4>1, <4>3, <5>2
      <4> QED
        BY <4>2, <4>3
    <3>11. ASSUME NEW k \in 1..Len(long)
           PROVE  long[k] <= Len(log) /\ long[k] + 1 = long[1] + k
      <4>1. 1 \in 1..Len(long)
        BY <3>1, <3>6
      <4>2. /\ long[1] + Len(channel) = socket.cursor + 1 /\ long[1] \in Nat
            /\ long[k] + Len(channel) = socket.cursor + k /\ long[k] \in Nat
            /\ k <= Len(channel) + sent
        BY <3>6, <3>7, <4>1
      <4>3. Len(channel) \in Nat /\ k \in Nat /\ k # 0
        BY <3>1, <3>6
      <4>4. long[k] + 1 = long[1] + k
        <5> DEFINE l == Len(channel) a == long[1] b == long[k] c == socket.cursor
        <5>1. /\ l \in Nat /\ a \in Nat /\ b \in Nat /\ c \in Nat /\ k \in Nat
              /\ a + l = c + 1 /\ b + l = c + k
          BY <3>1, <4>2, <4>3
        <5> HIDE DEF l, a, b, c
        <5>2. b + 1 = a + k
          BY <5>1
        <5> QED
          BY <5>2 DEF a, b
      <4>5. long[k] <= Len(log)
        BY <3>1, <4>2, <4>3
      <4> QED
        BY <4>4, <4>5
    <3>12. CASE channel' = long /\ socket'.cursor = socket.cursor + sent
      <4>1. ASSUME long # <<>> PROVE long[Len(long)] = socket.cursor + sent
        <5>1. Len(long) \in 1..Len(long)
          BY <3>1, <3>6, <3>8, <4>1
        <5>2. /\ long[Len(long)] + Len(channel) = socket.cursor + (Len(channel) + sent)
              /\ long[Len(long)] \in Nat /\ Len(channel) \in Nat
          BY <3>6, <3>7, <5>1
        <5> QED
          BY <3>1, <5>2
      <4>2. ASSUME long = <<>> PROVE channel = <<>> /\ sent = 0
        <5>1. Len(channel) = 0 /\ sent = 0
          BY <3>1, <3>6, <4>2
        <5> QED
          BY <3>3, <5>1, EmptySeq
      <4>3. FramesOK'
        <5>1. socket'.cursor <= Len(log)
          BY <3>1, <3>12
        <5>2. \A k \in 1..Len(long) : long[k] # Resync
          BY <3>6
        <5> QED
          BY <1>4, <3>11, <3>12, <4>1, <5>1, <5>2 DEF FramesOK
      <4>4. ASSUME NEW i \in 1..Len(log), Unheard(i) PROVE Unheard(i)'
        <5>1. long = <<>> => socket'.cursor < i
          <6>1. ASSUME long = <<>> PROVE socket.cursor + sent < i
            BY <3>1, <4>2, <4>4, <6>1 DEF Unheard
          <6> QED
            BY <3>12, <6>1
        <5> QED
          BY <3>10, <3>12, <4>4, <5>1 DEF Unheard
      <4> QED
        BY <4>3, <4>4
    <3>13. CASE channel' = Append(long, Resync) /\ ~socket'.open /\ sent > 0
      <4>1. /\ Len(channel') = Len(long) + 1 /\ channel'[Len(long) + 1] = Resync
            /\ \A n \in 1..Len(long) : channel'[n] = long[n]
        <5>1. long \in Seq(Nat) /\ Resync \in Nat
          BY <3>6, NatBound DEF Resync
        <5> QED
          BY <3>13, <5>1, AppendProperties
      <4>2. Len(long) \in Nat \ {0} /\ 1 \in 1..Len(long)
        BY <3>1, <3>6, <3>13
      <4>3. channel'[1] = long[1] /\ long # <<>> /\ channel' # <<>>
        <5>1. channel'[1] = long[1]
          BY <4>1, <4>2
        <5>2. long # <<>>
          BY <4>2
        <5>3. Len(channel') # 0
          BY <4>1, <4>2
        <5>4. channel' # <<>>
          BY <5>3
        <5> QED
          BY <5>1, <5>2, <5>4
      <4>4. ASSUME NEW n \in 1..Len(channel')
            PROVE  /\ channel'[n] <= Len(log)
                   /\ channel'[n] = Resync => n = Len(channel')
                   /\ channel'[n] # Resync => channel'[n] + 1 = channel'[1] + n
        <5>1. CASE n = Len(channel')
          BY <3>1, <4>1, <5>1 DEF Resync
        <5>2. CASE n # Len(channel')
          <6>1. n \in 1..Len(long)
            BY <4>1, <4>2, <5>2
          <6> QED
            BY <3>6, <3>11, <4>1, <4>3, <6>1
        <5> QED
          BY <5>1, <5>2
      <4>5. FramesOK'
        BY <1>4, <3>13, <4>4 DEF FramesOK
      <4>6. ASSUME NEW i \in 1..Len(log), Unheard(i) PROVE Unheard(i)'
        BY <3>10, <4>3, <4>6 DEF Unheard
      <4> QED
        BY <4>5, <4>6
    <3> QED
      BY <3>2, <3>12, <3>13
  <2> QED
    BY <2>1, <2>2 DEF Server
<1> QED
  BY <1>1, <1>3, <1>4, <1>5, ClientKept DEF ReadOK, clientVars, readVars, linkVars,
     history

\* The socket is accepted, tells the viewer to read a snapshot, or ends.
LEMMA ConnectionStep ==
  ASSUME IInv, Accepted \/ ResyncArrives \/ Close
  PROVE  IInv'
<1> USE NatBound
<1>1. TypeOK /\ ReadOK /\ FramesOK /\ StreamTypeOK
  BY DEF IInv, TypeOK
<1>2. /\ UNCHANGED <<row, log, view, cursor, read, pending, loaded, failed, overtaken, mine>>
      /\ due => due'
      /\ after' \in {after, 0}
  BY DEF Accepted, ResyncArrives, Close, Accept, Hangup, readVars, history
<1>3. timer' => read.kind = "none"
  <2>1. timer' = timer \/ read.kind = "none"
    BY DEF Accepted, ResyncArrives, Close, Arm, InFlight, readVars
  <2> QED
    BY <1>1, <2>1 DEF ReadOK
<1>4. StreamTypeOK'
  <2>1. CASE Accepted
    BY <1>1, <2>1, AcceptTypes DEF Accepted, TypeOK
  <2>2. CASE ResyncArrives
    <3>1. channel' \in Seq(0..MaxHead)
      BY <2>2, EmptySeq DEF ResyncArrives
    <3> QED
      BY <1>1, <2>2, <3>1 DEF ResyncArrives, StreamTypeOK
  <2>3. CASE Close
    BY <1>1, <2>3, OtherStreamTypes DEF Close
  <2> QED
    BY <2>1, <2>2, <2>3
<1>5. TypeOK'
  <2>1. /\ due' \in BOOLEAN /\ again' \in BOOLEAN /\ timer' \in BOOLEAN
        /\ polling' \in BOOLEAN /\ retrying' \in BOOLEAN
    BY <1>1 DEF Accepted, ResyncArrives, Close, Arm, TypeOK, readVars
  <2>2. link' \in {"first", "connecting", "accepted", "open", "closing", "closed"}
    BY DEF Accepted, ResyncArrives, Close
  <2>3. after' \in 0..MaxHead
    BY <1>1, <1>2 DEF TypeOK
  <2> QED
    BY <1>1, <1>2, <1>4, <2>1, <2>2, <2>3 DEF TypeOK, Cursors
<1>6. after' <= cursor /\ cursor \in Nat /\ after <= cursor /\ after <= Len(log)
      /\ after \in Nat /\ Len(log) \in Nat
  BY <1>1, <1>2, Numbers DEF ReadOK
<1>7. FramesOK' /\ \A i \in 1..Len(log) : cursor < i => Unheard(i)'
  <2>1. CASE Accepted
    <3>1. socket'.cursor = after /\ channel' = <<>> /\ log' = log /\ Len(channel') = 0
      BY <2>1 DEF Accepted, Accept
    <3> QED
      BY <1>6, <3>1 DEF FramesOK, Unheard
  <2>2. CASE ResyncArrives
    <3>1. ~socket'.open /\ channel' = <<>> /\ log' = log /\ Len(channel') = 0
      <4>1. Len(channel) \in Nat \ {0}
        BY <1>1, <2>2, EmptySeq, LenProperties DEF ResyncArrives, StreamTypeOK
      <4>2. 1 \in 1..Len(channel)
        BY <4>1
      <4> QED
        BY <1>1, <2>2, <4>2 DEF ResyncArrives, FramesOK
    <3> QED
      BY <3>1 DEF FramesOK, Unheard
  <2>3. CASE Close
    <3>1. ~socket'.open /\ channel' = <<>> /\ log' = log /\ Len(channel') = 0
      BY <2>3 DEF Close, Hangup, NoSocket
    <3> QED
      BY <3>1 DEF FramesOK, Unheard
  <2> QED
    BY <2>1, <2>2, <2>3
<1> QED
  BY <1>2, <1>3, <1>5, <1>6, <1>7, ClientKept

\* A frame is heard: it was unheard at its own cursor at the earliest, and then
\* its thread is pending from there.
LEMMA ChangeStep ==
  ASSUME IInv, Change
  PROVE  IInv'
<1> USE NatBound
<1>1. TypeOK /\ ReadOK /\ FramesOK /\ StreamTypeOK
  BY DEF IInv, TypeOK
<1> DEFINE c == channel[1]
           t == log[c]
<1>2. /\ UNCHANGED <<row, gone, log, socket, wake, checked, view, cursor, read, due,
                     loaded, linkVars, mine, history>>
      /\ channel' = Tail(channel) /\ channel # <<>> /\ c # Resync
      /\ \/ c > cursor /\ t \in Here /\ Arm
            /\ pending' = [pending EXCEPT ![t] = Later(@, c)]
         \/ ~(c > cursor /\ t \in Here) /\ UNCHANGED <<pending, again, timer>>
  BY DEF Change
<1>3. /\ Len(channel) \in Nat \ {0} /\ 1 \in 1..Len(channel)
      /\ channel' \in Seq(0..MaxHead) /\ Len(channel') + 1 = Len(channel)
      /\ \A n \in 1..Len(channel') : channel'[n] = channel[n + 1]
      /\ Len(channel') \in Nat
  <2>1. channel \in Seq(0..MaxHead) /\ Len(channel) \in Nat \ {0}
    BY <1>1, <1>2, EmptySeq, LenProperties DEF StreamTypeOK
  <2> QED
    BY <1>2, <2>1, HeadTailProperties
<1>4. /\ c \in Nat /\ c <= Len(log) /\ c \in 1..Len(log) /\ Len(log) \in Nat
      /\ cursor \in Nat /\ socket.cursor \in Nat
      /\ \A n \in 1..Len(channel) : channel[n] \in Nat
  <2>1. c \in Nat /\ c <= Len(log)
    BY <1>1, <1>3, Numbers DEF FramesOK
  <2> QED
    BY <1>1, <1>2, <2>1, Numbers DEF Resync
<1> HIDE DEF c, t
<1>5. FramesOK'
  <2>1. ASSUME NEW n \in 1..Len(channel')
        PROVE  /\ channel'[n] <= Len(log)
               /\ channel'[n] = Resync => ~socket.open /\ n = Len(channel')
               /\ channel'[n] # Resync => channel'[n] + 1 = channel'[1] + n
    <3>1. n + 1 \in 1..Len(channel) /\ 2 \in 1..Len(channel) /\ 1 \in 1..Len(channel')
          /\ n \in Nat
      BY <1>3
    <3>2. channel'[n] = channel[n + 1] /\ channel'[1] = channel[2]
      BY <1>3, <3>1
    <3>3. channel'[n] <= Len(log)
      BY <1>1, <3>1, <3>2 DEF FramesOK
    <3>4. channel'[n] = Resync => ~socket.open /\ n + 1 = Len(channel)
      BY <1>1, <3>1, <3>2 DEF FramesOK
    <3>5. ASSUME channel'[n] # Resync PROVE channel'[n] + 1 = channel'[1] + n
      <4>1. channel[n + 1] + 1 = channel[1] + (n + 1)
        BY <1>1, <3>1, <3>2, <3>5 DEF FramesOK
      <4>2. CASE channel[2] = Resync
        <5>1. 2 = Len(channel)
          BY <1>1, <3>1, <4>2 DEF FramesOK
        <5> DEFINE l == Len(channel')
        <5>2. l \in Nat /\ l + 1 = 2 /\ n \in 1..l
          BY <1>3, <5>1
        <5> HIDE DEF l
        <5>3. n = 1
          BY <5>2
        <5> QED
          BY <3>2, <3>5, <4>2, <5>3
      <4>3. CASE channel[2] # Resync
        <5>1. channel[2] + 1 = channel[1] + 2
          BY <1>1, <3>1, <4>3 DEF FramesOK
        <5> DEFINE x == channel[1]  y == channel[2]  z == channel[n + 1]
        <5>2. /\ x \in Nat /\ y \in Nat /\ z \in Nat /\ n \in Nat
              /\ z + 1 = x + (n + 1) /\ y + 1 = x + 2
          BY <1>3, <1>4, <3>1, <4>1, <5>1
        <5> HIDE DEF x, y, z
        <5>3. z + 1 = y + n
          BY <5>2
        <5> QED
          BY <3>2, <5>3 DEF y, z
      <4> QED
        BY <4>2, <4>3
    <3>6. n + 1 = Len(channel) => n = Len(channel')
      BY <1>3, <3>1
    <3> QED
      BY <3>3, <3>4, <3>5, <3>6
  <2>2. socket.open /\ channel' # <<>> => channel'[Len(channel')] = socket.cursor
    <3>1. ASSUME channel' # <<>> PROVE channel'[Len(channel')] = channel[Len(channel)]
      <4>1. Len(channel') \in 1..Len(channel')
        BY <1>3, <3>1, EmptySeq
      <4> QED
        BY <1>3, <4>1
    <3> QED
      BY <1>1, <1>2, <3>1 DEF FramesOK
  <2> QED
    BY <1>1, <1>2, <2>1, <2>2 DEF FramesOK
<1>6. \A u \in Here :
        /\ pending'[u] \in Nat /\ pending[u] <= pending'[u]
        /\ pending'[u] \in {pending[u], c}
        /\ c > cursor /\ t = u => c <= pending'[u]
  <2>1. \A u \in Here : pending[u] \in Nat
    BY <1>1, Numbers
  <2>2. CASE c > cursor /\ t \in Here
    <3>1. pending' = [pending EXCEPT ![t] = Later(@, c)]
      BY <1>2, <2>2
    <3>2. \A u \in Here : pending'[u] = IF u = t THEN Later(pending[u], c) ELSE pending[u]
      BY <1>1, <3>1 DEF TypeOK, Cursors
    <3> QED
      BY <1>4, <2>1, <3>2 DEF Later
  <2>3. CASE ~(c > cursor /\ t \in Here)
    BY <1>2, <2>1, <2>3
  <2> QED
    BY <2>2, <2>3
<1>7. TypeOK'
  <2>1. StreamTypeOK'
    BY <1>1, <1>2, <1>3 DEF StreamTypeOK
  <2>2. pending' \in Cursors
    <3>1. \A u \in Here : pending'[u] \in 0..MaxHead
      <4>1. \A u \in Here : pending[u] \in 0..MaxHead
        BY <1>1 DEF TypeOK, Cursors
      <4>2. c \in 0..MaxHead
        <5>1. Len(log) <= MaxHead
          BY <1>1 DEF StreamTypeOK
        <5> QED
          BY <1>4, <5>1
      <4> QED
        BY <1>6, <4>1, <4>2
    <3>2. pending' = [u \in Here |-> pending'[u]]
      BY <1>1, <1>2 DEF TypeOK, Cursors
    <3> QED
      BY <3>1, <3>2 DEF Cursors
  <2>3. timer' \in BOOLEAN /\ again' \in BOOLEAN
    BY <1>1, <1>2 DEF Arm, TypeOK
  <2> QED
    BY <1>1, <1>2, <2>1, <2>2, <2>3 DEF TypeOK, Cursors, linkVars, history
<1>8. timer' => read.kind = "none"
  BY <1>1, <1>2 DEF Arm, InFlight, ReadOK
<1>9. after' <= cursor
  BY <1>1, <1>2 DEF ReadOK, linkVars
<1>10. \A u \in Here : pending'[u] <= Len(log)
  BY <1>1, <1>4, <1>6 DEF ReadOK
<1>11. ASSUME NEW u \in Here, NEW i \in Of(u), cursor < i, Ahead(i)
       PROVE  i <= pending'[u] \/ Ahead(i)'
  <2>1. i \in 1..Len(log) /\ i \in Nat /\ log[i] = u
    BY <1>1, Numbers DEF Of
  <2>2. c <= i
    BY <1>2, <1>11 DEF Ahead, Unheard, c
  <2>3. CASE i = c
    BY <1>6, <1>11, <2>1, <2>3 DEF t
  <2>4. CASE c < i
    <3>1. \A v \in Here : pending'[v] < i
      BY <1>6, <1>11, <2>4 DEF Ahead
    <3>2. channel' # <<>> /\ channel'[1] # Resync => channel'[1] <= i
      <4>1. ASSUME channel' # <<>>, channel'[1] # Resync PROVE channel'[1] <= i
        <5>1. 1 \in 1..Len(channel') /\ 2 \in 1..Len(channel)
          BY <1>3, <4>1, EmptySeq
        <5>2. channel'[1] = channel[2]
          BY <1>3, <5>1
        <5>3. channel[2] + 1 = c + 2
          BY <1>1, <4>1, <5>1, <5>2 DEF FramesOK, c
        <5> QED
          BY <1>4, <2>1, <2>4, <5>1, <5>2, <5>3
      <4> QED
        BY <4>1
    <3>3. channel' = <<>> /\ socket.open => socket.cursor < i
      <4>1. ASSUME channel' = <<>>, socket.open PROVE socket.cursor < i
        <5>1. Len(channel) = 1
          BY <1>3, <4>1, EmptySeq
        <5>2. c = socket.cursor
          BY <1>1, <1>2, <4>1, <5>1 DEF FramesOK, c
        <5> QED
          BY <2>4, <5>2
      <4> QED
        BY <4>1
    <3> QED
      BY <1>2, <3>1, <3>2, <3>3 DEF Ahead, Unheard
  <2> QED
    BY <1>4, <2>1, <2>2, <2>3, <2>4
<1>12. UNCHANGED <<row, log, view, cursor, read, loaded, failed, overtaken, mine, due>>
  BY <1>2 DEF history
<1>13. \A u \in Here : pending[u] <= pending'[u] /\ pending'[u] <= Len(log)
  BY <1>6, <1>10
<1> QED
  BY <1>5, <1>7, <1>8, <1>9, <1>11, <1>12, <1>13, HeardKept

\* A change of the project: it is ahead of every cursor.
LEMMA WriteStep ==
  ASSUME IInv, NEW t \in Thread, NEW removes \in BOOLEAN,
         OthersWrite(t, removes) \/ (t \in Own /\ OwnWrite(t, removes))
  PROVE  IInv'
<1> USE NatBound
<1>1. TypeOK /\ LogOK /\ ReadOK /\ FramesOK /\ StreamTypeOK
  BY DEF IInv, TypeOK
<1> DEFINE j == Len(log) + 1
<1>2. /\ Write(t, removes)
      /\ UNCHANGED <<view, cursor, readVars, linkVars, history>>
      /\ \/ mine' = mine
         \/ /\ t \in Own
            /\ mine' = [kind |-> CASE removes -> "delete"
                                   [] ~removes /\ row[t] = 0 -> "create"
                                   [] ~removes /\ row[t] # 0 -> "update",
                        thread |-> {t}, ver |-> StreamHead + 1]
  BY DEF OthersWrite, OwnWrite, clientVars
<1>3. /\ StreamTypeOK' /\ Len(log') = j /\ j <= MaxHead /\ Len(log) \in Nat
      /\ \A u \in Thread : \A i \in Of(u)' : i \in Of(u) \/ (u = t /\ i = j)
  <2>1. /\ StreamTypeOK' /\ Len(log') = j
        /\ \A u \in Thread : \A i \in Of(u)' : i \in Of(u) \/ (u = t /\ i = j)
    BY <1>1, <1>2, WriteTypes
  <2>2. Len(log) \in Nat /\ j <= MaxHead
    BY <1>1, <1>2, Numbers DEF Write, StreamHead
  <2> QED
    BY <2>1, <2>2
<1>4. /\ UNCHANGED <<channel, socket>>
      /\ \A u \in Thread : row'[u] = IF u = t THEN j ELSE row[u]
  BY <1>1, <1>2 DEF Write, StreamHead, StreamTypeOK
<1> HIDE DEF j
<1>5. /\ UNCHANGED <<view, cursor, read, pending, due, loaded, timer, after, failed,
                     overtaken>>
      /\ UNCHANGED <<again, polling, retrying, link>>
  BY <1>2 DEF readVars, linkVars, history
<1>6. TypeOK'
  <2>1. mine' \in [kind : {"none", "create", "update", "delete"},
                   thread : SUBSET Own, ver : 0..MaxHead]
    <3>1. CASE mine' = mine
      BY <1>1, <3>1 DEF TypeOK
    <3>2. CASE mine' # mine
      <4>1. StreamHead + 1 \in 0..MaxHead
        BY <1>3 DEF StreamHead, j
      <4>2. row[t] \in Nat
        BY <1>1, Numbers
      <4>3. /\ t \in Own
            /\ \E k \in {"create", "update", "delete"} :
                 mine' = [kind |-> k, thread |-> {t}, ver |-> StreamHead + 1]
        BY <1>2, <3>2
      <4> QED
        BY <4>1, <4>3
    <3> QED
      BY <3>1, <3>2
  <2> QED
    BY <1>1, <1>3, <1>5, <2>1 DEF TypeOK, Cursors
<1>7. /\ j \in Nat /\ j = Len(log) + 1
      /\ \A u \in Thread : row[u] \in Nat /\ row[u] <= Len(log) /\ row'[u] \in Nat
                            /\ row[u] <= row'[u] /\ row'[u] <= j
      /\ row'[t] = j
      /\ \A u \in Thread : \A i \in Of(u) : i \in Nat /\ i <= Len(log)
  <2>1. \A u \in Thread : row[u] \in Nat /\ row[u] <= Len(log)
    BY <1>1, Numbers DEF LogOK
  <2>2. \A u \in Thread : \A i \in Of(u) : i \in Nat /\ i <= Len(log)
    BY <1>3 DEF Of
  <2> QED
    BY <1>3, <1>4, <2>1, <2>2 DEF j
<1>8. LogOK'
  BY <1>1, <1>3, <1>4, <1>7 DEF LogOK
<1>9. FramesOK'
  <2>1. socket.cursor \in Nat /\ \A n \in 1..Len(channel) : channel[n] \in Nat
    BY <1>1, Numbers
  <2> QED
    BY <1>1, <1>3, <1>4, <1>7, <2>1 DEF FramesOK
<1>10. ReadOK' /\ \A u \in Here : pending[u] < j /\ read.batch[u] < j
  <2>1. cursor \in Nat /\ \A u \in Here : pending[u] \in Nat /\ read.batch[u] \in Nat
    BY <1>1, Numbers
  <2> QED
    BY <1>1, <1>3, <1>5, <1>7, <2>1 DEF ReadOK
<1>11. /\ \A i : Ahead(i)' <=> Ahead(i)
       /\ Ahead(j) /\ cursor < j
  <2>1. Unheard(j)
    <3>1. channel # <<>> => 1 \in 1..Len(channel) /\ channel[1] \in Nat
      <4>1. channel # <<>> => Len(channel) \in Nat \ {0}
        BY <1>1, EmptySeq, LenProperties DEF StreamTypeOK
      <4> QED
        BY <1>1, <4>1, Numbers
    <3>2. channel # <<>> => channel[1] <= j
      BY <1>1, <1>3, <1>7, <3>1 DEF FramesOK
    <3>3. socket.open => socket.cursor < j
      BY <1>1, <1>3, <1>7, Numbers DEF FramesOK
    <3> QED
      BY <3>2, <3>3 DEF Unheard
  <2>2. cursor < j
    BY <1>1, <1>3, <1>7, Numbers DEF ReadOK
  <2>3. \A i : Ahead(i)' <=> Ahead(i)
    BY <1>4, <1>5 DEF Ahead, Unheard
  <2> QED
    BY <1>10, <2>1, <2>2, <2>3 DEF Ahead
<1>12. FreshOK'
  <2>1. \A u \in Here :
             /\ view[u].ver \in Nat /\ read.got[u].ver \in Nat
             /\ view[u].ver <= row[u] /\ read.got[u].ver <= row[u]
    BY <1>1, Numbers DEF IInv, FreshOK
  <2>2. \A u \in Here : view'[u].ver <= row'[u] /\ read'.got[u].ver <= row'[u]
    BY <1>5, <1>7, <2>1
  <2>3. \A u \in mine'.thread : mine'.kind # "none" /\ mine'.ver <= row'[u]
    <3>1. CASE mine' = mine
      BY <1>1, <1>7, <3>1, Numbers DEF IInv, FreshOK
    <3>2. CASE mine' # mine
      <4>1. mine'.thread = {t} /\ mine'.ver = j /\ mine'.kind # "none"
        <5>1. row[t] \in Nat
          BY <1>1, Numbers
        <5> QED
          BY <1>2, <3>2, <5>1 DEF j, StreamHead
      <4> QED
        BY <1>7, <4>1
    <3> QED
      BY <3>1, <3>2
  <2>4. /\ ~read.edited /\ read.kind = "snapshot" /\ read.stage = "rows" =>
             \A u \in Here : view[u].ver <= read.got[u].ver
        /\ ~read.edited /\ read.kind = "threads" =>
             \A u \in Got : view[u].ver <= read.got[u].ver
    BY DEF IInv, FreshOK
  <2> QED
    BY <1>5, <2>2, <2>3, <2>4 DEF FreshOK, Got
<1>13. SnapshotOK'
  <2>1. SnapshotOK /\ read.head \in Nat
    BY <1>1, Numbers DEF IInv
  <2>2. ASSUME read.kind = "snapshot", read.stage \in {"cursor", "rows"}
        PROVE  /\ cursor <= read.head /\ read.head <= Len(log)
               /\ \A u \in Here : \A i \in Of(u)' :
                    i > read.head => i <= pending[u] \/ Ahead(i)
               /\ read.stage = "rows" => \A u \in Here : \A i \in Of(u)' :
                    i <= read.head => i <= read.got[u].ver
    <3>1. cursor <= read.head /\ read.head <= Len(log)
      BY <2>1, <2>2 DEF SnapshotOK
    <3>2. ASSUME NEW u \in Here, NEW i \in Of(u)', i > read.head
          PROVE  i <= pending[u] \/ Ahead(i)
      BY <1>3, <1>11, <2>1, <2>2, <3>2 DEF SnapshotOK
    <3>3. ASSUME read.stage = "rows", NEW u \in Here, NEW i \in Of(u)', i <= read.head
          PROVE  i <= read.got[u].ver
      <4>1. i # j
        BY <1>3, <1>7, <2>1, <3>1, <3>3
      <4> QED
        BY <1>3, <2>1, <2>2, <3>3, <4>1 DEF SnapshotOK
    <3> QED
      BY <3>1, <3>2, <3>3
  <2>3. Len(log) <= Len(log') /\ Len(log') \in Nat
    BY <1>3, <1>7
  <2> QED
    BY <1>3, <1>5, <1>11, <2>1, <2>2, <2>3 DEF SnapshotOK
<1>14. BatchOK'
  <2>1. BatchOK
    BY DEF IInv
  <2>2. Got' = Got /\ Got \subseteq Thread
    BY <1>5 DEF Got
  <2>3. ASSUME read.kind = "threads", NEW u \in Got, NEW i \in Of(u)',
               i > read.got[u].ver
        PROVE  /\ cursor < i /\ \A v \in Here : read.batch[v] < i
               /\ i <= pending[u] \/ Ahead(i)
    BY <1>3, <1>10, <1>11, <2>1, <2>2, <2>3 DEF BatchOK
  <2> QED
    BY <1>5, <1>11, <2>2, <2>3 DEF BatchOK
<1>15. ViewOK'
  <2>1. ViewOK
    BY DEF IInv
  <2>2. ASSUME loaded, ~failed, NEW u \in Here \ overtaken, NEW i \in Of(u)',
               i > view[u].ver
        PROVE  /\ cursor < i /\ Told(u, i)
               /\ read.kind = "threads" =>
                    i <= read.batch[u] \/ \A v \in Here : read.batch[v] < i
    <3>1. CASE i = j
      BY <1>10, <1>11, <3>1 DEF Told
    <3>2. CASE i # j
      BY <1>3, <2>1, <2>2, <3>2 DEF ViewOK
    <3> QED
      BY <3>1, <3>2
  <2>3. \A u, i : Told(u, i)' <=> Told(u, i)
    BY <1>5, <1>11 DEF Told
  <2> QED
    BY <1>5, <2>2, <2>3 DEF ViewOK
<1> QED
  BY <1>6, <1>8, <1>9, <1>10, <1>12, <1>13, <1>14, <1>15 DEF IInv
-----------------------------------------------------------------------------
(* Steps of the viewer alone.                                              *)

\* What a step of the viewer alone leaves of the stream.
LEMMA StreamKept ==
  ASSUME IInv, UNCHANGED streamVars
  PROVE  /\ StreamTypeOK' /\ LogOK' /\ FramesOK'
         /\ \A t : Of(t)' = Of(t)
         /\ \A i : Unheard(i)' <=> Unheard(i)
         /\ UNCHANGED <<row, log, channel, socket>>
<1>1. UNCHANGED <<row, gone, log, socket, wake, checked, channel>>
  BY DEF streamVars
<1>2. StreamTypeOK'
  BY <1>1 DEF IInv, TypeOK, StreamTypeOK
<1>3. LogOK' /\ \A t : Of(t)' = Of(t)
  BY <1>1 DEF IInv, LogOK, Of
<1>4. FramesOK' /\ \A i : Unheard(i)' <=> Unheard(i)
  BY <1>1 DEF IInv, FramesOK, Unheard
<1> QED
  BY <1>1, <1>2, <1>3, <1>4

\* An own response: what is being read is outdated, and a thread it takes back
\* is overtaken.
LEMMA ApplyOwnStep ==
  ASSUME IInv, NEW t \in Here, ApplyOwn(t)
  PROVE  IInv'
<1> USE NatBound
<1> DEFINE v == view[t]
           shown == CASE mine.kind = "create" /\ ~v.listed -> Entry(mine.ver, TRUE, 0)
                      [] mine.kind = "create" /\ v.listed -> [v EXCEPT !.twin = mine.ver]
                      [] mine.kind = "update" /\ v.listed ->
                           Entry(mine.ver, TRUE, IF v.twin = 0 THEN 0 ELSE mine.ver)
                      [] mine.kind = "update" /\ ~v.listed -> v
                      [] mine.kind = "delete" -> Entry(mine.ver, FALSE, 0)
<1>1. TypeOK /\ LogOK /\ ReadOK /\ FreshOK /\ SnapshotOK /\ BatchOK /\ ViewOK
  BY DEF IInv
<1>2. /\ t \in mine.thread
      /\ view' = [view EXCEPT ![t] = shown]
      /\ read' = IF InFlight THEN [read EXCEPT !.edited = TRUE] ELSE read
      /\ overtaken' = IF shown.ver < v.ver THEN overtaken \cup {t} ELSE overtaken
      /\ mine' = NoWrite
      /\ UNCHANGED <<streamVars, cursor, pending, due, again, loaded, timer, linkVars,
                     failed>>
  BY DEF ApplyOwn
<1>3. v \in [ver : 0..MaxHead, listed : BOOLEAN, twin : 0..MaxHead] /\ mine.ver \in 0..MaxHead
      /\ mine.kind \in {"none", "create", "update", "delete"}
  BY <1>1 DEF TypeOK
<1>4. mine.kind # "none"
  BY <1>1, <1>2 DEF FreshOK
<1>5. shown \in [ver : 0..MaxHead, listed : BOOLEAN, twin : 0..MaxHead] /\ shown.ver \in {v.ver, mine.ver}
  BY <1>3, <1>4 DEF Entry
<1> HIDE DEF shown
<1>6. /\ view' \in [Here -> [ver : 0..MaxHead, listed : BOOLEAN, twin : 0..MaxHead]]
      /\ view'[t] = shown /\ \A u \in Here : u # t => view'[u] = view[u]
  BY <1>1, <1>2, <1>5 DEF TypeOK
<1>7. /\ read'.kind = read.kind /\ read'.stage = read.stage /\ read'.head = read.head
      /\ read'.batch = read.batch /\ read'.left = read.left /\ read'.got = read.got
      /\ read'.edited \in BOOLEAN /\ read' \in ReadType
      /\ read.kind # "none" => read'.edited
  <2>1. read \in ReadType
    BY <1>1 DEF TypeOK, ReadType
  <2> QED
    BY <1>2, <2>1 DEF ReadType, InFlight
<1>8. /\ StreamTypeOK' /\ LogOK' /\ FramesOK' /\ \A u : Of(u)' = Of(u)
      /\ \A i : Unheard(i)' <=> Unheard(i)
      /\ UNCHANGED row /\ UNCHANGED log
  BY <1>2, StreamKept
<1>9. \A i : Ahead(i)' <=> Ahead(i)
  BY <1>2, <1>8 DEF Ahead
<1>10. TypeOK'
  <2>1. mine' \in [kind : {"none", "create", "update", "delete"},
                  thread : SUBSET Own, ver : 0..MaxHead]
    BY <1>2 DEF NoWrite
  <2>2. overtaken' \subseteq Here
    BY <1>1, <1>2 DEF TypeOK
  <2> QED
    BY <1>1, <1>2, <1>6, <1>7, <1>8, <2>1, <2>2 DEF TypeOK, Cursors, linkVars, ReadType
<1>11. ReadOK'
  BY <1>1, <1>2, <1>7, <1>8 DEF ReadOK, linkVars
<1>12. FreshOK'
  <2>1. \A u \in Here : view'[u].ver <= row[u]
    BY <1>1, <1>2, <1>5, <1>6, Numbers DEF FreshOK
  <2>2. mine'.thread = {}
    BY <1>2 DEF NoWrite
  <2>3. \A u \in Here : read.got[u].ver <= row[u]
    BY <1>1 DEF FreshOK
  <2>4. (read'.kind = "snapshot" \/ read'.kind = "threads") => read'.edited
    BY <1>7
  <2>5. \A u \in Here : view'[u].ver <= row'[u] /\ read'.got[u].ver <= row'[u]
    BY <1>7, <1>8, <2>1, <2>3
  <2> QED
    BY <2>2, <2>4, <2>5 DEF FreshOK
<1>13. SnapshotOK'
  BY <1>1, <1>2, <1>7, <1>8, <1>9 DEF SnapshotOK
<1>14. BatchOK'
  BY <1>1, <1>2, <1>7, <1>8, <1>9 DEF BatchOK, Got
<1>15. ViewOK'
  <2>1. ASSUME loaded, ~failed, NEW u \in Here \ overtaken', NEW i \in Of(u),
               i > view'[u].ver
        PROVE  u \notin overtaken /\ i > view[u].ver
    <3>1. CASE u = t
      <4>1. overtaken' = overtaken /\ ~(shown.ver < v.ver)
        BY <1>2, <2>1, <3>1
      <4>2. i \in Nat /\ shown.ver \in Nat /\ v.ver \in Nat
        BY <1>1, <1>3, <1>5, Numbers
      <4> QED
        BY <1>6, <2>1, <3>1, <4>1, <4>2
    <3>2. CASE u # t
      BY <1>2, <1>6, <2>1, <3>2
    <3> QED
      BY <3>1, <3>2
  <2>2. \A u, i : Told(u, i)' <=> Told(u, i)
    BY <1>2, <1>7, <1>9 DEF Told
  <2> QED
    BY <1>1, <1>2, <1>7, <1>8, <2>1, <2>2 DEF ViewOK
<1> QED
  BY <1>8, <1>10, <1>11, <1>12, <1>13, <1>14, <1>15 DEF IInv

\* A read starts: what was pending is read, or the whole scope is.
LEMMA TimerStep ==
  ASSUME IInv, TimerFires
  PROVE  IInv'
<1> USE NatBound
<1>1. TypeOK /\ LogOK /\ ReadOK /\ FreshOK /\ SnapshotOK /\ BatchOK /\ ViewOK
  BY DEF IInv
<1>2. /\ read.kind = "none" /\ timer' = FALSE
      /\ UNCHANGED <<streamVars, view, cursor, again, loaded, linkVars, mine, history>>
      /\ \/ read' = Snapshot /\ due' = FALSE /\ pending' = NoThreads
         \/ ~due /\ loaded /\ read' = Threads /\ pending' = NoThreads /\ due' = due
         \/ read' = read /\ due' = due /\ pending' = pending
  <2> DEFINE many == Cardinality({t \in Here : pending[t] # 0}) > MaxThreadRefresh
  <2>1. /\ timer /\ timer' = FALSE
        /\ UNCHANGED <<streamVars, view, cursor, again, loaded, linkVars, mine, history>>
        /\ CASE due \/ ~loaded \/ many ->
                   read' = Snapshot /\ due' = FALSE /\ pending' = NoThreads
              [] ~(due \/ ~loaded \/ many) /\ pending # NoThreads ->
                   read' = Threads /\ pending' = NoThreads /\ UNCHANGED due
              [] ~(due \/ ~loaded \/ many) /\ pending = NoThreads ->
                   UNCHANGED <<read, due, pending>>
    BY DEF TimerFires
  <2> HIDE DEF many
  <2> QED
    BY <1>1, <2>1 DEF ReadOK
<1>3. /\ StreamTypeOK' /\ LogOK' /\ FramesOK' /\ \A u : Of(u)' = Of(u)
      /\ \A i : Unheard(i)' <=> Unheard(i)
      /\ UNCHANGED row /\ UNCHANGED log
  BY <1>2, StreamKept
<1>4. /\ pending \in Cursors /\ read' \in ReadType /\ pending' \in Cursors
      /\ \A t \in Here : NoThreads[t] = 0
      /\ Snapshot.kind = "snapshot" /\ Snapshot.stage = "sent" /\ Snapshot.batch = NoThreads
      /\ \A t \in Here : Snapshot.got[t].ver = 0
  <2>1. pending \in Cursors /\ read \in ReadType
    BY <1>1 DEF TypeOK, ReadType
  <2> QED
    BY <1>2, <2>1, ReadTypes DEF Snapshot, NoRead, NoThreads
<1>5. /\ Threads.kind = "threads" /\ Threads.batch = pending
      /\ \A t \in Here : Threads.got[t].ver = 0
      /\ \A t \in Here : t \in Threads.left <=> pending[t] # 0
  BY DEF Threads, NoRead
<1> HIDE DEF Threads, Snapshot
<1>6. TypeOK'
  <2>1. due' \in BOOLEAN
    BY <1>1, <1>2 DEF TypeOK
  <2> QED
    BY <1>1, <1>2, <1>3, <1>4, <2>1 DEF TypeOK, Cursors, ReadType, linkVars, history
<1>7. ReadOK'
  BY <1>1, <1>2, <1>3, <1>4, <1>5, Numbers DEF ReadOK, linkVars
<1>8. FreshOK'
  <2>1. \A t \in Here : row[t] \in Nat /\ read'.got[t].ver <= row[t]
    BY <1>1, <1>2, <1>4, <1>5, Numbers DEF FreshOK
  <2>2. read'.kind = "threads" => Got' = {}
    BY <1>2, <1>4, <1>5 DEF Got
  <2>3. read'.kind = "snapshot" => read'.stage # "rows"
    BY <1>2, <1>4, <1>5
  <2> QED
    BY <1>1, <1>2, <1>3, <2>1, <2>2, <2>3 DEF FreshOK
<1>9. SnapshotOK'
  <2>1. read'.kind = "snapshot" => read'.stage \notin {"cursor", "rows"}
    BY <1>2, <1>4, <1>5
  <2> QED
    BY <2>1 DEF SnapshotOK
<1>10. BatchOK'
  <2>1. read'.kind = "threads" => Got' = {}
    BY <1>2, <1>4, <1>5 DEF Got
  <2> QED
    BY <2>1 DEF BatchOK
<1>11. ViewOK'
  <2>1. ASSUME loaded, ~failed, NEW t \in Here \ overtaken, NEW i \in Of(t),
               i > view[t].ver
        PROVE  /\ cursor < i /\ Told(t, i)'
               /\ read'.kind = "threads" =>
                    i <= read'.batch[t] \/ \A u \in Here : read'.batch[u] < i
    <3>1. cursor < i /\ Told(t, i) /\ i \in Nat \ {0}
      BY <1>1, <2>1, Numbers DEF ViewOK
    <3>2. \A u \in Here : pending[u] \in Nat /\ read.batch[u] = 0
      BY <1>1, <1>2, Numbers DEF ReadOK
    <3>3. CASE read' = Snapshot
      BY <1>4, <3>1, <3>3 DEF Told
    <3>4. CASE ~due /\ read' = Threads /\ pending' = NoThreads
      <4>1. i <= pending[t] \/ Ahead(i)
        BY <1>2, <3>1, <3>2, <3>4 DEF Told
      <4>2. CASE i <= pending[t]
        BY <1>5, <3>1, <3>4, <4>2 DEF Told
      <4>3. CASE Ahead(i)
        <5>1. \A u \in Here : read'.batch[u] < i /\ pending'[u] < i
          BY <1>4, <1>5, <3>1, <3>4, <4>3 DEF Ahead
        <5>2. Ahead(i)'
          BY <1>3, <4>3, <5>1 DEF Ahead
        <5> QED
          BY <3>1, <5>1, <5>2 DEF Told
      <4> QED
        BY <4>1, <4>2, <4>3
    <3>5. CASE read' = read /\ due' = due /\ pending' = pending
      BY <1>2, <1>3, <3>1, <3>5 DEF Told, Ahead
    <3> QED
      BY <1>2, <3>3, <3>4, <3>5
  <2> QED
    BY <1>2, <1>3, <2>1 DEF ViewOK, history
<1> QED
  BY <1>3, <1>6, <1>7, <1>8, <1>9, <1>10, <1>11 DEF IInv

\* The requests of a read are answered.
LEMMA ReadStep ==
  ASSUME IInv, ReadCursor \/ ReadRows \/ \E t \in Here : ReadThread(t)
  PROVE  IInv'
<1> USE NatBound
<1>1. /\ TypeOK /\ LogOK /\ ReadOK /\ FreshOK /\ SnapshotOK /\ BatchOK /\ ViewOK
      /\ read \in ReadType
  BY DEF IInv, TypeOK, ReadType
<1>2. UNCHANGED <<streamVars, view, cursor, pending, due, again, loaded, timer,
                  linkVars, mine, history>>
  BY DEF ReadCursor, ReadRows, ReadThread
<1>3. /\ StreamTypeOK' /\ LogOK' /\ FramesOK' /\ \A u : Of(u)' = Of(u)
      /\ \A i : Unheard(i)' <=> Unheard(i)
      /\ UNCHANGED row /\ UNCHANGED log
  BY <1>2, StreamKept
<1>4. \A i : Ahead(i)' <=> Ahead(i)
  BY <1>2, <1>3 DEF Ahead
<1>5. /\ read' \in ReadType /\ read'.kind = read.kind /\ read'.batch = read.batch
      /\ read'.edited = read.edited /\ read.kind # "none"
      /\ \A t \in Here : read'.got[t].ver \in {read.got[t].ver, row[t]}
  <2>1. CASE ReadCursor
    <3>1. Len(log) \in 0..MaxHead
      BY <1>1, Numbers DEF TypeOK, StreamTypeOK
    <3> QED
      BY <1>1, <2>1, <3>1 DEF ReadCursor, StreamHead, ReadType
  <2>2. CASE ReadRows
    <3> DEFINE got == [t \in Here |-> RowNow(t)]
    <3>1. got \in [Here -> [ver : 0..MaxHead, live : BOOLEAN]]
      BY <1>1, RowTypes
    <3>2. \A t \in Here : got[t].ver = row[t]
      BY DEF RowNow
    <3>3. read' = [read EXCEPT !.stage = "rows", !.got = got] /\ read.kind = "snapshot"
      BY <2>2 DEF ReadRows
    <3> HIDE DEF got
    <3> QED
      BY <1>1, <3>1, <3>2, <3>3 DEF ReadType
  <2>3. ASSUME NEW t \in Here, ReadThread(t)
        PROVE  /\ read' \in ReadType /\ read'.kind = read.kind /\ read'.batch = read.batch
               /\ read'.edited = read.edited /\ read.kind # "none"
               /\ \A u \in Here : read'.got[u].ver \in {read.got[u].ver, row[u]}
    <3> DEFINE r == RowNow(t)
    <3>1. r \in [ver : 0..MaxHead, live : BOOLEAN] /\ r.ver = row[t]
      BY <1>1, RowTypes DEF RowNow
    <3>2. read' = [read EXCEPT !.left = @ \ {t}, !.got[t] = r] /\ read.kind = "threads"
      BY <2>3 DEF ReadThread
    <3> HIDE DEF r
    <3> QED
      BY <1>1, <3>1, <3>2 DEF ReadType
  <2> QED
    BY <2>1, <2>2, <2>3
<1>6. TypeOK'
  BY <1>1, <1>2, <1>3, <1>5 DEF TypeOK, Cursors, ReadType, linkVars, history
<1>7. ReadOK'
  BY <1>1, <1>2, <1>3, <1>5 DEF ReadOK, linkVars
<1>8. \A t \in Here : row[t] \in Nat /\ read'.got[t].ver <= row[t] /\ view[t].ver <= row[t]
  BY <1>1, <1>5, Numbers DEF FreshOK
<1>9. read.kind = "threads" =>
        \A t \in Got' :
             \/ read'.got[t].ver = row[t]
             \/ t \in Got /\ read'.got[t] = read.got[t]
  <2>1. ASSUME read.kind = "threads", NEW t \in Got'
        PROVE  read'.got[t].ver = row[t] \/ (t \in Got /\ read'.got[t] = read.got[t])
    <3>1. PICK u \in Here : ReadThread(u)
      BY <2>1 DEF ReadCursor, ReadRows
    <3>2. read' = [read EXCEPT !.left = @ \ {u}, !.got[u] = RowNow(u)]
      BY <3>1 DEF ReadThread
    <3>3. t \in Here /\ read.batch[t] # 0 /\ t \notin read'.left
      BY <1>5, <2>1 DEF Got
    <3>4. CASE t = u
      BY <1>1, <3>2, <3>4 DEF ReadType, RowNow
    <3>5. CASE t # u
      BY <1>1, <3>2, <3>3, <3>5 DEF ReadType, Got
    <3> QED
      BY <3>4, <3>5
  <2> QED
    BY <2>1
<1>10. read.kind = "snapshot" =>
         \/ read'.stage = "cursor" /\ read'.head = Len(log)
         \/ /\ read.stage = "cursor" /\ read'.stage = "rows" /\ read'.head = read.head
            /\ \A t \in Here : read'.got[t].ver = row[t]
  <2>1. CASE ReadCursor
    BY <1>1, <2>1 DEF ReadCursor, StreamHead, ReadType
  <2>2. CASE ReadRows
    <3> DEFINE got == [t \in Here |-> RowNow(t)]
    <3>2. \A t \in Here : got[t].ver = row[t]
      BY DEF RowNow
    <3>3. read' = [read EXCEPT !.stage = "rows", !.got = got] /\ read.stage = "cursor"
      BY <2>2 DEF ReadRows
    <3> HIDE DEF got
    <3> QED
      BY <1>1, <3>2, <3>3 DEF ReadType
  <2>3. CASE \E t \in Here : ReadThread(t)
    BY <2>3 DEF ReadThread
  <2> QED
    BY <2>1, <2>2, <2>3
<1>11. FreshOK'
  <2>1. \A t \in mine.thread : mine.kind # "none" /\ mine.ver <= row[t]
    BY <1>1 DEF FreshOK
  <2>2. read.kind = "snapshot" /\ read'.stage = "rows" =>
          \A t \in Here : view[t].ver <= read'.got[t].ver
    BY <1>8, <1>10
  <2>3. ~read.edited /\ read.kind = "threads" =>
          \A t \in Got' : view[t].ver <= read'.got[t].ver
    <3>1. ASSUME ~read.edited, read.kind = "threads", NEW t \in Got'
          PROVE  view[t].ver <= read'.got[t].ver
      <4>1. t \in Here
        BY <3>1 DEF Got
      <4>2. read'.got[t].ver = row[t] \/ (t \in Got /\ read'.got[t] = read.got[t])
        BY <1>9, <3>1
      <4> QED
        BY <1>1, <1>8, <3>1, <4>1, <4>2 DEF FreshOK
    <3> QED
      BY <3>1
  <2> QED
    BY <1>2, <1>3, <1>5, <1>8, <2>1, <2>2, <2>3 DEF FreshOK
<1>12. SnapshotOK'
  <2>1. ASSUME read.kind = "snapshot"
        PROVE  /\ cursor <= read'.head /\ read'.head <= Len(log)
               /\ \A t \in Here : \A i \in Of(t) :
                    i > read'.head => i <= pending[t] \/ Ahead(i)
               /\ read'.stage = "rows" => \A t \in Here : \A i \in Of(t) :
                    i <= read'.head => i <= read'.got[t].ver
    <3>1. \A t \in Here : \A i \in Of(t) : i \in Nat /\ i <= Len(log) /\ i <= row[t]
      BY <1>1, Numbers DEF LogOK
    <3>2. Len(log) \in Nat /\ cursor <= Len(log)
      BY <1>1, Numbers DEF ReadOK
    <3>3. CASE read'.stage = "cursor" /\ read'.head = Len(log)
      BY <3>1, <3>2, <3>3
    <3>4. CASE /\ read.stage = "cursor" /\ read'.stage = "rows" /\ read'.head = read.head
               /\ \A t \in Here : read'.got[t].ver = row[t]
      BY <1>1, <2>1, <3>1, <3>4 DEF SnapshotOK
    <3> QED
      BY <1>10, <2>1, <3>3, <3>4
  <2> QED
    BY <1>2, <1>3, <1>4, <1>5, <2>1 DEF SnapshotOK
<1>13. BatchOK'
  <2>1. ASSUME read.kind = "threads", NEW t \in Got', NEW i \in Of(t),
               i > read'.got[t].ver
        PROVE  /\ cursor < i /\ \A u \in Here : read.batch[u] < i
               /\ i <= pending[t] \/ Ahead(i)
    <3>1. t \in Here
      BY <2>1 DEF Got
    <3>2. read'.got[t].ver # row[t]
      BY <1>1, <1>8, <2>1, <3>1, Numbers DEF LogOK
    <3> QED
      BY <1>1, <1>9, <2>1, <3>2 DEF BatchOK
  <2> QED
    BY <1>2, <1>3, <1>4, <1>5, <2>1 DEF BatchOK
<1>14. ViewOK'
  <2>1. \A u, i : Told(u, i)' <=> Told(u, i)
    BY <1>2, <1>4, <1>5 DEF Told
  <2> QED
    BY <1>1, <1>2, <1>3, <1>5, <2>1 DEF ViewOK, history
<1> QED
  BY <1>3, <1>6, <1>7, <1>11, <1>12, <1>13, <1>14 DEF IInv

\* The end of a read leaves nothing of it.
LEMMA FinishIs ==
  ASSUME IInv, NEW asked \in BOOLEAN, Finish(asked), cursor' \in 0..MaxHead
  PROVE  /\ StreamTypeOK' /\ LogOK' /\ FramesOK' /\ \A u : Of(u)' = Of(u)
         /\ \A i : Unheard(i)' <=> Unheard(i)
         /\ UNCHANGED <<row, log, mine>>
         /\ read' \in ReadType /\ read'.kind = "none"
         /\ \A t \in Here : read'.batch[t] = 0 /\ read'.got[t].ver = 0
         /\ after' \in {after, cursor'} /\ after' \in 0..MaxHead
         /\ timer' \in BOOLEAN /\ again' \in BOOLEAN
         /\ polling' \in BOOLEAN /\ retrying' \in BOOLEAN
         /\ link' \in {"first", "connecting", "accepted", "open", "closing", "closed"}
<1>1. TypeOK
  BY DEF IInv
<1>2. UNCHANGED <<streamVars, polling, retrying, mine>> /\ read' = NoRead
  BY DEF Finish
<1>3. /\ StreamTypeOK' /\ LogOK' /\ FramesOK' /\ \A u : Of(u)' = Of(u)
      /\ \A i : Unheard(i)' <=> Unheard(i)
      /\ UNCHANGED <<row, log, mine>>
  BY <1>2, StreamKept
<1>4. /\ read' \in ReadType /\ read'.kind = "none"
      /\ \A t \in Here : read'.batch[t] = 0 /\ read'.got[t].ver = 0
  BY <1>2, ReadTypes DEF NoRead, NoThreads
<1>5. after' \in {after, cursor'} /\ after' \in 0..MaxHead
  <2>1. after' \in {after, cursor'}
    BY DEF Finish, From
  <2> QED
    BY <1>1, <2>1 DEF TypeOK
<1>6. /\ timer' \in BOOLEAN /\ again' \in BOOLEAN
      /\ polling' \in BOOLEAN /\ retrying' \in BOOLEAN
  BY <1>1 DEF Finish, TypeOK
<1>7. link' \in {"first", "connecting", "accepted", "open", "closing", "closed"}
  BY <1>1 DEF Finish, TypeOK
<1> QED
  BY <1>3, <1>4, <1>5, <1>6, <1>7

\* After a read, what is left to show is the view and what tells of the rest.
LEMMA ReadEnds ==
  ASSUME IInv, NEW asked \in BOOLEAN, Finish(asked),
         view' \in [Here -> [ver : 0..MaxHead, listed : BOOLEAN, twin : 0..MaxHead]],
         \A t \in Here : view'[t].ver <= row[t],
         cursor' \in 0..MaxHead, cursor <= cursor', cursor' <= Len(log),
         pending' \in Cursors, \A t \in Here : pending'[t] <= Len(log),
         due' \in BOOLEAN, loaded' \in BOOLEAN, failed' \in BOOLEAN,
         overtaken' \subseteq Here,
         loaded' /\ ~failed' =>
           \A t \in Here \ overtaken' : \A i \in Of(t) :
             i > view'[t].ver =>
               cursor' < i /\ (due' \/ i <= pending'[t] \/ Ahead(i)')
  PROVE  IInv'
<1> USE NatBound
<1>1. TypeOK /\ ReadOK /\ FreshOK
  BY DEF IInv
<1>2. /\ StreamTypeOK' /\ LogOK' /\ FramesOK' /\ \A u : Of(u)' = Of(u)
      /\ \A i : Unheard(i)' <=> Unheard(i)
      /\ UNCHANGED <<row, log, mine>>
      /\ read' \in ReadType /\ read'.kind = "none"
      /\ \A t \in Here : read'.batch[t] = 0 /\ read'.got[t].ver = 0
      /\ after' \in {after, cursor'} /\ after' \in 0..MaxHead
      /\ timer' \in BOOLEAN /\ again' \in BOOLEAN
      /\ polling' \in BOOLEAN /\ retrying' \in BOOLEAN
      /\ link' \in {"first", "connecting", "accepted", "open", "closing", "closed"}
  BY FinishIs
<1>3. TypeOK'
  BY <1>1, <1>2 DEF TypeOK, Cursors, ReadType
<1>4. ReadOK'
  BY <1>1, <1>2, Numbers DEF ReadOK
<1>5. FreshOK'
  <2>1. \A t \in mine.thread : mine.kind # "none" /\ mine.ver <= row[t]
    BY <1>1 DEF FreshOK
  <2>2. \A t \in Here : row[t] \in Nat
    BY <1>1, Numbers
  <2> QED
    BY <1>2, <2>1, <2>2 DEF FreshOK
<1>6. SnapshotOK' /\ BatchOK'
  BY <1>2 DEF SnapshotOK, BatchOK
<1>7. ViewOK'
  <2>1. ASSUME NEW t \in Here, NEW i \in Of(t), due' \/ i <= pending'[t] \/ Ahead(i)'
        PROVE  Told(t, i)'
    <3>1. \A u \in Here : read'.batch[u] < i
      BY <1>1, <1>2, Numbers DEF Of
    <3> QED
      BY <2>1, <3>1 DEF Told
  <2> QED
    BY <1>2, <2>1 DEF ViewOK
<1> QED
  BY <1>2, <1>3, <1>4, <1>5, <1>6, <1>7 DEF IInv

\* A read that failed: it is asked for again, or the view is known to be behind.
LEMMA FailsStep ==
  ASSUME IInv, SnapshotFails \/ ThreadsFail
  PROVE  IInv'
<1> USE NatBound
<1>1. TypeOK /\ LogOK /\ ReadOK /\ FreshOK /\ ViewOK
  BY DEF IInv
<1>2. /\ UNCHANGED <<view, cursor, pending, loaded, overtaken>>
      /\ \/ failed' = TRUE /\ due' = due
         \/ due' = TRUE /\ failed' = failed
  BY DEF SnapshotFails, ThreadsFail
<1>3. PICK asked \in BOOLEAN : Finish(asked)
  <2>1. again \in BOOLEAN
    BY <1>1 DEF TypeOK
  <2> QED
    BY <2>1 DEF SnapshotFails, ThreadsFail
<1>4. /\ view' \in [Here -> [ver : 0..MaxHead, listed : BOOLEAN, twin : 0..MaxHead]]
      /\ cursor' \in 0..MaxHead /\ pending' \in Cursors
      /\ due' \in BOOLEAN /\ loaded' \in BOOLEAN /\ failed' \in BOOLEAN
      /\ overtaken' \subseteq Here
  BY <1>1, <1>2 DEF TypeOK
<1>5. /\ \A t \in Here : view'[t].ver <= row[t]
      /\ cursor <= cursor' /\ cursor' <= Len(log)
      /\ \A t \in Here : pending'[t] <= Len(log)
  BY <1>1, <1>2, Numbers DEF FreshOK, ReadOK
<1>6. loaded' /\ ~failed' =>
        \A t \in Here \ overtaken' : \A i \in Of(t) :
          i > view'[t].ver =>
            cursor' < i /\ (due' \/ i <= pending'[t] \/ Ahead(i)')
  BY <1>1, <1>2 DEF ViewOK
<1> QED
  BY <1>3, <1>4, <1>5, <1>6, ReadEnds

\* A snapshot becomes the view, and its cursor the place to reconnect from.
LEMMA SnapshotStep ==
  ASSUME IInv, SnapshotArrives
  PROVE  IInv'
<1> USE NatBound
<1>1. /\ TypeOK /\ LogOK /\ ReadOK /\ FreshOK /\ SnapshotOK /\ ViewOK
      /\ read.kind = "snapshot" /\ read.stage = "rows" /\ pending' = pending
      /\ again \in BOOLEAN
  BY DEF IInv, SnapshotArrives, TypeOK
<1>2. CASE Outdated
  <2>1. UNCHANGED <<view, cursor, loaded, failed, overtaken>> /\ due' = TRUE /\ Finish(TRUE)
    BY <1>2 DEF SnapshotArrives
  <2>2. /\ view' \in [Here -> [ver : 0..MaxHead, listed : BOOLEAN, twin : 0..MaxHead]]
        /\ cursor' \in 0..MaxHead /\ pending' \in Cursors
        /\ due' \in BOOLEAN /\ loaded' \in BOOLEAN /\ failed' \in BOOLEAN
        /\ overtaken' \subseteq Here
    BY <1>1, <2>1 DEF TypeOK
  <2>3. /\ \A t \in Here : view'[t].ver <= row[t]
        /\ cursor <= cursor' /\ cursor' <= Len(log)
        /\ \A t \in Here : pending'[t] <= Len(log)
    BY <1>1, <2>1, Numbers DEF FreshOK, ReadOK
  <2>4. loaded' /\ ~failed' =>
          \A t \in Here \ overtaken' : \A i \in Of(t) :
            i > view'[t].ver =>
              cursor' < i /\ (due' \/ i <= pending'[t] \/ Ahead(i)')
    BY <1>1, <2>1 DEF ViewOK
  <2> QED
    BY <2>1, <2>2, <2>3, <2>4, ReadEnds
<1>3. CASE ~Outdated
  <2> DEFINE shown == [t \in Here |-> Entry(read.got[t].ver, read.got[t].live, 0)]
  <2>1. /\ cursor' = read.head /\ loaded' = TRUE /\ view' = shown
        /\ failed' = FALSE /\ overtaken' = {} /\ due' = due /\ Finish(again)
    BY <1>3 DEF SnapshotArrives
  <2>2. /\ shown \in [Here -> [ver : 0..MaxHead, listed : BOOLEAN, twin : 0..MaxHead]]
        /\ \A t \in Here : shown[t].ver = read.got[t].ver
    BY <1>1 DEF TypeOK, Entry
  <2> HIDE DEF shown
  <2>3. /\ view' \in [Here -> [ver : 0..MaxHead, listed : BOOLEAN, twin : 0..MaxHead]]
        /\ cursor' \in 0..MaxHead /\ pending' \in Cursors
        /\ due' \in BOOLEAN /\ loaded' \in BOOLEAN /\ failed' \in BOOLEAN
        /\ overtaken' \subseteq Here
    BY <1>1, <2>1, <2>2 DEF TypeOK
  <2>4. /\ \A t \in Here : view'[t].ver <= row[t]
        /\ cursor <= cursor' /\ cursor' <= Len(log)
        /\ \A t \in Here : pending'[t] <= Len(log)
    BY <1>1, <2>1, <2>2 DEF FreshOK, ReadOK, SnapshotOK
  <2>5. ASSUME NEW t \in Here, NEW i \in Of(t), i > view'[t].ver
        PROVE  cursor' < i /\ (due' \/ i <= pending'[t] \/ Ahead(i)')
    <3>1. /\ i \in Nat /\ read.head \in Nat /\ read.got[t].ver \in Nat
          /\ view'[t].ver = read.got[t].ver
      BY <1>1, <2>1, <2>2, Numbers
    <3>2. i > read.head
      BY <1>1, <2>5, <3>1 DEF SnapshotOK
    <3>3. i <= pending[t] \/ Ahead(i)
      BY <1>1, <3>2 DEF SnapshotOK
    <3>4. Unheard(i)' <=> Unheard(i)
      BY <1>1, <2>1, <2>3, FinishIs
    <3>5. Ahead(i)' <=> Ahead(i)
      BY <1>1, <3>4 DEF Ahead
    <3> QED
      BY <1>1, <2>1, <3>1, <3>2, <3>3, <3>5
  <2> QED
    BY <1>1, <2>1, <2>3, <2>4, <2>5, ReadEnds
<1> QED
  BY <1>2, <1>3

\* A batch of threads becomes part of the view, and the cursor passes it only
\* where nothing before it is left to show.
LEMMA ThreadsStep ==
  ASSUME IInv, ThreadsArrive
  PROVE  IInv'
<1> USE NatBound
<1> DEFINE batch == {t \in Here : read.batch[t] # 0}
           shown(t) == Replaced(view[t], read.got[t])
           reached == {c \in 0..MaxHead :
                         c = cursor \/ \E t \in batch : c = read.batch[t]}
<1>1. /\ TypeOK /\ LogOK /\ ReadOK /\ FreshOK /\ BatchOK /\ ViewOK
      /\ read.kind = "threads" /\ read.left = {}
      /\ UNCHANGED <<due, loaded, failed>>
      /\ again \in BOOLEAN
  BY DEF IInv, ThreadsArrive, TypeOK
<1>2. \A t \in Here :
           /\ pending[t] \in Nat /\ read.batch[t] \in Nat
           /\ pending[t] <= Len(log) /\ read.batch[t] <= Len(log)
  BY <1>1, Numbers DEF ReadOK
<1>3. CASE Outdated
  <2>1. /\ pending' = [t \in Here |-> Later(pending[t], read.batch[t])]
        /\ UNCHANGED <<view, cursor, overtaken>> /\ Finish(TRUE)
    BY <1>3 DEF ThreadsArrive
  <2>2. \A t \in Here :
             /\ pending'[t] \in {pending[t], read.batch[t]}
             /\ pending'[t] >= pending[t]
             /\ pending'[t] >= read.batch[t]
    BY <1>2, <2>1 DEF Later
  <2>3. pending' \in Cursors
    <3>1. \A t \in Here : pending[t] \in 0..MaxHead /\ read.batch[t] \in 0..MaxHead
      BY <1>1 DEF TypeOK, Cursors
    <3>2. \A t \in Here : Later(pending[t], read.batch[t]) \in 0..MaxHead
      BY <3>1 DEF Later
    <3> QED
      BY <2>1, <3>2 DEF Cursors
  <2>4. /\ view' \in [Here -> [ver : 0..MaxHead, listed : BOOLEAN, twin : 0..MaxHead]]
        /\ cursor' \in 0..MaxHead
        /\ due' \in BOOLEAN /\ loaded' \in BOOLEAN /\ failed' \in BOOLEAN
        /\ overtaken' \subseteq Here
    BY <1>1, <2>1 DEF TypeOK
  <2>5. /\ \A t \in Here : view'[t].ver <= row[t]
        /\ cursor <= cursor' /\ cursor' <= Len(log)
    BY <1>1, <2>1, Numbers DEF FreshOK, ReadOK
  <2>6. \A t \in Here : pending'[t] <= Len(log)
    BY <1>2, <2>2
  <2>7. ASSUME loaded, ~failed, NEW t \in Here \ overtaken, NEW i \in Of(t),
               i > view[t].ver
        PROVE  cursor < i /\ (due \/ i <= pending'[t] \/ Ahead(i)')
    <3>1. cursor < i /\ Told(t, i) /\ i \in Nat
      BY <1>1, <2>7, Numbers DEF ViewOK
    <3>2. CASE due \/ i <= pending[t] \/ i <= read.batch[t]
      BY <1>2, <2>2, <3>1, <3>2
    <3>3. CASE Ahead(i) /\ \A u \in Here : read.batch[u] < i
      <4>1. \A u \in Here : pending'[u] < i
        BY <2>2, <3>3 DEF Ahead
      <4>2. Unheard(i)' <=> Unheard(i)
        BY <2>1, <2>4, FinishIs
      <4> QED
        BY <3>1, <3>3, <4>1, <4>2 DEF Ahead
    <3> QED
      BY <1>1, <3>1, <3>2, <3>3 DEF Told
  <2>8. loaded' /\ ~failed' =>
          \A t \in Here \ overtaken' : \A i \in Of(t) :
            i > view'[t].ver =>
              cursor' < i /\ (due' \/ i <= pending'[t] \/ Ahead(i)')
    BY <1>1, <2>1, <2>7
  <2> QED
    BY <2>1, <2>3, <2>4, <2>5, <2>6, <2>8, ReadEnds
<1>4. CASE ~Outdated
  <2>1. /\ view' = [t \in Here |-> IF t \in batch THEN shown(t) ELSE view[t]]
        /\ \E c \in reached : (\A d \in reached : d <= c) /\ cursor' = c
        /\ overtaken' = overtaken \ batch
        /\ Finish(again) /\ pending' = pending
    BY <1>4 DEF ThreadsArrive
  <2>2. \A t \in Here :
             /\ shown(t) \in [ver : 0..MaxHead, listed : BOOLEAN, twin : 0..MaxHead]
             /\ shown(t).ver = read.got[t].ver
    BY <1>1 DEF TypeOK, Replaced, Entry
  <2>3. /\ cursor' \in 0..MaxHead /\ cursor <= cursor'
        /\ cursor' = cursor \/ \E t \in batch : cursor' = read.batch[t]
    <3>1. cursor \in reached
      BY <1>1 DEF TypeOK
    <3> QED
      BY <2>1, <3>1
  <2> HIDE DEF shown, reached
  <2>4. /\ view' \in [Here -> [ver : 0..MaxHead, listed : BOOLEAN, twin : 0..MaxHead]]
        /\ \A t \in Here : view'[t].ver =
              IF t \in batch THEN read.got[t].ver ELSE view[t].ver
    BY <1>1, <2>1, <2>2 DEF TypeOK
  <2>5. /\ pending' \in Cursors
        /\ due' \in BOOLEAN /\ loaded' \in BOOLEAN /\ failed' \in BOOLEAN
        /\ overtaken' \subseteq Here
    BY <1>1, <2>1 DEF TypeOK
  <2>6. /\ \A t \in Here : view'[t].ver <= row[t]
        /\ \A t \in Here : pending'[t] <= Len(log)
    BY <1>1, <1>2, <2>1, <2>4 DEF FreshOK
  <2>7. cursor' <= Len(log)
    BY <1>1, <1>2, <2>3 DEF ReadOK
  <2>8. ASSUME loaded, ~failed, NEW t \in Here \ overtaken', NEW i \in Of(t),
               i > view'[t].ver
        PROVE  cursor' < i /\ (due \/ i <= pending[t] \/ Ahead(i)')
    <3>1. i \in Nat \ {0}
      BY <1>1, Numbers DEF Of
    <3>2. (Unheard(i)' <=> Unheard(i)) /\ (Ahead(i)' <=> Ahead(i))
      <4>1. Unheard(i)' <=> Unheard(i)
        BY <1>1, <2>1, <2>3, FinishIs
      <4> QED
        BY <2>1, <4>1 DEF Ahead
    <3>3. CASE t \in batch
      <4>1. t \in Got /\ i > read.got[t].ver
        BY <1>1, <2>4, <2>8, <3>3 DEF Got
      <4>2. /\ cursor < i /\ \A u \in Here : read.batch[u] < i
            /\ i <= pending[t] \/ Ahead(i)
        BY <1>1, <4>1 DEF BatchOK
      <4> QED
        BY <2>3, <3>2, <4>2
    <3>4. CASE t \notin batch
      <4>1. t \notin overtaken /\ i > view[t].ver
        BY <2>1, <2>4, <2>8, <3>4
      <4>2. /\ cursor < i /\ Told(t, i)
            /\ i <= read.batch[t] \/ \A u \in Here : read.batch[u] < i
        BY <1>1, <2>8, <4>1 DEF ViewOK
      <4>3. read.batch[t] = 0
        BY <3>4
      <4>4. ~(i <= read.batch[t])
        BY <3>1, <4>3
      <4>5. cursor' < i
        BY <2>3, <4>2, <4>4
      <4>6. due \/ i <= pending[t] \/ Ahead(i)
        BY <1>1, <4>2, <4>4 DEF Told
      <4> QED
        BY <3>2, <4>5, <4>6
    <3> QED
      BY <3>3, <3>4
  <2>9. loaded' /\ ~failed' =>
          \A t \in Here \ overtaken' : \A i \in Of(t) :
            i > view'[t].ver =>
              cursor' < i /\ (due' \/ i <= pending'[t] \/ Ahead(i)')
    BY <1>1, <2>1, <2>8
  <2> HIDE DEF batch
  <2> QED
    BY <1>1, <2>1, <2>3, <2>4, <2>5, <2>6, <2>7, <2>9, ReadEnds
<1> QED
  BY <1>3, <1>4
-----------------------------------------------------------------------------
(* Theorems.                                                               *)

\* Every step of the viewer and its project keeps the invariant.
LEMMA InvKept ==
  ASSUME IInv, [Next]_vars
  PROVE  IInv'
<1>1. CASE Poll \/ Refresh \/ Connect \/ Open \/ OwnFails
  BY <1>1, AskStep DEF Poll, Refresh
<1>2. CASE TimerFires
  BY <1>2, TimerStep
<1>3. CASE ReadCursor \/ ReadRows \/ \E t \in Here : ReadThread(t)
  BY <1>3, ReadStep
<1>4. CASE SnapshotArrives
  BY <1>4, SnapshotStep
<1>5. CASE SnapshotFails \/ ThreadsFail
  BY <1>5, FailsStep
<1>6. CASE ThreadsArrive
  BY <1>6, ThreadsStep
<1>7. CASE Accepted \/ ResyncArrives \/ Close
  BY <1>7, ConnectionStep
<1>8. CASE Change
  BY <1>8, ChangeStep
<1>9. CASE Server /\ UNCHANGED clientVars
  BY <1>9, ServerStep
<1>10. CASE \E t \in Thread, removes \in BOOLEAN : OthersWrite(t, removes)
  BY <1>10, WriteStep
<1>11. CASE \E t \in Own, removes \in BOOLEAN : OwnWrite(t, removes)
  BY <1>11, WriteStep, NatBound
<1>12. CASE \E t \in Here : ApplyOwn(t)
  BY <1>12, ApplyOwnStep
<1>13. CASE UNCHANGED vars
  <2>1. /\ UNCHANGED streamVars /\ UNCHANGED clientVars
    BY <1>13 DEF vars
  <2>2. /\ StreamTypeOK' /\ LogOK' /\ FramesOK' /\ \A t : Of(t)' = Of(t)
        /\ \A i : Unheard(i)' <=> Unheard(i)
        /\ UNCHANGED <<row, log>>
    BY <2>1, StreamKept
  <2>3. UNCHANGED <<view, cursor, read, pending, due, again, loaded, timer, polling,
                    retrying, link, after, mine, failed, overtaken>>
    BY <2>1 DEF clientVars, readVars, linkVars, history
  <2>4. TypeOK'
    BY <2>2, <2>3 DEF IInv, TypeOK, Cursors
  <2>5. (timer' => read.kind = "none") /\ after' <= cursor
    BY <2>3 DEF IInv, ReadOK
  <2>6. mine' \in {mine, NoWrite} /\ (due => due')
    BY <2>3
  <2>7. FramesOK' /\ \A i \in 1..Len(log) : cursor < i /\ Unheard(i) => Unheard(i)'
    BY <2>2
  <2>8. UNCHANGED <<row, log, view, cursor, read, pending, loaded, failed, overtaken>>
    BY <2>2, <2>3
  <2> QED
    BY <2>4, <2>5, <2>6, <2>7, <2>8, ClientKept
<1> QED
  BY <1>1, <1>2, <1>3, <1>4, <1>5, <1>6, <1>7, <1>8, <1>9, <1>10, <1>11, <1>12, <1>13
     DEF Next

\* The strengthening of the viewer's invariants that its steps keep.
THEOREM Invariance == Spec => []IInv
<1>1. Init => IInv
  BY InvInit
<1>2. IInv /\ [Next]_vars => IInv'
  BY InvKept
<1> QED
  BY <1>1, <1>2, PTL DEF Spec

\* The state of a viewer and of its project's stream has its types: no cursor
\* runs ahead of the log, and only threads of the project are read and shown.
THEOREM TypeCorrect == Spec => []TypeOK
<1>1. IInv => TypeOK
  BY DEF IInv
<1> QED
  BY <1>1, Invariance, PTL

\* Where the last snapshot read did not fail, what a reconnect does not replay
\* is shown: reads that cross edits, batches that fail, sockets that drop and
\* NOTIFYs that are lost never carry the cursor past a change not read.
THEOREM CursorNeverPasses == Spec => []CursorCoversReads
<1>1. IInv => CursorCoversReads
  <2> SUFFICES ASSUME IInv PROVE CursorCoversReads
    OBVIOUS
  <2>1. ASSUME loaded, ~failed, NEW t \in Here, t \notin overtaken,
               NEW i \in Changes(t, cursor)
        PROVE  i <= view[t].ver
    <3>1. cursor \in Nat /\ Len(log) \in Nat /\ view[t].ver \in Nat
          /\ cursor <= Len(log)
      BY Numbers DEF IInv, ReadOK
    <3>2. i \in Of(t) /\ i <= cursor /\ i \in Nat
      BY <2>1, <3>1 DEF Changes, Of
    <3>3. i > view[t].ver => cursor < i
      BY <2>1, <3>2 DEF IInv, ViewOK
    <3> QED
      BY <3>1, <3>2, <3>3
  <2> QED
    BY <2>1 DEF CursorCoversReads, Covered
<1> QED
  BY <1>1, Invariance, PTL

\* Where a step takes a thread back: the own response does, and it is noted.
Forward ==
  \A t \in Here : view'[t].ver < view[t].ver =>
    t \in mine.thread /\ mine'.kind = "none" /\ t \in overtaken'

\* Threads stop being overtaken only by a read.
LEMMA ViewSteps ==
  ASSUME IInv, IInv', [Next]_vars
  PROVE  Forward
<1>1. /\ TypeOK /\ FreshOK /\ overtaken \subseteq Here
      /\ \A t \in Here : view[t].ver \in Nat /\ view'[t].ver \in Nat
  <2>1. \A t \in Here : view[t].ver \in Nat
    BY Numbers DEF IInv
  <2>2. \A t \in Here : view'[t].ver \in Nat
    BY NatBound DEF IInv, TypeOK
  <2> QED
    BY <2>1, <2>2 DEF IInv, TypeOK
<1>2. CASE view' = view
  BY <1>1, <1>2 DEF Forward
<1>3. CASE SnapshotArrives /\ view' # view
  <2>1. ~Outdated
    BY <1>3 DEF SnapshotArrives
  <2>2. /\ ~read.edited /\ read.kind = "snapshot" /\ read.stage = "rows"
        /\ view' = [t \in Here |-> Entry(read.got[t].ver, read.got[t].live, 0)]
    BY <1>3, <2>1 DEF SnapshotArrives, Outdated
  <2>3. \A t \in Here : view'[t].ver = read.got[t].ver
    BY <2>2 DEF Entry
  <2> QED
    BY <1>1, <2>2, <2>3 DEF FreshOK, Forward
<1>4. CASE ThreadsArrive /\ view' # view
  <2> DEFINE batch == {t \in Here : read.batch[t] # 0}
             shown(t) == Replaced(view[t], read.got[t])
  <2>1. ~Outdated
    BY <1>4 DEF ThreadsArrive
  <2>2. view' = [t \in Here |-> IF t \in batch THEN shown(t) ELSE view[t]]
    BY <1>4, <2>1 DEF ThreadsArrive
  <2>3. \A t : shown(t).ver = read.got[t].ver
    BY DEF Replaced, Entry
  <2>4. ~read.edited /\ read.kind = "threads" /\ read.left = {}
    BY <1>4, <2>1 DEF ThreadsArrive, Outdated
  <2> HIDE DEF shown
  <2>5. ASSUME NEW t \in Here
        PROVE  \/ view'[t].ver = view[t].ver
               \/ t \in Got /\ view'[t].ver = read.got[t].ver
    <3>1. CASE t \in batch
      BY <2>2, <2>3, <2>4, <3>1 DEF Got
    <3>2. CASE t \notin batch
      BY <2>2, <3>2
    <3> QED
      BY <3>1, <3>2
  <2>6. \A t \in Got : view[t].ver <= read.got[t].ver
    BY <1>1, <2>4 DEF FreshOK
  <2> QED
    BY <1>1, <2>5, <2>6 DEF Forward
<1>5. ASSUME NEW t \in Here, ApplyOwn(t) PROVE Forward
  <2>1. t \in mine.thread /\ mine'.kind = "none"
    BY <1>5 DEF ApplyOwn, NoWrite
  <2>2. \A u \in Here : u # t => view'[u] = view[u]
    BY <1>1, <1>5 DEF ApplyOwn, TypeOK
  <2>3. view'[t].ver < view[t].ver => t \in overtaken'
    BY <1>1, <1>5 DEF ApplyOwn, TypeOK
  <2> QED
    BY <1>1, <2>1, <2>2, <2>3 DEF Forward
<1>6. \/ view' = view \/ SnapshotArrives \/ ThreadsArrive
      \/ \E t \in Here : ApplyOwn(t)
  BY DEF Next, vars, clientVars, Poll, Refresh, ScheduleRefresh, TimerFires,
         ReadCursor, ReadRows, ReadThread, SnapshotFails, ThreadsFail, Connect,
         Accepted, Open, Change, ResyncArrives, Close, OthersWrite, OwnWrite,
         OwnFails
<1> QED
  BY <1>2, <1>3, <1>4, <1>5, <1>6

\* No read takes a thread back: only the response to an own write that comes in
\* late does.
THEOREM ReadsNeverGoBack == Spec => ReadsMoveForward
<1> DEFINE Moves == \A t \in Here : view'[t].ver < view[t].ver
                                      => t \in mine.thread /\ mine'.kind = "none"
<1>1. IInv /\ IInv' /\ [Next]_vars => [Moves]_vars
  BY ViewSteps DEF Forward
<1>2. ReadsMoveForward <=> [][Moves]_vars
  BY DEF ReadsMoveForward
<1> HIDE DEF Moves
<1> QED
  BY <1>1, <1>2, Invariance, PTL DEF Spec

\* What a viewer shows follows the server as FollowsServer says: it shows states
\* the threads were in and moves to later ones, whichever of a snapshot, a batch
\* of threads, a frame and an own response comes first.
THEOREM ImplementsFollowsServer == Spec => ImplementsFollower
<1> DEFINE latest == [t \in Here |-> row[t] + 1]
           shown == [t \in Here |-> IF view[t].ver = 0 \/ t \in overtaken
                                      THEN 0 ELSE view[t].ver + 1]
<1>1. Init => Follower!Init
  BY NatBound DEF Init, StreamInit, Entry, Follower!Init
<1>2. ASSUME IInv, IInv', [Next]_vars
      PROVE  [Follower!Next]_(Follower!vars)
  <2>1. /\ \A t \in Here : /\ t \in Thread
                           /\ view[t].ver \in Nat /\ row[t] \in Nat
                           /\ view'[t].ver \in Nat /\ row'[t] \in Nat
                           /\ view'[t].ver <= row'[t]
      /\ row \in [Thread -> 0..MaxHead] /\ Len(log) \in Nat
      /\ \A t \in Thread : row[t] \in Nat /\ row[t] <= Len(log)
    <3>1. \A t \in Here : /\ t \in Thread
                          /\ view'[t].ver \in Nat /\ row'[t] \in Nat
                          /\ view'[t].ver <= row'[t]
      BY <1>2, NatBound DEF IInv, TypeOK, StreamTypeOK, FreshOK
    <3>2. \A t \in Here : view[t].ver \in Nat /\ row[t] \in Nat
      BY <1>2, Numbers DEF IInv
    <3>3. /\ row \in [Thread -> 0..MaxHead] /\ Len(log) \in Nat
          /\ \A t \in Thread : row[t] \in Nat /\ row[t] <= Len(log)
      BY <1>2, Numbers DEF IInv, TypeOK, StreamTypeOK, LogOK
    <3> QED
      BY <3>1, <3>2, <3>3
  <2>2. CASE \E t \in Thread, removes \in BOOLEAN :
               Write(t, removes) /\ UNCHANGED <<view, overtaken>>
    <3>1. PICK t \in Thread : /\ row' = [row EXCEPT ![t] = Len(log) + 1]
                              /\ UNCHANGED <<view, overtaken>>
      BY <2>2 DEF Write, StreamHead
    <3>2. shown' = shown
      BY <3>1
    <3>3. CASE t \in Here
      <4>1. row'[t] = Len(log) + 1 /\ \A u \in Here : u # t => row'[u] = row[u]
        BY <2>1, <3>1
      <4>2. latest'[t] = row'[t] + 1 /\ latest[t] = row[t] + 1
        BY <3>3
      <4>3. latest'[t] > latest[t]
        BY <2>1, <3>3, <4>1, <4>2
      <4>4. latest' = [latest EXCEPT ![t] = latest'[t]]
        BY <3>3, <4>1
      <4> QED
        BY <3>2, <3>3, <4>3, <4>4 DEF Follower!Next, Follower!Change
    <3>4. CASE t \notin Here
      <4>1. \A u \in Here : row'[u] = row[u]
        BY <2>1, <3>1, <3>4
      <4>2. latest' = latest
        BY <4>1
      <4> QED
        BY <3>2, <4>2 DEF Follower!vars
    <3> QED
      BY <3>3, <3>4
  <2>3. CASE /\ UNCHANGED row
             /\ \A t \in Here : \/ t \in overtaken \/ t \in overtaken'
                                \/ view[t].ver <= view'[t].ver
    <3>1. latest' = latest
      BY <2>3
    <3>2. ASSUME NEW t \in Here
          PROVE  /\ shown[t] \in Nat /\ shown'[t] \in Nat /\ latest[t] \in Nat
                 /\ shown'[t] = 0 \/ (shown[t] <= shown'[t] /\ shown'[t] <= latest[t])
      <4>1. row'[t] = row[t]
        BY <2>3
      <4> QED
        BY <2>1, <2>3, <4>1
    <3>3. shown' \in [Here -> Nat]
      BY <3>2
    <3> HIDE DEF shown, latest
    <3>4. \A t \in Here : shown'[t] = 0 \/ shown'[t] \in shown[t]..latest[t]
      BY <3>2
    <3> QED
      BY <3>1, <3>3, <3>4 DEF Follower!Next, Follower!Show, shown, latest
  <2>4. \/ UNCHANGED row
        \/ \E t \in Thread, removes \in BOOLEAN :
             Write(t, removes) /\ UNCHANGED <<view, overtaken>>
    <3>1. CASE \/ \E t \in Thread, removes \in BOOLEAN : OthersWrite(t, removes)
               \/ \E t \in Own, removes \in BOOLEAN : OwnWrite(t, removes)
      <4>1. Own \subseteq Thread
        BY ScopeAssumption
      <4> QED
        BY <3>1, <4>1 DEF OthersWrite, OwnWrite, clientVars, history
    <3>2. CASE SnapshotArrives \/ SnapshotFails \/ ThreadsArrive \/ ThreadsFail
      <4>1. ASSUME NEW asked, Finish(asked) PROVE UNCHANGED row
        BY <4>1 DEF Finish, streamVars
      <4>2. \E asked \in {TRUE, again} : Finish(asked)
        BY <3>2 DEF SnapshotArrives, SnapshotFails, ThreadsArrive, ThreadsFail
      <4> QED
        BY <4>1, <4>2
    <3>3. CASE \/ Poll \/ Refresh \/ TimerFires \/ ReadCursor \/ ReadRows
               \/ \E t \in Here : ReadThread(t)
               \/ Connect \/ Open \/ OwnFails \/ \E t \in Here : ApplyOwn(t)
               \/ UNCHANGED vars
      BY <3>3 DEF Poll, Refresh, ScheduleRefresh, TimerFires, ReadCursor, ReadRows,
                  ReadThread, Connect, Open, OwnFails, ApplyOwn, vars, streamVars
    <3>4. CASE Accepted \/ Change \/ ResyncArrives \/ Close \/ Server
      BY <3>4 DEF Accepted, Accept, Change, ResyncArrives, Close, Hangup, Server,
                  Replay, Woken, Check
    <3> QED
      BY <1>2, <3>1, <3>2, <3>3, <3>4 DEF Next
  <2>5. \A t \in Here : view'[t].ver < view[t].ver => t \in overtaken'
    BY <1>2, ViewSteps DEF Forward
  <2> QED
    BY <2>1, <2>2, <2>3, <2>4, <2>5
<1> QED
  BY <1>1, <1>2, InvKept, Invariance, PTL DEF Spec, ImplementsFollower, Follower!Spec
-----------------------------------------------------------------------------
(* A viewer at rest.                                                       *)

\* What the viewer asked for stays armed, and a first snapshot stays due.
LEMMA AskedKept ==
  ASSUME AskedOK, LoadOK, TypeOK, [Next]_vars
  PROVE  AskedOK' /\ LoadOK'
<1> USE DEF AskedOK, LoadOK
<1>1. ASSUME UNCHANGED <<pending, due, again, loaded, timer, failed>>,
             read'.kind = read.kind
      PROVE  AskedOK' /\ LoadOK'
  BY <1>1 DEF InFlight, NoThreads
<1>2. CASE ReadCursor \/ ReadRows \/ \E t \in Here : ReadThread(t)
  <2>1. read'.kind = read.kind
    BY <1>2 DEF ReadCursor, ReadRows, ReadThread, TypeOK
  <2>2. UNCHANGED <<pending, due, again, loaded, timer, failed>>
    BY <1>2 DEF ReadCursor, ReadRows, ReadThread, history
  <2> QED
    BY <1>1, <2>1, <2>2
<1>3. CASE \/ Connect \/ Accepted \/ Close \/ OwnFails \/ UNCHANGED vars
           \/ Server /\ UNCHANGED clientVars
           \/ \E t \in Thread, removes \in BOOLEAN : OthersWrite(t, removes)
           \/ \E t \in Own, removes \in BOOLEAN : OwnWrite(t, removes)
  <2>1. UNCHANGED <<readVars, history>>
    BY <1>3 DEF Connect, Accepted, Close, OwnFails, vars, clientVars, OthersWrite,
                OwnWrite
  <2> QED
    BY <1>1, <2>1 DEF readVars, history
<1>4. ASSUME NEW t \in Here, ApplyOwn(t) PROVE AskedOK' /\ LoadOK'
  <2>1. UNCHANGED <<pending, due, again, loaded, timer, failed>>
    BY <1>4 DEF ApplyOwn
  <2>2. read' \in {read, [read EXCEPT !.edited = TRUE]}
    BY <1>4 DEF ApplyOwn
  <2>3. read'.kind = read.kind
    BY <2>2 DEF TypeOK
  <2> QED
    BY <1>1, <2>1, <2>3
<1>5. CASE Poll \/ Refresh \/ Open \/ ResyncArrives
  <2>1. due' = TRUE /\ Arm /\ UNCHANGED <<read, pending, loaded, failed>>
    BY <1>5 DEF Poll, Refresh, ScheduleRefresh, Open, ResyncArrives, history
  <2> QED
    BY <2>1 DEF Arm, InFlight
<1>6. CASE Change
  <2>1. UNCHANGED <<read, due, loaded, failed>>
        /\ (Arm \/ UNCHANGED <<pending, again, timer>>)
    BY <1>6 DEF Change, history
  <2> QED
    BY <2>1 DEF Arm, InFlight, NoThreads
<1>7. CASE TimerFires
  <2>1. due' = FALSE /\ pending' = NoThreads /\ UNCHANGED <<loaded, failed>>
    <3>1. due \in BOOLEAN /\ loaded \in BOOLEAN
      BY DEF TypeOK
    <3> QED
      BY <1>7, <3>1 DEF TimerFires, history
  <2>2. ~loaded => read' = Snapshot
    BY <1>7 DEF TimerFires
  <2>3. Snapshot.kind = "snapshot"
    BY DEF Snapshot, NoRead
  <2> QED
    BY <2>1, <2>2, <2>3 DEF NoThreads
<1>8. ASSUME NEW asked \in BOOLEAN, Finish(asked),
             asked = TRUE \/ (asked = again /\ UNCHANGED <<due, pending>>)
      PROVE  AskedOK'
  <2>1. timer' = (timer \/ asked)
    BY <1>8 DEF Finish
  <2>2. CASE asked = TRUE
    BY <2>1, <2>2
  <2>3. CASE asked = again /\ UNCHANGED <<due, pending>>
    BY <2>1, <2>3 DEF NoThreads
  <2> QED
    BY <1>8, <2>2, <2>3
<1>9. CASE SnapshotArrives \/ SnapshotFails \/ ThreadsFail
  <2>1. AskedOK'
    <3>1. \/ Finish(TRUE)
          \/ Finish(again) /\ UNCHANGED <<due, pending>>
      BY <1>9 DEF SnapshotArrives, SnapshotFails, ThreadsFail
    <3>2. TRUE \in BOOLEAN /\ again \in BOOLEAN
      BY DEF TypeOK
    <3> QED
      BY <1>8, <3>1, <3>2
  <2>2. due' = TRUE \/ loaded' = TRUE \/ failed' = TRUE
    BY <1>9 DEF SnapshotArrives, SnapshotFails, ThreadsFail
  <2> QED
    BY <2>1, <2>2
<1>10. CASE ThreadsArrive
  <2>1. read.kind = "threads" /\ UNCHANGED <<due, loaded, failed>>
    BY <1>10 DEF ThreadsArrive
  <2>2. Finish(TRUE) \/ (Finish(again) /\ UNCHANGED pending)
    BY <1>10 DEF ThreadsArrive
  <2> QED
    BY <2>1, <2>2 DEF Finish, NoThreads
<1> QED
  BY <1>2, <1>3, <1>4, <1>5, <1>6, <1>7, <1>8, <1>9, <1>10 DEF Next

\* A step of the viewer that leaves the stream alone opens no connection.
LEMMA OpenKept ==
  ASSUME OpenOK, CheckOK, RowOK, UNCHANGED streamVars,
         \/ link' = link \/ link' \notin {"accepted", "open"}
         \/ link = "accepted" /\ link' = "open"
  PROVE  OpenOK' /\ CheckOK' /\ RowOK'
  BY DEF OpenOK, CheckOK, RowOK, Of, streamVars

\* A write is the last change of its thread.
LEMMA RowKept ==
  ASSUME TypeOK, RowOK, CheckOK, NEW t \in Thread, NEW removes \in BOOLEAN,
         Write(t, removes)
  PROVE  RowOK' /\ CheckOK'
<1>1. /\ log \in Seq(Thread) /\ Len(log) \in Nat /\ row \in [Thread -> 0..MaxHead]
      /\ log' = Append(log, t) /\ row' = [row EXCEPT ![t] = Len(log) + 1]
      /\ UNCHANGED <<socket, checked>> /\ wake \in BOOLEAN
      /\ wake' \in {wake, wake \/ socket.open}
  BY DEF TypeOK, StreamTypeOK, Write, StreamHead
<1>2. Len(log') = Len(log) + 1 /\ log'[Len(log) + 1] = t
      /\ \A i \in 1..Len(log) : log'[i] = log[i]
  BY <1>1
<1>3. \A u \in Thread : Of(u) \subseteq Of(u)'
  BY <1>1, <1>2 DEF Of
<1>4. row'[t] \in Of(t)'
  BY <1>1, <1>2 DEF Of
<1>5. RowOK'
  BY <1>1, <1>3, <1>4 DEF RowOK
<1>6. CheckOK'
  BY <1>1, <1>2 DEF CheckOK
<1> QED
  BY <1>5, <1>6

\* The handler ends only behind a resync and waits only with all of the log
\* sent; the check wakes it for whatever came since its last look.
LEMMA ServerKept ==
  ASSUME IInv, OpenOK, CheckOK, RowOK, Server, UNCHANGED clientVars
  PROVE  OpenOK' /\ CheckOK' /\ RowOK'
<1> USE NatBound
<1>1. /\ TypeOK /\ StreamTypeOK /\ FramesOK /\ socket.cursor \in Nat
      /\ Len(log) \in Nat /\ UNCHANGED <<row, log, link>> /\ socket \in Socket
      /\ channel \in Seq(0..MaxHead)
  BY Numbers DEF IInv, TypeOK, StreamTypeOK, clientVars, linkVars, Server, Replay,
                 Woken, Check
<1>2. RowOK'
  BY <1>1 DEF RowOK, Of
<1>3. CASE Replay
  <2> DEFINE behind == StreamHead - socket.cursor
             sent == IF behind > MaxReplay THEN MaxReplay ELSE behind
             frames == [i \in 1..sent |-> socket.cursor + i]
  <2>1. sent \in Nat /\ socket.cursor + sent <= MaxHead
        /\ socket.cursor <= Len(log)
    BY <1>1, <1>3 DEF Replay, FramesOK, StreamHead, StreamTypeOK
  <2>2. frames \in Seq(0..MaxHead)
    BY <1>1, <2>1, FramesSent
  <2>3. CASE behind > MaxReplay
    <3>1. channel' = Append(channel \o frames, Resync) /\ socket' = NoSocket
          /\ checked' \in {checked, {}}
      BY <1>3, <2>3 DEF Replay
    <3> HIDE DEF frames
    <3>2. channel \o frames \in Seq(0..MaxHead)
      BY <1>1, <2>2, ConcatProperties
    <3>3. channel' # <<>> /\ channel'[Len(channel')] = Resync
      <4>1. Resync \in 0..MaxHead
        BY DEF Resync
      <4> QED
        BY <3>1, <3>2, <4>1, AppendProperties
    <3>4. ~socket'.open
      BY <3>1 DEF NoSocket
    <3> QED
      BY <1>1, <1>2, <3>1, <3>3, <3>4 DEF OpenOK, CheckOK
  <2>4. CASE ~(behind > MaxReplay)
    <3>1. socket' = [socket EXCEPT !.reading = FALSE, !.cursor = @ + sent]
          /\ UNCHANGED <<wake, checked>> /\ socket.open
      BY <1>3, <2>4 DEF Replay
    <3>2. sent = Len(log) - socket.cursor
      BY <2>4 DEF StreamHead
    <3> HIDE DEF sent, frames, behind
    <3>3. socket'.open /\ socket'.cursor = socket.cursor + sent
      BY <1>1, <3>1 DEF Socket
    <3>4. socket'.cursor = Len(log)
      BY <1>1, <3>2, <3>3
    <3> QED
      BY <1>1, <1>2, <3>1, <3>3, <3>4 DEF OpenOK, CheckOK
  <2> QED
    BY <2>3, <2>4
<1>4. CASE Woken
  <2>1. socket' = [socket EXCEPT !.reading = TRUE] /\ socket.open
        /\ UNCHANGED <<checked, channel>>
    BY <1>4 DEF Woken
  <2>2. socket'.open /\ socket'.reading
    BY <1>1, <2>1 DEF Socket
  <2> QED
    BY <1>1, <1>2, <2>1, <2>2 DEF OpenOK, CheckOK
<1>5. CASE Check
  <2>1. /\ socket.open /\ UNCHANGED <<socket, channel>>
        /\ checked' = {Len(log)}
        /\ ~wake' => ~wake /\ checked = {Len(log)}
    BY <1>1, <1>5 DEF Check, StreamHead, StreamTypeOK
  <2> QED
    BY <1>1, <1>2, <2>1 DEF OpenOK, CheckOK
<1> QED
  BY <1>3, <1>4, <1>5 DEF Server

\* Nothing shown, read or written at first disagrees with the project.
LEMMA ListedInit == Init => ListedOK
  BY NatBound DEF Init, StreamInit, ListedOK, Agrees, Live, Entry, Snapshot,
                  NoRead, NoWrite

\* A write is later than all that is shown, read and on the way.
LEMMA ListedWrite ==
  ASSUME IInv, ListedOK, NEW t \in Thread, NEW removes \in BOOLEAN,
         Write(t, removes), UNCHANGED <<view, read>>,
         \/ UNCHANGED mine
         \/ /\ mine'.thread = {t} /\ mine'.ver = StreamHead + 1
            /\ mine'.kind = "delete" <=> removes
  PROVE  ListedOK'
<1>1. /\ row \in [Thread -> 0..MaxHead] /\ Len(log) \in Nat /\ Here \subseteq Thread
      /\ Own \subseteq Here
      /\ row' = [row EXCEPT ![t] = Len(log) + 1] /\ t \notin gone
      /\ gone' = IF removes THEN gone \cup {t} ELSE gone
      /\ \A u \in Thread : row[u] \in Nat /\ row[u] <= Len(log)
      /\ mine.thread \subseteq Own /\ mine.ver \in Nat
  BY Numbers, NatBound DEF IInv, TypeOK, StreamTypeOK, LogOK, Write, StreamHead
<1>2. ASSUME NEW u \in Here, NEW ver \in Nat, NEW listed, ver <= row[u],
             Agrees(ver, listed, u)
      PROVE  ver = row'[u] => (listed <=> Live(u)')
  <2>1. CASE u = t
    BY <1>1, <1>2, <2>1
  <2>2. CASE u # t
    <3>1. row'[u] = row[u] /\ (u \in gone' <=> u \in gone)
      BY <1>1, <2>2
    <3> QED
      BY <1>2, <3>1 DEF Agrees, Live
  <2> QED
    BY <2>1, <2>2
<1>3. \A u \in Here : /\ view[u].ver \in Nat /\ read.got[u].ver \in Nat
                      /\ view[u].ver <= row[u] /\ read.got[u].ver <= row[u]
  BY Numbers DEF IInv, FreshOK
<1>4. \A u \in Here : /\ Agrees(view[u].ver, view[u].listed, u)'
                      /\ Agrees(read.got[u].ver, read.got[u].live, u)'
                      /\ view'[u].twin # 0 => view'[u].listed /\ u \in Own
  BY <1>2, <1>3 DEF ListedOK, Agrees
<1>5. ASSUME NEW u \in mine'.thread
      PROVE  mine'.ver # 0 /\ Agrees(mine.ver, mine.kind # "delete", u)'
  <2>1. CASE UNCHANGED mine
    <3>1. u \in Here /\ mine.ver <= row[u] /\ Agrees(mine.ver, mine.kind # "delete", u)
          /\ mine.ver # 0
      BY <1>1, <1>5, <2>1 DEF IInv, FreshOK, ListedOK
    <3>2. mine.ver = row'[u] => ((mine.kind # "delete") <=> Live(u)')
      BY <1>1, <1>2, <3>1
    <3> QED
      BY <2>1, <3>1, <3>2 DEF Agrees
  <2>2. CASE /\ mine'.thread = {t} /\ mine'.ver = StreamHead + 1
             /\ mine'.kind = "delete" <=> removes
    <3>1. u = t /\ mine'.ver # 0 /\ row'[t] = Len(log) + 1
      BY <1>1, <1>5, <2>2 DEF StreamHead
    <3>2. Live(t)' <=> ~removes
      BY <1>1, <3>1 DEF Live
    <3> QED
      BY <2>2, <3>1, <3>2 DEF Agrees
  <2> QED
    BY <2>1, <2>2
<1> QED
  BY <1>4, <1>5 DEF ListedOK

\* Reads bring what agrees, and own responses what did when they were written.
LEMMA ListedKept ==
  ASSUME IInv, ListedOK, [Next]_vars
  PROVE  ListedOK'
<1> USE NatBound
<1>1. TypeOK /\ read \in ReadType /\ Own \subseteq Here
  BY DEF IInv, TypeOK, ReadType
<1>2. CASE \/ \E t \in Thread, removes \in BOOLEAN : OthersWrite(t, removes)
           \/ \E t \in Own, removes \in BOOLEAN : OwnWrite(t, removes)
  <2>1. ASSUME NEW t \in Thread, NEW removes \in BOOLEAN, OthersWrite(t, removes)
        PROVE  ListedOK'
    BY <2>1, ListedWrite DEF OthersWrite, clientVars, readVars
  <2>2. ASSUME NEW t \in Own, NEW removes \in BOOLEAN, OwnWrite(t, removes)
        PROVE  ListedOK'
    <3>1. /\ mine'.thread = {t} /\ mine'.ver = StreamHead + 1
          /\ mine'.kind = "delete" <=> removes
      BY <2>2 DEF OwnWrite
    <3> QED
      BY <2>2, <3>1, ListedWrite DEF OwnWrite, readVars
  <2> QED
    BY <1>2, <2>1, <2>2
<1>3. ASSUME UNCHANGED <<row, gone>>, mine' = mine \/ mine'.thread = {},
             \A t \in Here : \/ read'.got[t] = read.got[t]
                             \/ Agrees(read'.got[t].ver, read'.got[t].live, t),
             \A t \in Here : \/ view'[t] = view[t]
                             \/ /\ Agrees(view'[t].ver, view'[t].listed, t)
                                /\ view'[t].twin # 0 => view'[t].listed /\ t \in Own
      PROVE  ListedOK'
  <2>1. \A t \in Here : /\ Agrees(view'[t].ver, view'[t].listed, t)
                        /\ Agrees(read'.got[t].ver, read'.got[t].live, t)
                        /\ view'[t].twin # 0 => view'[t].listed /\ t \in Own
    BY <1>3 DEF ListedOK
  <2>2. \A t \in mine'.thread : mine'.ver # 0 /\ Agrees(mine'.ver, mine'.kind # "delete", t)
    BY <1>3 DEF ListedOK
  <2>3. \A t : Live(t)' <=> Live(t)
    BY <1>3 DEF Live
  <2> QED
    BY <1>3, <2>1, <2>2, <2>3 DEF ListedOK, Agrees
<1>4. \A t \in Here : /\ Agrees(NoRead.got[t].ver, NoRead.got[t].live, t)
                      /\ Agrees(RowNow(t).ver, RowNow(t).live, t)
  BY DEF NoRead, Agrees, RowNow, Live
<1>5. CASE \/ Poll \/ Refresh \/ TimerFires \/ Connect \/ Accepted \/ Open \/ Change
           \/ ResyncArrives \/ Close \/ OwnFails \/ UNCHANGED vars
           \/ Server /\ UNCHANGED clientVars
  <2>1. UNCHANGED <<row, gone, view>>
    BY <1>5 DEF Poll, Refresh, ScheduleRefresh, TimerFires, Connect, Accepted, Accept,
                Open, Change, ResyncArrives, Close, Hangup, OwnFails, vars, clientVars,
                streamVars, Server, Replay, Woken, Check
  <2>2. mine' = mine \/ mine'.thread = {}
    <3>1. CASE OwnFails
      BY <3>1 DEF OwnFails, NoWrite
    <3>2. CASE ~OwnFails
      BY <1>5, <3>2 DEF Poll, Refresh, ScheduleRefresh, TimerFires, Connect, Accepted,
                        Open, Change, ResyncArrives, Close, vars, clientVars
    <3> QED
      BY <3>1, <3>2
  <2>3. read' = read \/ read'.got = NoRead.got
    <3>1. read' = read \/ read' = Snapshot \/ read' = Threads
      BY <1>5 DEF Poll, Refresh, ScheduleRefresh, TimerFires, Connect, Accepted, Open,
                  Change, ResyncArrives, Close, OwnFails, vars, clientVars, readVars
    <3> QED
      BY <3>1 DEF Snapshot, Threads, NoRead
  <2> QED
    BY <1>3, <1>4, <2>1, <2>2, <2>3
<1>6. CASE ReadCursor \/ ReadRows \/ \E t \in Here : ReadThread(t)
  <2>1. UNCHANGED <<row, gone, view, mine>>
    BY <1>6 DEF ReadCursor, ReadRows, ReadThread, streamVars
  <2>2. \A t \in Here : read'.got[t] = read.got[t] \/ read'.got[t] = RowNow(t)
    <3>1. CASE ReadCursor
      BY <1>1, <3>1 DEF ReadCursor, ReadType
    <3>2. CASE ReadRows
      BY <1>1, <3>2 DEF ReadRows, ReadType
    <3>3. ASSUME NEW u \in Here, ReadThread(u)
          PROVE  \A t \in Here : read'.got[t] = read.got[t] \/ read'.got[t] = RowNow(t)
      BY <1>1, <3>3 DEF ReadThread, ReadType
    <3> QED
      BY <1>6, <3>1, <3>2, <3>3
  <2> QED
    BY <1>3, <1>4, <2>1, <2>2
<1>7. ASSUME NEW asked, Finish(asked)
      PROVE  /\ UNCHANGED <<row, gone, mine>>
             /\ \A t \in Here : Agrees(read'.got[t].ver, read'.got[t].live, t)
  BY <1>4, <1>7 DEF Finish, streamVars
<1>8. CASE SnapshotFails \/ ThreadsFail
  <2>1. UNCHANGED view /\ \E asked \in {TRUE, again} : Finish(asked)
    BY <1>8 DEF SnapshotFails, ThreadsFail
  <2> QED
    BY <1>3, <1>7, <2>1
<1>9. CASE SnapshotArrives
  <2>1. \E asked \in {TRUE, again} : Finish(asked)
    BY <1>9 DEF SnapshotArrives
  <2>2. \/ view' = view
        \/ view' = [t \in Here |-> Entry(read.got[t].ver, read.got[t].live, 0)]
    BY <1>9 DEF SnapshotArrives
  <2>3. \A t \in Here : \/ view'[t] = view[t]
                        \/ /\ Agrees(view'[t].ver, view'[t].listed, t)
                           /\ view'[t].twin = 0
    BY <2>2 DEF ListedOK, Entry
  <2> QED
    BY <1>3, <1>7, <2>1, <2>3
<1>10. CASE ThreadsArrive
  <2> DEFINE batch == {t \in Here : read.batch[t] # 0}
  <2>1. \E asked \in {TRUE, again} : Finish(asked)
    BY <1>10 DEF ThreadsArrive
  <2>2. \/ view' = view
        \/ view' = [t \in Here |-> IF t \in batch THEN Replaced(view[t], read.got[t])
                                                ELSE view[t]]
    BY <1>10 DEF ThreadsArrive
  <2>3. \A t \in Here : view'[t] \in {view[t], Replaced(view[t], read.got[t])}
    BY <2>2
  <2>4. ASSUME NEW t \in Here, view'[t] = Replaced(view[t], read.got[t])
        PROVE  /\ Agrees(view'[t].ver, view'[t].listed, t)
               /\ view'[t].twin # 0 => view'[t].listed /\ t \in Own
    BY <2>4 DEF ListedOK, Replaced, Entry
  <2> QED
    BY <1>3, <1>7, <2>1, <2>3, <2>4
<1>11. ASSUME NEW t \in Here, ApplyOwn(t) PROVE ListedOK'
  <2> DEFINE v == view[t]
             shown == CASE mine.kind = "create" /\ ~v.listed -> Entry(mine.ver, TRUE, 0)
                        [] mine.kind = "create" /\ v.listed -> [v EXCEPT !.twin = mine.ver]
                        [] mine.kind = "update" /\ v.listed ->
                             Entry(mine.ver, TRUE, IF v.twin = 0 THEN 0 ELSE mine.ver)
                        [] mine.kind = "update" /\ ~v.listed -> v
                        [] mine.kind = "delete" -> Entry(mine.ver, FALSE, 0)
  <2>1. /\ t \in mine.thread /\ view' = [view EXCEPT ![t] = shown]
        /\ read' = IF InFlight THEN [read EXCEPT !.edited = TRUE] ELSE read
        /\ mine'.thread = {} /\ UNCHANGED <<row, gone>>
    BY <1>11 DEF ApplyOwn, NoWrite, streamVars
  <2>2. /\ v \in [ver : 0..MaxHead, listed : BOOLEAN, twin : 0..MaxHead]
        /\ mine.kind \in {"create", "update", "delete"} /\ t \in Own
        /\ view'[t] = shown /\ \A u \in Here : u # t => view'[u] = view[u]
        /\ read'.got = read.got
    BY <1>1, <2>1 DEF IInv, FreshOK, TypeOK, ReadType
  <2>3. /\ Agrees(mine.ver, mine.kind # "delete", t) /\ Agrees(v.ver, v.listed, t)
        /\ v.twin # 0 => v.listed
    BY <2>1 DEF ListedOK
  <2>4. Agrees(shown.ver, shown.listed, t) /\ (shown.twin # 0 => shown.listed)
    <3>1. CASE mine.kind = "create"
      BY <2>2, <2>3, <3>1 DEF Entry, Agrees
    <3>2. CASE mine.kind = "update"
      BY <2>2, <2>3, <3>2 DEF Entry, Agrees
    <3>3. CASE mine.kind = "delete"
      BY <2>2, <2>3, <3>3 DEF Entry, Agrees
    <3> QED
      BY <2>2, <3>1, <3>2, <3>3
  <2> HIDE DEF shown
  <2> QED
    BY <1>3, <2>1, <2>2, <2>4
<1> QED
  BY <1>2, <1>5, <1>6, <1>8, <1>9, <1>10, <1>11 DEF Next

\* Every step keeps what makes a viewer at rest complete.
LEMMA RestKept ==
  ASSUME RestInv, [Next]_vars
  PROVE  RestInv'
<1> USE NatBound
<1>1. /\ IInv /\ TypeOK /\ OpenOK /\ CheckOK /\ RowOK
      /\ channel \in Seq(0..MaxHead) /\ Len(channel) \in Nat /\ Len(log) \in Nat
  BY Numbers DEF RestInv, IInv, TypeOK, StreamTypeOK
<1>2. IInv' /\ AskedOK' /\ LoadOK' /\ ListedOK'
  BY <1>1, InvKept, AskedKept, ListedKept DEF RestInv
<1> SUFFICES OpenOK' /\ CheckOK' /\ RowOK'
  BY <1>2 DEF RestInv
<1>3. CASE \/ Poll \/ Refresh \/ TimerFires \/ ReadCursor \/ ReadRows
           \/ \E t \in Here : ReadThread(t) \/ ApplyOwn(t)
           \/ Connect \/ Open \/ OwnFails \/ UNCHANGED vars
  <2>1. UNCHANGED streamVars
    BY <1>3 DEF Poll, Refresh, ScheduleRefresh, TimerFires, ReadCursor, ReadRows,
                ReadThread, ApplyOwn, Connect, Open, OwnFails, vars
  <2>2. \/ link' = link \/ link' \notin {"accepted", "open"}
        \/ link = "accepted" /\ link' = "open"
    BY <1>3 DEF Poll, Refresh, ScheduleRefresh, TimerFires, ReadCursor, ReadRows,
                ReadThread, ApplyOwn, Connect, Open, OwnFails, vars, clientVars,
                linkVars
  <2> QED
    BY <1>1, <2>1, <2>2, OpenKept
<1>4. CASE SnapshotArrives \/ SnapshotFails \/ ThreadsArrive \/ ThreadsFail
  <2>1. Finish(TRUE) \/ Finish(again)
    BY <1>4 DEF SnapshotArrives, SnapshotFails, ThreadsArrive, ThreadsFail
  <2>2. UNCHANGED streamVars /\ link' \in {link, "connecting"}
    BY <2>1 DEF Finish
  <2> QED
    BY <1>1, <2>2, OpenKept
<1>5. CASE Accepted
  <2>1. socket' = [open |-> TRUE, reading |-> TRUE, cursor |-> after]
        /\ UNCHANGED <<row, log, checked>>
    BY <1>5 DEF Accepted, Accept
  <2>2. socket'.open /\ socket'.reading
    BY <2>1
  <2> QED
    BY <1>1, <2>1, <2>2 DEF OpenOK, CheckOK, RowOK, Of
<1>6. CASE Change
  <2>1. /\ link = "open" /\ channel # <<>> /\ channel[1] # Resync
        /\ channel' = Tail(channel) /\ UNCHANGED <<row, log, socket, wake, checked, linkVars>>
    BY <1>6 DEF Change
  <2>2. CASE socket.open
    BY <1>1, <2>1, <2>2 DEF OpenOK, CheckOK, RowOK, Of
  <2>3. CASE ~socket.open
    <3>1. channel[Len(channel)] = Resync
      BY <1>1, <2>1, <2>3 DEF OpenOK
    <3>2. Len(channel) > 1
      BY <1>1, <2>1, <3>1, EmptySeq
    <3>3. /\ Len(channel') = Len(channel) - 1
          /\ channel'[Len(channel) - 1] = channel[Len(channel)]
      BY <1>1, <2>1, <3>2
    <3>4. channel' # <<>> /\ channel'[Len(channel')] = Resync
      BY <1>1, <3>1, <3>2, <3>3
    <3> QED
      BY <1>1, <2>1, <3>4 DEF OpenOK, CheckOK, RowOK, Of
  <2> QED
    BY <2>2, <2>3
<1>7. CASE ResyncArrives
  BY <1>1, <1>7 DEF ResyncArrives, OpenOK, CheckOK, RowOK, Of
<1>8. CASE Close
  BY <1>1, <1>8 DEF Close, Hangup, NoSocket, OpenOK, CheckOK, RowOK, Of
<1>9. CASE Server /\ UNCHANGED clientVars
  BY <1>1, <1>9, ServerKept
<1>10. ASSUME NEW t \in Thread, NEW removes \in BOOLEAN, Write(t, removes),
              UNCHANGED linkVars
       PROVE  OpenOK' /\ CheckOK' /\ RowOK'
  <2>1. UNCHANGED <<socket, channel>>
    BY <1>10 DEF Write
  <2> QED
    BY <1>1, <1>10, <2>1, RowKept DEF OpenOK, linkVars
<1>11. CASE \/ \E t \in Thread, removes \in BOOLEAN : OthersWrite(t, removes)
            \/ \E t \in Own, removes \in BOOLEAN : OwnWrite(t, removes)
  <2>1. \E t \in Thread, removes \in BOOLEAN : Write(t, removes) /\ UNCHANGED linkVars
    BY <1>11 DEF OthersWrite, OwnWrite, clientVars
  <2> QED
    BY <1>10, <2>1
<1> QED
  BY <1>3, <1>4, <1>5, <1>6, <1>7, <1>8, <1>9, <1>11 DEF Next

\* A viewer on an open socket with nothing on the way shows every thread as it
\* is, unless its last snapshot read failed or an own response came in late: it
\* was told of each change, what it was told it has read, and what it read it
\* lists or has dropped.  Only a thread of its own that it lists may have a
\* second entry.
THEOREM RestIsComplete == Spec => []RestShowsAll
<1>1. Init => RestInv
  <2> SUFFICES ASSUME Init PROVE RestInv
    OBVIOUS
  <2>1. IInv
    BY InvInit
  <2>2. AskedOK /\ LoadOK /\ OpenOK
    BY DEF Init, AskedOK, LoadOK, OpenOK, Snapshot, NoRead
  <2>3. CheckOK /\ RowOK
    BY DEF Init, StreamInit, CheckOK, RowOK, NoSocket
  <2> QED
    BY <2>1, <2>2, <2>3, ListedInit DEF RestInv
<1>2. RestInv /\ [Next]_vars => RestInv'
  BY RestKept
<1>3. RestInv => RestShowsAll
  <2> SUFFICES ASSUME RestInv, AtRest, ~failed, NEW t \in Here, t \notin overtaken,
                      view[t].ver # row[t]
               PROVE  FALSE
    BY DEF RestShowsAll, ShownAsIs, RestInv, ListedOK, Agrees
  <2>1. /\ TypeOK /\ LogOK /\ FreshOK /\ ViewOK /\ ReadOK
        /\ t \in Thread /\ row[t] \in Nat /\ view[t].ver \in Nat
        /\ Of(t) \subseteq 1..Len(log) /\ Len(log) \in Nat /\ socket.cursor \in Nat
    BY Numbers, NatBound DEF RestInv, IInv
  <2>2. view[t].ver < row[t] /\ row[t] \in Of(t)
    BY <2>1 DEF RestInv, FreshOK, RowOK
  <2>3. read.kind = "none" /\ ~due /\ pending = NoThreads
    BY DEF AtRest, InFlight, RestInv, AskedOK
  <2>4. loaded
    BY <2>3 DEF RestInv, LoadOK
  <2>5. pending[t] = 0 /\ read.batch[t] = 0
    BY <2>1, <2>3 DEF ReadOK, NoThreads
  <2>6. Told(t, row[t])
    BY <2>1, <2>2, <2>4 DEF ViewOK
  <2>7. Unheard(row[t])
    BY <2>1, <2>2, <2>3, <2>5, <2>6 DEF Told, Ahead
  <2>8. socket.open
    BY DEF AtRest, RestInv, OpenOK
  <2>9. Len(log) <= socket.cursor
    BY <2>8 DEF AtRest, RestInv, CheckOK, StreamHead
  <2>10. socket.cursor < row[t]
    BY <2>7, <2>8 DEF AtRest, Unheard
  <2> QED
    BY <2>1, <2>2, <2>9, <2>10
<1> QED
  BY <1>1, <1>2, <1>3, PTL DEF Spec
=============================================================================
