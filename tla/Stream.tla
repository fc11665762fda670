------------------------------- MODULE Stream -------------------------------
(***************************************************************************)
(* TcpStream and the operations on it (net/stream_io_ops.hpp,              *)
(* net/tcp_stream.hpp, net/tcp_listener.hpp) on top of Reactor.            *)
(*                                                                         *)
(* Every operation is a coroutine that tries its system call, waits in the *)
(* reactor when the call would block, and tries again.  The owner thread   *)
(* runs one coroutine at a time, `current`, from its resumption to its     *)
(* next wait; the kernel's buffers change at any moment in between.        *)
(***************************************************************************)
EXTENDS Reactor

CONSTANTS
  Kinds,  \* the operations that are called, of "read", "write" and "write_all"
  Bytes,  \* bytes a write_all() is given
  Buffer  \* bytes a socket buffer holds in one direction

ASSUME StreamAssumption ==
  /\ Kinds \subseteq {"read", "write", "write_all"}
  /\ Bytes \in Nat \ {0} /\ Buffer \in Nat \ {0}

VARIABLES
  current,  \* the operation whose coroutine runs, or NoWait
  at,       \* where it is: before its call ("try"), after EAGAIN ("wait"), or its result
  job,      \* the call each coroutine is in: its kind, descriptor and timeout
  total,    \* total: bytes transferred so far by the code's count
  sent,     \* kernel: which bytes of its buffer the call has transferred, in order
  late,     \* calls whose deadline has passed
  stream,   \* descriptors a TcpStream object owns
  room,     \* kernel: bytes to read, and free space to write to, of each descriptor
  dead      \* kernel: descriptors whose connection failed, was reset or closed by the peer

callVars == <<job, total, sent, late>>
socketVars == <<stream, room, dead>>
streamVars == <<reactorVars, current, at, callVars, socketVars>>

Results == {"Ok", "Err", "TimedOut"}
NoJob == [kind |-> "none", fd |-> "none", timed |-> FALSE]
InCall(w) == job[w] # NoJob
Dir(w) == IF job[w].kind = "read" THEN "Read" ELSE "Write"
Empty == [d \in Dirs |-> 0]

StreamInit ==
  /\ ReactorInit
  /\ current = NoWait /\ at = "try"
  /\ job = [w \in Waits |-> NoJob]
  /\ total = [w \in Waits |-> 0]
  /\ sent = [w \in Waits |-> <<>>]
  /\ late = {}
  /\ stream = {} /\ dead = {}
  /\ room = [fd \in Fds |-> Empty]

\* What epoll reports of a socket with these buffers.
LevelOf(r, broken) == {d \in Dirs : r[d] > 0} \cup (IF broken THEN Dirs \cup {"Err"} ELSE {})

\* The buffers of fd change, and with them what epoll reports.
SetRoom(fd, r) ==
  /\ room' = [room EXCEPT ![fd] = r]
  /\ level' = [level EXCEPT ![fd] = LevelOf(r, fd \in dead)]

\* A coroutine calls an operation.
Call(w, k, fd, timed) ==
  /\ current = NoWait /\ ~InCall(w)
  /\ current' = w
  /\ job' = [job EXCEPT ![w] = [kind |-> k, fd |-> fd, timed |-> timed]]
  /\ UNCHANGED <<total, sent, late>>
-----------------------------------------------------------------------------
\* read_some(), write_some(), send_file_some(), write_all(), send_file_all_with_timeout() ...
Begin(w, k, fd, timed) ==
  /\ phase = "run" /\ fd \in stream
  /\ Call(w, k, fd, timed)
  /\ at' = "try"
  /\ UNCHANGED <<reactorVars, socketVars>>

\* Mutant: a round starts again at the first byte.
OffsetZero(w) == 0

\* buf + total: where the next round of a write_all() starts.
Offset(w) == total[w]

\* Mutant: every wait is given the whole timeout.
NoDeadline(w) == FALSE

\* now >= deadline, of a call with a timeout; one deadline for all of its rounds.
DeadlinePassed(w) == job[w].timed /\ w \in late

(***************************************************************************)
(* The call transfers n bytes.  write_all() and send_file_all() go on with *)
(* the rest, unless their deadline has passed.                             *)
(***************************************************************************)
Transfer(w, n) ==
  LET fd == job[w].fd
      d == Dir(w)
      size == total[w] + n
  IN /\ current = w /\ at = "try" /\ job[w].kind \in Kinds
     /\ d = "Read" \/ fd \notin dead
     /\ n <= room[fd][d] /\ size <= Bytes
     /\ SetRoom(fd, [room[fd] EXCEPT ![d] = @ - n])
     /\ total' = [total EXCEPT ![w] = size]
     /\ sent' = [sent EXCEPT ![w] = @ \o [i \in 1..n |-> Offset(w) + i]]
     /\ at' = CASE job[w].kind # "write_all" \/ size = Bytes -> "Ok"
                [] DeadlinePassed(w) -> "TimedOut"
                [] OTHER -> "try"
     /\ UNCHANGED <<loopVars, slots, waitVars, is_open, in_set, armed, current, job, late,
                    stream, dead>>

\* 0 bytes, which write_all() takes for an error: at the end of the stream or of the file
\* to be sent.  Or the call fails.
NoTransfer(w) ==
  /\ current = w /\ at = "try" /\ job[w].kind \in Kinds
  /\ Dir(w) = "Read" => job[w].fd \in dead
  /\ at' = "Err" \/ (job[w].kind # "write_all" /\ at' = "Ok")
  /\ UNCHANGED <<reactorVars, current, callVars, socketVars>>

\* EAGAIN: wait for the direction, unless the deadline has passed.
Again(w) ==
  /\ current = w /\ at = "try" /\ job[w].kind \in Kinds
  /\ Dir(w) \notin level[job[w].fd]
  /\ at' = IF DeadlinePassed(w) THEN "TimedOut" ELSE "wait"
  /\ UNCHANGED <<reactorVars, current, callVars, socketVars>>

\* The awaiter registers.
Suspend(w) ==
  /\ current = w /\ at = "wait"
  /\ Await(w, job[w].fd, Dir(w), job[w].timed)
  /\ current' = NoWait /\ at' = "try"
  /\ UNCHANGED <<callVars, socketVars>>

\* The registration fails, and the operation with it.
SuspendFails(w) ==
  /\ current = w /\ at = "wait"
  /\ AwaitRefused(job[w].fd, Dir(w))
  /\ at' = "Err"
  /\ UNCHANGED <<reactorVars, current, callVars, socketVars>>

\* The loop resumes a coroutine: it tries again, or returns the error of its wait.
Continue ==
  /\ current = NoWait
  /\ Resume
  /\ current' = Head(batch)
  /\ at' = CASE state[Head(batch)] = "Ready" -> "try"
             [] state[Head(batch)] = "TimedOut" -> "TimedOut"
             [] OTHER -> "Err"
  /\ UNCHANGED <<callVars, socketVars>>
-----------------------------------------------------------------------------
(***************************************************************************)
(* connect(): socket() and the non-blocking connect(), which fails, is     *)
(* established at once, or is in progress: then the coroutine waits until  *)
(* the socket is writable and asks for SO_ERROR.                           *)
(***************************************************************************)
Connect(w, fd) ==
  /\ OpenFd(fd)
  /\ Call(w, "connect", fd, FALSE)
  /\ at' \in {"Ok", "Err", "wait"}
  /\ UNCHANGED socketVars

ConnectChecked(w) ==
  /\ current = w /\ at = "try" /\ job[w].kind = "connect"
  /\ at' = IF job[w].fd \in dead THEN "Err" ELSE "Ok"
  /\ UNCHANGED <<reactorVars, current, callVars, socketVars>>

\* remove() and ::close(): the socket is gone.
Closed(fd) ==
  /\ CloseFd(fd)
  /\ room' = [room EXCEPT ![fd] = Empty]
  /\ dead' = dead \ {fd}

\* Mutant: only a descriptor whose connection failed is closed, not that of a wait that did.
DiscardDead(w) == job[w].kind = "connect" /\ at # "Ok" /\ job[w].fd \in dead

\* A connect() that fails closes its descriptor.
Discards(w) == job[w].kind = "connect" /\ at # "Ok"

\* co_return; a connect() that succeeds hands its descriptor to a TcpStream.
Return(w) ==
  /\ current = w /\ at \in Results
  /\ IF Discards(w) THEN Closed(job[w].fd) ELSE UNCHANGED <<reactorVars, room, dead>>
  /\ stream' = IF job[w].kind = "connect" /\ at = "Ok" THEN stream \cup {job[w].fd} ELSE stream
  /\ current' = NoWait /\ at' = "try"
  /\ job' = [job EXCEPT ![w] = NoJob]
  /\ total' = [total EXCEPT ![w] = 0]
  /\ sent' = [sent EXCEPT ![w] = <<>>]
  /\ late' = late \ {w}

\* TcpListener::accept() returns a connection; one that from_fd() refuses is closed again.
Accept(fd) ==
  /\ current = NoWait
  /\ OpenFd(fd)
  /\ stream' = stream \cup {fd}
  /\ UNCHANGED <<current, at, callVars, room, dead>>

\* ~TcpStream(), close() and move assignment, with no operation on the stream in progress.
CloseStream(fd) ==
  /\ current = NoWait
  /\ fd \in stream /\ \A w \in Waits : job[w].fd # fd
  /\ Closed(fd)
  /\ stream' = stream \ {fd}
  /\ UNCHANGED <<current, at, callVars>>

\* A token of the operation is stopped by another coroutine.
CancelCall(w) ==
  /\ current = NoWait
  /\ Cancel(w)
  /\ UNCHANGED <<current, at, callVars, socketVars>>
-----------------------------------------------------------------------------
\* The peer sends or takes a byte; a connection is established (its buffer has room).
PeerMoves(fd, d) ==
  /\ fd \in is_open \ dead /\ room[fd][d] < Buffer
  /\ SetRoom(fd, [room[fd] EXCEPT ![d] = @ + 1])
  /\ UNCHANGED <<loopVars, slots, waitVars, is_open, in_set, armed,
                 current, at, callVars, stream, dead>>

\* The connection is refused, reset, or closed by the peer.
PeerDies(fd) ==
  /\ fd \in is_open \ dead
  /\ dead' = dead \cup {fd}
  /\ level' = [level EXCEPT ![fd] = LevelOf(room[fd], TRUE)]
  /\ UNCHANGED <<loopVars, slots, waitVars, is_open, in_set, armed,
                 current, at, callVars, stream, room>>

DeadlinePasses(w) ==
  /\ InCall(w) /\ job[w].timed /\ w \notin late
  /\ late' = late \cup {w}
  /\ UNCHANGED <<reactorVars, current, at, job, total, sent, socketVars>>

Loop(A) == current = NoWait /\ A /\ UNCHANGED <<current, at, callVars, socketVars>>
EndRun == Loop(EndBatch)
Pass == Loop(EndPoll) \/ Loop(EndTimers)
Event(fd) == Loop(PollEvent(fd))
TimerDue(w) == Loop(Expire(w))

CallStep(w) ==
  \/ \E n \in 1..Buffer : Transfer(w, n)
  \/ NoTransfer(w) \/ Again(w) \/ Suspend(w) \/ SuspendFails(w)
  \/ ConnectChecked(w) \/ Return(w)

StreamNext ==
  \/ Continue \/ EndRun \/ Pass
  \/ \E w \in Waits :
       \/ CallStep(w) \/ CancelCall(w) \/ TimerDue(w) \/ DeadlinePasses(w)
       \/ \E fd \in Fds : Connect(w, fd)
       \/ \E k \in Kinds, fd \in Fds, timed \in BOOLEAN : Begin(w, k, fd, timed)
  \/ \E fd \in Fds :
       \/ Event(fd) \/ Accept(fd) \/ CloseStream(fd) \/ PeerDies(fd)
       \/ \E d \in Dirs : PeerMoves(fd, d)

(***************************************************************************)
(* A coroutine that runs gets to its next wait, and the loop keeps         *)
(* passing: no coroutine occupies it for ever with calls that succeed at   *)
(* once (SF on Continue and EndRun).  epoll_wait reports a descriptor that *)
(* stays ready, a live timer is reached in some pass, and deadlines pass.  *)
(***************************************************************************)
StreamFairness ==
  /\ WF_streamVars(Pass \/ \E w \in Waits : CallStep(w)) /\ SF_streamVars(Continue \/ EndRun)
  /\ \A fd \in Fds : SF_streamVars(Event(fd))
  /\ \A w \in Waits : SF_streamVars(TimerDue(w)) /\ WF_streamVars(DeadlinePasses(w))

StreamSpec == StreamInit /\ [][StreamNext]_streamVars /\ StreamFairness
-----------------------------------------------------------------------------
StreamTypeOK ==
  /\ ReactorTypeOK
  /\ current \in Waits \cup {NoWait} /\ at \in {"try", "wait"} \cup Results
  /\ job \in [Waits -> [kind : Kinds \cup {"connect"}, fd : Fds, timed : BOOLEAN] \cup {NoJob}]
  /\ total \in [Waits -> 0..Bytes]
  /\ late \in SUBSET Waits /\ stream \in SUBSET Fds /\ dead \in SUBSET Fds
  /\ room \in [Fds -> [Dirs -> 0..Buffer]]

(***************************************************************************)
(* What write_all() and send_file_all() hand to the kernel is a prefix of  *)
(* their data, each byte once and in order, whatever happens between their *)
(* rounds; when they return Ok it is all of it.                            *)
(***************************************************************************)
WriteAllExact ==
  \A w \in Waits : job[w].kind = "write_all" =>
    /\ sent[w] = [i \in 1..Len(sent[w]) |-> i]
    /\ (current = w /\ at = "Ok") => Len(sent[w]) = Bytes

(***************************************************************************)
(* Every open descriptor has exactly one owner: a TcpStream, or a          *)
(* connect() that has not returned.  No path of connect() leaks the        *)
(* descriptor or closes it twice.                                          *)
(***************************************************************************)
FdsOwned ==
  LET connecting == {w \in Waits : InCall(w) /\ job[w].kind = "connect"}
  IN /\ is_open = stream \cup {job[w].fd : w \in connecting}
     /\ \A w \in connecting : job[w].fd \notin stream

(***************************************************************************)
(* A call with a timeout returns, even if others take what it waits for    *)
(* each time the descriptor becomes ready; any other call returns unless   *)
(* its descriptor is again and again not ready for it.                     *)
(***************************************************************************)
CallsEnd ==
  \A w \in Waits :
    []<>(~InCall(w) \/ (~job[w].timed /\ Dir(w) \notin level[job[w].fd]))
=============================================================================
