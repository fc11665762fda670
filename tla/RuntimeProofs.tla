--------------------------- MODULE RuntimeProofs ---------------------------
(***************************************************************************)
(* Proofs about the operations on streams, for any descriptors and         *)
(* coroutines and any sizes of buffers and data, and about the reactor as  *)
(* these operations drive it.  Then, proofs about Runtime and the Executor *)
(* inside it: what join() promises, why a loop was left with tasks, who    *)
(* receives a signal and what becomes of the owner's mask, for every       *)
(* number of cores.                                                        *)
(***************************************************************************)
EXTENDS Stream, Runtime, QueueLemmas, FiniteSetTheorems, SequenceTheorems, TLAPS

\* Zenon proves most leaves; one with arithmetic, records or sequences cites SMT.
USE ZenonT(30)
USE DEF Offset, Discards

\* The call a coroutine is in, and the coroutines that carry a raw descriptor.
JobType ==
  job \in [Waits -> [kind : Kinds \cup {"connect"}, fd : Fds, timed : BOOLEAN] \cup {NoJob}]

Connecting == {w \in Waits : job[w].kind = "connect"}

(***************************************************************************)
(* Every open descriptor has one owner, also among the connect() calls.    *)
(***************************************************************************)
OwnersInv ==
  /\ JobType
  /\ is_open = stream \cup {job[w].fd : w \in Connecting}
  /\ \A w \in Connecting : job[w].fd \notin stream
  /\ \A v, w \in Connecting : job[v].fd = job[w].fd => v = w

\* Steps that open, close, call and return nothing.
LEMMA SameOwners ==
  ASSUME OwnersInv, UNCHANGED <<is_open, stream, job>> PROVE OwnersInv'
BY DEF OwnersInv, JobType, Connecting

\* A call of an operation on a stream carries no raw descriptor.
LEMMA BeginOwners ==
  ASSUME OwnersInv, NEW w \in Waits, NEW k \in Kinds, NEW fd \in Fds, NEW timed \in BOOLEAN,
         Begin(w, k, fd, timed)
  PROVE  OwnersInv'
<1>1. /\ job' = [job EXCEPT ![w] = [kind |-> k, fd |-> fd, timed |-> timed]]
      /\ job[w] = NoJob /\ UNCHANGED <<is_open, stream>>
  BY DEF Begin, Call, InCall, reactorVars, kernelVars, socketVars
<1>2. JobType'
  BY <1>1 DEF OwnersInv, JobType
<1>3. Connecting' = Connecting /\ \A v \in Connecting : job'[v] = job[v]
  BY <1>1, StreamAssumption, SMTT(20) DEF OwnersInv, JobType, Connecting, NoJob
<1> QED BY <1>1, <1>2, <1>3, SMTT(20) DEF OwnersInv

\* connect() owns the descriptor it opens.
LEMMA ConnectOwners ==
  ASSUME OwnersInv, NEW w \in Waits, NEW fd \in Fds, Connect(w, fd)
  PROVE  OwnersInv'
<1>1. /\ job' = [job EXCEPT ![w] = [kind |-> "connect", fd |-> fd, timed |-> FALSE]]
      /\ job[w] = NoJob /\ stream' = stream
      /\ fd \notin is_open /\ is_open' = is_open \cup {fd}
  BY DEF Connect, OpenFd, Call, InCall, socketVars
<1>2. JobType'
  BY <1>1 DEF OwnersInv, JobType
<1>3. /\ Connecting' = Connecting \cup {w} /\ w \notin Connecting
      /\ \A v \in Connecting : job'[v] = job[v]
      /\ job'[w].fd = fd
  BY <1>1, SMTT(20) DEF OwnersInv, JobType, Connecting, NoJob
<1> QED BY <1>1, <1>2, <1>3, SMTT(20) DEF OwnersInv

\* A connect() that returns has closed its descriptor or handed it to a TcpStream.
LEMMA ReturnOwners ==
  ASSUME OwnersInv, NEW w \in Waits, Return(w)
  PROVE  OwnersInv'
<1>0. job' = [job EXCEPT ![w] = NoJob]
  BY DEF Return
<1>1. JobType'
  BY <1>0 DEF OwnersInv, JobType
<1>2. Connecting' = Connecting \ {w} /\ \A v \in Connecting \ {w} : job'[v] = job[v]
  BY <1>0 DEF OwnersInv, JobType, Connecting, NoJob
<1>3. CASE w \notin Connecting
  <2>1. UNCHANGED <<is_open, stream>>
    BY <1>3 DEF Return, Connecting, reactorVars, kernelVars
  <2> QED BY <1>1, <1>2, <1>3, <2>1, SMTT(20) DEF OwnersInv
<1>4. CASE w \in Connecting /\ at = "Ok"
  <2>1. is_open' = is_open /\ stream' = stream \cup {job[w].fd}
    BY <1>4 DEF Return, Connecting, reactorVars, kernelVars
  <2> QED BY <1>1, <1>2, <1>4, <2>1, SMTT(20) DEF OwnersInv
<1>5. CASE w \in Connecting /\ at # "Ok"
  <2>1. is_open' = is_open \ {job[w].fd} /\ stream' = stream
    BY <1>5 DEF Return, Connecting, Closed, CloseFd
  <2> QED BY <1>1, <1>2, <1>5, <2>1, SMTT(20) DEF OwnersInv
<1> QED BY <1>3, <1>4, <1>5

\* No step leaks a descriptor or closes one that has another owner.
LEMMA OwnersStep == OwnersInv /\ [StreamNext]_streamVars => OwnersInv'
<1> SUFFICES ASSUME OwnersInv, [StreamNext]_streamVars PROVE OwnersInv'
  OBVIOUS
<1>1. CASE UNCHANGED streamVars \/ Continue \/ EndRun \/ Pass
  BY <1>1, SameOwners
     DEF streamVars, Continue, Resume, EndRun, Pass, Loop, EndBatch, EndPoll, EndTimers,
         reactorVars, callVars, socketVars, kernelVars
<1>2. ASSUME NEW w \in Waits,
             (\E n \in 1..Buffer : Transfer(w, n)) \/ NoTransfer(w) \/ Again(w) \/ Suspend(w)
               \/ SuspendFails(w) \/ ConnectChecked(w)
      PROVE  OwnersInv'
  BY <1>2, SameOwners
     DEF Transfer, NoTransfer, Again, Suspend, Await, SuspendFails, ConnectChecked,
         reactorVars, callVars, socketVars, kernelVars
<1>3. ASSUME NEW w \in Waits, Return(w) PROVE OwnersInv'
  BY <1>3, ReturnOwners
<1>4. ASSUME NEW w \in Waits, CancelCall(w) \/ TimerDue(w) \/ DeadlinePasses(w) PROVE OwnersInv'
  BY <1>4, SameOwners
     DEF CancelCall, Cancel, TimerDue, Loop, Expire, DeadlinePasses, reactorVars, callVars,
         socketVars, kernelVars
<1>5. ASSUME NEW w \in Waits, NEW fd \in Fds, Connect(w, fd) PROVE OwnersInv'
  BY <1>5, ConnectOwners
<1>6. ASSUME NEW w \in Waits, NEW k \in Kinds, NEW fd \in Fds, NEW timed \in BOOLEAN,
             Begin(w, k, fd, timed)
      PROVE  OwnersInv'
  BY <1>6, BeginOwners
<1>7. ASSUME NEW fd \in Fds, Event(fd) \/ PeerDies(fd) \/ \E d \in Dirs : PeerMoves(fd, d)
      PROVE  OwnersInv'
  BY <1>7, SameOwners
     DEF Event, Loop, PollEvent, PeerDies, PeerMoves, callVars, socketVars
<1>8. ASSUME NEW fd \in Fds, Accept(fd) PROVE OwnersInv'
  <2>1. /\ fd \notin is_open /\ is_open' = is_open \cup {fd} /\ stream' = stream \cup {fd}
        /\ job' = job
    BY <1>8 DEF Accept, OpenFd, callVars
  <2> QED BY <2>1, SMTT(20) DEF OwnersInv, JobType, Connecting
<1>9. ASSUME NEW fd \in Fds, CloseStream(fd) PROVE OwnersInv'
  <2>1. /\ is_open' = is_open \ {fd} /\ stream' = stream \ {fd} /\ job' = job
        /\ \A w \in Waits : job[w].fd # fd
    BY <1>9 DEF CloseStream, Closed, CloseFd, callVars
  <2> QED BY <2>1, SMTT(20) DEF OwnersInv, JobType, Connecting
<1> QED BY <1>1, <1>2, <1>3, <1>4, <1>5, <1>6, <1>7, <1>8, <1>9 DEF StreamNext, CallStep

(***************************************************************************)
(* Every open descriptor has exactly one owner, for any number of          *)
(* descriptors and of connect() calls at once.                             *)
(***************************************************************************)
THEOREM OwnersTheorem == StreamSpec => []FdsOwned
<1>1. StreamInit => OwnersInv
  <2> SUFFICES ASSUME StreamInit PROVE OwnersInv
    OBVIOUS
  <2>1. is_open = {} /\ stream = {} /\ job = [w \in Waits |-> NoJob]
    BY DEF StreamInit, ReactorInit
  <2>2. JobType
    BY <2>1 DEF JobType
  <2>3. Connecting = {}
    BY <2>1 DEF Connecting, NoJob
  <2> QED BY <2>1, <2>2, <2>3 DEF OwnersInv
<1>2. OwnersInv => FdsOwned
  <2> SUFFICES ASSUME OwnersInv PROVE FdsOwned
    OBVIOUS
  <2>1. {w \in Waits : InCall(w) /\ job[w].kind = "connect"} = Connecting
    BY SMTT(20) DEF InCall, Connecting, NoJob
  <2> QED BY <2>1 DEF OwnersInv, FdsOwned
<1> QED BY <1>1, <1>2, OwnersStep, PTL DEF StreamSpec
-----------------------------------------------------------------------------
\* The first n bytes of the data, in order.
FirstBytes(n) == [i \in 1..n |-> i]

(***************************************************************************)
(* The code's count says which bytes the kernel has, and an Ok of          *)
(* write_all() that all of them are there.                                 *)
(***************************************************************************)
ExactInv ==
  /\ JobType
  /\ total \in [Waits -> Nat]
  /\ sent = [w \in Waits |-> FirstBytes(total[w])]
  /\ \A w \in Waits :
       (current = w /\ at = "Ok" /\ job[w].kind = "write_all") => total[w] = Bytes

\* The next n bytes after the first t are the first t + n.
LEMMA NextBytes ==
  ASSUME NEW t \in Nat, NEW n \in Nat
  PROVE  FirstBytes(t) \o [i \in 1..n |-> t + i] = FirstBytes(t + n)
<1> DEFINE a == FirstBytes(t)
           b == [i \in 1..n |-> t + i]
           c == FirstBytes(t + n)
<1>1. a \in Seq(Nat) /\ Len(a) = t /\ \A i \in 1..t : a[i] = i
  BY SMTT(20) DEF FirstBytes
<1>2. b \in Seq(Nat) /\ Len(b) = n /\ \A i \in 1..n : b[i] = t + i
  BY SMTT(20)
<1>3. c \in Seq(Nat) /\ Len(c) = t + n /\ \A i \in 1..(t + n) : c[i] = i
  BY SMTT(20) DEF FirstBytes
<1> HIDE DEF a, b, c
<1>4. /\ a \o b \in Seq(Nat) /\ Len(a \o b) = Len(a) + Len(b)
      /\ \A i \in 1..Len(a) + Len(b) :
           (a \o b)[i] = IF i <= Len(a) THEN a[i] ELSE b[i - Len(a)]
  BY <1>1, <1>2, ConcatProperties
<1>5. Len(a \o b) = Len(c)
  BY <1>1, <1>2, <1>3, <1>4
<1>6. \A i \in 1..Len(a \o b) : (a \o b)[i] = c[i]
  BY <1>1, <1>2, <1>3, <1>4, SMTT(20)
<1>7. a \o b = c
  BY <1>3, <1>4, <1>5, <1>6, SeqEqual
<1> QED BY <1>7 DEF a, b, c

\* Steps that transfer nothing and end no call with Ok.
LEMMA SameExact ==
  ASSUME ExactInv, UNCHANGED <<job, total, sent>>,
         at' # "Ok" \/ UNCHANGED <<current, at>>
  PROVE  ExactInv'
BY DEF ExactInv, JobType

\* A round adds to what was sent exactly the bytes the code counts.
LEMMA TransferExact ==
  ASSUME ExactInv, NEW w \in Waits, NEW n \in 1..Buffer, Transfer(w, n)
  PROVE  ExactInv'
<1>0. n \in Nat /\ total[w] \in Nat
  BY StreamAssumption, SMTT(20) DEF ExactInv
<1>1. /\ total' = [total EXCEPT ![w] = total[w] + n]
      /\ sent' = [sent EXCEPT ![w] = sent[w] \o [i \in 1..n |-> total[w] + i]]
      /\ UNCHANGED <<job, current>> /\ current = w
      /\ at' = "Ok" => job[w].kind # "write_all" \/ total[w] + n = Bytes
  BY DEF Transfer
<1>2. total' \in [Waits -> Nat]
  BY <1>0, <1>1, SMTT(20) DEF ExactInv
<1>3. sent'[w] = FirstBytes(total'[w])
  <2>1. sent[w] = FirstBytes(total[w]) /\ sent'[w] = sent[w] \o [i \in 1..n |-> total[w] + i]
    BY <1>1 DEF ExactInv
  <2>2. total'[w] = total[w] + n
    BY <1>1 DEF ExactInv
  <2> QED BY <1>0, <2>1, <2>2, NextBytes
<1>4. sent' = [v \in Waits |-> FirstBytes(total'[v])]
  <2>1. DOMAIN sent' = Waits /\ sent' = [v \in DOMAIN sent' |-> sent'[v]]
    BY <1>1 DEF ExactInv
  <2>2. ASSUME NEW v \in Waits, v # w PROVE sent'[v] = FirstBytes(total'[v])
    BY <1>1, <2>2 DEF ExactInv
  <2> QED BY <1>3, <2>1, <2>2
<1>5. \A v \in Waits :
        (current' = v /\ at' = "Ok" /\ job'[v].kind = "write_all") => total'[v] = Bytes
  BY <1>0, <1>1 DEF ExactInv
<1> QED BY <1>1, <1>2, <1>4, <1>5 DEF ExactInv, JobType

\* A call that starts sends nothing yet, and only connect() may be done at once.
LEMMA CallExact ==
  ASSUME ExactInv, NEW w \in Waits, NEW j, UNCHANGED <<total, sent>>,
         j \in [kind : Kinds \cup {"connect"}, fd : Fds, timed : BOOLEAN],
         job' = [job EXCEPT ![w] = j], current' = w,
         at' # "Ok" \/ j.kind = "connect"
  PROVE  ExactInv'
BY DEF ExactInv, JobType

\* A call that returns leaves its count at zero.
LEMMA ReturnExact ==
  ASSUME ExactInv, NEW w \in Waits, Return(w)
  PROVE  ExactInv'
<1>1. /\ job' = [job EXCEPT ![w] = NoJob] /\ total' = [total EXCEPT ![w] = 0]
      /\ sent' = [sent EXCEPT ![w] = <<>>] /\ at' = "try"
  BY DEF Return
<1>2. FirstBytes(0) = <<>>
  BY SMTT(20) DEF FirstBytes
<1>3. sent' = [v \in Waits |-> FirstBytes(total'[v])]
  BY <1>1, <1>2 DEF ExactInv
<1> QED BY <1>1, <1>3 DEF ExactInv, JobType

\* One case per kind of step.
LEMMA ExactStep == ExactInv /\ [StreamNext]_streamVars => ExactInv'
<1> SUFFICES ASSUME ExactInv, [StreamNext]_streamVars PROVE ExactInv'
  OBVIOUS
<1>1. CASE UNCHANGED streamVars \/ Continue \/ EndRun \/ Pass
  BY <1>1, SameExact DEF streamVars, Continue, EndRun, Pass, Loop, callVars
<1>2. ASSUME NEW w \in Waits, \E n \in 1..Buffer : Transfer(w, n) PROVE ExactInv'
  BY <1>2, TransferExact
<1>3. ASSUME NEW w \in Waits, NoTransfer(w) \/ ConnectChecked(w) PROVE ExactInv'
  BY <1>3 DEF NoTransfer, ConnectChecked, callVars, ExactInv, JobType
<1>4. ASSUME NEW w \in Waits, Again(w) \/ Suspend(w) \/ SuspendFails(w) PROVE ExactInv'
  BY <1>4, SameExact DEF Again, Suspend, SuspendFails, callVars
<1>5. ASSUME NEW w \in Waits, Return(w) PROVE ExactInv'
  BY <1>5, ReturnExact
<1>6. ASSUME NEW w \in Waits, CancelCall(w) \/ TimerDue(w) \/ DeadlinePasses(w) PROVE ExactInv'
  BY <1>6, SameExact DEF CancelCall, TimerDue, Loop, DeadlinePasses, callVars
<1>7. ASSUME NEW w \in Waits, NEW fd \in Fds, Connect(w, fd) PROVE ExactInv'
  <2> DEFINE j == [kind |-> "connect", fd |-> fd, timed |-> FALSE]
  <2>1. UNCHANGED <<total, sent>> /\ job' = [job EXCEPT ![w] = j] /\ current' = w
    BY <1>7 DEF Connect, Call
  <2> QED BY <2>1, CallExact
<1>8. ASSUME NEW w \in Waits, NEW k \in Kinds, NEW fd \in Fds, NEW timed \in BOOLEAN,
             Begin(w, k, fd, timed)
      PROVE  ExactInv'
  <2> DEFINE j == [kind |-> k, fd |-> fd, timed |-> timed]
  <2>1. UNCHANGED <<total, sent>> /\ job' = [job EXCEPT ![w] = j] /\ current' = w /\ at' = "try"
    BY <1>8 DEF Begin, Call
  <2> QED BY <2>1, CallExact
<1>9. ASSUME NEW fd \in Fds,
             Event(fd) \/ Accept(fd) \/ CloseStream(fd) \/ PeerDies(fd)
               \/ \E d \in Dirs : PeerMoves(fd, d)
      PROVE  ExactInv'
  BY <1>9, SameExact DEF Event, Loop, Accept, CloseStream, PeerDies, PeerMoves, callVars
<1> QED BY <1>1, <1>2, <1>3, <1>4, <1>5, <1>6, <1>7, <1>8, <1>9 DEF StreamNext, CallStep

(***************************************************************************)
(* write_all() and send_file_all() hand every byte to the kernel once and  *)
(* in order, for any size of the data and of the buffers.                  *)
(***************************************************************************)
THEOREM WriteAllTheorem == StreamSpec => []WriteAllExact
<1>1. StreamInit => ExactInv
  <2> SUFFICES ASSUME StreamInit PROVE ExactInv
    OBVIOUS
  <2>1. FirstBytes(0) = <<>>
    BY SMTT(20) DEF FirstBytes
  <2> QED BY <2>1 DEF StreamInit, ExactInv, JobType
<1>2. ExactInv => WriteAllExact
  <2> SUFFICES ASSUME ExactInv, NEW w \in Waits, job[w].kind = "write_all"
               PROVE  /\ sent[w] = [i \in 1..Len(sent[w]) |-> i]
                      /\ (current = w /\ at = "Ok") => Len(sent[w]) = Bytes
    BY DEF WriteAllExact
  <2>1. total[w] \in Nat /\ sent[w] = FirstBytes(total[w])
    BY DEF ExactInv
  <2>2. Len(sent[w]) = total[w]
    BY <2>1, SMTT(20) DEF FirstBytes
  <2> QED BY <2>1, <2>2 DEF ExactInv, FirstBytes
<1> QED BY <1>1, <1>2, ExactStep, PTL DEF StreamSpec
-----------------------------------------------------------------------------
HIDE DEF Offset, Discards
USE DEF LeavesSlot, Rearmed, TimerFires

\* A coroutine in a wait waits on a descriptor that is open.
Placed ==
  \A w \in Waits : state[w] # "idle" =>
    on[w].fd \in is_open /\ on[w].dir \in Dirs

\* A slot holds a wait that belongs there and that no event and no cancellation has ended.
SlotHolds ==
  \A fd \in Fds, d \in Dirs : slots[fd][d] # NoWait =>
    /\ state[slots[fd][d]] \in {"Pending", "TimedOut"}
    /\ on[slots[fd][d]].fd = fd /\ on[slots[fd][d]].dir = d

TimersAlive == \A w \in timer : state[w] # "idle"

\* Waits that are pending or timed out are in their slots, and every slot in use is armed.
HoldsSlot == \A w \in Waits :
  state[w] \in {"Pending", "TimedOut"} => slots[on[w].fd][on[w].dir] = w

WaitersArmed == \A fd \in Fds : Waiting(slots, fd) \subseteq armed[fd]

\* The two queues hold the completed waits, once each.
QueuesHold ==
  /\ IsInjective(ready) /\ IsInjective(batch)
  /\ Range(ready) \cap Range(batch) = {}
  /\ Range(ready) \cup Range(batch) = {w \in Waits : state[w] \in Completions}

BatchOver == phase # "run" => batch = <<>>

\* A wait that timed out is resumed in the same pass, before anything is polled again.
TimedOutInPass ==
  \A w \in Waits : state[w] = "TimedOut" => phase = "timer" \/ w \in Range(batch)

(***************************************************************************)
(* The inductive invariant of the reactor.                                 *)
(***************************************************************************)
ReactorInv ==
  /\ ReactorTypeOK
  /\ Placed /\ SlotHolds /\ TimersAlive /\ HoldsSlot /\ WaitersArmed
  /\ QueuesHold /\ BatchOver /\ TimedOutInPass
-----------------------------------------------------------------------------
\* Nobody waits and nothing is queued in the beginning.
LEMMA ReactorInitInv == ReactorInit => ReactorInv
<1> SUFFICES ASSUME ReactorInit PROVE ReactorInv
  OBVIOUS
<1> USE DEF ReactorInit
<1>1. ReactorTypeOK
  BY SMTT(20) DEF ReactorTypeOK, Dirs
<1>2. Placed /\ SlotHolds /\ TimersAlive /\ HoldsSlot /\ WaitersArmed
  BY DEF Placed, SlotHolds, TimersAlive, HoldsSlot, WaitersArmed, Waiting
<1>3. QueuesHold /\ BatchOver /\ TimedOutInPass
  BY EmptyQueue DEF QueuesHold, BatchOver, TimedOutInPass, Completions
<1> QED BY <1>1, <1>2, <1>3 DEF ReactorInv

\* Only what epoll would report changes.
LEMMA LevelInv ==
  ASSUME ReactorInv, level' \in [Fds -> SUBSET {"Read", "Write", "Err"}],
         UNCHANGED <<loopVars, slots, waitVars, is_open, in_set, armed>>
  PROVE  ReactorInv'
<1> USE DEF loopVars, waitVars
<1>1. ReactorTypeOK'
  BY DEF ReactorInv, ReactorTypeOK
<1>2. Placed' /\ SlotHolds' /\ TimersAlive' /\ HoldsSlot'
  BY SMTT(20) DEF ReactorInv, Placed, SlotHolds, TimersAlive, HoldsSlot
<1>3. WaitersArmed' /\ QueuesHold' /\ BatchOver' /\ TimedOutInPass'
  BY DEF ReactorInv, WaitersArmed, Waiting, QueuesHold, BatchOver, TimedOutInPass
<1> QED BY <1>1, <1>2, <1>3 DEF ReactorInv

\* A wait registers in an empty slot.
LEMMA AwaitInv ==
  ASSUME ReactorInv, NEW w \in Waits, NEW fd, NEW dir \in Dirs, NEW timed,
         Await(w, fd, dir, timed)
  PROVE  ReactorInv'
<1> USE NoWaitAssumption DEF Await, Ensure, loopVars
<1>0. ReactorTypeOK /\ fd \in Fds
  BY DEF ReactorInv, ReactorTypeOK
<1>1. ReactorTypeOK'
  BY <1>0 DEF ReactorTypeOK, Waiting
<1>2. Placed'
  BY <1>0 DEF ReactorTypeOK, ReactorInv, Placed
<1>3. SlotHolds'
  BY <1>0, SMTT(20) DEF ReactorTypeOK, ReactorInv, SlotHolds
<1>4. TimersAlive'
  BY <1>0 DEF ReactorTypeOK, ReactorInv, TimersAlive
<1>5. HoldsSlot'
  BY <1>0, SMTT(20) DEF ReactorTypeOK, ReactorInv, HoldsSlot, Placed
<1>6. WaitersArmed'
  BY <1>0 DEF ReactorTypeOK, ReactorInv, WaitersArmed, Waiting
<1>7. QueuesHold' /\ BatchOver' /\ TimedOutInPass'
  <2>1. {v \in Waits : state'[v] \in Completions} = {v \in Waits : state[v] \in Completions}
    BY <1>0 DEF ReactorTypeOK, Completions
  <2> QED BY <1>0, <2>1 DEF ReactorInv, ReactorTypeOK, QueuesHold, BatchOver, TimedOutInPass
<1> QED BY <1>1, <1>2, <1>3, <1>4, <1>5, <1>6, <1>7 DEF ReactorInv

\* deregister() keeps the types, and what still waits armed.
LEMMA DeregisterFacts ==
  ASSUME ReactorTypeOK, WaitersArmed, SlotHolds, Placed,
         NEW fd \in Fds, NEW dir \in Dirs, Deregister(fd, dir)
  PROVE  /\ slots' \in [Fds -> [Dirs -> Waits \cup {NoWait}]]
         /\ in_set' \in SUBSET Fds
         /\ armed' \in [Fds -> SUBSET Dirs]
         /\ WaitersArmed'
<1> USE DEF Deregister, Ensure
<1>1. slots' \in [Fds -> [Dirs -> Waits \cup {NoWait}]]
  BY DEF ReactorTypeOK
<1>2. in_set' \in SUBSET Fds
  BY DEF ReactorTypeOK
<1>3. armed' \in [Fds -> SUBSET Dirs]
  BY SMTT(20) DEF ReactorTypeOK, Waiting
<1>4. WaitersArmed'
  BY NoWaitAssumption, SMTT(20) DEF ReactorTypeOK, WaitersArmed, Waiting, SlotHolds, Placed
<1> QED BY <1>1, <1>2, <1>3, <1>4

\* A wait is cancelled and leaves its slot.
LEMMA CancelInv ==
  ASSUME ReactorInv, NEW w \in Waits, Cancel(w)
  PROVE  ReactorInv'
<1> USE NoWaitAssumption DEF Cancel
<1>0. /\ ReactorTypeOK /\ on[w].fd \in is_open /\ on[w].fd \in Fds /\ on[w].dir \in Dirs
      /\ slots[on[w].fd][on[w].dir] = w
  BY DEF ReactorInv, ReactorTypeOK, Placed, HoldsSlot
<1>1. ReactorTypeOK'
  <2>1. ready' \in Seq(Waits)
    BY <1>0, Appended DEF ReactorTypeOK
  <2> QED BY <1>0, <2>1, DeregisterFacts DEF ReactorInv, ReactorTypeOK, Completions
<1>2. Placed'
  BY <1>0 DEF ReactorTypeOK, ReactorInv, Placed
<1>3. SlotHolds'
  <2> SUFFICES ASSUME NEW f \in Fds, NEW d \in Dirs, slots'[f][d] # NoWait
               PROVE  /\ state'[slots'[f][d]] \in {"Pending", "TimedOut"}
                      /\ on'[slots'[f][d]].fd = f /\ on'[slots'[f][d]].dir = d
    BY DEF SlotHolds
  <2>1. slots' = [slots EXCEPT ![on[w].fd][on[w].dir] = NoWait]
    BY DEF Deregister
  <2>2. /\ slots'[f][d] = slots[f][d] /\ slots[f][d] \in Waits
        /\ ~(f = on[w].fd /\ d = on[w].dir)
    BY <1>0, <2>1, SMTT(20) DEF ReactorTypeOK
  <2>3. /\ state[slots[f][d]] \in {"Pending", "TimedOut"}
        /\ on[slots[f][d]].fd = f /\ on[slots[f][d]].dir = d
    BY <2>2, SMTT(20) DEF ReactorInv, SlotHolds
  <2>4. slots[f][d] # w
    BY <2>2, <2>3
  <2> QED BY <1>0, <2>2, <2>3, <2>4 DEF ReactorTypeOK
<1>4. TimersAlive'
  BY <1>0 DEF ReactorTypeOK, ReactorInv, TimersAlive
<1>5. HoldsSlot'
  BY <1>0 DEF ReactorTypeOK, ReactorInv, HoldsSlot, Placed, Deregister
<1>6. WaitersArmed'
  BY <1>0, DeregisterFacts DEF ReactorInv
<1>7. QueuesHold' /\ BatchOver' /\ TimedOutInPass'
  <2>1. w \notin Range(ready) /\ w \notin Range(batch)
    BY DEF ReactorInv, QueuesHold, Completions
  <2>2. {v \in Waits : state'[v] \in Completions}
          = {v \in Waits : state[v] \in Completions} \cup {w}
    BY <1>0, SMTT(20) DEF ReactorTypeOK, Completions
  <2>3. Range(ready') = Range(ready) \cup {w} /\ IsInjective(ready')
    BY <1>0, <2>1, Appended, SMTT(20) DEF ReactorInv, QueuesHold, ReactorTypeOK
  <2> QED BY <1>0, <2>1, <2>2, <2>3, SMTT(20)
    DEF ReactorInv, ReactorTypeOK, QueuesHold, BatchOver, TimedOutInPass
<1> QED BY <1>1, <1>2, <1>3, <1>4, <1>5, <1>6, <1>7 DEF ReactorInv

\* The loop resumes the first coroutine of the batch, which leaves its wait.
LEMMA ResumeInv ==
  ASSUME ReactorInv, Resume
  PROVE  ReactorInv'
<1> DEFINE w == Head(batch)
<1> USE NoWaitAssumption
<1>0. /\ ReactorTypeOK /\ w \in Waits /\ Tail(batch) \in Seq(Waits)
      /\ Range(batch) = Range(Tail(batch)) \cup {w}
      /\ IsInjective(Tail(batch)) /\ w \notin Range(Tail(batch))
  BY Popped DEF Resume, ReactorInv, ReactorTypeOK, QueuesHold
<1>1. state[w] \in Completions /\ on[w].fd \in is_open /\ on[w].fd \in Fds /\ on[w].dir \in Dirs
  BY <1>0 DEF ReactorInv, ReactorTypeOK, QueuesHold, Placed, Completions
<1>2. /\ batch' = Tail(batch)
      /\ state' = [state EXCEPT ![w] = "idle"]
      /\ on' = [on EXCEPT ![w] = Nowhere]
      /\ timer' = timer \ {w}
      /\ \/ state[w] = "TimedOut" /\ Deregister(on[w].fd, on[w].dir)
         \/ state[w] # "TimedOut" /\ UNCHANGED <<slots, in_set, armed>>
      /\ UNCHANGED <<phase, ready, is_open, level>>
      /\ phase = "run"
  BY DEF Resume
<1> HIDE DEF w
<1>3. /\ slots' \in [Fds -> [Dirs -> Waits \cup {NoWait}]]
      /\ in_set' \in SUBSET Fds
      /\ armed' \in [Fds -> SUBSET Dirs]
      /\ WaitersArmed'
  <2>1. CASE Deregister(on[w].fd, on[w].dir)
    BY <1>1, <2>1, DeregisterFacts DEF ReactorInv
  <2>2. CASE UNCHANGED <<slots, in_set, armed>>
    BY <1>0, <2>2 DEF ReactorInv, ReactorTypeOK, WaitersArmed, Waiting
  <2> QED BY <1>2, <2>1, <2>2
<1>4. ReactorTypeOK'
  BY <1>0, <1>2, <1>3 DEF ReactorTypeOK
<1>5. Placed' /\ TimersAlive'
  BY <1>0, <1>2 DEF ReactorTypeOK, ReactorInv, Placed, TimersAlive
<1>6. SlotHolds'
  <2> SUFFICES ASSUME NEW fd \in Fds, NEW d \in Dirs, slots'[fd][d] # NoWait
               PROVE  /\ state'[slots'[fd][d]] \in {"Pending", "TimedOut"}
                      /\ on'[slots'[fd][d]].fd = fd /\ on'[slots'[fd][d]].dir = d
    BY DEF SlotHolds
  <2>1. slots'[fd][d] = slots[fd][d] /\ slots[fd][d] \in Waits
    <3>1. CASE UNCHANGED slots
      BY <1>0, <3>1, SMTT(20) DEF ReactorTypeOK
    <3>2. CASE Deregister(on[w].fd, on[w].dir)
      <4>1. slots' = [slots EXCEPT ![on[w].fd][on[w].dir] = NoWait]
        BY <3>2 DEF Deregister
      <4> QED BY <1>0, <1>1, <4>1, SMTT(20) DEF ReactorTypeOK
    <3> QED BY <1>2, <3>1, <3>2
  <2>2. slots[fd][d] # w
    BY <1>0, <1>1, <1>2, <2>1, SMTT(20) DEF ReactorTypeOK, Deregister, ReactorInv, SlotHolds, Completions
  <2> QED BY <1>0, <1>2, <2>1, <2>2, SMTT(20) DEF ReactorTypeOK, ReactorInv, SlotHolds
<1>7. HoldsSlot'
  <2> SUFFICES ASSUME NEW v \in Waits, state'[v] \in {"Pending", "TimedOut"}
               PROVE  slots'[on'[v].fd][on'[v].dir] = v
    BY DEF HoldsSlot
  <2>1. /\ v # w /\ state[v] \in {"Pending", "TimedOut"}
        /\ on'[v] = on[v] /\ slots[on[v].fd][on[v].dir] = v
    BY <1>0, <1>2 DEF ReactorTypeOK, ReactorInv, HoldsSlot
  <2>2. on[v].fd \in Fds /\ on[v].dir \in Dirs
    BY <1>0, <2>1 DEF ReactorTypeOK, ReactorInv, Placed
  <2>3. CASE UNCHANGED slots
    BY <2>1, <2>3
  <2>4. CASE state[w] = "TimedOut" /\ Deregister(on[w].fd, on[w].dir)
    <3>1. CASE on[v].fd = on[w].fd /\ on[v].dir = on[w].dir
      BY <1>0, <2>1, <2>4, <3>1 DEF ReactorInv, HoldsSlot
    <3>2. CASE ~(on[v].fd = on[w].fd /\ on[v].dir = on[w].dir)
      <4>1. /\ slots' = [slots EXCEPT ![on[w].fd][on[w].dir] = NoWait]
            /\ slots \in [Fds -> [Dirs -> Waits \cup {NoWait}]]
        BY <1>0, <2>4 DEF ReactorTypeOK, Deregister
      <4> QED BY <1>1, <2>1, <2>2, <3>2, <4>1
    <3> QED BY <3>1, <3>2
  <2> QED BY <1>2, <2>3, <2>4
<1>8. QueuesHold' /\ BatchOver' /\ TimedOutInPass'
  <2>1. {v \in Waits : state'[v] \in Completions}
          = {v \in Waits : state[v] \in Completions} \ {w}
    BY <1>0, <1>2 DEF ReactorTypeOK, Completions
  <2>2. w \notin Range(ready)
    BY <1>0 DEF ReactorInv, QueuesHold
  <2> QED BY <1>0, <1>2, <2>1, <2>2, SMTT(20)
    DEF ReactorInv, ReactorTypeOK, QueuesHold, BatchOver, TimedOutInPass
<1> QED BY <1>3, <1>4, <1>5, <1>6, <1>7, <1>8 DEF ReactorInv

\* A descriptor nobody waits on is closed.
LEMMA CloseFdInv ==
  ASSUME ReactorInv, NEW fd, CloseFd(fd)
  PROVE  ReactorInv'
<1> USE DEF CloseFd, loopVars, waitVars
<1>0. ReactorTypeOK /\ fd \in Fds
  BY DEF ReactorInv, ReactorTypeOK
<1>1. ReactorTypeOK'
  BY <1>0 DEF ReactorTypeOK
<1>2. Placed' /\ SlotHolds' /\ TimersAlive'
  BY <1>0, SMTT(20) DEF ReactorTypeOK, ReactorInv, Placed, SlotHolds, TimersAlive
<1>3. HoldsSlot'
  BY <1>0 DEF ReactorTypeOK, ReactorInv, HoldsSlot, Placed
<1>4. WaitersArmed'
  BY <1>0 DEF ReactorTypeOK, ReactorInv, WaitersArmed, Waiting
<1>5. QueuesHold' /\ BatchOver' /\ TimedOutInPass'
  BY DEF ReactorInv, QueuesHold, BatchOver, TimedOutInPass
<1> QED BY <1>1, <1>2, <1>3, <1>4, <1>5 DEF ReactorInv

\* A number is handed out.
LEMMA OpenFdInv ==
  ASSUME ReactorInv, NEW fd \in Fds, OpenFd(fd)
  PROVE  ReactorInv'
<1> USE DEF OpenFd, loopVars, waitVars
<1>1. ReactorTypeOK'
  BY DEF ReactorInv, ReactorTypeOK
<1>2. Placed' /\ SlotHolds' /\ TimersAlive' /\ HoldsSlot'
  BY SMTT(20) DEF ReactorInv, Placed, SlotHolds, TimersAlive, HoldsSlot
<1>3. WaitersArmed' /\ QueuesHold' /\ BatchOver' /\ TimedOutInPass'
  BY DEF ReactorInv, WaitersArmed, Waiting, QueuesHold, BatchOver, TimedOutInPass
<1> QED BY <1>1, <1>2, <1>3 DEF ReactorInv

\* The loop goes from the batch to the poll, or from the poll to the timers.
LEMMA PhaseInv ==
  ASSUME ReactorInv, EndBatch \/ EndPoll
  PROVE  ReactorInv'
<1> USE DEF EndBatch, EndPoll, waitVars, kernelVars
<1>1. ReactorTypeOK'
  BY DEF ReactorInv, ReactorTypeOK
<1>2. Placed' /\ SlotHolds' /\ TimersAlive' /\ HoldsSlot'
  BY SMTT(20) DEF ReactorInv, Placed, SlotHolds, TimersAlive, HoldsSlot
<1>3. WaitersArmed'
  BY DEF ReactorInv, WaitersArmed, Waiting
<1>4. QueuesHold' /\ BatchOver' /\ TimedOutInPass'
  BY EmptyQueue DEF ReactorInv, QueuesHold, BatchOver, TimedOutInPass
<1> QED BY <1>1, <1>2, <1>3, <1>4 DEF ReactorInv

\* What became ready is the next batch.
LEMMA EndTimersInv ==
  ASSUME ReactorInv, EndTimers
  PROVE  ReactorInv'
<1> USE DEF EndTimers, waitVars, kernelVars
<1>1. ReactorTypeOK'
  BY EmptyQueue DEF ReactorInv, ReactorTypeOK
<1>2. Placed' /\ SlotHolds' /\ TimersAlive' /\ HoldsSlot'
  BY SMTT(20) DEF ReactorInv, Placed, SlotHolds, TimersAlive, HoldsSlot
<1>3. WaitersArmed'
  BY DEF ReactorInv, WaitersArmed, Waiting
<1>4. QueuesHold' /\ BatchOver' /\ TimedOutInPass'
  BY EmptyQueue DEF ReactorInv, QueuesHold, BatchOver, TimedOutInPass, Completions
<1> QED BY <1>1, <1>2, <1>3, <1>4 DEF ReactorInv

\* A timer is reached: it ends its wait, or finds it ended.
LEMMA ExpireInv ==
  ASSUME ReactorInv, NEW w, Expire(w)
  PROVE  ReactorInv'
<1> USE DEF kernelVars
<1>0. ReactorTypeOK /\ w \in Waits /\ w \in timer /\ phase = "timer"
  BY DEF ReactorInv, ReactorTypeOK, Expire
<1>1. CASE state[w] # "Pending"
  <2>0. /\ timer' = timer \ {w}
        /\ UNCHANGED <<phase, ready, batch, slots, state, on, is_open, in_set, armed, level>>
    BY <1>1 DEF Expire
  <2>1. ReactorTypeOK'
    BY <1>0, <2>0 DEF ReactorTypeOK
  <2>2. Placed' /\ TimersAlive'
    BY <2>0 DEF ReactorInv, Placed, TimersAlive
  <2>3. SlotHolds' /\ HoldsSlot'
    BY <2>0, SMTT(20) DEF ReactorInv, SlotHolds, HoldsSlot
  <2>4. WaitersArmed' /\ QueuesHold' /\ BatchOver' /\ TimedOutInPass'
    BY <2>0 DEF ReactorInv, WaitersArmed, Waiting, QueuesHold, BatchOver, TimedOutInPass
  <2> QED BY <2>1, <2>2, <2>3, <2>4 DEF ReactorInv
<1>2. CASE state[w] = "Pending"
  <2>0. /\ timer' = timer \ {w}
        /\ state' = [state EXCEPT ![w] = "TimedOut"]
        /\ ready' = Append(ready, w)
        /\ UNCHANGED <<phase, batch, slots, on, is_open, in_set, armed, level>>
    BY <1>2 DEF Expire
  <2>1. ReactorTypeOK'
    <3>1. ready' \in Seq(Waits)
      BY <1>0, <2>0, Appended DEF ReactorTypeOK
    <3> QED BY <1>0, <2>0, <3>1 DEF ReactorTypeOK, Completions
  <2>2. Placed' /\ TimersAlive' /\ HoldsSlot'
    BY <1>0, <1>2, <2>0 DEF ReactorInv, ReactorTypeOK, Placed, TimersAlive, HoldsSlot
  <2>3. SlotHolds' /\ WaitersArmed'
    BY <1>0, <1>2, <2>0, NoWaitAssumption, SMTT(20)
       DEF ReactorInv, ReactorTypeOK, SlotHolds, WaitersArmed, Waiting
  <2>4. QueuesHold' /\ BatchOver' /\ TimedOutInPass'
    <3>1. w \notin Range(ready) /\ w \notin Range(batch)
      BY <1>2 DEF ReactorInv, QueuesHold, Completions
    <3>2. {v \in Waits : state'[v] \in Completions}
            = {v \in Waits : state[v] \in Completions} \cup {w}
      BY <1>0, <2>0 DEF ReactorTypeOK, Completions
    <3>3. Range(ready') = Range(ready) \cup {w} /\ IsInjective(ready')
      BY <1>0, <2>0, <3>1, Appended, SMTT(20) DEF ReactorInv, QueuesHold, ReactorTypeOK
    <3> QED BY <1>0, <2>0, <3>1, <3>2, <3>3 DEF ReactorInv, QueuesHold, BatchOver, TimedOutInPass
  <2> QED BY <2>1, <2>2, <2>3, <2>4 DEF ReactorInv
<1> QED BY <1>1, <1>2

\* What fire() queues of one slot.
LEMMA FiredFacts ==
  ASSUME ReactorTypeOK, NEW w \in Waits \cup {NoWait}, w # NoWait => state[w] = "Pending"
  PROVE  /\ Fired(w) \in Seq(Waits) /\ IsInjective(Fired(w))
         /\ Range(Fired(w)) = {w} \ {NoWait}
BY EmptyQueue, OneQueued DEF Fired

(***************************************************************************)
(* An event ends the waits of the directions it hits, which leave their    *)
(* slots; what waits for the other direction is armed again.               *)
(***************************************************************************)
LEMMA PollEventInv ==
  ASSUME ReactorInv, NEW fd \in Fds, PollEvent(fd)
  PROVE  ReactorInv'
<1> DEFINE event == level[fd] \cap (armed[fd] \cup {"Err"})
           hit == {d \in Dirs : d \in event \/ "Err" \in event}
           taken == [d \in Dirs |-> IF d \in hit THEN slots[fd][d] ELSE NoWait]
           fired == Fired(taken["Read"]) \o Fired(taken["Write"])
<1> USE NoWaitAssumption
<1>0. /\ ReactorTypeOK /\ phase = "poll"
      /\ slots' = [slots EXCEPT ![fd] = [d \in Dirs |-> IF d \in hit THEN NoWait ELSE @[d]]]
      /\ state' = [w \in Waits |-> IF w \in Range(fired) THEN "Ready" ELSE state[w]]
      /\ ready' = ready \o fired
      /\ armed' = [armed EXCEPT ![fd] = Waiting(slots', fd)]
      /\ UNCHANGED <<phase, batch, on, timer, is_open, in_set, level>>
  BY DEF ReactorInv, PollEvent
<1>1. hit \subseteq Dirs
  OBVIOUS
<1> HIDE DEF hit
<1>2. \A w \in Waits : state[w] # "TimedOut"
  BY <1>0, EmptyQueue DEF ReactorInv, BatchOver, TimedOutInPass
<1>3. \A d \in Dirs : /\ taken[d] \in Waits \cup {NoWait}
                      /\ taken[d] # NoWait =>
                           /\ d \in hit /\ slots[fd][d] = taken[d]
                           /\ state[taken[d]] = "Pending"
                           /\ on[taken[d]].fd = fd /\ on[taken[d]].dir = d
  <2> TAKE d \in Dirs
  <2>0. slots \in [Fds -> [Dirs -> Waits \cup {NoWait}]]
    BY <1>0 DEF ReactorTypeOK
  <2>1. slots[fd][d] \in Waits \cup {NoWait}
    BY <2>0
  <2>2. taken[d] = IF d \in hit THEN slots[fd][d] ELSE NoWait
    OBVIOUS
  <2> HIDE DEF taken
  <2>3. ASSUME slots[fd][d] # NoWait
        PROVE  /\ state[slots[fd][d]] = "Pending"
               /\ on[slots[fd][d]].fd = fd /\ on[slots[fd][d]].dir = d
    BY <1>2, <2>1, <2>3, SMTT(20) DEF ReactorInv, SlotHolds
  <2> QED BY <2>1, <2>2, <2>3
<1>4. \A w \in Waits : (\E d \in Dirs : taken[d] = w) <=>
                       state[w] = "Pending" /\ on[w].fd = fd /\ on[w].dir \in hit
  <2> TAKE w \in Waits
  <2>1. ASSUME NEW d \in Dirs, taken[d] = w
        PROVE  state[w] = "Pending" /\ on[w].fd = fd /\ on[w].dir \in hit
    BY <1>3, <2>1, SMTT(20)
  <2>2. ASSUME state[w] = "Pending", on[w].fd = fd, on[w].dir \in hit
        PROVE  taken[on[w].dir] = w /\ on[w].dir \in Dirs
    BY <1>1, <2>2 DEF ReactorInv, HoldsSlot
  <2> QED BY <2>1, <2>2
<1> HIDE DEF taken
<1>5. /\ fired \in Seq(Waits) /\ IsInjective(fired)
      /\ Range(fired) = {taken["Read"], taken["Write"]} \ {NoWait}
  <2>1. /\ Fired(taken["Read"]) \in Seq(Waits) /\ IsInjective(Fired(taken["Read"]))
        /\ Range(Fired(taken["Read"])) = {taken["Read"]} \ {NoWait}
    BY <1>0, <1>3, FiredFacts DEF Dirs
  <2>2. /\ Fired(taken["Write"]) \in Seq(Waits) /\ IsInjective(Fired(taken["Write"]))
        /\ Range(Fired(taken["Write"])) = {taken["Write"]} \ {NoWait}
    BY <1>0, <1>3, FiredFacts DEF Dirs
  <2>3. taken["Read"] = taken["Write"] => taken["Read"] = NoWait
    BY <1>3 DEF Dirs
  <2> QED BY <2>1, <2>2, <2>3, Joined, SMTT(20)
<1>6. Range(fired) = {w \in Waits : state[w] = "Pending" /\ on[w].fd = fd /\ on[w].dir \in hit}
  <2>1. {taken["Read"], taken["Write"]} \ {NoWait} = {w \in Waits : \E d \in Dirs : taken[d] = w}
    BY <1>3 DEF Dirs
  <2> QED BY <1>4, <1>5, <2>1
<1> HIDE DEF fired
<1>7. ReactorTypeOK'
  <2>1. ready' \in Seq(Waits)
    BY <1>0, <1>5, Joined DEF ReactorTypeOK
  <2>2. slots' \in [Fds -> [Dirs -> Waits \cup {NoWait}]] /\ armed' \in [Fds -> SUBSET Dirs]
    BY <1>0, SMTT(20) DEF ReactorTypeOK, Waiting
  <2> QED BY <1>0, <2>1, <2>2 DEF ReactorTypeOK, Completions
<1>8. Placed' /\ TimersAlive'
  BY <1>0, <1>6 DEF ReactorInv, ReactorTypeOK, Placed, TimersAlive
<1>9. SlotHolds'
  <2> SUFFICES ASSUME NEW f \in Fds, NEW d \in Dirs, slots'[f][d] # NoWait
               PROVE  /\ state'[slots'[f][d]] \in {"Pending", "TimedOut"}
                      /\ on'[slots'[f][d]].fd = f /\ on'[slots'[f][d]].dir = d
    BY DEF SlotHolds
  <2>1. /\ slots'[f][d] = slots[f][d] /\ slots[f][d] \in Waits
        /\ ~(f = fd /\ d \in hit)
    BY <1>0, SMTT(20) DEF ReactorTypeOK
  <2>2. /\ state[slots[f][d]] \in {"Pending", "TimedOut"}
        /\ on[slots[f][d]].fd = f /\ on[slots[f][d]].dir = d
    BY <2>1, SMTT(20) DEF ReactorInv, SlotHolds
  <2>3. slots[f][d] \notin Range(fired)
    BY <1>6, <2>1, <2>2
  <2> QED BY <1>0, <2>1, <2>2, <2>3
<1>10. HoldsSlot'
  <2> SUFFICES ASSUME NEW w \in Waits, state'[w] \in {"Pending", "TimedOut"}
               PROVE  slots'[on[w].fd][on[w].dir] = w
    BY <1>0 DEF HoldsSlot
  <2>1. state[w] = "Pending" /\ ~(on[w].fd = fd /\ on[w].dir \in hit)
    BY <1>0, <1>2, <1>6
  <2>2. /\ slots[on[w].fd][on[w].dir] = w /\ on[w].fd \in Fds /\ on[w].dir \in Dirs
    BY <1>0, <2>1 DEF ReactorInv, HoldsSlot, Placed, ReactorTypeOK
  <2> QED BY <1>0, <2>1, <2>2 DEF ReactorTypeOK
<1>11. WaitersArmed'
  BY <1>0 DEF ReactorInv, ReactorTypeOK, WaitersArmed, Waiting
<1>12. QueuesHold' /\ BatchOver' /\ TimedOutInPass'
  <2>1. batch = <<>> /\ Range(batch) = {} /\ IsInjective(batch)
    BY <1>0, EmptyQueue DEF ReactorInv, BatchOver
  <2>2. Range(ready) = {w \in Waits : state[w] \in Completions} /\ IsInjective(ready)
    BY <2>1 DEF ReactorInv, QueuesHold
  <2>3. Range(ready) \cap Range(fired) = {}
    BY <1>6, <2>2 DEF Completions
  <2>4. Range(ready') = Range(ready) \cup Range(fired) /\ IsInjective(ready')
    BY <1>0, <1>5, <2>2, <2>3, Joined DEF ReactorTypeOK
  <2>5. {w \in Waits : state'[w] \in Completions} = Range(ready) \cup Range(fired)
    BY <1>0, <1>6, <2>2 DEF Completions
  <2>6. \A w \in Waits : state'[w] # "TimedOut"
    BY <1>0, <1>2
  <2> QED BY <1>0, <2>1, <2>4, <2>5, <2>6 DEF QueuesHold, BatchOver, TimedOutInPass
<1> QED BY <1>7, <1>8, <1>9, <1>10, <1>11, <1>12 DEF ReactorInv
-----------------------------------------------------------------------------
\* Socket buffers change, and with them what epoll reports.
LEMMA LevelType ==
  ASSUME NEW r, NEW broken
  PROVE  LevelOf(r, broken) \in SUBSET {"Read", "Write", "Err"}
BY DEF LevelOf, Dirs

\* Every step of a coroutine, of the loop and of a peer keeps the reactor's invariant.
LEMMA ReactorStep == ReactorInv /\ [StreamNext]_streamVars => ReactorInv'
<1> SUFFICES ASSUME ReactorInv, [StreamNext]_streamVars PROVE ReactorInv'
  OBVIOUS
<1>a. ASSUME UNCHANGED reactorVars PROVE ReactorInv'
  BY <1>a, LevelInv DEF ReactorInv, ReactorTypeOK, reactorVars, kernelVars
<1>b. level \in [Fds -> SUBSET {"Read", "Write", "Err"}]
  BY DEF ReactorInv, ReactorTypeOK
<1>1. CASE UNCHANGED streamVars
  BY <1>1, <1>a DEF streamVars
<1>2. CASE Continue
  BY <1>2, ResumeInv DEF Continue
<1>3. CASE EndRun \/ Pass
  BY <1>3, PhaseInv, EndTimersInv DEF EndRun, Pass, Loop
<1>4. ASSUME NEW w \in Waits, NEW n, Transfer(w, n) PROVE ReactorInv'
  <2>1. level' \in [Fds -> SUBSET {"Read", "Write", "Err"}]
    BY <1>4, <1>b, LevelType DEF Transfer, SetRoom
  <2> QED BY <1>4, <2>1, LevelInv DEF Transfer
<1>5. ASSUME NEW w \in Waits,
             NoTransfer(w) \/ Again(w) \/ SuspendFails(w) \/ ConnectChecked(w) \/ DeadlinePasses(w)
      PROVE  ReactorInv'
  BY <1>5, <1>a DEF NoTransfer, Again, SuspendFails, ConnectChecked, DeadlinePasses
<1>6. ASSUME NEW w \in Waits, Suspend(w) PROVE ReactorInv'
  <2>1. Dir(w) \in Dirs
    BY DEF Dir, Dirs
  <2> QED BY <1>6, <2>1, AwaitInv DEF Suspend
<1>7. ASSUME NEW w \in Waits, Return(w) PROVE ReactorInv'
  BY <1>7, <1>a, CloseFdInv DEF Return, Closed
<1>8. ASSUME NEW w \in Waits, CancelCall(w) PROVE ReactorInv'
  BY <1>8, CancelInv DEF CancelCall
<1>9. ASSUME NEW w \in Waits, TimerDue(w) PROVE ReactorInv'
  BY <1>9, ExpireInv DEF TimerDue, Loop
<1>10. ASSUME NEW w \in Waits, NEW fd \in Fds, Connect(w, fd) PROVE ReactorInv'
  BY <1>10, OpenFdInv DEF Connect
<1>11. ASSUME NEW w \in Waits, NEW k, NEW fd, NEW timed, Begin(w, k, fd, timed) PROVE ReactorInv'
  BY <1>11, <1>a DEF Begin
<1>12. ASSUME NEW fd \in Fds, Event(fd) PROVE ReactorInv'
  BY <1>12, PollEventInv DEF Event, Loop
<1>13. ASSUME NEW fd \in Fds, Accept(fd) PROVE ReactorInv'
  BY <1>13, OpenFdInv DEF Accept
<1>14. ASSUME NEW fd \in Fds, CloseStream(fd) PROVE ReactorInv'
  BY <1>14, CloseFdInv DEF CloseStream, Closed
<1>15. ASSUME NEW fd \in Fds, NEW d, PeerMoves(fd, d) PROVE ReactorInv'
  <2>1. level' \in [Fds -> SUBSET {"Read", "Write", "Err"}]
    BY <1>15, <1>b, LevelType DEF PeerMoves, SetRoom
  <2> QED BY <1>15, <2>1, LevelInv DEF PeerMoves
<1>16. ASSUME NEW fd \in Fds, PeerDies(fd) PROVE ReactorInv'
  <2>1. level' \in [Fds -> SUBSET {"Read", "Write", "Err"}]
    BY <1>16, <1>b, LevelType DEF PeerDies
  <2> QED BY <1>16, <2>1, LevelInv DEF PeerDies
<1> QED
  BY <1>1, <1>2, <1>3, <1>4, <1>5, <1>6, <1>7, <1>8, <1>9, <1>10, <1>11, <1>12, <1>13,
     <1>14, <1>15, <1>16
  DEF StreamNext, CallStep

\* Whatever the calls, peers, timers and tokens do, poll() and the resumed coroutines keep
\* slots, timers, registrations and queues consistent.
THEOREM ReactorInvariance == StreamSpec => []ReactorInv
<1>1. StreamInit => ReactorInv
  BY ReactorInitInv DEF StreamInit
<1> QED BY <1>1, ReactorStep, PTL DEF StreamSpec

(***************************************************************************)
(* Every pending wait is in its slot and watched by the kernel: no event,  *)
(* timeout, cancellation or deregistration of another wait strands it.     *)
(***************************************************************************)
THEOREM WatchedTheorem == StreamSpec => []WaitsAreWatched
<1>1. ReactorInv => WaitsAreWatched
  BY DEF ReactorInv, HoldsSlot, WaitersArmed, WaitsAreWatched
<1> QED BY <1>1, ReactorInvariance, PTL

(***************************************************************************)
(* Slots and live timers only point to coroutines that are suspended in    *)
(* the wait they belong to.                                                *)
(***************************************************************************)
THEOREM EntriesTheorem == StreamSpec => []EntriesAlive
<1>1. ReactorInv => EntriesAlive
  <2> SUFFICES ASSUME ReactorInv PROVE EntriesAlive
    OBVIOUS
  <2>1. ASSUME NEW fd \in Fds, NEW d \in Dirs, slots[fd][d] # NoWait
        PROVE  /\ state[slots[fd][d]] # "idle"
               /\ on[slots[fd][d]] = [fd |-> fd, dir |-> d]
    <3> DEFINE w == slots[fd][d]
    <3>1. w \in Waits
      BY <2>1, SMTT(20) DEF ReactorInv, ReactorTypeOK
    <3>2. state[w] \in {"Pending", "TimedOut"} /\ on[w].fd = fd /\ on[w].dir = d
      BY <2>1 DEF ReactorInv, SlotHolds
    <3> HIDE DEF w
    <3>3. on[w] \in [fd : Fds, dir : Dirs] \cup {Nowhere}
      BY <3>1 DEF ReactorInv, ReactorTypeOK
    <3>4. on[w] = [fd |-> fd, dir |-> d]
      BY <3>2, <3>3 DEF Nowhere
    <3> QED BY <3>2, <3>4 DEF w
  <2> QED BY <2>1 DEF ReactorInv, TimersAlive, EntriesAlive
<1> QED BY <1>1, ReactorInvariance, PTL

(***************************************************************************)
(* A wait that an event, its timer or a cancellation has ended is queued   *)
(* exactly once, by whichever came first.                                  *)
(***************************************************************************)
THEOREM CompletedTheorem == StreamSpec => []CompletedOnce
<1>1. ReactorInv => CompletedOnce
  BY Joined DEF ReactorInv, ReactorTypeOK, QueuesHold, CompletedOnce
<1> QED BY <1>1, ReactorInvariance, PTL
-----------------------------------------------------------------------------
USE NumCoresAssumption DEF Cores, Owner, Watchdog, Joinable, Ends, AfterFault,
                           StartedWatchdog, Inherited, Restored

\* Where the owner is tells which cores have been started and which are joined.
OwnerInv ==
  /\ main = "setup" => \A i \in Cores : core[i] = "none"
  /\ main = "spawn" => \A i \in Cores : core[i] = "none" <=> next[Owner] <= i
  /\ main \notin {"setup", "spawn"} /\ result # <<"setup_error">> =>
       \A i \in Cores : core[i] # "none"
  /\ result = <<"setup_error">> => main = "returned" /\ \A i \in Cores : core[i] = "none"
  /\ main = "run" => next[Owner] = 1
  /\ main = "join" => \A i \in Cores : i < next[Owner] => core[i] = "exited"
  /\ main \in {"join_watchdog", "returned"} /\ result # <<"setup_error">> =>
       \A i \in Cores : core[i] = "exited"

\* The watchdog lives from graceful_stop() to the join of its thread.
WatchdogInv ==
  /\ watchdog # "none" => main \in {"join", "join_watchdog", "returned"}
  /\ main = "returned" => watchdog \in {"none", "exited"}

\* What the destructors rely on, and leave behind.
LifeInv ==
  /\ life = "pool" => main \in {"run", "returned"}
  /\ life = "executor" => main \in {"stop", "join", "join_watchdog", "returned"}
  /\ life = "executor" /\ main = "stop" => after = "join"
  /\ life = "destroyed" => main = "returned"
  /\ life \in {"executor", "destroyed"} => ~pool
  /\ pool => blocking
  /\ life \in {"alive", "pool"} => loops = Cores
  /\ loops # Cores => main = "returned"
  /\ life = "destroyed" => loops = {}

\* Who may have asked a loop to stop.
StopInv ==
  /\ stop # {} =>
       \/ after # "never"
       \/ policy = "FailFast" /\ faults # <<>>
       \/ watchdog \in {"stopping", "exited"}
       \/ result = <<"setup_error">>
  /\ main = "stop" => after # "never"
  /\ \A i \in Cores : core[i] = "stopping" => policy = "FailFast" /\ faults # <<>>

\* While the loops with a SignalSet exist, every thread of the Executor blocks the signal;
\* only the first set saved a mask without it, and has set it back if it was the only one.
SignalInv ==
  /\ signals # {} /\ signals \subseteq loops => Owner \in blocked
  /\ signals = {} => Owner \notin blocked
  /\ Owner \in blocked =>
       \A i \in Cores : core[i] \notin {"none", "exited"} => i \in blocked
  /\ signal = "pending" => signals # {}
  /\ main = "setup" => \A i \in signals : i < next[Owner]
  /\ \A i \in signals : saved[i] => \E j \in signals : j # i
  /\ \A i \in signals : i \notin loops /\ Owner \in blocked => \E j \in signals : j # i

IInv ==
  /\ TypeOK /\ OwnerInv /\ WatchdogInv /\ LifeInv /\ StopInv /\ SignalInv
  /\ FaultsReported /\ NoWorkCutShort /\ SignalsCaught
-----------------------------------------------------------------------------
\* The position of a loop over the cores stays a core: Forward() wraps at the last one.
LEMMA ForwardType ==
  ASSUME ExecutorTypeOK, NEW x \in Cores \cup {Owner, Watchdog}, Forward(x)
  PROVE  /\ next' \in [Cores \cup {Owner, Watchdog} -> Cores]
         /\ next'[x] = IF Through(x) THEN 1 ELSE next[x] + 1
         /\ \A y \in Cores \cup {Owner, Watchdog} : y # x => next'[y] = next[y]
<1>1. next \in [Cores \cup {Owner, Watchdog} -> Cores]
  BY DEF ExecutorTypeOK
<1>2. (IF Through(x) THEN 1 ELSE next[x] + 1) \in Cores
  BY <1>1, SMTT(20) DEF Through
<1> QED
  BY <1>1, <1>2 DEF Forward, Through

\* The names of the outcomes of run() and join() are different.
LEMMA Outcomes ==
  /\ <<"none">> # <<"setup_error">>
  /\ <<"Ok">> # <<"setup_error">>
  /\ \A i : <<"fault", i>> # <<"setup_error">>
OBVIOUS

\* What the steps of the Executor do to the types of its own state; the owner in stop()
\* knows what it does next.
LEMMA ExecutorTypeStep ==
  ASSUME ExecutorTypeOK, main = "stop" => after # "never"
  PROVE  /\ Setup \/ SetupFails \/ SpawnWorker => ExecutorTypeOK'
         /\ CallStop \/ CallJoin \/ CallGracefulStop => ExecutorTypeOK'
         /\ StopLoop \/ GracefulLoop \/ JoinThread \/ JoinWatchdog => ExecutorTypeOK'
         /\ WatchdogStep => ExecutorTypeOK'
         /\ \A i \in Cores : CoreStep(i) \/ RunFails(i) \/ TasksEnd(i) => ExecutorTypeOK'
         /\ UNCHANGED executorVars => ExecutorTypeOK'
<1> DEFINE X == Cores \cup {Owner, Watchdog}
           States == {"none", "running", "failed", "stopping", "teardown", "exited"}
<1>f. ASSUME NEW x \in X, Forward(x)
      PROVE  next' \in [X -> Cores] /\ next[x] \in Cores
  BY <1>f, ForwardType DEF ExecutorTypeOK
<1>1. ASSUME Setup \/ SetupFails \/ SpawnWorker PROVE ExecutorTypeOK'
  <2>1. next' \in [X -> Cores] /\ next[Owner] \in Cores
    BY <1>1, <1>f DEF Setup, SetupFails, SpawnWorker, ExecutorTypeOK
  <2>2. CASE Setup
    BY <2>1, <2>2 DEF Setup, ExecutorTypeOK
  <2>3. CASE SetupFails
    <3>1. tasks' \in SUBSET Cores
      BY <2>1, <2>3 DEF SetupFails, ExecutorTypeOK
    <3> QED
      BY <2>3, <3>1 DEF SetupFails, ExecutorTypeOK
  <2>4. CASE SpawnWorker
    BY <2>1, <2>4 DEF SpawnWorker, ExecutorTypeOK
  <2> QED
    BY <1>1, <2>2, <2>3, <2>4
<1>2. ASSUME CallStop \/ CallJoin \/ CallGracefulStop PROVE ExecutorTypeOK'
  <2>1. CASE CallStop
    BY <2>1 DEF CallStop, ExecutorTypeOK, coreVars
  <2>2. CASE CallJoin
    BY <2>2 DEF CallJoin, ExecutorTypeOK, coreVars
  <2>3. CASE CallGracefulStop
    BY <2>3 DEF CallGracefulStop, ExecutorTypeOK, coreVars
  <2> QED
    BY <1>2, <2>1, <2>2, <2>3
<1>3. ASSUME StopLoop PROVE ExecutorTypeOK'
  <2>1. next' \in [X -> Cores] /\ next[Owner] \in Cores
    BY <1>3, <1>f DEF StopLoop
  <2>2. main' \in {"stop", "run", "join"} /\ stop' \in SUBSET Cores
    BY <1>3, <2>1 DEF StopLoop, ExecutorTypeOK
  <2> QED
    BY <1>3, <2>1, <2>2 DEF StopLoop, ExecutorTypeOK, coreVars
<1>4. ASSUME GracefulLoop PROVE ExecutorTypeOK'
  <2>1. next' \in [X -> Cores] /\ next[Owner] \in Cores
    BY <1>4, <1>f DEF GracefulLoop
  <2>2. /\ main' \in {main, "run", "join"}
        /\ watchdog' \in {watchdog, "waiting"}
        /\ graceful' \in SUBSET Cores
    BY <1>4, <2>1 DEF GracefulLoop, ExecutorTypeOK
  <2> QED
    BY <1>4, <2>1, <2>2 DEF GracefulLoop, ExecutorTypeOK, coreVars
<1>5. ASSUME JoinThread PROVE ExecutorTypeOK'
  <2>1. next' \in [X -> Cores]
    BY <1>5, <1>f DEF JoinThread
  <2>2. main' \in {main, "returned", "join_watchdog"} /\ drained' \in BOOLEAN
    BY <1>5 DEF JoinThread, ExecutorTypeOK
  <2> QED
    BY <1>5, <2>1, <2>2 DEF JoinThread, ExecutorTypeOK, coreVars
<1>6. ASSUME JoinWatchdog PROVE ExecutorTypeOK'
  BY <1>6 DEF JoinWatchdog, ExecutorTypeOK, coreVars
<1>7. ASSUME WatchdogStep PROVE ExecutorTypeOK'
  <2>1. CASE WatchdogSeesDrained
    BY <2>1 DEF WatchdogSeesDrained, ExecutorTypeOK, coreVars
  <2>2. CASE WatchdogExpires
    BY <2>2 DEF WatchdogExpires, ExecutorTypeOK, coreVars
  <2>3. CASE WatchdogStops
    <3>1. next' \in [X -> Cores] /\ next[Watchdog] \in Cores
      BY <2>3, <1>f DEF WatchdogStops
    <3> QED
      BY <2>3, <3>1 DEF WatchdogStops, ExecutorTypeOK, coreVars
  <2> QED
    BY <1>7, <2>1, <2>2, <2>3 DEF WatchdogStep
<1>8. ASSUME NEW i \in Cores, CoreStep(i) \/ RunFails(i) \/ TasksEnd(i)
      PROVE  ExecutorTypeOK'
  <2>c. \A v \in States : [core EXCEPT ![i] = v] \in [Cores -> States]
    BY DEF ExecutorTypeOK
  <2>1. CASE RunReturns(i) \/ RunFails(i) \/ Exit(i)
    <3>1. core' \in [Cores -> States]
      BY <2>1, <2>c DEF RunReturns, RunFails, Exit
    <3>2. CASE RunReturns(i)
      BY <3>1, <3>2 DEF RunReturns, ExecutorTypeOK
    <3>3. CASE RunFails(i)
      BY <3>1, <3>3 DEF RunFails, ExecutorTypeOK
    <3>4. CASE Exit(i)
      BY <3>1, <3>4 DEF Exit, ExecutorTypeOK
    <3> QED
      BY <2>1, <3>2, <3>3, <3>4
  <2>2. CASE TasksEnd(i)
    BY <2>2 DEF TasksEnd, ExecutorTypeOK
  <2>3. CASE RecordFault(i)
    <3>1. core' \in [Cores -> States]
      BY <2>3, <2>c DEF RecordFault
    <3>2. faults \in Seq(Cores) /\ faults' = Append(faults, i)
      BY <2>3 DEF RecordFault, ExecutorTypeOK
    <3>3. faults' \in Seq(Cores)
      BY <3>2, AppendProperties
    <3> QED
      BY <2>3, <3>1, <3>3 DEF RecordFault, ExecutorTypeOK
  <2>4. CASE StopOther(i)
    <3>1. next' \in [X -> Cores] /\ next[i] \in Cores
      BY <2>4, <1>f DEF StopOther
    <3>2. core' \in [Cores -> States]
      <4>1. (IF Through(i) THEN "teardown" ELSE "stopping") \in States
        OBVIOUS
      <4> QED
        BY <2>4, <2>c, <4>1 DEF StopOther
    <3>3. stop' \in SUBSET Cores
      BY <2>4, <3>1 DEF StopOther, ExecutorTypeOK
    <3> QED
      BY <2>4, <3>1, <3>2, <3>3 DEF StopOther, ExecutorTypeOK
  <2> QED
    BY <1>8, <2>1, <2>2, <2>3, <2>4 DEF CoreStep
<1>9. ASSUME UNCHANGED executorVars PROVE ExecutorTypeOK'
  BY <1>9 DEF executorVars, coreVars, ExecutorTypeOK
<1> QED
  BY <1>1, <1>2, <1>3, <1>4, <1>5, <1>6, <1>7, <1>8, <1>9

\* Every step of the owner, the watchdog and the worker threads keeps the types.
LEMMA TypeStep == TypeOK /\ StopInv /\ [Next]_vars => TypeOK'
<1> SUFFICES ASSUME TypeOK, StopInv, [Next]_vars
             PROVE  TypeOK'
  OBVIOUS
<1>e. ExecutorTypeOK /\ next[Owner] \in Cores /\ (main = "stop" => after # "never")
  BY DEF TypeOK, ExecutorTypeOK, StopInv
<1>u. ASSUME UNCHANGED runtimeVars, ExecutorTypeOK'
      PROVE  TypeOK'
  BY <1>u DEF TypeOK, runtimeVars, signalVars
<1>1. CASE SetupCore
  <2>1. ExecutorTypeOK'
    BY <1>1, <1>e, ExecutorTypeStep DEF SetupCore
  <2>2. blocked' \in SUBSET (Cores \cup {Owner}) /\ signals' \in SUBSET Cores
    BY <1>1, <1>e DEF SetupCore, AddSignals, TypeOK
  <2>3. saved' \in [Cores -> BOOLEAN]
    <3>1. saved \in [Cores -> BOOLEAN] /\ (Owner \in blocked) \in BOOLEAN
      BY SMTT(20) DEF TypeOK
    <3>2. CASE AddSignals(next[Owner])
      BY <1>e, <3>1, <3>2 DEF AddSignals
    <3> QED
      BY <1>1, <3>1, <3>2 DEF SetupCore
  <2> QED
    BY <1>1, <2>1, <2>2, <2>3 DEF SetupCore, TypeOK
<1>2. CASE StartWorker
  <2>1. ExecutorTypeOK'
    BY <1>2, <1>e, ExecutorTypeStep DEF StartWorker
  <2>2. blocked' \in SUBSET (Cores \cup {Owner})
    BY <1>2, <1>e DEF StartWorker, TypeOK
  <2> QED
    BY <1>2, <2>1, <2>2 DEF StartWorker, TypeOK
<1>3. CASE OwnerCall
  BY <1>3, <1>u, <1>e, ExecutorTypeStep DEF OwnerCall
<1>4. CASE (StopLoop \/ GracefulLoop \/ JoinThread \/ JoinWatchdog) /\ UNCHANGED runtimeVars
  BY <1>4, <1>u, <1>e, ExecutorTypeStep
<1>5. CASE Destroy \/ Kill \/ Delivered \/ \E i \in Cores : DestroyLoop(i)
  <2>1. UNCHANGED executorVars
    BY <1>5 DEF Destroy, DestroyLoop, Kill, Delivered
  <2>2. ExecutorTypeOK'
    BY <2>1, <1>e, ExecutorTypeStep
  <2>3. blocked' \in SUBSET (Cores \cup {Owner})
    BY <1>5 DEF Destroy, DestroyLoop, Kill, Delivered, signalVars, TypeOK
  <2>4. loops' \in SUBSET Cores /\ life' \in {"alive", "pool", "executor", "destroyed"}
    BY <1>5 DEF Destroy, DestroyLoop, Kill, Delivered, TypeOK
  <2> QED
    BY <1>5, <2>2, <2>3, <2>4 DEF Destroy, DestroyLoop, Kill, Delivered, signalVars, TypeOK
<1>6. CASE DestroyPool
  <2>1. main' \in {main, "stop"} /\ after' \in {after, "join"}
    BY <1>6 DEF DestroyPool
  <2>2. ExecutorTypeOK'
    <3>1. main' \in {"setup", "spawn", "run", "stop", "request", "graceful", "join",
                     "join_watchdog", "returned"}
      BY <1>e, <2>1 DEF ExecutorTypeOK
    <3>2. after' \in {"never", "run", "join"}
      BY <1>e, <2>1 DEF ExecutorTypeOK
    <3> QED
      BY <1>6, <1>e, <3>1, <3>2 DEF DestroyPool, ExecutorTypeOK, coreVars
  <2> QED
    BY <1>6, <2>2 DEF DestroyPool, signalVars, TypeOK
<1>7. CASE WatchdogStep /\ UNCHANGED runtimeVars
  BY <1>7, <1>u, <1>e, ExecutorTypeStep
<1>8. ASSUME NEW i \in Cores,
             CoreStep(i) \/ RunFails(i) \/ TasksEnd(i), UNCHANGED runtimeVars
      PROVE  TypeOK'
  BY <1>8, <1>u, <1>e, ExecutorTypeStep
<1>9. ASSUME NEW i \in Cores, ReadSignal(i)
      PROVE  TypeOK'
  <2>1. ExecutorTypeOK'
    BY <1>9, <1>e, ExecutorTypeStep DEF ReadSignal
  <2> QED
    BY <1>9, <2>1 DEF ReadSignal, TypeOK
<1>10. CASE UNCHANGED vars
  BY <1>10, <1>u, <1>e, ExecutorTypeStep DEF vars
<1> QED
  BY <1>1, <1>2, <1>3, <1>4, <1>5, <1>6, <1>7, <1>8, <1>9, <1>10
  DEF Next, Step, OwnerStep
-----------------------------------------------------------------------------
\* A step of a worker thread concerns a thread that runs, leaves what the owner and the
\* watchdog hold alone and moves no other worker.
LEMMA CoreStepFrame ==
  ASSUME TypeOK, NEW i \in Cores, CoreStep(i) \/ RunFails(i) \/ TasksEnd(i)
  PROVE  /\ UNCHANGED <<policy, graceful, main, after, drained, watchdog, result>>
         /\ next'[Owner] = next[Owner]
         /\ core[i] \notin {"none", "exited"} /\ core'[i] # "none"
         /\ \A j \in Cores : j # i => core'[j] = core[j]
<1>0. core \in [Cores -> {"none", "running", "failed", "stopping", "teardown", "exited"}]
  BY DEF TypeOK, ExecutorTypeOK
<1>1. CASE RunReturns(i) \/ RunFails(i) \/ Exit(i)
  BY <1>0, <1>1 DEF RunReturns, RunFails, Exit
<1>2. CASE RecordFault(i)
  BY <1>0, <1>2 DEF RecordFault
<1>3. CASE StopOther(i)
  <2>1. next'[Owner] = next[Owner]
    BY <1>3, ForwardType, SMTT(20) DEF StopOther, TypeOK
  <2> QED
    BY <1>0, <1>3, <2>1 DEF StopOther
<1>4. CASE TasksEnd(i)
  BY <1>4 DEF TasksEnd
<1> QED
  BY <1>1, <1>2, <1>3, <1>4 DEF CoreStep

\* The watchdog moves no worker and leaves the owner alone.
LEMMA WatchdogFrame ==
  ASSUME TypeOK, WatchdogStep
  PROVE  /\ UNCHANGED <<policy, core, tasks, faults, graceful, main, after, drained, result>>
         /\ next'[Owner] = next[Owner]
<1>1. CASE WatchdogSeesDrained \/ WatchdogExpires
  BY <1>1 DEF WatchdogSeesDrained, WatchdogExpires, coreVars
<1>2. CASE WatchdogStops
  <2>1. next'[Owner] = next[Owner]
    BY <1>2, ForwardType, SMTT(20) DEF WatchdogStops, TypeOK
  <2> QED
    BY <1>2, <2>1 DEF WatchdogStops, coreVars
<1> QED
  BY <1>1, <1>2 DEF WatchdogStep

\* run() sets every core up before it starts the first, and join() takes them in order:
\* when it returns, the last thread has exited and so have those before it.
LEMMA OwnerInvStep == TypeOK /\ OwnerInv /\ [Next]_vars => OwnerInv'
<1> SUFFICES ASSUME TypeOK, OwnerInv, [Next]_vars
             PROVE  OwnerInv'
  OBVIOUS
<1>0. /\ core \in [Cores -> {"none", "running", "failed", "stopping", "teardown", "exited"}]
      /\ next[Owner] \in Cores /\ ExecutorTypeOK
  BY DEF TypeOK, ExecutorTypeOK
<1>f. ASSUME Forward(Owner)
      PROVE  next'[Owner] = IF next[Owner] = NumCores THEN 1 ELSE next[Owner] + 1
  BY <1>f, <1>0, ForwardType DEF Through
<1>1. CASE SetupCore
  <2>1. CASE Setup
    BY <1>0, <1>f, <2>1, SMTT(20) DEF Setup, Through, OwnerInv
  <2>2. CASE SetupFails
    BY <2>2 DEF SetupFails, OwnerInv
  <2> QED
    BY <1>1, <2>1, <2>2 DEF SetupCore
<1>2. CASE StartWorker
  <2>1. /\ main = "spawn" /\ core' = [core EXCEPT ![next[Owner]] = "running"]
        /\ main' = IF next[Owner] = NumCores THEN "run" ELSE "spawn"
        /\ next'[Owner] = IF next[Owner] = NumCores THEN 1 ELSE next[Owner] + 1
        /\ result' = result /\ result # <<"setup_error">>
    BY <1>2, <1>f DEF StartWorker, SpawnWorker, Through, OwnerInv
  <2>2. \A i \in Cores : core'[i] = "none" <=> next[Owner] < i
    BY <1>0, <2>1, SMTT(20) DEF OwnerInv
  <2> QED
    BY <1>0, <2>1, <2>2, SMTT(20) DEF OwnerInv
<1>3. CASE OwnerCall
  BY <1>0, <1>3, SMTT(20)
  DEF OwnerCall, CallStop, CallJoin, CallGracefulStop, coreVars, OwnerInv
<1>4. CASE StopLoop \/ GracefulLoop
  <2>1. /\ main \in {"stop", "graceful", "request"} /\ core' = core /\ result' = result
        /\ next'[Owner] = 1 \/ main' = main
        /\ main' \in {main, after, "run", "join"}
    BY <1>0, <1>4, <1>f DEF StopLoop, GracefulLoop, Through, coreVars
  <2>2. after \in {"never", "run", "join"}
    BY DEF TypeOK, ExecutorTypeOK
  <2> QED
    BY <2>1, <2>2, SMTT(20) DEF OwnerInv
<1>5. CASE JoinThread
  <2>1. /\ main = "join" /\ core' = core /\ core[next[Owner]] = "exited"
        /\ IF next[Owner] = NumCores
           THEN main' \in {"returned", "join_watchdog"}
           ELSE main' = main /\ result' = result /\ next'[Owner] = next[Owner] + 1
    BY <1>5, <1>f DEF JoinThread, Through, coreVars
  <2>2. result' # <<"setup_error">> /\ result # <<"setup_error">>
    BY <1>5, <2>1, Outcomes DEF JoinThread, Through, OwnerInv
  <2>3. \A i \in Cores : i <= next[Owner] => core[i] = "exited"
    BY <1>0, <2>1, SMTT(20) DEF OwnerInv
  <2> QED
    BY <1>0, <2>1, <2>2, <2>3, SMTT(20) DEF OwnerInv
<1>6. CASE JoinWatchdog
  BY <1>6 DEF JoinWatchdog, coreVars, OwnerInv
<1>7. CASE Destroy \/ Kill \/ Delivered \/ \E i \in Cores : DestroyLoop(i) \/ ReadSignal(i)
  <2>1. UNCHANGED executorVars
    BY <1>7 DEF Destroy, DestroyLoop, Kill, Delivered, ReadSignal
  <2> QED
    BY <2>1 DEF executorVars, coreVars, OwnerInv
<1>8. CASE DestroyPool
  <2>1. /\ core' = core /\ result' = result /\ next' = next
        /\ main' = main \/ (main = "run" /\ main' = "stop")
    BY <1>8 DEF DestroyPool, coreVars
  <2> QED
    BY <2>1 DEF OwnerInv
<1>9. CASE WatchdogStep
  BY <1>9, WatchdogFrame DEF OwnerInv
<1>10. ASSUME NEW i \in Cores, CoreStep(i) \/ RunFails(i) \/ TasksEnd(i)
       PROVE  OwnerInv'
  <2>1. /\ main' = main /\ result' = result /\ next'[Owner] = next[Owner]
        /\ \A j \in Cores : core'[j] = "none" <=> core[j] = "none"
        /\ \A j \in Cores : core[j] = "exited" => core'[j] = "exited"
    BY <1>10, CoreStepFrame
  <2> QED
    BY <2>1 DEF OwnerInv
<1>11. CASE UNCHANGED vars
  BY <1>11 DEF vars, executorVars, coreVars, OwnerInv
<1> QED
  BY <1>1, <1>2, <1>3, <1>4, <1>5, <1>6, <1>7, <1>8, <1>9, <1>10, <1>11
  DEF Next, Step, OwnerStep

\* graceful_stop() starts its thread after the last request and joins it before it
\* returns, so that a returned owner left no watchdog that could still stop a loop.
LEMMA WatchdogInvStep == TypeOK /\ WatchdogInv /\ [Next]_vars => WatchdogInv'
<1> SUFFICES ASSUME TypeOK, WatchdogInv, [Next]_vars
             PROVE  WatchdogInv'
  OBVIOUS
<1> USE DEF WatchdogInv
<1>1. CASE SetupCore \/ StartWorker
  BY <1>1 DEF SetupCore, Setup, SetupFails, StartWorker, SpawnWorker
<1>2. CASE OwnerCall
  BY <1>2 DEF OwnerCall, CallStop, CallJoin, CallGracefulStop
<1>3. CASE StopLoop
  BY <1>3 DEF StopLoop, TypeOK, ExecutorTypeOK
<1>4. CASE GracefulLoop
  BY <1>4 DEF GracefulLoop
<1>5. CASE JoinThread \/ JoinWatchdog
  BY <1>5 DEF JoinThread, JoinWatchdog
<1>6. CASE WatchdogStep
  <2>1. watchdog \in {"waiting", "stopping"} /\ watchdog' # "none"
    BY <1>6 DEF WatchdogStep, WatchdogSeesDrained, WatchdogExpires, WatchdogStops
  <2> QED
    BY <1>6, <2>1, WatchdogFrame
<1>7. ASSUME NEW i \in Cores, CoreStep(i) \/ RunFails(i) \/ TasksEnd(i)
      PROVE  WatchdogInv'
  BY <1>7, CoreStepFrame
<1>8. CASE DestroyPool
  BY <1>8 DEF DestroyPool
<1>9. CASE \/ Destroy \/ Kill \/ Delivered \/ UNCHANGED vars
           \/ \E i \in Cores : DestroyLoop(i) \/ ReadSignal(i)
  <2>1. UNCHANGED executorVars
    BY <1>9 DEF Destroy, DestroyLoop, Kill, Delivered, ReadSignal, vars
  <2> QED
    BY <2>1 DEF executorVars
<1> HIDE DEF WatchdogInv
<1> QED
  BY <1>1, <1>2, <1>3, <1>4, <1>5, <1>6, <1>7, <1>8, <1>9 DEF Next, Step, OwnerStep

\* The destructor stops and joins the workers itself if nobody has, and the loops are
\* destroyed only once the owner is through with them.
LEMMA LifeInvStep == TypeOK /\ LifeInv /\ [Next]_vars => LifeInv'
<1> SUFFICES ASSUME TypeOK, LifeInv, [Next]_vars
             PROVE  LifeInv'
  OBVIOUS
<1> USE DEF LifeInv
<1>0. life \in {"alive", "pool", "executor", "destroyed"}
  BY DEF TypeOK
<1>1. CASE SetupCore \/ StartWorker
  BY <1>0, <1>1, SMTT(20) DEF SetupCore, Setup, SetupFails, StartWorker, SpawnWorker
<1>2. CASE OwnerCall
  BY <1>2 DEF OwnerCall, runtimeVars
<1>3. CASE (StopLoop \/ GracefulLoop \/ JoinThread \/ JoinWatchdog) /\ UNCHANGED runtimeVars
  <2>1. UNCHANGED <<life, pool, blocking, loops>>
    BY <1>3 DEF runtimeVars
  <2>2. CASE StopLoop
    BY <1>0, <2>1, <2>2 DEF StopLoop
  <2>3. CASE GracefulLoop
    BY <1>0, <2>1, <2>3 DEF GracefulLoop
  <2>4. CASE JoinThread \/ JoinWatchdog
    BY <1>0, <2>1, <2>4 DEF JoinThread, JoinWatchdog
  <2> QED
    BY <1>3, <2>2, <2>3, <2>4
<1>4. CASE WatchdogStep /\ UNCHANGED runtimeVars
  BY <1>4, WatchdogFrame DEF runtimeVars
<1>5. ASSUME NEW i \in Cores, CoreStep(i) \/ RunFails(i) \/ TasksEnd(i),
             UNCHANGED runtimeVars
      PROVE  LifeInv'
  BY <1>5, CoreStepFrame DEF runtimeVars
<1>6. CASE Destroy
  BY <1>6 DEF Destroy, executorVars
<1>7. CASE DestroyPool
  BY <1>7 DEF DestroyPool
<1>8. ASSUME NEW i \in Cores, DestroyLoop(i) PROVE LifeInv'
  BY <1>8 DEF DestroyLoop, executorVars
<1>9. CASE Kill \/ Delivered \/ (\E i \in Cores : ReadSignal(i)) \/ UNCHANGED vars
  <2>1. UNCHANGED <<executorVars, blocking, pool, life, loops>>
    BY <1>9 DEF Kill, Delivered, ReadSignal, vars, runtimeVars
  <2> QED
    BY <2>1 DEF executorVars
<1> HIDE DEF LifeInv
<1> QED
  BY <1>1, <1>2, <1>3, <1>4, <1>5, <1>6, <1>7, <1>8, <1>9 DEF Next, Step, OwnerStep

\* A recorded fault stays recorded.
LEMMA FaultsGrow ==
  ASSUME TypeOK, NEW i \in Cores, RecordFault(i)
  PROVE  /\ faults' # <<>> /\ Range(faults') = Range(faults) \cup {i}
         /\ faults # <<>> => Head(faults') = Head(faults)
<1>1. faults \in Seq(Cores) /\ faults' = Append(faults, i)
  BY DEF TypeOK, ExecutorTypeOK, RecordFault
<1>2. /\ faults' \in Seq(Cores) /\ Len(faults') = Len(faults) + 1
      /\ \A k \in 1..Len(faults) : faults'[k] = faults[k]
      /\ faults'[Len(faults) + 1] = i
  BY <1>1, AppendProperties, SMTT(20)
<1>3. Range(faults') = Range(faults) \cup {i}
  BY <1>1, Appended, SMTT(20)
<1>4. faults # <<>> => Head(faults') = Head(faults)
  BY <1>1, <1>2, SMTT(20)
<1>5. faults' # <<>>
  BY <1>1, <1>2, SMTT(20)
<1> QED
  BY <1>3, <1>4, <1>5

\* Whoever asked a loop to stop had a reason that lasts: the owner's stop(), a fault under
\* FailFast, the deadline of graceful_stop(), or a set-up that failed.
LEMMA StopInvStep ==
  TypeOK /\ OwnerInv /\ WatchdogInv /\ StopInv /\ [Next]_vars => StopInv'
<1> SUFFICES ASSUME TypeOK, OwnerInv, WatchdogInv, StopInv, [Next]_vars
             PROVE  StopInv'
  OBVIOUS
<1> USE DEF StopInv
<1>0. core \in [Cores -> {"none", "running", "failed", "stopping", "teardown", "exited"}]
  BY DEF TypeOK, ExecutorTypeOK
<1>1. CASE SetupCore
  <2>1. CASE Setup
    BY <2>1 DEF Setup
  <2>2. CASE SetupFails
    BY <2>2 DEF SetupFails
  <2> QED
    BY <1>1, <2>1, <2>2 DEF SetupCore
<1>2. CASE StartWorker
  <2>1. \A i \in Cores : core'[i] = "stopping" => core[i] = "stopping"
    BY <1>0, <1>2 DEF StartWorker, SpawnWorker
  <2> QED
    BY <1>2, <2>1 DEF StartWorker, SpawnWorker
<1>3. CASE OwnerCall
  <2>1. CASE CallStop
    BY <2>1 DEF CallStop, coreVars
  <2>2. CASE CallJoin \/ CallGracefulStop
    BY <2>2 DEF CallJoin, CallGracefulStop, coreVars
  <2> QED
    BY <1>3, <2>1, <2>2 DEF OwnerCall
<1>4. CASE StopLoop
  BY <1>4 DEF StopLoop, coreVars
<1>5. CASE GracefulLoop
  <2>1. watchdog = "none"
    BY <1>5 DEF GracefulLoop, WatchdogInv
  <2> QED
    BY <1>5, <2>1 DEF GracefulLoop, coreVars
<1>6. CASE JoinThread
  <2>1. result # <<"setup_error">>
    BY <1>6 DEF JoinThread, OwnerInv
  <2>2. main' # "stop"
    BY <1>6 DEF JoinThread
  <2> QED
    BY <1>6, <2>1, <2>2 DEF JoinThread, coreVars
<1>7. CASE JoinWatchdog
  BY <1>7 DEF JoinWatchdog, coreVars
<1>8. CASE WatchdogStep
  <2>1. /\ stop' = stop \/ watchdog = "stopping"
        /\ watchdog \in {"stopping", "exited"} => watchdog' \in {"stopping", "exited"}
    BY <1>8 DEF WatchdogStep, WatchdogSeesDrained, WatchdogExpires, WatchdogStops
  <2> QED
    BY <1>8, <2>1, WatchdogFrame
<1>9. ASSUME NEW i \in Cores, CoreStep(i) \/ RunFails(i) \/ TasksEnd(i)
      PROVE  StopInv'
  <2>0. /\ UNCHANGED <<policy, main, after, watchdog, result>>
        /\ \A j \in Cores : j # i => core'[j] = core[j]
    BY <1>9, CoreStepFrame
  <2>1. CASE RunReturns(i) \/ RunFails(i) \/ Exit(i)
    <3>1. core'[i] # "stopping" /\ UNCHANGED <<stop, faults>>
      BY <1>0, <2>1 DEF RunReturns, RunFails, Exit
    <3> QED
      BY <2>0, <3>1
  <2>2. CASE RecordFault(i)
    <3>1. faults' # <<>> /\ stop' = stop /\ core'[i] \in {"stopping", "teardown"}
      BY <1>0, <2>2, FaultsGrow DEF RecordFault
    <3>2. core'[i] = "stopping" => policy = "FailFast"
      BY <1>0, <2>2 DEF RecordFault
    <3> QED
      BY <2>0, <3>1, <3>2
  <2>3. CASE StopOther(i)
    <3>1. policy = "FailFast" /\ faults # <<>> /\ faults' = faults
      BY <2>3 DEF StopOther
    <3> QED
      BY <2>0, <3>1
  <2>4. CASE TasksEnd(i)
    BY <2>0, <2>4 DEF TasksEnd
  <2> QED
    BY <1>9, <2>1, <2>2, <2>3, <2>4 DEF CoreStep
<1>10. CASE DestroyPool
  BY <1>10, SMTT(20) DEF DestroyPool, coreVars
<1>11. CASE \/ Destroy \/ Kill \/ Delivered \/ UNCHANGED vars
            \/ \E i \in Cores : DestroyLoop(i) \/ ReadSignal(i)
  <2>1. UNCHANGED executorVars
    BY <1>11 DEF Destroy, DestroyLoop, Kill, Delivered, ReadSignal, vars
  <2> QED
    BY <2>1 DEF executorVars, coreVars
<1> HIDE DEF StopInv
<1> QED
  BY <1>1, <1>2, <1>3, <1>4, <1>5, <1>6, <1>7, <1>8, <1>9, <1>10, <1>11
  DEF Next, Step, OwnerStep

\* run() of a loop with tasks returns Ok only after a request to stop, and the reason of
\* that request is on record.
LEMMA NoWorkCutShortStep ==
  /\ TypeOK /\ OwnerInv /\ WatchdogInv /\ StopInv /\ NoWorkCutShort
  /\ [Next]_vars
  => NoWorkCutShort'
<1> SUFFICES ASSUME TypeOK, OwnerInv, WatchdogInv, StopInv, NoWorkCutShort, [Next]_vars
             PROVE  NoWorkCutShort'
  OBVIOUS
<1> DEFINE Left(i) == core[i] \in {"teardown", "exited"} /\ i \in tasks
           Reason(i) == \/ i \in Range(faults)
                        \/ policy = "FailFast" /\ faults # <<>>
                        \/ watchdog \in {"stopping", "exited"}
                        \/ i \in stop /\ after # "never"
<1>d. /\ \A i \in Cores : Left(i) => Reason(i)
      /\ (\A i \in Cores : Left(i)' => Reason(i)') => NoWorkCutShort'
  BY DEF NoWorkCutShort
<1>0. core \in [Cores -> {"none", "running", "failed", "stopping", "teardown", "exited"}]
  BY DEF TypeOK, ExecutorTypeOK
<1>s. ASSUME core' = core, tasks' = tasks, \A i \in Cores : Reason(i) => Reason(i)'
      PROVE  NoWorkCutShort'
  BY <1>s, <1>d
<1>1. CASE SetupCore
  <2>1. \A i \in Cores : ~Left(i)'
    BY <1>1 DEF SetupCore, Setup, SetupFails, OwnerInv
  <2> QED
    BY <2>1, <1>d
<1>2. CASE StartWorker
  <2>1. \A i \in Cores : Left(i)' => Left(i)
    BY <1>0, <1>2 DEF StartWorker, SpawnWorker
  <2>2. \A i \in Cores : Reason(i)' <=> Reason(i)
    BY <1>2 DEF StartWorker, SpawnWorker
  <2> HIDE DEF Left, Reason
  <2> QED
    BY <2>1, <2>2, <1>d
<1>3. CASE OwnerCall
  <2>1. CASE CallStop
    BY <2>1, <1>s DEF CallStop, coreVars
  <2>2. CASE CallJoin \/ CallGracefulStop
    BY <2>2, <1>s DEF CallJoin, CallGracefulStop, coreVars
  <2> QED
    BY <1>3, <2>1, <2>2 DEF OwnerCall
<1>4. CASE StopLoop
  BY <1>4, <1>s DEF StopLoop, coreVars
<1>5. CASE GracefulLoop
  <2>1. watchdog = "none"
    BY <1>5 DEF GracefulLoop, WatchdogInv
  <2> QED
    BY <1>5, <2>1, <1>s DEF GracefulLoop, coreVars
<1>6. CASE JoinThread \/ JoinWatchdog
  BY <1>6, <1>s DEF JoinThread, JoinWatchdog, coreVars
<1>7. CASE WatchdogStep
  <2>1. /\ stop \subseteq stop'
        /\ watchdog \in {"stopping", "exited"} => watchdog' \in {"stopping", "exited"}
    BY <1>7 DEF WatchdogStep, WatchdogSeesDrained, WatchdogExpires, WatchdogStops
  <2>2. UNCHANGED <<policy, core, tasks, faults, after>>
    BY <1>7, WatchdogFrame
  <2> QED
    BY <2>1, <2>2, <1>s
<1>8. ASSUME NEW i \in Cores, CoreStep(i) \/ RunFails(i) \/ TasksEnd(i)
      PROVE  NoWorkCutShort'
  <2>0. /\ UNCHANGED <<policy, after, watchdog>>
        /\ \A j \in Cores : j # i => core'[j] = core[j]
    BY <1>8, CoreStepFrame
  <2>e. tasks' \subseteq tasks
    BY <1>8 DEF CoreStep, RunReturns, RecordFault, StopOther, Exit, RunFails, TasksEnd
  <2>f. /\ stop \subseteq stop' /\ Range(faults) \subseteq Range(faults')
        /\ faults # <<>> => faults' # <<>>
    <3>1. CASE RecordFault(i)
      <4>1. stop' = stop
        BY <3>1 DEF RecordFault
      <4> QED
        BY <3>1, <4>1, FaultsGrow
    <3>2. CASE UNCHANGED faults /\ stop \subseteq stop'
      BY <3>2
    <3> QED
      BY <1>8, <3>1, <3>2 DEF CoreStep, RunReturns, StopOther, Exit, RunFails, TasksEnd
  <2>k. \A j \in Cores : Reason(j) => Reason(j)'
    BY <2>0, <2>f
  <2>j. ASSUME NEW j \in Cores, j # i, Left(j)'
        PROVE  Left(j)
    BY <2>0, <2>e, <2>j
  <2>m. ASSUME Left(i)' => Reason(i)' \/ Left(i)
        PROVE  NoWorkCutShort'
    <3> HIDE DEF Left, Reason
    <3> QED
      BY <2>k, <2>j, <2>m, <1>d
  <2>1. CASE RunReturns(i)
    <3>1. i \in tasks' => i \in stop /\ core[i] = "running" /\ stop' = stop
      BY <2>1 DEF RunReturns
    <3>2. core[i] = "running" => result # <<"setup_error">>
      BY DEF OwnerInv
    <3>3. i \in tasks' => Reason(i)
      BY <3>1, <3>2 DEF StopInv
    <3> QED
      BY <3>3, <2>k, <2>m
  <2>2. CASE RunFails(i)
    BY <1>0, <2>2, <2>m DEF RunFails
  <2>3. CASE RecordFault(i)
    BY <2>3, <2>m, FaultsGrow
  <2>4. CASE StopOther(i)
    <3>1. Reason(i)
      BY <2>4 DEF StopOther, StopInv
    <3> QED
      BY <3>1, <2>k, <2>m
  <2>5. CASE Exit(i) \/ TasksEnd(i)
    BY <2>5, <2>m DEF Exit, TasksEnd
  <2> QED
    BY <1>8, <2>1, <2>2, <2>3, <2>4, <2>5 DEF CoreStep
<1>9. CASE DestroyPool
  BY <1>9, <1>s DEF DestroyPool, coreVars
<1>10. CASE \/ Destroy \/ Kill \/ Delivered \/ UNCHANGED vars
            \/ \E i \in Cores : DestroyLoop(i) \/ ReadSignal(i)
  <2>1. UNCHANGED executorVars
    BY <1>10 DEF Destroy, DestroyLoop, Kill, Delivered, ReadSignal, vars
  <2> QED
    BY <2>1, <1>s DEF executorVars, coreVars
<1> QED
  BY <1>1, <1>2, <1>3, <1>4, <1>5, <1>6, <1>7, <1>8, <1>9, <1>10 DEF Next, Step, OwnerStep

\* The owner reads the faults when every worker has exited, so that none is added later.
LEMMA FaultsReportedStep ==
  TypeOK /\ OwnerInv /\ FaultsReported /\ [Next]_vars => FaultsReported'
<1> SUFFICES ASSUME TypeOK, OwnerInv, FaultsReported, [Next]_vars
             PROVE  FaultsReported'
  OBVIOUS
<1>s. ASSUME UNCHANGED <<core, faults, result>>,
             \/ main' \notin {"join_watchdog", "returned"}
             \/ main \in {"join_watchdog", "returned"}
      PROVE  FaultsReported'
  BY <1>s DEF FaultsReported
<1>1. CASE SetupCore \/ StartWorker
  BY <1>1 DEF SetupCore, Setup, SetupFails, StartWorker, SpawnWorker, FaultsReported
<1>2. CASE OwnerCall
  BY <1>2, <1>s DEF OwnerCall, CallStop, CallJoin, CallGracefulStop, coreVars
<1>3. CASE StopLoop \/ GracefulLoop
  <2>1. after \in {"never", "run", "join"}
    BY DEF TypeOK, ExecutorTypeOK
  <2>2. main' \notin {"join_watchdog", "returned"}
    BY <1>3, <2>1 DEF StopLoop, GracefulLoop
  <2> QED
    BY <1>3, <2>2, <1>s DEF StopLoop, GracefulLoop, coreVars
<1>4. CASE JoinThread
  <2>1. CASE Through(Owner)
    <3>1. /\ core[NumCores] = "exited" /\ main = "join" /\ next[Owner] = NumCores
          /\ UNCHANGED <<core, faults>>
          /\ result' = IF faults = <<>> THEN <<"Ok">> ELSE <<"fault", Head(faults)>>
      BY <1>4, <2>1 DEF JoinThread, Through, coreVars
    <3>2. \A i \in Cores : core[i] = "exited"
      BY <3>1, SMTT(20) DEF OwnerInv
    <3> QED
      BY <3>1, <3>2 DEF FaultsReported
  <2>2. CASE ~Through(Owner)
    BY <1>4, <2>2, <1>s DEF JoinThread, coreVars
  <2> QED
    BY <2>1, <2>2
<1>5. CASE JoinWatchdog
  BY <1>5, <1>s DEF JoinWatchdog, coreVars
<1>6. CASE WatchdogStep
  BY <1>6, <1>s, WatchdogFrame
<1>7. ASSUME NEW i \in Cores, CoreStep(i) \/ RunFails(i) \/ TasksEnd(i)
      PROVE  FaultsReported'
  <2>1. core[i] \notin {"none", "exited"} /\ main' = main /\ result' = result
    BY <1>7, CoreStepFrame
  <2> QED
    BY <2>1 DEF OwnerInv, FaultsReported
<1>8. CASE DestroyPool
  BY <1>8, <1>s DEF DestroyPool, coreVars
<1>9. CASE \/ Destroy \/ Kill \/ Delivered \/ UNCHANGED vars
           \/ \E i \in Cores : DestroyLoop(i) \/ ReadSignal(i)
  <2>1. UNCHANGED executorVars
    BY <1>9 DEF Destroy, DestroyLoop, Kill, Delivered, ReadSignal, vars
  <2> QED
    BY <2>1, <1>s DEF executorVars, coreVars
<1> QED
  BY <1>1, <1>2, <1>3, <1>4, <1>5, <1>6, <1>7, <1>8, <1>9 DEF Next, Step, OwnerStep

\* Only the set-ups add signals, on the owner's thread and before any worker starts: every
\* worker inherits the mask, and only the first SignalSet saved one without the signal.
LEMMA SignalInvStep ==
  TypeOK /\ OwnerInv /\ LifeInv /\ SignalInv /\ [Next]_vars => SignalInv'
<1> SUFFICES ASSUME TypeOK, OwnerInv, LifeInv, SignalInv, [Next]_vars
             PROVE  SignalInv'
  OBVIOUS
<1>0. /\ core \in [Cores -> {"none", "running", "failed", "stopping", "teardown", "exited"}]
      /\ next[Owner] \in Cores /\ signals \in SUBSET Cores /\ saved \in [Cores -> BOOLEAN]
      /\ blocked \in SUBSET (Cores \cup {Owner})
  BY DEF TypeOK, ExecutorTypeOK
<1>s. ASSUME UNCHANGED <<blocked, signals, saved, signal, loops>>,
             main' = "setup" => main = "setup" /\ next'[Owner] = next[Owner],
             \A i \in Cores : core'[i] \notin {"none", "exited"} =>
                                core[i] \notin {"none", "exited"}
      PROVE  SignalInv'
  BY <1>s DEF SignalInv
<1>1. CASE SetupCore
  <2>1. /\ main = "setup" /\ loops = Cores /\ UNCHANGED <<core, signal, loops>>
        /\ main' = "setup" => next'[Owner] = next[Owner] + 1
        /\ \A i \in signals : i < next[Owner]
    <3>1. main = "setup" /\ UNCHANGED <<core, signal, loops>>
      BY <1>1 DEF SetupCore, Setup, SetupFails
    <3>2. CASE Setup
      <4>1. next'[Owner] = IF Through(Owner) THEN 1 ELSE next[Owner] + 1
        BY <3>2, ForwardType DEF Setup, TypeOK
      <4> QED
        BY <3>1, <3>2, <4>1 DEF Setup, LifeInv, SignalInv
    <3>3. CASE SetupFails
      BY <3>1, <3>3 DEF SetupFails, LifeInv, SignalInv
    <3> QED
      BY <1>1, <3>2, <3>3 DEF SetupCore
  <2>2. CASE UNCHANGED <<blocked, signals, saved>>
    BY <1>0, <2>1, <2>2, SMTT(20) DEF SignalInv
  <2>3. CASE AddSignals(next[Owner])
    <3>1. /\ signals' = signals \cup {next[Owner]} /\ next[Owner] \notin signals
          /\ Owner \in blocked'
          /\ saved' = [saved EXCEPT ![next[Owner]] = Owner \in blocked]
      BY <1>0, <2>1, <2>3, SMTT(20) DEF AddSignals
    <3>2. \A i \in Cores : core'[i] = "none"
      BY <2>1 DEF OwnerInv
    <3>3. \A i \in signals : saved'[i] = saved[i]
      BY <1>0, <3>1
    <3>4. saved'[next[Owner]] => Owner \in blocked
      BY <1>0, <3>1
    <3>5. \A i \in signals' : saved'[i] => \E j \in signals' : j # i
      <4>1. ASSUME NEW i \in signals, saved'[i]
            PROVE  \E j \in signals' : j # i
        BY <4>1, <3>1, <3>3 DEF SignalInv
      <4>2. ASSUME saved'[next[Owner]]
            PROVE  \E j \in signals' : j # next[Owner]
        BY <4>2, <3>1, <3>4 DEF SignalInv
      <4> QED
        BY <3>1, <4>1, <4>2
    <3>6. main' = "setup" => \A i \in signals' : i < next'[Owner]
      BY <1>0, <2>1, <3>1, SMTT(20)
    <3>7. \A i \in signals' : i \in loops'
      BY <1>0, <2>1, <3>1
    <3> QED
      BY <2>1, <3>1, <3>2, <3>5, <3>6, <3>7 DEF SignalInv
  <2> QED
    BY <1>1, <2>2, <2>3 DEF SetupCore
<1>2. CASE StartWorker
  <2>1. /\ main = "spawn" /\ main' # "setup" /\ UNCHANGED <<signals, saved, signal, loops>>
        /\ core' = [core EXCEPT ![next[Owner]] = "running"]
        /\ blocked' = blocked \cup Inherited(next[Owner])
    BY <1>2 DEF StartWorker, SpawnWorker
  <2>2. Owner \in blocked' <=> Owner \in blocked
    BY <1>0, <2>1
  <2>3. Owner \in blocked =>
          \A i \in Cores : core'[i] \notin {"none", "exited"} => i \in blocked'
    BY <1>0, <2>1 DEF SignalInv
  <2> QED
    BY <2>1, <2>2, <2>3 DEF SignalInv
<1>3. CASE OwnerCall
  <2>1. UNCHANGED core /\ main' # "setup"
    BY <1>3 DEF OwnerCall, CallStop, CallJoin, CallGracefulStop, coreVars
  <2> QED
    BY <1>3, <1>s, <2>1 DEF OwnerCall, runtimeVars, signalVars
<1>4. CASE (StopLoop \/ GracefulLoop \/ JoinThread \/ JoinWatchdog) /\ UNCHANGED runtimeVars
  <2>1. after \in {"never", "run", "join"}
    BY DEF TypeOK, ExecutorTypeOK
  <2>2. UNCHANGED core /\ main' # "setup"
    BY <1>4, <2>1 DEF StopLoop, GracefulLoop, JoinThread, JoinWatchdog, coreVars
  <2> QED
    BY <1>4, <1>s, <2>2 DEF runtimeVars, signalVars
<1>5. CASE WatchdogStep /\ UNCHANGED runtimeVars
  BY <1>5, <1>s, WatchdogFrame DEF runtimeVars, signalVars
<1>6. ASSUME NEW i \in Cores, CoreStep(i) \/ RunFails(i) \/ TasksEnd(i),
             UNCHANGED runtimeVars
      PROVE  SignalInv'
  BY <1>6, <1>s, CoreStepFrame DEF runtimeVars, signalVars
<1>7. CASE Destroy \/ DestroyPool
  <2>1. /\ UNCHANGED <<blocked, signals, saved, signal, loops, core, next>>
        /\ main' \in {main, "stop"}
    BY <1>7 DEF Destroy, DestroyPool, executorVars, coreVars, signalVars
  <2> QED
    BY <2>1 DEF SignalInv
<1>8. ASSUME NEW i \in Cores, DestroyLoop(i) PROVE SignalInv'
  <2>1. /\ loops' = loops \ {i} /\ main = "returned"
        /\ UNCHANGED <<signals, saved, signal, core, main>>
    BY <1>8 DEF DestroyLoop, executorVars, coreVars
  <2>2. \A j \in Cores : core[j] \in {"none", "exited"}
    BY <2>1 DEF OwnerInv
  <2>3. CASE i \notin signals
    <3>1. blocked' = blocked
      BY <1>8, <2>3 DEF DestroyLoop
    <3>2. /\ signals \subseteq loops' => signals \subseteq loops
          /\ \A j \in signals : j \notin loops' => j \notin loops
      BY <2>1, <2>3
    <3> QED
      BY <2>1, <2>2, <3>1, <3>2 DEF SignalInv
  <2>4. CASE i \in signals
    <3>1. ~(signals' \subseteq loops') /\ signals' # {}
      BY <2>1, <2>4
    <3>2. Owner \in blocked' => saved[i]
      BY <1>8, <2>4 DEF DestroyLoop
    <3>3. ASSUME NEW j \in signals, Owner \in blocked' PROVE \E k \in signals : k # j
      BY <2>4, <3>2, <3>3 DEF SignalInv
    <3> QED
      BY <2>1, <2>2, <3>1, <3>3 DEF SignalInv
  <2> QED
    BY <2>3, <2>4
<1>9. CASE Kill \/ Delivered \/ \E i \in Cores : ReadSignal(i)
  <2>1. /\ UNCHANGED <<blocked, signals, saved, loops, core, next, main>>
        /\ signal' = "pending" => signals # {}
    BY <1>9 DEF Kill, Delivered, ReadSignal, executorVars, coreVars
  <2> QED
    BY <2>1 DEF SignalInv
<1>10. CASE UNCHANGED vars
  BY <1>10, <1>s DEF vars, executorVars, coreVars, runtimeVars, signalVars
<1> QED
  BY <1>1, <1>2, <1>3, <1>4, <1>5, <1>6, <1>7, <1>8, <1>9, <1>10 DEF Next, Step, OwnerStep

\* No thread of the Executor can be given the signal while the loops with a SignalSet exist,
\* so that only a thread of the pool can be.
LEMMA SignalsCaughtStep ==
  /\ TypeOK /\ LifeInv /\ SignalInv /\ SignalsCaught /\ [Next]_vars
  => SignalsCaught'
<1> SUFFICES ASSUME TypeOK, LifeInv, SignalInv, SignalsCaught, Next
             PROVE  SignalsCaught'
  BY DEF SignalsCaught, vars, runtimeVars, signalVars
<1>0. signal # "default"
  BY DEF Next, Running
<1>1. CASE Delivered
  <2>1. PICK x \in Threads : x \notin blocked
    BY <1>1 DEF Delivered
  <2>2. signals # {} /\ UNCHANGED <<blocking, signals, loops>>
    BY <1>1 DEF Delivered, SignalInv
  <2>3. (x # Owner /\ x \notin Cores) \/ ~(signals \subseteq loops)
    BY <2>1, <2>2, SMTT(20) DEF Threads, SignalInv, Pool
  <2>4. pool \/ ~(signals \subseteq loops)
    BY <2>1, <2>3 DEF Threads
  <2> QED
    BY <2>2, <2>4 DEF LifeInv, SignalsCaught
<1>2. CASE ~Delivered
  <2>1. signal' # "default"
    BY <1>0, <1>2
    DEF Next, Step, SetupCore, OwnerCall, OwnerStep, StartWorker, Destroy, DestroyPool,
        DestroyLoop, Kill, ReadSignal, runtimeVars, signalVars
  <2> QED
    BY <2>1 DEF SignalsCaught
<1> QED
  BY <1>1, <1>2

\* When every loop is destroyed, an owner that still blocks the signal had two SignalSets.
LEMMA MaskOfOwner == TypeOK /\ LifeInv /\ SignalInv => MaskRestored
<1> SUFFICES ASSUME TypeOK, LifeInv, SignalInv, life = "destroyed", Owner \in blocked
             PROVE  Cardinality(signals) > 1
  BY DEF MaskRestored
<1>1. PICK i \in signals : TRUE
  BY DEF SignalInv
<1>2. PICK j \in signals : j # i
  BY <1>1 DEF LifeInv, SignalInv
<1>3. IsFiniteSet(signals)
  <2>1. 1 \in Int /\ NumCores \in Int
    BY SMTT(20)
  <2>2. IsFiniteSet(1..NumCores)
    BY <2>1, FS_Interval
  <2>3. signals \in SUBSET (1..NumCores)
    BY DEF TypeOK
  <2> QED
    BY <2>2, <2>3, FS_Subset
<1>4. IsFiniteSet({i, j}) /\ Cardinality({i, j}) = 2
  <2>1. IsFiniteSet({i}) /\ Cardinality({i}) = 1
    BY FS_Singleton
  <2>2. {i, j} = {i} \cup {j} /\ j \notin {i}
    BY <1>2
  <2> QED
    BY <2>1, <2>2, FS_AddElement, SMTT(20)
<1>5. Cardinality({i, j}) <= Cardinality(signals)
  BY <1>1, <1>2, <1>3, FS_Subset
<1>6. Cardinality(signals) \in Nat
  BY <1>3, FS_CardinalityType
<1> QED
  BY <1>4, <1>5, <1>6, SMTT(20)
-----------------------------------------------------------------------------
\* A Runtime that was just built satisfies the inductive invariant.
LEMMA InitInv == Init => IInv
<1> SUFFICES ASSUME Init
             PROVE  IInv
  OBVIOUS
<1> USE DEF Init, ExecutorInit
<1>1. ExecutorTypeOK
  <2>1. next \in [Cores \cup {Owner, Watchdog} -> Cores]
    BY SMTT(20)
  <2>2. faults \in Seq(Cores)
    BY SMTT(20)
  <2> QED
    BY <2>1, <2>2 DEF ExecutorTypeOK
<1>2. TypeOK
  BY <1>1 DEF TypeOK
<1>3. result # <<"setup_error">>
  BY Outcomes
<1>4. OwnerInv
  BY <1>3 DEF OwnerInv
<1>5. WatchdogInv /\ LifeInv /\ StopInv
  BY <1>3 DEF WatchdogInv, LifeInv, StopInv
<1>6. SignalInv /\ FaultsReported /\ NoWorkCutShort /\ SignalsCaught
  BY DEF SignalInv, FaultsReported, NoWorkCutShort, SignalsCaught
<1> QED
  BY <1>2, <1>4, <1>5, <1>6 DEF IInv

\* The invariant is inductive for every number of cores.
THEOREM Invariance == Spec => []IInv
<1>1. IInv /\ [Next]_vars => IInv'
  BY TypeStep, OwnerInvStep, WatchdogInvStep, LifeInvStep, StopInvStep, SignalInvStep,
     FaultsReportedStep, NoWorkCutShortStep, SignalsCaughtStep
  DEF IInv
<1> QED
  BY InitInv, <1>1, PTL DEF Spec

\* join(), stop_and_join() and graceful_stop() return when no thread of the cores and no
\* watchdog is left, and report the first fault, and ~Runtime() destroys no loop before the
\* last thread has ended, whatever the cores, the watchdog and the destructor do meanwhile.
THEOREM CompleteJoin == Spec => []JoinIsComplete
<1>1. IInv => JoinIsComplete
  <2> SUFFICES ASSUME IInv
               PROVE  JoinIsComplete
    OBVIOUS
  <2>1. main = "returned" => \A i \in Cores : core[i] \in {"none", "exited"}
    BY DEF IInv, OwnerInv
  <2>2. ThreadsJoined
    BY <2>1 DEF IInv, WatchdogInv, ThreadsJoined
  <2>3. loops # Cores => main = "returned" /\ ~pool
    <3>1. loops # Cores => life \in {"executor", "destroyed"}
      BY DEF IInv, TypeOK, LifeInv
    <3> QED
      BY <3>1 DEF IInv, LifeInv
  <2>4. loops # Cores => Threads = {Owner}
    BY <2>1, <2>3 DEF Threads
  <2> QED
    BY <2>2, <2>4 DEF IInv, JoinIsComplete
<1> QED
  BY Invariance, <1>1, PTL

\* A loop is left with tasks in flight only for a reason somebody gave: its own fault, a
\* fault of another core under FailFast, a stop() or the deadline of graceful_stop().
THEOREM NoTaskAbandoned == Spec => []NoWorkCutShort
<1>1. IInv => NoWorkCutShort
  BY DEF IInv
<1> QED
  BY Invariance, <1>1, PTL

\* A signal that a SignalSet waits for cannot end the process as long as every loop with a
\* SignalSet exists, if the Runtime has no blocking pool.
THEOREM SignalsReachTheLoops == Spec => []SignalsCaught
<1>1. IInv => SignalsCaught
  BY DEF IInv
<1> QED
  BY Invariance, <1>1, PTL

\* Destroying the loops gives the owner its signal mask back, if one SignalSet changed it.
THEOREM MaskGivenBack == Spec => []MaskRestored
<1>1. IInv => MaskRestored
  BY MaskOfOwner DEF IInv
<1> QED
  BY Invariance, <1>1, PTL
=============================================================================
