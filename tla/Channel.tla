------------------------------ MODULE Channel ------------------------------
(***************************************************************************)
(* sync::Channel (sync/channel.hpp): a queue guarded by one mutex and two  *)
(* condition variables.  Every critical section is one step, because the   *)
(* mutex is held from its start to its end or to the wait in it; a thread  *)
(* that blocks releases the mutex, sits in the wait set of the condition   *)
(* variable until it is notified (or wakes spuriously, or its timeout      *)
(* runs out), and evaluates the predicate of the wait again in a later     *)
(* step of its own, when other threads may have run first.                 *)
(*                                                                         *)
(* An item is represented by the thread that sent it.                      *)
(***************************************************************************)
EXTENDS Naturals, Sequences, FiniteSets

CONSTANTS
  Threads,    \* the threads that use the channel; each may send and receive
  Capacity,   \* capacity_; 0 means unbounded
  MaxSends    \* bound of the model: how many items the channel ever accepts

ASSUME ThreadsAssumption == IsFiniteSet(Threads)
ASSUME CapacityAssumption == Capacity \in Nat
ASSUME MaxSendsAssumption == MaxSends \in Nat

VARIABLES
  queue,      \* queue_
  closed,     \* closed_
  pc,         \* where each thread is in the call it makes
  sent,       \* history: the items accepted, in order
  received    \* history: the items handed out, in order

vars == <<queue, closed, pc, sent, received>>

(***************************************************************************)
(* "..Wait" is membership in a wait set; "..Awake" is after the wait, on   *)
(* the way to the mutex.  "timedExpired" is a recv_timeout whose time ran  *)
(* out: it evaluates the predicate one last time.                          *)
(***************************************************************************)
SendPhases == {"sendWait", "sendAwake"}
RecvPhases == {"recvWait", "recvAwake", "timedWait", "timedAwake", "timedExpired"}
Phases == {"idle"} \cup SendPhases \cup RecvPhases

NotFullWaiters == {t \in Threads : pc[t] = "sendWait"}
NotEmptyWaiters == {t \in Threads : pc[t] \in {"recvWait", "timedWait"}}
AwakeSenders == {t \in Threads : pc[t] = "sendAwake"}
AwakeReceivers ==
  {t \in Threads : pc[t] \in {"recvAwake", "timedAwake", "timedExpired"}}

Woken(phase) ==
  IF phase = "sendWait" THEN "sendAwake"
  ELSE IF phase = "recvWait" THEN "recvAwake"
  ELSE IF phase = "timedWait" THEN "timedAwake" ELSE phase

\* notify_one on a condition variable with wait set W wakes one of its members.
NotifyOne(W) == IF W = {} THEN {{}} ELSE {{w} : w \in W}

\* Thread t moves to phase p, and the threads of W leave their wait set.
Step(t, p, W) ==
  pc' = [x \in Threads |-> IF x = t THEN p
                           ELSE IF x \in W THEN Woken(pc[x]) ELSE pc[x]]

HasRoom == Capacity = 0 \/ Len(queue) < Capacity

\* A call that sends begins only while the bound of the model allows one item more.
MaySend(t) ==
  pc[t] = "idle" =>
    Len(sent) + Cardinality(NotFullWaiters \cup AwakeSenders) < MaxSends

TypeOK ==
  /\ queue \in Seq(Threads)
  /\ closed \in BOOLEAN
  /\ pc \in [Threads -> Phases]
  /\ sent \in Seq(Threads)
  /\ received \in Seq(Threads)

Init ==
  /\ queue = <<>>
  /\ closed = FALSE
  /\ pc = [t \in Threads |-> "idle"]
  /\ sent = <<>>
  /\ received = <<>>
-----------------------------------------------------------------------------
\* Mutant: the newest item is handed out first.
PushedInFront(t) == <<t>> \o queue

\* queue_.push(value)
Pushed(t) == Append(queue, t)

\* Mutant: not_empty_ is not notified.
NobodyTold == {{}}

\* not_empty_.notify_one()
NotEmptyTold == NotifyOne(NotEmptyWaiters)

(***************************************************************************)
(* queue_.push(value); not_empty_.notify_one(); and the call returns Ok.   *)
(***************************************************************************)
Push(t) ==
  /\ queue' = Pushed(t)
  /\ sent' = Append(sent, t)
  /\ \E W \in NotEmptyTold : Step(t, "idle", W)
  /\ UNCHANGED <<closed, received>>

(***************************************************************************)
(* queue_.front(), queue_.pop(); not_full_.notify_one(); the call returns  *)
(* the item.                                                               *)
(***************************************************************************)
Pop(t) ==
  /\ queue # <<>>
  /\ queue' = Tail(queue)
  /\ received' = Append(received, Head(queue))
  /\ \E W \in NotifyOne(NotFullWaiters) : Step(t, "idle", W)
  /\ UNCHANGED <<closed, sent>>

\* The call returns without an item or without sending one.
Return(t) ==
  /\ Step(t, "idle", {})
  /\ UNCHANGED <<queue, closed, sent, received>>

Block(t, phase) ==
  /\ Step(t, phase, {})
  /\ UNCHANGED <<queue, closed, sent, received>>
-----------------------------------------------------------------------------
(***************************************************************************)
(* send: on entry and after each wake-up the predicate of the wait is      *)
(* evaluated, then closed_ is tested.                                      *)
(***************************************************************************)
Send(t) ==
  /\ pc[t] \in {"idle", "sendAwake"}
  /\ MaySend(t)
  /\ \/ ~HasRoom /\ ~closed /\ Block(t, "sendWait")
     \/ closed /\ Return(t)
     \/ HasRoom /\ ~closed /\ Push(t)

TrySend(t) ==
  /\ pc[t] = "idle"
  /\ MaySend(t)
  /\ \/ (closed \/ ~HasRoom) /\ Return(t)
     \/ ~closed /\ HasRoom /\ Push(t)

Recv(t) ==
  /\ pc[t] \in {"idle", "recvAwake"}
  /\ \/ queue = <<>> /\ ~closed /\ Block(t, "recvWait")
     \/ queue = <<>> /\ closed /\ Return(t)
     \/ Pop(t)

TryRecv(t) ==
  /\ pc[t] = "idle"
  /\ \/ queue = <<>> /\ Return(t)
     \/ Pop(t)

(***************************************************************************)
(* recv_timeout: wait_for re-evaluates the predicate after a notification  *)
(* and waits on, or after the timeout and gives up.                        *)
(***************************************************************************)
RecvTimeout(t) ==
  /\ pc[t] \in {"idle", "timedAwake", "timedExpired"}
  /\ \/ queue = <<>> /\ ~closed /\ pc[t] # "timedExpired" /\ Block(t, "timedWait")
     \/ queue = <<>> /\ (closed \/ pc[t] = "timedExpired") /\ Return(t)
     \/ Pop(t)

\* Mutant: only not_empty_ is notified.
ReceiversOnly == NotEmptyWaiters

\* notify_all() of both condition variables
ToldOfClose == NotEmptyWaiters \cup NotFullWaiters

Close(t) ==
  /\ pc[t] = "idle"
  /\ closed' = TRUE
  /\ Step(t, "idle", ToldOfClose)
  /\ UNCHANGED <<queue, sent, received>>

\* The condition variable's own steps: its timeout runs out, or it returns for no reason.
Expire(t) ==
  /\ pc[t] = "timedWait"
  /\ Step(t, "timedExpired", {})
  /\ UNCHANGED <<queue, closed, sent, received>>

SpuriousWake(t) ==
  /\ t \in NotEmptyWaiters \cup NotFullWaiters
  /\ Step(t, Woken(pc[t]), {})
  /\ UNCHANGED <<queue, closed, sent, received>>

Next ==
  \E t \in Threads :
    \/ Send(t) \/ TrySend(t)
    \/ Recv(t) \/ TryRecv(t) \/ RecvTimeout(t)
    \/ Close(t)
    \/ Expire(t) \/ SpuriousWake(t)

Spec == Init /\ [][Next]_vars
-----------------------------------------------------------------------------
(***************************************************************************)
(* Properties.                                                             *)
(***************************************************************************)

\* No item is lost, duplicated or reordered, whichever of the three receiving and
\* two sending calls move it: what was accepted is what was handed out followed by
\* what is still queued.
FifoConservation == sent = received \o queue

\* A bounded channel never holds more than capacity_ items, although a sender
\* decides to push several steps after it was told that there is room.
CapacityRespected == Capacity > 0 => Len(queue) <= Capacity

\* notify_one wakes enough receivers: while one of them is in not_empty_'s wait set,
\* every queued item has a receiver of its own on the way to the mutex.
NoLostReceiverWakeup ==
  NotEmptyWaiters # {} => Len(queue) <= Cardinality(AwakeReceivers)

\* The same for senders: while one is in not_full_'s wait set, every free place has
\* a sender of its own on the way to the mutex.
NoLostSenderWakeup ==
  Capacity > 0 /\ NotFullWaiters # {}
    => Capacity <= Len(queue) + Cardinality(AwakeSenders)

\* No wake-up is lost on either side: nobody sleeps beside an item to take or a place
\* to fill that is not already spoken for.
NoLostWakeup == NoLostReceiverWakeup /\ NoLostSenderWakeup

\* close() leaves nobody blocked, and nobody blocks on a closed channel.
ClosedBlocksNobody == closed => NotEmptyWaiters \cup NotFullWaiters = {}

\* Nothing is accepted once the channel is closed, not even the item of a sender
\* that was blocked, or already woken, when close() ran.
NothingAcceptedAfterClose == [][closed => sent' = sent]_vars

\* The promise to the users of the channel: an atomic bounded FIFO.
Fifo == INSTANCE BoundedFifo WITH items <- queue, shut <- closed
ImplementsFifo == Fifo!Spec
=============================================================================
