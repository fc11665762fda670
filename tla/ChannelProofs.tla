--------------------------- MODULE ChannelProofs ---------------------------
(***************************************************************************)
(* Proofs about Channel and the ThreadPool on it, for every finite set of  *)
(* threads and of workers, every capacity and every number of sends.       *)
(***************************************************************************)
EXTENDS ThreadPool, FiniteSetTheorems, SequenceTheorems, TLAPS

\* A leaf that SMT does not find cites Zenon.
USE SMTT(20)
USE DEF Pushed, NotEmptyTold, ToldOfClose, AfterJob

\* The inductive invariant.  The two counting facts need ClosedBlocksNobody (after a
\* close() there is nobody left for whom a wake-up could be missing) and nothing else.
IInv ==
  /\ TypeOK
  /\ FifoConservation
  /\ CapacityRespected
  /\ NoLostReceiverWakeup
  /\ NoLostSenderWakeup
  /\ ClosedBlocksNobody

\* A woken thread is in a phase of the same kind of call.
LEMMA WokenType == \A p \in Phases : Woken(p) \in Phases
  BY DEF Woken, Phases, SendPhases, RecvPhases

\* notify_one wakes at most one member of the wait set, and one if there is any.
LEMMA NotifyOneWakes ==
  ASSUME NEW S, NEW W \in NotifyOne(S)
  PROVE  /\ W \subseteq S
         /\ S # {} => \E w \in S : W = {w}
         /\ S = {} => W = {}
  BY DEF NotifyOne

\* What a thread's step does to pc, thread by thread.
LEMMA StepPc ==
  ASSUME TypeOK, NEW t \in Threads, NEW p \in Phases, NEW W, Step(t, p, W)
  PROVE  /\ pc' \in [Threads -> Phases]
         /\ pc'[t] = p
         /\ \A x \in Threads \ {t} : x \in W => pc'[x] = Woken(pc[x])
         /\ \A x \in Threads \ {t} : x \notin W => pc'[x] = pc[x]
  BY WokenType DEF TypeOK, Step

\* The sets of threads that are counted are finite.
LEMMA FiniteAwake ==
  /\ IsFiniteSet(AwakeReceivers) /\ Cardinality(AwakeReceivers) \in Nat
  /\ IsFiniteSet(AwakeSenders) /\ Cardinality(AwakeSenders) \in Nat
  <1>1. AwakeReceivers \subseteq Threads /\ AwakeSenders \subseteq Threads
    BY DEF AwakeReceivers, AwakeSenders
  <1>2. QED
    BY <1>1, ThreadsAssumption, FS_Subset, FS_CardinalityType

\* The same in the next state.
LEMMA FiniteAwakeNext ==
  /\ IsFiniteSet(AwakeReceivers') /\ Cardinality(AwakeReceivers') \in Nat
  /\ IsFiniteSet(AwakeSenders') /\ Cardinality(AwakeSenders') \in Nat
  <1>1. AwakeReceivers' \subseteq Threads /\ AwakeSenders' \subseteq Threads
    BY DEF AwakeReceivers, AwakeSenders
  <1>2. QED
    BY <1>1, ThreadsAssumption, FS_Subset, FS_CardinalityType

\* Counting: a finite set that gains a member, loses one, or grows.
LEMMA CardinalityGain ==
  ASSUME NEW S, NEW T, IsFiniteSet(S), IsFiniteSet(T), NEW x, x \notin S, S \cup {x} \subseteq T
  PROVE  Cardinality(S) + 1 <= Cardinality(T)
  <1>1. Cardinality(S \cup {x}) = Cardinality(S) + 1 /\ IsFiniteSet(S \cup {x})
    BY FS_AddElement
  <1>2. Cardinality(S \cup {x}) <= Cardinality(T)
    BY FS_Subset
  <1>3. QED
    BY <1>1, <1>2

\* Taking one element out lowers the number of elements by at most one.
LEMMA CardinalityLoss ==
  ASSUME NEW S, NEW T, IsFiniteSet(S), IsFiniteSet(T), NEW x, S \ {x} \subseteq T
  PROVE  Cardinality(S) <= Cardinality(T) + 1
  <1>1. CASE x \in S
    <2>1. Cardinality(S \ {x}) = Cardinality(S) - 1 /\ IsFiniteSet(S \ {x})
      BY <1>1, FS_RemoveElement
    <2>2. Cardinality(S \ {x}) <= Cardinality(T)
      BY <2>1, FS_Subset
    <2>3. QED
      BY <2>1, <2>2, FS_CardinalityType
  <1>2. CASE x \notin S
    <2>1. S \subseteq T
      BY <1>2
    <2>2. QED
      BY <2>1, FS_Subset, FS_CardinalityType
  <1>3. QED
    BY <1>1, <1>2

\* Appending to the second part of a concatenation appends to the whole.
LEMMA AppendToConcat ==
  \A r, q \in Seq(Threads) : \A e \in Threads : Append(r \o q, e) = r \o Append(q, e)
  <1> SUFFICES ASSUME NEW r \in Seq(Threads), NEW q \in Seq(Threads), NEW e \in Threads
               PROVE  Append(r \o q, e) = r \o Append(q, e)
    BY Zenon
  <1>1. Append(r \o q, e) = (r \o q) \o <<e>> /\ Append(q, e) = q \o <<e>>
    BY AppendIsConcat, ConcatProperties
  <1>2. QED
    BY <1>1, ConcatAssociative

\* Concatenation of queues is associative.
LEMMA QueuesAssociate ==
  \A a, b, c \in Seq(Threads) : (a \o b) \o c = a \o (b \o c)
  BY ConcatAssociative

\* Moving the head of the second part to the end of the first changes nothing.
LEMMA MoveHead ==
  \A r, q \in Seq(Threads) : q # <<>> => r \o q = Append(r, Head(q)) \o Tail(q)
  <1> SUFFICES ASSUME NEW r \in Seq(Threads), NEW q \in Seq(Threads), q # <<>>
               PROVE  r \o q = Append(r, Head(q)) \o Tail(q)
    OBVIOUS
  <1> DEFINE h == <<Head(q)>>
  <1>1. Head(q) \in Threads /\ Tail(q) \in Seq(Threads)
    BY HeadTailProperties
  <1>2. h \in Seq(Threads) /\ q = h \o Tail(q)
    BY <1>1
  <1>3. Append(r, Head(q)) = r \o h
    BY <1>1, AppendIsConcat
  <1> HIDE DEF h
  <1>4. (r \o h) \o Tail(q) = r \o (h \o Tail(q))
    BY <1>1, <1>2, QueuesAssociate, Zenon
  <1>5. QED
    BY <1>2, <1>3, <1>4, Zenon
-----------------------------------------------------------------------------
\* A push preserves the invariant: the item it adds wakes a receiver of its own, and
\* the place it takes was the pushing sender's.
LEMMA PushInv ==
  ASSUME IInv, NEW t \in Threads, pc[t] \in {"idle", "sendAwake"},
         HasRoom, ~closed, Push(t)
  PROVE  IInv'
  <1> PICK W \in NotifyOne(NotEmptyWaiters) : Step(t, "idle", W)
    BY DEF Push
  <1>1. /\ pc' \in [Threads -> Phases] /\ pc'[t] = "idle"
        /\ \A x \in Threads \ {t} : x \in W => pc'[x] = Woken(pc[x])
        /\ \A x \in Threads \ {t} : x \notin W => pc'[x] = pc[x]
    BY StepPc DEF IInv, Phases
  <1>2. W \subseteq NotEmptyWaiters /\ (NotEmptyWaiters # {} => \E w \in NotEmptyWaiters : W = {w})
    BY NotifyOneWakes
  <1>3. Len(queue') = Len(queue) + 1 /\ Len(queue) \in Nat
    BY DEF Push, IInv, TypeOK
  <1>4. NotFullWaiters' = NotFullWaiters
    BY <1>1, <1>2 DEF NotFullWaiters, NotEmptyWaiters, Woken
  <1>5. NotEmptyWaiters' = NotEmptyWaiters \ W
    BY <1>1, <1>2 DEF NotEmptyWaiters, Woken
  <1>6. TypeOK'
    BY <1>1 DEF Push, IInv, TypeOK
  <1>7. FifoConservation'
    <2>1. received \in Seq(Threads) /\ queue \in Seq(Threads) /\ sent = received \o queue
      BY DEF IInv, TypeOK, FifoConservation
    <2>2. Append(received \o queue, t) = received \o Append(queue, t)
      BY <2>1, AppendToConcat, Zenon
    <2>3. QED
      BY <2>1, <2>2 DEF Push, FifoConservation
  <1>8. CapacityRespected'
    BY <1>3, CapacityAssumption DEF IInv, HasRoom, CapacityRespected
  <1>9. NoLostReceiverWakeup'
    <2> SUFFICES ASSUME NotEmptyWaiters' # {}
                 PROVE  Len(queue') <= Cardinality(AwakeReceivers')
      BY DEF NoLostReceiverWakeup
    <2>1. PICK w \in NotEmptyWaiters : W = {w}
      BY <1>2, <1>5
    <2>2. w \notin AwakeReceivers /\ AwakeReceivers \cup {w} \subseteq AwakeReceivers'
      BY <1>1, <2>1 DEF AwakeReceivers, NotEmptyWaiters, Woken
    <2>3. Cardinality(AwakeReceivers) + 1 <= Cardinality(AwakeReceivers')
      BY <2>2, CardinalityGain, FiniteAwake, FiniteAwakeNext
    <2>4. Len(queue) <= Cardinality(AwakeReceivers)
      BY <2>1 DEF IInv, NoLostReceiverWakeup
    <2>5. QED
      BY <1>3, <2>3, <2>4, FiniteAwake, FiniteAwakeNext
  <1>10. NoLostSenderWakeup'
    <2> SUFFICES ASSUME Capacity > 0, NotFullWaiters # {}
                 PROVE  Capacity <= Len(queue') + Cardinality(AwakeSenders')
      BY <1>4 DEF NoLostSenderWakeup
    <2>1. AwakeSenders \ {t} \subseteq AwakeSenders'
      BY <1>1, <1>2 DEF AwakeSenders, NotEmptyWaiters
    <2>2. Cardinality(AwakeSenders) <= Cardinality(AwakeSenders') + 1
      BY <2>1, CardinalityLoss, FiniteAwake, FiniteAwakeNext
    <2>3. Capacity <= Len(queue) + Cardinality(AwakeSenders)
      BY DEF IInv, NoLostSenderWakeup
    <2>4. QED
      BY <1>3, <2>2, <2>3, FiniteAwake, FiniteAwakeNext, CapacityAssumption
  <1>11. ClosedBlocksNobody'
    BY DEF Push, ClosedBlocksNobody
  <1>12. QED
    BY <1>6, <1>7, <1>8, <1>9, <1>10, <1>11 DEF IInv

\* A pop preserves the invariant: the place it frees wakes a sender of its own, and
\* the item it takes was the popping receiver's.
LEMMA PopInv ==
  ASSUME IInv, NEW t \in Threads,
         pc[t] \in {"idle", "recvAwake", "timedAwake", "timedExpired"}, Pop(t)
  PROVE  IInv'
  <1> PICK W \in NotifyOne(NotFullWaiters) : Step(t, "idle", W)
    BY DEF Pop
  <1>1. /\ pc' \in [Threads -> Phases] /\ pc'[t] = "idle"
        /\ \A x \in Threads \ {t} : x \in W => pc'[x] = Woken(pc[x])
        /\ \A x \in Threads \ {t} : x \notin W => pc'[x] = pc[x]
    BY StepPc DEF IInv, Phases
  <1>2. W \subseteq NotFullWaiters /\ (NotFullWaiters # {} => \E w \in NotFullWaiters : W = {w})
    BY NotifyOneWakes
  <1>3. Len(queue') = Len(queue) - 1 /\ Len(queue) \in Nat /\ queue' \in Seq(Threads)
    BY DEF Pop, IInv, TypeOK
  <1>4. NotFullWaiters' = NotFullWaiters \ W
    BY <1>1, <1>2 DEF NotFullWaiters, Woken
  <1>5. NotEmptyWaiters' = NotEmptyWaiters
    BY <1>1, <1>2 DEF NotEmptyWaiters, NotFullWaiters, Woken
  <1>6. TypeOK'
    BY <1>1, <1>3 DEF Pop, IInv, TypeOK
  <1>7. FifoConservation'
    <2>1. received \in Seq(Threads) /\ queue \in Seq(Threads) /\ sent = received \o queue
      BY DEF IInv, TypeOK, FifoConservation
    <2>2. received \o queue = Append(received, Head(queue)) \o Tail(queue)
      BY <2>1, MoveHead, Zenon DEF Pop
    <2>3. QED
      BY <2>1, <2>2, Zenon DEF Pop, FifoConservation
  <1>8. CapacityRespected'
    BY <1>3, CapacityAssumption DEF IInv, CapacityRespected
  <1>9. NoLostReceiverWakeup'
    <2> SUFFICES ASSUME NotEmptyWaiters # {}
                 PROVE  Len(queue') <= Cardinality(AwakeReceivers')
      BY <1>5 DEF NoLostReceiverWakeup
    <2>1. AwakeReceivers \ {t} \subseteq AwakeReceivers'
      BY <1>1, <1>2 DEF AwakeReceivers, NotFullWaiters
    <2>2. Cardinality(AwakeReceivers) <= Cardinality(AwakeReceivers') + 1
      BY <2>1, CardinalityLoss, FiniteAwake, FiniteAwakeNext
    <2>3. Len(queue) <= Cardinality(AwakeReceivers)
      BY DEF IInv, NoLostReceiverWakeup
    <2>4. QED
      BY <1>3, <2>2, <2>3, FiniteAwake, FiniteAwakeNext
  <1>10. NoLostSenderWakeup'
    <2> SUFFICES ASSUME Capacity > 0, NotFullWaiters' # {}
                 PROVE  Capacity <= Len(queue') + Cardinality(AwakeSenders')
      BY DEF NoLostSenderWakeup
    <2>1. PICK w \in NotFullWaiters : W = {w}
      BY <1>2, <1>4
    <2>2. w \notin AwakeSenders /\ AwakeSenders \cup {w} \subseteq AwakeSenders'
      BY <1>1, <2>1 DEF AwakeSenders, NotFullWaiters, Woken
    <2>3. Cardinality(AwakeSenders) + 1 <= Cardinality(AwakeSenders')
      BY <2>2, CardinalityGain, FiniteAwake, FiniteAwakeNext
    <2>4. Capacity <= Len(queue) + Cardinality(AwakeSenders)
      BY <2>1 DEF IInv, NoLostSenderWakeup
    <2>5. QED
      BY <1>3, <2>3, <2>4, FiniteAwake, FiniteAwakeNext, CapacityAssumption
  <1>11. ClosedBlocksNobody'
    BY <1>4, <1>5 DEF Pop, IInv, ClosedBlocksNobody
  <1>12. QED
    BY <1>6, <1>7, <1>8, <1>9, <1>10, <1>11 DEF IInv

\* A call that returns without moving an item: it was not a wake-up some item or some
\* free place needed, since the queue is empty or the channel is closed.
LEMMA ReturnInv ==
  ASSUME IInv, NEW t \in Threads, Return(t),
         \/ pc[t] = "idle"
         \/ pc[t] = "sendAwake" /\ closed
         \/ pc[t] \in {"recvAwake", "timedAwake", "timedExpired"} /\ queue = <<>>
  PROVE  IInv'
  <1>1. /\ pc' \in [Threads -> Phases] /\ pc'[t] = "idle"
        /\ \A x \in Threads \ {t} : pc'[x] = pc[x]
    BY StepPc DEF Return, IInv, Phases
  <1>2. UNCHANGED <<queue, closed, sent, received>>
    BY DEF Return
  <1>3. NotFullWaiters' = NotFullWaiters /\ NotEmptyWaiters' = NotEmptyWaiters
    BY <1>1 DEF NotFullWaiters, NotEmptyWaiters
  <1>4. NoLostReceiverWakeup'
    <2>1. CASE queue = <<>>
      BY <1>2, <2>1, FiniteAwakeNext DEF NoLostReceiverWakeup
    <2>2. CASE queue # <<>>
      <3>1. AwakeReceivers' = AwakeReceivers
        BY <1>1, <2>2 DEF AwakeReceivers
      <3>2. QED
        BY <1>2, <1>3, <3>1 DEF IInv, NoLostReceiverWakeup
    <2>3. QED
      BY <2>1, <2>2
  <1>5. NoLostSenderWakeup'
    <2>1. CASE closed
      BY <1>3, <2>1 DEF IInv, ClosedBlocksNobody, NoLostSenderWakeup
    <2>2. CASE ~closed
      <3>1. AwakeSenders' = AwakeSenders
        BY <1>1, <2>2 DEF AwakeSenders
      <3>2. QED
        BY <1>2, <1>3, <3>1 DEF IInv, NoLostSenderWakeup
    <2>3. QED
      BY <2>1, <2>2
  <1>6. QED
    BY <1>1, <1>2, <1>3, <1>4, <1>5
    DEF IInv, TypeOK, FifoConservation, CapacityRespected, ClosedBlocksNobody

\* A thread enters a wait set only when nothing it waits for is there.
LEMMA BlockInv ==
  ASSUME IInv, NEW t \in Threads, NEW phase, Block(t, phase), ~closed,
         \/ /\ phase = "sendWait" /\ ~HasRoom
            /\ pc[t] \in {"idle", "sendAwake"}
         \/ /\ phase \in {"recvWait", "timedWait"} /\ queue = <<>>
            /\ pc[t] \in {"idle", "recvAwake", "timedAwake"}
  PROVE  IInv'
  <1>1. /\ pc' \in [Threads -> Phases] /\ pc'[t] = phase
        /\ \A x \in Threads \ {t} : pc'[x] = pc[x]
    BY StepPc DEF Block, IInv, Phases, SendPhases, RecvPhases
  <1>2. UNCHANGED <<queue, closed, sent, received>>
    BY DEF Block
  <1>3. Len(queue) \in Nat
    BY DEF IInv, TypeOK
  <1>4. NoLostReceiverWakeup'
    <2>1. CASE queue = <<>>
      BY <1>2, <2>1, FiniteAwakeNext DEF NoLostReceiverWakeup
    <2>2. CASE queue # <<>>
      <3>1. AwakeReceivers' = AwakeReceivers /\ NotEmptyWaiters' = NotEmptyWaiters
        BY <1>1, <2>2 DEF AwakeReceivers, NotEmptyWaiters
      <3>2. QED
        BY <1>2, <3>1 DEF IInv, NoLostReceiverWakeup
    <2>3. QED
      BY <2>1, <2>2
  <1>5. NoLostSenderWakeup'
    <2>1. CASE ~HasRoom
      <3>1. Capacity <= Len(queue')
        BY <1>2, <1>3, <2>1, CapacityAssumption DEF HasRoom
      <3>2. QED
        BY <1>2, <1>3, <3>1, FiniteAwakeNext, CapacityAssumption DEF NoLostSenderWakeup
    <2>2. CASE HasRoom
      <3>1. AwakeSenders' = AwakeSenders /\ NotFullWaiters' = NotFullWaiters
        BY <1>1, <2>2 DEF AwakeSenders, NotFullWaiters
      <3>2. QED
        BY <1>2, <3>1 DEF IInv, NoLostSenderWakeup
    <2>3. QED
      BY <2>1, <2>2
  <1>6. QED
    BY <1>1, <1>2, <1>4, <1>5
    DEF IInv, TypeOK, FifoConservation, CapacityRespected, ClosedBlocksNobody

\* close() empties both wait sets.
LEMMA CloseInv ==
  ASSUME IInv, NEW t \in Threads, Close(t)
  PROVE  IInv'
  <1>1. /\ pc' \in [Threads -> Phases] /\ pc'[t] = "idle"
        /\ \A x \in Threads \ {t} :
             /\ x \in NotEmptyWaiters \cup NotFullWaiters => pc'[x] = Woken(pc[x])
             /\ x \notin NotEmptyWaiters \cup NotFullWaiters => pc'[x] = pc[x]
    BY StepPc DEF Close, IInv, Phases
  <1>2. NotEmptyWaiters' = {} /\ NotFullWaiters' = {}
    BY <1>1 DEF NotEmptyWaiters, NotFullWaiters, Woken
  <1>3. QED
    BY <1>1, <1>2
    DEF Close, IInv, TypeOK, FifoConservation, CapacityRespected, NoLostReceiverWakeup,
        NoLostSenderWakeup, ClosedBlocksNobody

\* A wake-up nobody asked for, by a timeout or spuriously, takes none away.
LEMMA WakeInv ==
  ASSUME IInv, NEW t \in Threads, Expire(t) \/ SpuriousWake(t)
  PROVE  IInv'
  <1>1. /\ pc' \in [Threads -> Phases]
        /\ \/ pc[t] = "sendWait" /\ pc'[t] = "sendAwake"
           \/ /\ pc[t] \in {"recvWait", "timedWait"}
              /\ pc'[t] \in {"recvAwake", "timedAwake", "timedExpired"}
        /\ \A x \in Threads \ {t} : pc'[x] = pc[x]
    <2>1. CASE Expire(t)
      BY <2>1, StepPc DEF Expire, IInv, Phases, RecvPhases
    <2>2. CASE SpuriousWake(t)
      <3>1. pc[t] \in {"sendWait", "recvWait", "timedWait"} /\ Woken(pc[t]) \in Phases
        BY <2>2, WokenType DEF SpuriousWake, NotEmptyWaiters, NotFullWaiters, IInv, TypeOK
      <3>2. Step(t, Woken(pc[t]), {})
        BY <2>2 DEF SpuriousWake
      <3>3. QED
        BY <3>1, <3>2, StepPc DEF IInv, Woken
    <2>3. QED
      BY <2>1, <2>2
  <1>2. UNCHANGED <<queue, closed, sent, received>>
    BY DEF Expire, SpuriousWake
  <1>3. NotFullWaiters' \subseteq NotFullWaiters /\ NotEmptyWaiters' \subseteq NotEmptyWaiters
    BY <1>1 DEF NotFullWaiters, NotEmptyWaiters
  <1>4. AwakeReceivers \subseteq AwakeReceivers' /\ AwakeSenders \subseteq AwakeSenders'
    BY <1>1 DEF AwakeReceivers, AwakeSenders
  <1>5. /\ Cardinality(AwakeReceivers) <= Cardinality(AwakeReceivers')
        /\ Cardinality(AwakeSenders) <= Cardinality(AwakeSenders')
    BY <1>4, FS_Subset, FiniteAwakeNext
  <1>6. Len(queue) \in Nat
    BY DEF IInv, TypeOK
  <1>7. NoLostReceiverWakeup' /\ NoLostSenderWakeup'
    BY <1>2, <1>3, <1>5, <1>6, FiniteAwake, FiniteAwakeNext, CapacityAssumption
    DEF IInv, NoLostReceiverWakeup, NoLostSenderWakeup
  <1>8. QED
    BY <1>1, <1>2, <1>3, <1>7
    DEF IInv, TypeOK, FifoConservation, CapacityRespected, ClosedBlocksNobody
-----------------------------------------------------------------------------
\* The inductive invariant holds initially, before any call of send() or recv().
LEMMA InitInv == Init => IInv
  <1> SUFFICES ASSUME Init PROVE IInv
    OBVIOUS
  <1>1. TypeOK
    <2>1. <<>> \in Seq(Threads)
      BY EmptySeq
    <2>2. pc \in [Threads -> Phases]
      BY DEF Init, Phases
    <2>3. QED
      BY <2>1, <2>2, Zenon DEF Init, TypeOK
  <1>2. NotEmptyWaiters = {} /\ NotFullWaiters = {}
    BY DEF Init, NotEmptyWaiters, NotFullWaiters
  <1>3. QED
    BY <1>1, <1>2, CapacityAssumption
    DEF Init, IInv, FifoConservation, CapacityRespected, NoLostReceiverWakeup,
        NoLostSenderWakeup, ClosedBlocksNobody

\* One step per call of the class and per step of the condition variables.
LEMMA NextInv == IInv /\ [Next]_vars => IInv'
  <1> SUFFICES ASSUME IInv, [Next]_vars PROVE IInv'
    OBVIOUS
  <1>1. ASSUME NEW t \in Threads, Send(t) PROVE IInv'
    BY <1>1, PushInv, ReturnInv, BlockInv DEF Send
  <1>2. ASSUME NEW t \in Threads, TrySend(t) PROVE IInv'
    BY <1>2, PushInv, ReturnInv DEF TrySend
  <1>3. ASSUME NEW t \in Threads, Recv(t) PROVE IInv'
    BY <1>3, PopInv, ReturnInv, BlockInv DEF Recv
  <1>4. ASSUME NEW t \in Threads, TryRecv(t) PROVE IInv'
    BY <1>4, PopInv, ReturnInv DEF TryRecv
  <1>5. ASSUME NEW t \in Threads, RecvTimeout(t) PROVE IInv'
    BY <1>5, PopInv, ReturnInv, BlockInv DEF RecvTimeout
  <1>6. ASSUME NEW t \in Threads, Close(t) PROVE IInv'
    BY <1>6, CloseInv
  <1>7. ASSUME NEW t \in Threads, Expire(t) \/ SpuriousWake(t) PROVE IInv'
    BY <1>7, WakeInv
  <1>8. CASE UNCHANGED vars
    BY <1>8
    DEF vars, IInv, TypeOK, FifoConservation, CapacityRespected, NoLostReceiverWakeup,
        NoLostSenderWakeup, ClosedBlocksNobody, NotEmptyWaiters, NotFullWaiters,
        AwakeReceivers, AwakeSenders
  <1>9. QED
    BY <1>1, <1>2, <1>3, <1>4, <1>5, <1>6, <1>7, <1>8 DEF Next

\* The inductive invariant holds in every state the calls of Channel can reach.
THEOREM Invariance == Spec => []IInv
  BY InitInv, NextInv, PTL DEF Spec

\* Type correctness of the channel's state.
THEOREM TypeCorrect == Spec => []TypeOK
  <1>1. IInv => TypeOK
    BY DEF IInv
  <1>2. QED
    BY <1>1, Invariance, PTL

\* send, try_send, recv, try_recv and recv_timeout together neither lose, duplicate nor
\* reorder an item.
THEOREM FifoTheorem == Spec => []FifoConservation
  <1>1. IInv => FifoConservation
    BY DEF IInv
  <1>2. QED
    BY <1>1, Invariance, PTL

\* A bounded channel never exceeds capacity_.
THEOREM CapacityTheorem == Spec => []CapacityRespected
  <1>1. IInv => CapacityRespected
    BY DEF IInv
  <1>2. QED
    BY <1>1, Invariance, PTL

\* The notify_one calls suffice: no receiver sleeps beside an item, and no sender beside
\* a free place, that nobody is on the way to take.
THEOREM WakeupTheorem == Spec => []NoLostWakeup
  <1>1. IInv => NoLostWakeup
    BY DEF IInv, NoLostWakeup
  <1>2. QED
    BY <1>1, Invariance, PTL

\* close() releases every blocked thread, and none blocks afterwards.
THEOREM CloseTheorem == Spec => []ClosedBlocksNobody
  <1>1. IInv => ClosedBlocksNobody
    BY DEF IInv
  <1>2. QED
    BY <1>1, Invariance, PTL

\* No send succeeds once close() has run.
THEOREM NothingAcceptedTheorem == Spec => NothingAcceptedAfterClose
  <1>1. [Next]_vars => [closed => sent' = sent]_vars
    BY DEF Next, vars, Send, TrySend, Recv, TryRecv, RecvTimeout, Close, Expire,
           SpuriousWake, Push, Pop, Return, Block
  <1>2. QED
    BY <1>1, PTL DEF Spec, NothingAcceptedAfterClose

\* The channel implements the atomic bounded queue its users see.
THEOREM Refinement == Spec => ImplementsFifo
  <1>1. Init => Fifo!Init
    BY DEF Init, Fifo!Init
  <1>2. [Next]_vars => [Fifo!Next]_(Fifo!fifoVars)
    <2> SUFFICES ASSUME [Next]_vars PROVE [Fifo!Next]_(Fifo!fifoVars)
      OBVIOUS
    <2> USE DEF Fifo!Next, Fifo!fifoVars, Fifo!Enqueue, Fifo!Dequeue, Fifo!Shut
    <2>1. ASSUME NEW t \in Threads, Push(t), ~closed, HasRoom PROVE Fifo!Next
      BY <2>1 DEF Push, HasRoom
    <2>2. ASSUME NEW t \in Threads, Pop(t) PROVE Fifo!Next
      BY <2>2 DEF Pop
    <2>3. ASSUME NEW t \in Threads, Close(t) PROVE Fifo!Next
      BY <2>3 DEF Close
    <2>4. CASE UNCHANGED <<queue, closed>>
      BY <2>4
    <2>5. QED
      BY <2>1, <2>2, <2>3, <2>4, Zenon
      DEF Next, vars, Send, TrySend, Recv, TryRecv, RecvTimeout, Expire, SpuriousWake,
          Return, Block
  <1>3. QED
    BY <1>1, <1>2, PTL DEF Spec, ImplementsFifo, Fifo!Spec
-----------------------------------------------------------------------------
\* The workers that have a job in hand.
Running == {w \in Workers : wpc[w] = "running"}

\* The invariant of the pool: a job that was taken from the channel has ended or is in the
\* hands of one worker, and a worker leaves its loop only when nothing can come any more.
PoolInv ==
  /\ IInv
  /\ wpc \in [Workers -> {"loop", "running", "exited"}]
  /\ finished \in Nat
  /\ finished + Cardinality(Running) = Len(received)
  /\ \A w \in Workers : wpc[w] = "exited" => closed /\ queue = <<>>

\* The number of jobs in hand is a number.
LEMMA FiniteRunning ==
  /\ IsFiniteSet(Running) /\ Cardinality(Running) \in Nat
  /\ IsFiniteSet(Running') /\ Cardinality(Running') \in Nat
  <1>1. Running \subseteq Threads /\ Running' \subseteq Threads
    BY WorkersAssumption DEF Running
  <1>2. QED
    BY <1>1, ThreadsAssumption, FS_Subset, FS_CardinalityType

\* submit(), spawn(), the worker loop and shutdown() use the channel through its calls.
LEMMA PoolStepIsChannelStep == [PoolNext]_allVars => [Next]_vars
  <1> SUFFICES ASSUME [PoolNext]_allVars PROVE [Next]_vars
    OBVIOUS
  <1>1. ASSUME NEW w \in Workers, WorkerRecv(w) \/ FinishJob(w) PROVE [Next]_vars
    BY <1>1, WorkersAssumption DEF WorkerRecv, FinishJob, Next
  <1>2. ASSUME NEW t \in Threads, Submit(t) \/ Spawn(t) \/ PoolSpurious(t) PROVE [Next]_vars
    BY <1>2 DEF Submit, Spawn, PoolSpurious, Next
  <1>3. ASSUME NEW c \in Clients, ShutdownExchange(c) \/ ShutdownClose(c) \/ ShutdownJoin(c)
        PROVE  [Next]_vars
    BY <1>3 DEF ShutdownExchange, ShutdownClose, ShutdownJoin, Clients, Next
  <1>4. CASE UNCHANGED allVars
    BY <1>4 DEF allVars
  <1>5. QED
    BY <1>1, <1>2, <1>3, <1>4 DEF PoolNext

\* A closed channel that is empty stays closed and empty.
LEMMA ClosedStaysEmpty ==
  ASSUME [Next]_vars, closed, queue = <<>>
  PROVE  closed' /\ queue' = <<>>
  BY Zenon DEF Next, vars, Send, TrySend, Recv, TryRecv, RecvTimeout, Close, Expire,
         SpuriousWake, Push, Pop, Return, Block

\* recv() in the worker loop: a job starts exactly when an item was handed out, and the
\* loop is left exactly when the channel is closed and drained.
LEMMA WorkerRecvInv ==
  ASSUME PoolInv, IInv', NEW w \in Workers, WorkerRecv(w)
  PROVE  PoolInv'
  <1>1. /\ wpc[w] = "loop" /\ Recv(w) /\ finished' = finished
        /\ wpc' = [wpc EXCEPT ![w] = IF received' # received THEN "running"
                                     ELSE IF pc'[w] = "idle" THEN "exited" ELSE "loop"]
    BY DEF WorkerRecv
  <1>2. wpc' \in [Workers -> {"loop", "running", "exited"}]
    BY <1>1 DEF PoolInv
  <1>3. \A v \in Workers : v # w => wpc'[v] = wpc[v]
    BY <1>1 DEF PoolInv
  <1>4. received \in Seq(Threads) /\ w \in Threads /\ w \notin Running
    BY <1>1, WorkersAssumption DEF PoolInv, IInv, TypeOK, Running
  <1>5. \A v \in Workers : v # w /\ wpc'[v] = "exited" => closed' /\ queue' = <<>>
    <2>1. [Next]_vars
      BY <1>1, <1>4 DEF Next
    <2>2. QED
      BY <1>3, <2>1, ClosedStaysEmpty DEF PoolInv
  <1>6. CASE Pop(w)
    <2>1. received' = Append(received, Head(queue)) /\ Len(received') = Len(received) + 1
      BY <1>4, <1>6 DEF Pop
    <2>2. received' # received
      BY <1>4, <2>1
    <2>3. wpc'[w] = "running"
      BY <1>1, <2>2 DEF PoolInv
    <2>4. Running' = Running \cup {w}
      BY <1>3, <2>3 DEF Running
    <2>5. Cardinality(Running') = Cardinality(Running) + 1
      BY <1>4, <2>4, FiniteRunning, FS_AddElement
    <2>6. finished' + Cardinality(Running') = Len(received')
      <3>1. finished \in Nat /\ finished + Cardinality(Running) = Len(received)
        BY DEF PoolInv
      <3>2. finished' = finished /\ Len(received') = Len(received) + 1
        BY <1>1, <2>1
      <3>3. Cardinality(Running) \in Nat
        BY FiniteRunning
      <3>4. QED
        BY <2>5, <3>1, <3>2, <3>3
    <2>7. QED
      BY <1>1, <1>2, <1>5, <2>3, <2>6 DEF PoolInv
  <1>7. CASE received' = received
    <2>1. wpc'[w] # "running"
      BY <1>1, <1>7 DEF PoolInv
    <2>2. Running' = Running
      BY <1>1, <1>3, <2>1 DEF Running
    <2>3. finished' + Cardinality(Running') = Len(received')
      BY <1>1, <1>7, <2>2 DEF PoolInv
    <2>4. QED
      <3>1. wpc'[w] = "exited" => pc'[w] = "idle"
        BY <1>1, <1>7 DEF PoolInv
      <3>2. Block(w, "recvWait") => pc'[w] = "recvWait"
        BY <1>4 DEF Block, Step
      <3>3. wpc'[w] = "exited" /\ ~Pop(w) => closed' /\ queue' = <<>>
        BY <1>1, <3>1, <3>2 DEF Recv, Return
      <3>4. QED
        BY <1>1, <1>2, <1>5, <1>6, <2>3, <3>3 DEF PoolInv
  <1>8. QED
    BY <1>1, <1>6, <1>7 DEF Recv, Return, Block

\* A job that ends is counted once, and its worker goes back to its loop.
LEMMA FinishJobInv ==
  ASSUME PoolInv, IInv', NEW w \in Workers, FinishJob(w)
  PROVE  PoolInv'
  <1>1. /\ wpc[w] = "running" /\ wpc' = [wpc EXCEPT ![w] = "loop"]
        /\ finished' = finished + 1 /\ UNCHANGED <<queue, closed, received>>
    BY DEF FinishJob, vars
  <1>2. /\ wpc' \in [Workers -> {"loop", "running", "exited"}] /\ wpc'[w] = "loop"
        /\ \A v \in Workers : v # w => wpc'[v] = wpc[v]
    BY <1>1 DEF PoolInv
  <1>3. Running' = Running \ {w} /\ w \in Running
    BY <1>1, <1>2 DEF Running
  <1>4. Cardinality(Running') = Cardinality(Running) - 1
    BY <1>3, FiniteRunning, FS_RemoveElement
  <1>5. finished' \in Nat /\ finished' + Cardinality(Running') = Len(received')
    <2>1. finished \in Nat /\ finished + Cardinality(Running) = Len(received)
      BY DEF PoolInv
    <2>2. QED
      BY <1>1, <1>4, <2>1, FiniteRunning
  <1>6. QED
    BY <1>1, <1>2, <1>5 DEF PoolInv

\* The calls of the clients and of the jobs hand out no item and end no job.
LEMMA OtherPoolInv ==
  ASSUME PoolInv, IInv', [Next]_vars, UNCHANGED <<wpc, finished, received>>
  PROVE  PoolInv'
  <1>1. Running' = Running
    BY DEF Running
  <1>2. \A w \in Workers : wpc'[w] = "exited" => closed' /\ queue' = <<>>
    BY ClosedStaysEmpty DEF PoolInv
  <1>3. QED
    BY <1>1, <1>2 DEF PoolInv

\* The invariant holds when the constructor has started the workers.
LEMMA PoolInitInv == PoolInit => PoolInv
  <1> SUFFICES ASSUME PoolInit PROVE PoolInv
    OBVIOUS
  <1>1. IInv
    BY InitInv DEF PoolInit
  <1>2. Running = {}
    BY DEF PoolInit, Running
  <1>3. received = <<>> /\ finished = 0
    BY DEF PoolInit, Init
  <1>4. finished + Cardinality(Running) = Len(received)
    BY <1>2, <1>3, FS_EmptySet
  <1>5. QED
    BY <1>1, <1>3, <1>4 DEF PoolInit, PoolInv

\* One step per function of the pool.
LEMMA PoolNextInv == PoolInv /\ [PoolNext]_allVars => PoolInv'
  <1> SUFFICES ASSUME PoolInv, [PoolNext]_allVars PROVE PoolInv'
    OBVIOUS
  <1>1. [Next]_vars /\ IInv'
    BY PoolStepIsChannelStep, NextInv DEF PoolInv
  <1>2. ASSUME NEW w \in Workers, WorkerRecv(w) \/ FinishJob(w) PROVE PoolInv'
    BY <1>1, <1>2, WorkerRecvInv, FinishJobInv
  <1>3. ASSUME NEW t \in Threads, Submit(t) \/ Spawn(t) \/ PoolSpurious(t) PROVE PoolInv'
    <2>1. UNCHANGED <<wpc, finished>>
      BY <1>3 DEF Submit, Spawn, PoolSpurious, poolVars
    <2>2. received' = received
      BY <1>3 DEF Submit, Spawn, PoolSpurious, Send, TrySend, SpuriousWake, Push, Return, Block
    <2>3. QED
      BY <1>1, <2>1, <2>2, OtherPoolInv
  <1>4. ASSUME NEW c \in Clients, ShutdownExchange(c) \/ ShutdownClose(c) \/ ShutdownJoin(c)
        PROVE  PoolInv'
    <2>1. UNCHANGED <<wpc, finished, received>>
      BY <1>4 DEF ShutdownExchange, ShutdownClose, ShutdownJoin, Close, vars
    <2>2. QED
      BY <1>1, <2>1, OtherPoolInv
  <1>5. CASE UNCHANGED allVars
    <2>1. UNCHANGED <<wpc, finished, received>>
      BY <1>5 DEF allVars, poolVars, vars
    <2>2. QED
      BY <1>1, <2>1, OtherPoolInv
  <1>6. QED
    BY <1>2, <1>3, <1>4, <1>5 DEF PoolNext

\* The pool's invariant holds in every state that its functions can reach.
THEOREM PoolInvariance == PoolSpec => []PoolInv
  BY PoolInitInv, PoolNextInv, PTL DEF PoolSpec

\* The pool is a user of the channel: whatever its workers, clients and shutdown() do, the
\* channel in it behaves as Channel says, so that every theorem above holds of it.
THEOREM PoolUsesChannel == PoolSpec => Spec
  <1>1. PoolInit => Init
    BY DEF PoolInit
  <1>2. QED
    BY <1>1, PoolStepIsChannelStep, PTL DEF PoolSpec, Spec

\* shutdown() of a pool that has a worker drains it: once the workers have exited, every
\* job that submit() or spawn() accepted has run to its end.
THEOREM PoolDrains ==
  ASSUME Workers # {}
  PROVE  PoolSpec => []ShutdownDrains
  <1>1. PoolInv => ShutdownDrains
    <2> SUFFICES ASSUME PoolInv, closed, \A w \in Workers : wpc[w] = "exited"
                 PROVE  queue = <<>> /\ finished = Len(sent)
      BY DEF ShutdownDrains
    <2>1. queue = <<>>
      BY DEF PoolInv
    <2>2. sent = received /\ received \in Seq(Threads)
      BY <2>1 DEF PoolInv, IInv, TypeOK, FifoConservation
    <2>3. Running = {}
      BY DEF Running
    <2>4. Cardinality(Running) = 0
      BY <2>3, FS_EmptySet
    <2>5. QED
      BY <2>1, <2>2, <2>4 DEF PoolInv
  <1>2. QED
    BY <1>1, PoolInvariance, PTL
=============================================================================
