-------------------------- MODULE EventLoopProofs --------------------------
(***************************************************************************)
(* Proofs about EventLoop for any number of tasks, services and threads.   *)
(***************************************************************************)
EXTENDS EventLoop, FiniteSetTheorems, SequenceTheorems, TLAPS

\* Zenon proves most leaves; one with arithmetic, records or sequences cites SMT.
USE ZenonT(30)
USE DEF StopSeen, Reset, EarlierStop, Taken, Unhooked, AfterPush

Occurs(q, t) == \E i \in 1..Len(q) : q[i] = t

Distinct(q) == \A i, j \in 1..Len(q) : q[i] = q[j] => i = j

Apart(p, q) == \A i \in 1..Len(p), j \in 1..Len(q) : p[i] # q[j]

(***************************************************************************)
(* The three queues hold different handles, once each.                     *)
(***************************************************************************)
QueuesDistinct ==
  /\ Distinct(ready_queue) /\ Distinct(scratch) /\ Distinct(cross_core_queue)
  /\ \A t \in Tasks :
       /\ ~(Occurs(ready_queue, t) /\ Occurs(scratch, t))
       /\ ~(Occurs(ready_queue, t) /\ Occurs(cross_core_queue, t))
       /\ ~(Occurs(scratch, t) /\ Occurs(cross_core_queue, t))

InSomeQueue(t) ==
  Occurs(ready_queue, t) \/ Occurs(scratch, t) \/ Occurs(cross_core_queue, t)

\* A queued coroutine is suspended, and neither runs nor waits.
QueuedIsIdle ==
  \A t \in Tasks : InSomeQueue(t) =>
    t # current /\ t \notin registered /\ frame[t] = "suspended"

\* So is one that waits, and the one that runs is neither done nor registered.
WaitingIsSuspended ==
  /\ \A t \in registered : frame[t] = "suspended" /\ t # current
  /\ current # NoTask => frame[current] = "suspended"

\* A pending wait with a callback in the list is still registered.
PendingIsRegistered ==
  \A t \in callbacks : wait[t] = "Pending" => t \in registered

\* Between two batches no coroutine runs and no handle is left over.
BatchOver == pc # "resume" => scratch = <<>> /\ current = NoTask

\* Where the handles are: the part of the invariant that has to be proved as one.
HandleInv ==
  /\ QueuesDistinct
  /\ QueuedIsIdle
  /\ WaitingIsSuspended
  /\ PendingIsRegistered
  /\ BatchOver
  /\ CallbackFrameAlive

(***************************************************************************)
(* The inductive invariant.                                                *)
(***************************************************************************)
IInv == TypeOK /\ HandleInv /\ NoLostSubmitWakeup
-----------------------------------------------------------------------------
\* What Append does to the handles of a queue.
LEMMA AppendFacts ==
  ASSUME NEW q \in Seq(Tasks), NEW t \in Tasks
  PROVE  /\ Append(q, t) \in Seq(Tasks)
         /\ \A u : Occurs(Append(q, t), u) <=> Occurs(q, u) \/ u = t
         /\ Distinct(q) /\ ~Occurs(q, t) => Distinct(Append(q, t))
BY SMTT(20) DEF Occurs, Distinct

\* What Tail does to them.
LEMMA TailFacts ==
  ASSUME NEW q \in Seq(Tasks), q # <<>>
  PROVE  /\ Tail(q) \in Seq(Tasks)
         /\ Head(q) \in Tasks
         /\ Occurs(q, Head(q))
         /\ \A u : Occurs(Tail(q), u) => Occurs(q, u)
         /\ \A u : Occurs(q, u) => u = Head(q) \/ Occurs(Tail(q), u)
         /\ Distinct(q) => Distinct(Tail(q)) /\ ~Occurs(Tail(q), Head(q))
<1>1. Len(q) \in Nat /\ Len(q) # 0
  BY EmptySeq
<1>2. /\ Len(Tail(q)) = Len(q) - 1
      /\ \A i \in 1..Len(Tail(q)) : Tail(q)[i] = q[i + 1] /\ i + 1 \in 1..Len(q)
      /\ Tail(q) \in Seq(Tasks)
  BY <1>1, SMTT(20)
<1>3. Head(q) = q[1] /\ 1 \in 1..Len(q) /\ Head(q) \in Tasks
  BY <1>1, SMTT(20)
<1>4. \A i \in 1..Len(q) : i = 1 \/ (i - 1 \in 1..Len(Tail(q)) /\ Tail(q)[i - 1] = q[i])
  BY <1>1, <1>2, SMTT(20)
<1>5. ASSUME Distinct(q) PROVE Distinct(Tail(q)) /\ ~Occurs(Tail(q), Head(q))
  <2>1. Distinct(Tail(q))
    BY <1>1, <1>2, <1>5, SMTT(20) DEF Distinct
  <2>2. ~Occurs(Tail(q), Head(q))
    BY <1>1, <1>2, <1>3, <1>5, SMTT(20) DEF Distinct, Occurs
  <2> QED BY <2>1, <2>2
<1>6. Occurs(q, Head(q))
  BY <1>3 DEF Occurs
<1>7. \A u : Occurs(Tail(q), u) => Occurs(q, u)
  BY <1>2 DEF Occurs
<1>8. \A u : Occurs(q, u) => u = Head(q) \/ Occurs(Tail(q), u)
  BY <1>3, <1>4 DEF Occurs
<1> QED BY <1>2, <1>3, <1>5, <1>6, <1>7, <1>8

\* What concatenation does to them.
LEMMA ConcatFacts ==
  ASSUME NEW p \in Seq(Tasks), NEW q \in Seq(Tasks)
  PROVE  /\ p \o q \in Seq(Tasks)
         /\ \A u : Occurs(p \o q, u) <=> Occurs(p, u) \/ Occurs(q, u)
         /\ Distinct(p \o q) <=> Distinct(p) /\ Distinct(q) /\ Apart(p, q)
<1> DEFINE r == p \o q
<1>1. /\ r \in Seq(Tasks) /\ Len(r) = Len(p) + Len(q)
      /\ Len(p) \in Nat /\ Len(q) \in Nat
      /\ \A i \in 1..Len(p) : r[i] = p[i] /\ i \in 1..Len(r)
      /\ \A j \in 1..Len(q) : r[Len(p) + j] = q[j] /\ Len(p) + j \in 1..Len(r)
      /\ \A k \in 1..Len(r) : k \in 1..Len(p) \/ (k - Len(p) \in 1..Len(q)
                                                  /\ r[k] = q[k - Len(p)])
  BY SMTT(20)
<1> HIDE DEF r
<1>2. ASSUME NEW u
      PROVE  Occurs(r, u) <=> Occurs(p, u) \/ Occurs(q, u)
  <2>1. ASSUME Occurs(p, u)
        PROVE  Occurs(r, u)
    BY <1>1, <2>1 DEF Occurs
  <2>2. ASSUME Occurs(q, u)
        PROVE  Occurs(r, u)
    BY <1>1, <2>2 DEF Occurs
  <2>3. ASSUME Occurs(r, u)
        PROVE  Occurs(p, u) \/ Occurs(q, u)
    <3>1. PICK k \in 1..Len(r) : r[k] = u
      BY <2>3 DEF Occurs
    <3> QED
      BY <1>1, <3>1 DEF Occurs
  <2> QED
    BY <2>1, <2>2, <2>3
<1>3. ASSUME Distinct(r) PROVE Distinct(p) /\ Distinct(q) /\ Apart(p, q)
  <2>1. Distinct(p) BY <1>1, <1>3 DEF Distinct
  <2>2. Distinct(q)
    <3> SUFFICES ASSUME NEW i \in 1..Len(q), NEW j \in 1..Len(q), q[i] = q[j]
                 PROVE  i = j
      BY DEF Distinct
    <3>1. r[Len(p) + i] = r[Len(p) + j]
      BY <1>1
    <3>2. Len(p) + i = Len(p) + j
      BY <1>1, <1>3, <3>1 DEF Distinct
    <3> QED BY <1>1, <3>2, SMTT(20)
  <2>3. Apart(p, q)
    <3> SUFFICES ASSUME NEW i \in 1..Len(p), NEW j \in 1..Len(q), p[i] = q[j]
                 PROVE  FALSE
      BY DEF Apart
    <3>1. i = Len(p) + j
      BY <1>1, <1>3 DEF Distinct
    <3> QED BY <1>1, <3>1, SMTT(20)
  <2> QED BY <2>1, <2>2, <2>3
<1>4. ASSUME Distinct(p), Distinct(q), Apart(p, q) PROVE Distinct(r)
  <2> SUFFICES ASSUME NEW i \in 1..Len(r), NEW j \in 1..Len(r), r[i] = r[j]
               PROVE  i = j
    BY DEF Distinct
  <2>1. CASE i \in 1..Len(p) /\ j \in 1..Len(p)
    BY <1>1, <1>4, <2>1, SMTT(20) DEF Distinct
  <2>2. CASE i \notin 1..Len(p) /\ j \notin 1..Len(p)
    <3>1. i - Len(p) = j - Len(p)
      BY <1>1, <1>4, <2>2, SMTT(20) DEF Distinct
    <3> QED BY <1>1, <3>1, SMTT(20)
  <2>3. CASE i \in 1..Len(p) /\ j \notin 1..Len(p)
    BY <1>1, <1>4, <2>3, SMTT(20) DEF Apart
  <2>4. CASE i \notin 1..Len(p) /\ j \in 1..Len(p)
    BY <1>1, <1>4, <2>4, SMTT(20) DEF Apart
  <2> QED BY <2>1, <2>2, <2>3, <2>4
<1> QED BY <1>1, <1>2, <1>3, <1>4 DEF r

\* Two queues are apart when they share no handle.
LEMMA ApartFacts ==
  ASSUME NEW p \in Seq(Tasks), NEW q \in Seq(Tasks)
  PROVE  Apart(p, q) <=> \A u : ~(Occurs(p, u) /\ Occurs(q, u))
BY DEF Apart, Occurs

\* The empty queue.
LEMMA EmptyFacts == /\ <<>> \in Seq(Tasks)
                    /\ Distinct(<<>>)
                    /\ \A u : ~Occurs(<<>>, u)
BY EmptySeq, SMTT(20) DEF Distinct, Occurs

\* An order of a set of tasks is a queue of exactly these tasks, once each.
LEMMA OrdersFacts ==
  ASSUME NEW S \in SUBSET Tasks, NEW q \in Orders(S)
  PROVE  q \in Seq(Tasks) /\ Distinct(q) /\ \A u : Occurs(q, u) <=> u \in S
<1>1. Cardinality(S) \in Nat
  BY TasksAssumption, FS_Subset, FS_CardinalityType
<1>2. q \in [1..Cardinality(S) -> S] /\ DOMAIN q = 1..Cardinality(S)
  BY DEF Orders
<1>3. q \in Seq(S) /\ Len(q) = Cardinality(S)
  BY <1>1, <1>2, SMTT(20)
<1>4. q \in Seq(Tasks)
  BY <1>1, <1>2, SMTT(20)
<1> QED BY <1>2, <1>3, <1>4, SMTT(20) DEF Orders, Distinct, Occurs
-----------------------------------------------------------------------------
\* Each step keeps the types.
LEMMA TypeInv == TypeOK /\ [Next]_vars => TypeOK'
<1> SUFFICES ASSUME TypeOK, [Next]_vars PROVE TypeOK'
  OBVIOUS
<1> USE DEF TypeOK
<1>0. CASE UNCHANGED vars
  BY <1>0 DEF vars, loopVars, waitVars, wakeVars, stopVars, threadVars
<1>1. CASE Start
  BY <1>1 DEF Start, waitVars, wakeVars, stopVars, threadVars
<1>2. CASE LoopTop
  BY <1>2, EmptyFacts DEF LoopTop, waitVars, wakeVars, stopVars, threadVars
<1>3. CASE Resume
  <2>1. Tail(scratch) \in Seq(Tasks) /\ Head(scratch) \in Tasks
    BY <1>3, TailFacts DEF Resume
  <2> QED BY <1>3, <2>1 DEF Resume, waitVars, wakeVars, stopVars, threadVars
<1>4. CASE Return
  BY <1>4 DEF Return, waitVars, wakeVars, stopVars, threadVars
<1>5. CASE Suspend
  <2>1. current \in Tasks
    BY <1>5 DEF Suspend
  <2>2. suspends' \in [Tasks -> 0..MaxSuspends]
    BY <1>5, <2>1, MaxSuspendsAssumption, SMTT(20) DEF Suspend
  <2>3. wait' \in [Tasks -> {"none", "Pending", "Ready", "Cancelled"}]
    BY <1>5, <2>1 DEF Suspend
  <2>4. ready_queue' \in Seq(Tasks)
    <3>1. Append(ready_queue, current) \in Seq(Tasks)
      BY <2>1, AppendFacts
    <3> QED BY <1>5, <3>1 DEF Suspend
  <2>5. frame' \in [Tasks -> {"none", "suspended", "done", "destroyed"}]
    BY <1>5, <2>1 DEF Suspend
  <2>6. registered' \in SUBSET Tasks /\ callbacks' \in SUBSET Services
    BY <1>5, <2>1, SMTT(20) DEF Suspend
  <2> QED BY <1>5, <2>1, <2>2, <2>3, <2>4, <2>5, <2>6
             DEF Suspend, waitVars, wakeVars, stopVars, threadVars
<1>6. CASE Cleanup
  BY <1>6 DEF Cleanup, waitVars, wakeVars, stopVars, threadVars
<1>7. ASSUME DrainCrossCore
      PROVE  /\ ready_queue' \in Seq(Tasks) /\ owned_tasks' \in SUBSET Tasks
             /\ cross_core_queue' \in Seq(Tasks) /\ eventfd' \in BOOLEAN
             /\ wakeup_edge' \in BOOLEAN
  <2>1. ready_queue' \in Seq(Tasks) /\ cross_core_queue' \in Seq(Tasks)
    BY <1>7, EmptyFacts, ConcatFacts DEF DrainCrossCore
  <2>2. owned_tasks' \in SUBSET Tasks
    BY <1>7, SMTT(20) DEF DrainCrossCore
  <2>3. eventfd' \in BOOLEAN /\ wakeup_edge' \in BOOLEAN
    BY <1>7 DEF DrainCrossCore
  <2> QED BY <2>1, <2>2, <2>3
<1>8. CASE ExitCheck
  <2>1. CASE owned_tasks = {}
    BY <1>7, <1>8, <2>1 DEF ExitCheck, waitVars, stopVars, threadVars
  <2>2. CASE owned_tasks # {}
    BY <1>8, <2>2 DEF ExitCheck, waitVars, wakeVars, stopVars, threadVars
  <2> QED BY <2>1, <2>2
<1>9. CASE Leave
  BY <1>9 DEF Leave, waitVars, wakeVars, stopVars, threadVars
<1>10. CASE PollReturn
  BY <1>10 DEF PollReturn, waitVars, wakeVars, stopVars, threadVars
<1>11. CASE PollError
  BY <1>11 DEF PollError, waitVars, wakeVars, stopVars, threadVars
<1>12. CASE FireEnd
  BY <1>12 DEF FireEnd, waitVars, wakeVars, stopVars, threadVars
<1>13. CASE Drain
  BY <1>7, <1>13 DEF Drain, waitVars, stopVars, threadVars
<1>14. ASSUME NEW t \in Tasks, Spawn(t) PROVE TypeOK'
  <2>1. ready_queue' \in Seq(Tasks)
    BY <1>14, AppendFacts DEF Spawn
  <2> QED BY <1>14, <2>1 DEF Spawn, waitVars, wakeVars, stopVars, threadVars
<1>15. ASSUME NEW t \in Tasks, Fire(t) PROVE TypeOK'
  <2>1. ready_queue' \in Seq(Tasks)
    <3>1. Append(ready_queue, t) \in Seq(Tasks)
      BY AppendFacts
    <3> QED BY <1>15, <3>1 DEF Fire
  <2> QED BY <1>15, <2>1 DEF Fire, waitVars, wakeVars, stopVars, threadVars
<1>16. CASE OwnerStop
  BY <1>16 DEF OwnerStop, WriteEventfd, loopVars, waitVars, wakeVars, stopVars, threadVars
<1>17. CASE OwnerGraceful
  <2> DEFINE cancelled == {t \in callbacks : wait[t] = "Pending"}
  <2>1. cancelled \in SUBSET Tasks
    BY ServicesAssumption
  <2>2. ready_queue' \in Seq(Tasks)
    <3>1. \A order \in Orders(cancelled) : ready_queue \o order \in Seq(Tasks)
      BY <2>1, OrdersFacts, ConcatFacts
    <3> QED BY <1>17, <3>1 DEF OwnerGraceful
  <2>3. /\ wait' \in [Tasks -> {"none", "Pending", "Ready", "Cancelled"}]
        /\ registered' \in SUBSET Tasks /\ callbacks' \in SUBSET Services
    BY <1>17 DEF OwnerGraceful
  <2> QED BY <1>17, <2>2, <2>3
             DEF OwnerGraceful, WriteEventfd, waitVars, wakeVars, stopVars, threadVars
<1>18. ASSUME NEW s \in Threads, NEW t \in Tasks, SubmitPush(s, t) PROVE TypeOK'
  <2>1. cross_core_queue' \in Seq(Tasks)
    BY <1>18, AppendFacts DEF SubmitPush
  <2> QED BY <1>18, <2>1 DEF SubmitPush, waitVars, wakeVars, stopVars, threadVars
<1>19. ASSUME NEW s \in Threads, StopFlag(s) \/ GracefulFlag(s) PROVE TypeOK'
  <2>1. CASE StopFlag(s)
    BY <2>1 DEF StopFlag, loopVars, waitVars, wakeVars, stopVars, threadVars
  <2>2. CASE GracefulFlag(s)
    BY <2>2 DEF GracefulFlag, loopVars, waitVars, wakeVars, stopVars, threadVars
  <2> QED BY <1>19, <2>1, <2>2
<1>20. ASSUME NEW s \in Threads, NEW t \in Tasks, CallbackEnter(s, t) PROVE TypeOK'
  <2>1. callbacks' \in SUBSET Services
    BY <1>20 DEF CallbackEnter
  <2>2. tpc' \in [Threads -> {"idle", "submit_write", "stop_write", "callbacks",
                              "cancel", "graceful_write"}]
    BY <1>20 DEF CallbackEnter
  <2>3. running_cb' \in [Threads -> Tasks \cup {NoTask}]
    BY <1>20 DEF CallbackEnter
  <2> QED
    BY <1>20, <2>1, <2>2, <2>3
    DEF CallbackEnter, loopVars, waitVars, wakeVars, stopVars, threadVars
<1>21. ASSUME NEW s \in Threads, CallbackCancel(s) PROVE TypeOK'
  BY <1>21 DEF CallbackCancel, loopVars, waitVars, wakeVars, stopVars, threadVars
<1>22. ASSUME NEW s \in Threads, CallbacksEnd(s) \/ WriteAndReturn(s) PROVE TypeOK'
  <2>1. CASE CallbacksEnd(s)
    BY <2>1, SMTT(20) DEF CallbacksEnd, loopVars, waitVars, wakeVars, stopVars, threadVars
  <2>2. CASE WriteAndReturn(s)
    BY <2>2 DEF WriteAndReturn, WriteEventfd, loopVars, waitVars, wakeVars, stopVars,
                threadVars
  <2> QED BY <1>22, <2>1, <2>2
<1> QED
  BY <1>0, <1>1, <1>2, <1>3, <1>4, <1>5, <1>6, <1>8, <1>9, <1>10, <1>11, <1>12, <1>13,
     <1>14, <1>15, <1>16, <1>17, <1>18, <1>19, <1>20, <1>21, <1>22
  DEF Next, LoopStep, ThreadStep

\* A queued handle is that of a task.
LEMMA OccursType ==
  ASSUME NEW q \in Seq(Tasks), NEW u, Occurs(q, u) PROVE u \in Tasks
BY SMTT(20) DEF Occurs
-----------------------------------------------------------------------------
\* spawn() queues a coroutine that was nowhere before.
LEMMA SpawnInv ==
  ASSUME TypeOK, HandleInv, NEW t \in Tasks, Spawn(t) PROVE HandleInv'
<1> USE DEF HandleInv
<1>1. /\ \A u : Occurs(ready_queue', u) <=> Occurs(ready_queue, u) \/ u = t
      /\ Distinct(ready_queue) /\ ~Occurs(ready_queue, t) => Distinct(ready_queue')
  BY AppendFacts DEF Spawn, TypeOK
<1>2. /\ UNCHANGED <<pc, current, scratch, wait, registered, callbacks, cross_core_queue,
                     running_cb>>
      /\ frame[t] = "none" /\ frame' = [frame EXCEPT ![t] = "suspended"]
      /\ pc = "setup" \/ current # NoTask
      /\ frame \in [Tasks -> {"none", "suspended", "done", "destroyed"}]
      /\ registered \subseteq Tasks /\ callbacks \subseteq Tasks
      /\ current \in Tasks \cup {NoTask}
  BY ServicesAssumption DEF Spawn, TypeOK, waitVars, wakeVars, threadVars
<1>3. ~InSomeQueue(t) /\ t \notin registered /\ t \notin callbacks /\ t # current
  BY <1>2, NoTaskAssumption DEF QueuedIsIdle, WaitingIsSuspended, CallbackFrameAlive
<1>4. QueuesDistinct'
  BY <1>1, <1>2, <1>3 DEF QueuesDistinct, InSomeQueue
<1>5. QueuedIsIdle'
  BY <1>1, <1>2, <1>3 DEF QueuedIsIdle, InSomeQueue
<1>6. WaitingIsSuspended'
  BY <1>2, <1>3 DEF WaitingIsSuspended
<1>7. PendingIsRegistered' /\ BatchOver'
  BY <1>2 DEF PendingIsRegistered, BatchOver
<1>8. CallbackFrameAlive'
  BY <1>2, <1>3 DEF CallbackFrameAlive
<1> QED BY <1>4, <1>5, <1>6, <1>7, <1>8

\* The batch is swapped out, or run() returns.
LEMMA LoopTopInv ==
  ASSUME TypeOK, HandleInv, LoopTop PROVE HandleInv'
<1> USE DEF HandleInv
<1>1. /\ UNCHANGED <<current, registered, callbacks, frame, wait, cross_core_queue, running_cb>>
      /\ scratch = <<>> /\ current = NoTask
      /\ \/ UNCHANGED <<scratch, ready_queue>> /\ pc' = "returned_ok"
         \/ scratch' = ready_queue /\ ready_queue' = <<>> /\ pc' = "resume"
  BY DEF LoopTop, BatchOver, waitVars, wakeVars, threadVars
<1>2. QueuesDistinct' /\ QueuedIsIdle'
  BY <1>1, EmptyFacts DEF QueuesDistinct, QueuedIsIdle, InSomeQueue
<1> QED BY <1>1, <1>2
           DEF WaitingIsSuspended, PendingIsRegistered, BatchOver, CallbackFrameAlive

\* The head of the batch becomes the running coroutine.
LEMMA ResumeInv ==
  ASSUME TypeOK, HandleInv, Resume PROVE HandleInv'
<1> USE DEF HandleInv
<1>0. PICK h \in Tasks : h = Head(scratch)
  BY TailFacts DEF Resume, TypeOK
<1>1. /\ h \in Tasks
      /\ Occurs(scratch, h)
      /\ \A u : Occurs(scratch', u) => Occurs(scratch, u)
      /\ Distinct(scratch') /\ ~Occurs(scratch', h)
  BY <1>0, TailFacts DEF Resume, TypeOK, QueuesDistinct
<1>2. /\ InSomeQueue(h) /\ frame[h] = "suspended" /\ h \notin registered
  BY <1>1 DEF InSomeQueue, QueuedIsIdle
<1>3. /\ UNCHANGED <<pc, ready_queue, frame, wait, registered, cross_core_queue, running_cb>>
      /\ pc = "resume" /\ current = NoTask /\ current' = h /\ callbacks' = callbacks \ {h}
      /\ \A s \in Threads : running_cb[s] # h
  BY <1>0, <1>2 DEF Resume, wakeVars, threadVars
<1>4. QueuesDistinct'
  BY <1>1, <1>3 DEF QueuesDistinct
<1>5. QueuedIsIdle'
  <2>1. ~InSomeQueue(h)'
    BY <1>1, <1>3 DEF InSomeQueue, QueuesDistinct
  <2>2. \A u \in Tasks : InSomeQueue(u)' => InSomeQueue(u)
    BY <1>1, <1>3 DEF InSomeQueue
  <2> QED BY <1>3, <2>1, <2>2 DEF QueuedIsIdle
<1>6. WaitingIsSuspended'
  BY <1>2, <1>3 DEF WaitingIsSuspended
<1>7. PendingIsRegistered' /\ BatchOver'
  BY <1>3 DEF PendingIsRegistered, BatchOver
<1>8. CallbackFrameAlive'
  BY <1>3 DEF CallbackFrameAlive
<1> QED BY <1>4, <1>5, <1>6, <1>7, <1>8

\* The running coroutine returns.
LEMMA ReturnInv ==
  ASSUME TypeOK, HandleInv, Return PROVE HandleInv'
<1> USE DEF HandleInv
<1>1. /\ UNCHANGED <<pc, ready_queue, scratch, cross_core_queue, registered, callbacks,
                     running_cb>>
      /\ current \in Tasks /\ current' = NoTask
      /\ frame' = [frame EXCEPT ![current] = "done"]
      /\ wait' = [wait EXCEPT ![current] = "none"]
      /\ frame \in [Tasks -> {"none", "suspended", "done", "destroyed"}]
      /\ wait \in [Tasks -> {"none", "Pending", "Ready", "Cancelled"}]
      /\ registered \subseteq Tasks /\ callbacks \subseteq Tasks
  BY ServicesAssumption DEF Return, TypeOK, wakeVars, threadVars
<1>2. QueuesDistinct' /\ QueuedIsIdle'
  BY <1>1, NoTaskAssumption DEF QueuesDistinct, QueuedIsIdle, InSomeQueue
<1>3. WaitingIsSuspended'
  BY <1>1, NoTaskAssumption DEF WaitingIsSuspended
<1>4. PendingIsRegistered' /\ BatchOver'
  BY <1>1, NoTaskAssumption DEF PendingIsRegistered, BatchOver
<1>5. CallbackFrameAlive'
  BY <1>1, NoTaskAssumption DEF CallbackFrameAlive
<1> QED BY <1>2, <1>3, <1>4, <1>5

\* The running coroutine suspends: registered, or cancelled at once and queued.
LEMMA SuspendInv ==
  ASSUME TypeOK, HandleInv, Suspend PROVE HandleInv'
<1> USE DEF HandleInv
<1>0. PICK c \in Tasks : c = current
  BY DEF Suspend, TypeOK
<1>1. /\ UNCHANGED <<pc, scratch, cross_core_queue, frame, running_cb>>
      /\ current' = NoTask /\ c # NoTask
      /\ wait \in [Tasks -> {"none", "Pending", "Ready", "Cancelled"}]
      /\ registered \subseteq Tasks /\ callbacks \subseteq Tasks
      /\ frame[c] = "suspended" /\ ~InSomeQueue(c) /\ c \notin registered
      /\ c \notin callbacks /\ \A s \in Threads : running_cb[s] # c
  BY <1>0, ServicesAssumption
     DEF Suspend, TypeOK, wakeVars, threadVars, WaitingIsSuspended, QueuedIsIdle,
         CallbackFrameAlive
<1>2. /\ \A u : Occurs(Append(ready_queue, c), u) <=> Occurs(ready_queue, u) \/ u = c
      /\ Distinct(ready_queue) /\ ~Occurs(ready_queue, c)
           => Distinct(Append(ready_queue, c))
  BY AppendFacts DEF TypeOK
<1>3. CASE /\ wait' = [wait EXCEPT ![c] = "Cancelled"]
           /\ ready_queue' = Append(ready_queue, c)
           /\ UNCHANGED <<registered, callbacks>>
  <2>1. QueuesDistinct'
    BY <1>1, <1>2, <1>3 DEF QueuesDistinct, InSomeQueue
  <2>2. QueuedIsIdle'
    BY <1>1, <1>2, <1>3, NoTaskAssumption DEF QueuedIsIdle, InSomeQueue
  <2>3. WaitingIsSuspended' /\ PendingIsRegistered' /\ CallbackFrameAlive'
    BY <1>1, <1>3, NoTaskAssumption
       DEF WaitingIsSuspended, PendingIsRegistered, CallbackFrameAlive
  <2> QED BY <1>0, <1>1, <2>1, <2>2, <2>3 DEF BatchOver
<1>4. CASE /\ wait' = [wait EXCEPT ![c] = "Pending"]
           /\ registered' = registered \cup {c}
           /\ callbacks' = callbacks \cup ({c} \cap Services)
           /\ UNCHANGED ready_queue
  <2>1. QueuesDistinct' /\ QueuedIsIdle'
    BY <1>1, <1>4, NoTaskAssumption DEF QueuesDistinct, QueuedIsIdle, InSomeQueue
  <2>2. WaitingIsSuspended' /\ PendingIsRegistered'
    BY <1>1, <1>4, NoTaskAssumption DEF WaitingIsSuspended, PendingIsRegistered
  <2>3. CallbackFrameAlive'
    BY <1>1, <1>4, NoTaskAssumption DEF CallbackFrameAlive
  <2> QED BY <1>0, <1>1, <2>1, <2>2, <2>3 DEF BatchOver
<1> QED BY <1>0, <1>3, <1>4 DEF Suspend

\* Only coroutines that are done are destroyed.
LEMMA CleanupInv ==
  ASSUME TypeOK, HandleInv, Cleanup PROVE HandleInv'
<1> USE DEF HandleInv
<1>1. /\ UNCHANGED <<current, ready_queue, scratch, cross_core_queue, wait, registered,
                     callbacks, running_cb>>
      /\ current = NoTask /\ scratch = <<>>
      /\ \A t \in Tasks : frame[t] = "suspended" => frame'[t] = "suspended"
      /\ registered \subseteq Tasks /\ callbacks \subseteq Tasks
  BY ServicesAssumption DEF Cleanup, TypeOK, waitVars, wakeVars, threadVars
<1>2. QueuesDistinct' /\ QueuedIsIdle'
  BY <1>1 DEF QueuesDistinct, QueuedIsIdle, InSomeQueue
<1>3. WaitingIsSuspended' /\ PendingIsRegistered' /\ BatchOver'
  BY <1>1 DEF WaitingIsSuspended, PendingIsRegistered, BatchOver
<1>4. CallbackFrameAlive'
  BY <1>1 DEF CallbackFrameAlive
<1> QED BY <1>2, <1>3, <1>4

\* A step that moves no handle, starts no batch and touches no wait.
LEMMA QuietInv ==
  ASSUME HandleInv,
         UNCHANGED <<current, ready_queue, scratch, cross_core_queue, frame, wait,
                     registered, callbacks, running_cb>>,
         pc = "resume" => pc' = "resume"
  PROVE  HandleInv'
BY DEF HandleInv, QueuesDistinct, QueuedIsIdle, InSomeQueue, WaitingIsSuspended,
       PendingIsRegistered, BatchOver, CallbackFrameAlive

\* drain_cross_core() only moves handles between two queues.
LEMMA DrainInv ==
  ASSUME TypeOK, HandleInv, pc # "resume", DrainCrossCore,
         UNCHANGED <<current, scratch, frame, wait, registered, callbacks, running_cb>>
  PROVE  HandleInv'
<1> USE DEF HandleInv
<1>1. /\ \A u : Occurs(ready_queue', u) <=> Occurs(ready_queue, u) \/ Occurs(cross_core_queue, u)
      /\ Distinct(ready_queue') <=> /\ Distinct(ready_queue) /\ Distinct(cross_core_queue)
                                    /\ Apart(ready_queue, cross_core_queue)
  BY ConcatFacts DEF DrainCrossCore, TypeOK
<1>2. Apart(ready_queue, cross_core_queue)
  BY ApartFacts, OccursType DEF QueuesDistinct, TypeOK
<1>3. cross_core_queue' = <<>> /\ Distinct(cross_core_queue')
      /\ \A u : ~Occurs(cross_core_queue', u)
  BY EmptyFacts DEF DrainCrossCore
<1>4. QueuesDistinct'
  BY <1>1, <1>2, <1>3 DEF QueuesDistinct
<1>5. QueuedIsIdle'
  BY <1>1, <1>3 DEF QueuedIsIdle, InSomeQueue
<1>6. scratch = <<>> /\ current = NoTask
  BY DEF BatchOver
<1> QED BY <1>4, <1>5, <1>6
           DEF WaitingIsSuspended, PendingIsRegistered, BatchOver, CallbackFrameAlive

\* A registered wait is completed: its handle was in no queue.
LEMMA FireInv ==
  ASSUME TypeOK, HandleInv, NEW t \in Tasks, Fire(t) PROVE HandleInv'
<1> USE DEF HandleInv
<1>1. /\ UNCHANGED <<pc, current, scratch, cross_core_queue, frame, callbacks, running_cb>>
      /\ t \in registered /\ registered' = registered \ {t}
      /\ wait \in [Tasks -> {"none", "Pending", "Ready", "Cancelled"}]
      /\ registered \subseteq Tasks /\ callbacks \subseteq Tasks
      /\ frame[t] = "suspended" /\ ~InSomeQueue(t) /\ t # current
  BY ServicesAssumption
     DEF Fire, TypeOK, wakeVars, threadVars, WaitingIsSuspended, QueuedIsIdle
<1>2. /\ \A u : Occurs(Append(ready_queue, t), u) <=> Occurs(ready_queue, u) \/ u = t
      /\ Distinct(ready_queue) /\ ~Occurs(ready_queue, t)
           => Distinct(Append(ready_queue, t))
  BY AppendFacts DEF TypeOK
<1>3. \/ wait' = [wait EXCEPT ![t] = "Ready"] /\ ready_queue' = Append(ready_queue, t)
      \/ wait[t] # "Pending" /\ UNCHANGED <<wait, ready_queue>>
  BY DEF Fire
<1>4. QueuesDistinct'
  BY <1>1, <1>2, <1>3 DEF QueuesDistinct, InSomeQueue
<1>5. QueuedIsIdle'
  BY <1>1, <1>2, <1>3 DEF QueuedIsIdle, InSomeQueue
<1>6. WaitingIsSuspended' /\ BatchOver' /\ CallbackFrameAlive'
  BY <1>1 DEF WaitingIsSuspended, BatchOver, CallbackFrameAlive
<1>7. PendingIsRegistered'
  BY <1>1, <1>3 DEF PendingIsRegistered
<1> QED BY <1>4, <1>5, <1>6, <1>7

\* The owner cancels every pending wait that has a callback, and queues it.
LEMMA OwnerGracefulInv ==
  ASSUME TypeOK, HandleInv, OwnerGraceful PROVE HandleInv'
<1> USE DEF HandleInv
<1>1. /\ UNCHANGED <<pc, current, scratch, cross_core_queue, frame, running_cb>>
      /\ wait \in [Tasks -> {"none", "Pending", "Ready", "Cancelled"}]
      /\ registered \subseteq Tasks /\ callbacks \subseteq Tasks
  BY ServicesAssumption DEF OwnerGraceful, TypeOK, threadVars
<1>2. CASE UNCHANGED <<wait, registered, callbacks, ready_queue>>
  BY <1>1, <1>2, QuietInv
<1>3. CASE ~graceful
  <2>0. PICK S \in SUBSET Tasks : S = {t \in callbacks : wait[t] = "Pending"}
    BY <1>1
  <2>1. PICK order \in Orders(S) : ready_queue' = ready_queue \o order
    BY <1>3, <2>0 DEF OwnerGraceful
  <2>2. order \in Seq(Tasks) /\ Distinct(order) /\ \A u : Occurs(order, u) <=> u \in S
    BY OrdersFacts
  <2>3. /\ wait' = [t \in Tasks |-> IF t \in S THEN "Cancelled" ELSE wait[t]]
        /\ registered' = registered \ S /\ callbacks' = {}
    BY <1>3, <2>0 DEF OwnerGraceful
  <2>4. \A t \in S : t \in Tasks /\ t \in registered /\ ~InSomeQueue(t) /\ t # current
                     /\ frame[t] = "suspended"
    BY <1>1, <2>0 DEF PendingIsRegistered, QueuedIsIdle, WaitingIsSuspended
  <2>5. /\ \A u : Occurs(ready_queue', u) <=> Occurs(ready_queue, u) \/ u \in S
        /\ Apart(ready_queue, order) => Distinct(ready_queue')
    BY <2>1, <2>2, ConcatFacts DEF TypeOK, QueuesDistinct
  <2>6. Apart(ready_queue, order)
    BY <2>2, <2>4, ApartFacts DEF TypeOK, InSomeQueue
  <2>7. QueuesDistinct'
    BY <1>1, <2>4, <2>5, <2>6 DEF QueuesDistinct, InSomeQueue
  <2>8. QueuedIsIdle'
    BY <1>1, <2>3, <2>4, <2>5 DEF QueuedIsIdle, InSomeQueue
  <2>9. WaitingIsSuspended' /\ PendingIsRegistered' /\ BatchOver'
    BY <1>1, <2>3 DEF WaitingIsSuspended, PendingIsRegistered, BatchOver
  <2>10. CallbackFrameAlive'
    BY <1>1, <2>3 DEF CallbackFrameAlive
  <2> QED BY <2>7, <2>8, <2>9, <2>10
<1> QED BY <1>2, <1>3 DEF OwnerGraceful

\* submit() queues a coroutine that was nowhere before.
LEMMA SubmitInv ==
  ASSUME TypeOK, HandleInv, NEW s \in Threads, NEW t \in Tasks, SubmitPush(s, t)
  PROVE  HandleInv'
<1> USE DEF HandleInv
<1>1. /\ \A u : Occurs(cross_core_queue', u) <=> Occurs(cross_core_queue, u) \/ u = t
      /\ Distinct(cross_core_queue) /\ ~Occurs(cross_core_queue, t)
           => Distinct(cross_core_queue')
  BY AppendFacts DEF SubmitPush, TypeOK
<1>2. /\ UNCHANGED <<pc, current, scratch, wait, registered, callbacks, ready_queue,
                     running_cb>>
      /\ frame[t] = "none" /\ frame' = [frame EXCEPT ![t] = "suspended"]
      /\ frame \in [Tasks -> {"none", "suspended", "done", "destroyed"}]
      /\ registered \subseteq Tasks /\ callbacks \subseteq Tasks
      /\ current \in Tasks \cup {NoTask}
  BY ServicesAssumption DEF SubmitPush, TypeOK, waitVars
<1>3. ~InSomeQueue(t) /\ t \notin registered /\ t \notin callbacks /\ t # current
  BY <1>2, NoTaskAssumption DEF QueuedIsIdle, WaitingIsSuspended, CallbackFrameAlive
<1>4. QueuesDistinct'
  BY <1>1, <1>2, <1>3 DEF QueuesDistinct, InSomeQueue
<1>5. QueuedIsIdle'
  BY <1>1, <1>2, <1>3 DEF QueuedIsIdle, InSomeQueue
<1>6. WaitingIsSuspended'
  BY <1>2, <1>3 DEF WaitingIsSuspended
<1>7. PendingIsRegistered' /\ BatchOver'
  BY <1>2 DEF PendingIsRegistered, BatchOver
<1>8. CallbackFrameAlive'
  BY <1>2, <1>3 DEF CallbackFrameAlive
<1> QED BY <1>4, <1>5, <1>6, <1>7, <1>8

\* A foreign thread enters a callback of a suspended coroutine.
LEMMA CallbackEnterInv ==
  ASSUME TypeOK, HandleInv, NEW s \in Threads, NEW t \in Tasks, CallbackEnter(s, t)
  PROVE  HandleInv'
<1> USE DEF HandleInv
<1>1. /\ UNCHANGED <<pc, current, ready_queue, scratch, cross_core_queue, frame, wait,
                     registered>>
      /\ t \in callbacks /\ callbacks' = callbacks \ {t}
      /\ \A r \in Threads : running_cb'[r] = running_cb[r] \/ running_cb'[r] = t
  BY DEF CallbackEnter, TypeOK, loopVars, wakeVars, threadVars
<1>2. QueuesDistinct' /\ QueuedIsIdle' /\ WaitingIsSuspended'
  BY <1>1 DEF QueuesDistinct, QueuedIsIdle, InSomeQueue, WaitingIsSuspended
<1>3. PendingIsRegistered' /\ BatchOver'
  BY <1>1 DEF PendingIsRegistered, BatchOver
<1>4. CallbackFrameAlive'
  BY <1>1 DEF CallbackFrameAlive
<1> QED BY <1>2, <1>3, <1>4

\* It ends the callback: the wait is cancelled and no longer registered.
LEMMA CallbackCancelInv ==
  ASSUME TypeOK, HandleInv, NEW s \in Threads, CallbackCancel(s) PROVE HandleInv'
<1> USE DEF HandleInv
<1>1. PICK t : t = running_cb[s]
  OBVIOUS
<1>2. /\ UNCHANGED <<pc, current, ready_queue, scratch, cross_core_queue, frame, callbacks>>
      /\ wait' = [wait EXCEPT ![t] = "Cancelled"]
      /\ wait \in [Tasks -> {"none", "Pending", "Ready", "Cancelled"}]
      /\ registered' = registered \ {t}
      /\ registered \subseteq Tasks /\ callbacks \subseteq Tasks
      /\ \A r \in Threads : running_cb'[r] = running_cb[r] \/ running_cb'[r] = NoTask
  BY <1>1, ServicesAssumption DEF CallbackCancel, TypeOK, loopVars, wakeVars, threadVars
<1>3. QueuesDistinct' /\ QueuedIsIdle' /\ WaitingIsSuspended'
  BY <1>2 DEF QueuesDistinct, QueuedIsIdle, InSomeQueue, WaitingIsSuspended
<1>4. PendingIsRegistered' /\ BatchOver'
  BY <1>2 DEF PendingIsRegistered, BatchOver
<1>5. CallbackFrameAlive'
  BY <1>2, NoTaskAssumption DEF CallbackFrameAlive
<1> QED BY <1>3, <1>4, <1>5
-----------------------------------------------------------------------------
\* Each step keeps the handles where they may be.
LEMMA HandleStep == TypeOK /\ HandleInv /\ [Next]_vars => HandleInv'
<1> SUFFICES ASSUME TypeOK, HandleInv, [Next]_vars PROVE HandleInv'
  OBVIOUS
<1>1. CASE UNCHANGED vars
  BY <1>1, QuietInv DEF vars, loopVars, waitVars, wakeVars, threadVars
<1>2. CASE Start \/ Leave \/ PollReturn \/ PollError \/ FireEnd \/ OwnerStop
  BY <1>2, QuietInv DEF Start, Leave, PollReturn, PollError, FireEnd, OwnerStop,
                        loopVars, waitVars, wakeVars, threadVars
<1>3. CASE ExitCheck
  <2>1. CASE owned_tasks = {}
    BY <1>3, <2>1, DrainInv DEF ExitCheck, waitVars, threadVars
  <2>2. CASE owned_tasks # {}
    BY <1>3, <2>2, QuietInv DEF ExitCheck, waitVars, wakeVars, threadVars
  <2> QED BY <2>1, <2>2
<1>4. CASE Drain
  BY <1>4, DrainInv DEF Drain, waitVars, threadVars
<1>5. ASSUME NEW s \in Threads,
             StopFlag(s) \/ GracefulFlag(s) \/ CallbacksEnd(s) \/ WriteAndReturn(s)
      PROVE  HandleInv'
  BY <1>5, QuietInv DEF StopFlag, GracefulFlag, CallbacksEnd, WriteAndReturn,
                        loopVars, waitVars, wakeVars
<1> QED
  BY <1>1, <1>2, <1>3, <1>4, <1>5, LoopTopInv, ResumeInv, ReturnInv, SuspendInv,
     CleanupInv, SpawnInv, FireInv, OwnerGracefulInv, SubmitInv, CallbackEnterInv,
     CallbackCancelInv
  DEF Next, LoopStep, ThreadStep

\* Each step keeps a wake-up on its way to the cross-core queue.
LEMMA WakeupStep == TypeOK /\ NoLostSubmitWakeup /\ [Next]_vars => NoLostSubmitWakeup'
<1> SUFFICES ASSUME TypeOK, NoLostSubmitWakeup, [Next]_vars PROVE NoLostSubmitWakeup'
  OBVIOUS
<1> USE DEF NoLostSubmitWakeup
<1>1. CASE UNCHANGED vars
  BY <1>1 DEF vars, loopVars, wakeVars, threadVars
<1>2. CASE Start \/ LoopTop \/ Resume \/ Return \/ Suspend \/ Cleanup \/ Leave \/ PollReturn
           \/ PollError \/ FireEnd \/ (\E t \in Tasks : Spawn(t) \/ Fire(t))
  BY <1>2 DEF Start, LoopTop, Resume, Return, Suspend, Cleanup, Leave, PollReturn,
              PollError, FireEnd, Spawn, Fire, wakeVars, threadVars
<1>3. CASE ExitCheck \/ Drain
  BY <1>3 DEF ExitCheck, Drain, DrainCrossCore, wakeVars, threadVars
<1>4. CASE OwnerStop \/ OwnerGraceful
  BY <1>4 DEF OwnerStop, OwnerGraceful, WriteEventfd
<1>5. ASSUME NEW s \in Threads, NEW t \in Tasks, SubmitPush(s, t)
      PROVE  NoLostSubmitWakeup'
  BY <1>5 DEF SubmitPush, TypeOK
<1>6. ASSUME NEW s \in Threads, WriteAndReturn(s) PROVE NoLostSubmitWakeup'
  BY <1>6 DEF WriteAndReturn, WriteEventfd
<1>7. ASSUME NEW s \in Threads,
             \/ StopFlag(s) \/ GracefulFlag(s) \/ CallbackCancel(s) \/ CallbacksEnd(s)
             \/ \E t \in Tasks : CallbackEnter(s, t)
      PROVE  NoLostSubmitWakeup'
  <2>1. UNCHANGED <<pc, cross_core_queue, eventfd, wakeup_edge>>
    BY <1>7 DEF StopFlag, GracefulFlag, CallbackCancel, CallbacksEnd, CallbackEnter,
                loopVars, wakeVars
  <2>2. \A r \in Threads : tpc[r] = "submit_write" => tpc'[r] = "submit_write"
    BY <1>7 DEF StopFlag, GracefulFlag, CallbackCancel, CallbacksEnd, CallbackEnter,
                threadVars, TypeOK
  <2> QED BY <2>1, <2>2
<1> QED
  BY <1>1, <1>2, <1>3, <1>4, <1>5, <1>6, <1>7 DEF Next, LoopStep, ThreadStep

\* The initial state satisfies the invariant.
LEMMA InitInv == Init => IInv
<1> SUFFICES ASSUME Init PROVE IInv
  OBVIOUS
<1>1. TypeOK
  <2>1. /\ ready_queue \in Seq(Tasks) /\ scratch \in Seq(Tasks)
        /\ cross_core_queue \in Seq(Tasks)
    BY EmptyFacts DEF Init
  <2>2. stop_requested \in BOOLEAN /\ graceful \in BOOLEAN /\ eventfd \in BOOLEAN
        /\ wakeup_edge \in BOOLEAN
    BY DEF Init
  <2>3. suspends \in [Tasks -> 0..MaxSuspends]
    BY MaxSuspendsAssumption, SMTT(20) DEF Init
  <2> QED BY <2>1, <2>2, <2>3 DEF Init, TypeOK
<1>2. QueuesDistinct /\ QueuedIsIdle
  BY EmptyFacts DEF Init, QueuesDistinct, QueuedIsIdle, InSomeQueue
<1>3. WaitingIsSuspended /\ PendingIsRegistered /\ BatchOver /\ NoLostSubmitWakeup
  BY DEF Init, WaitingIsSuspended, PendingIsRegistered, BatchOver, NoLostSubmitWakeup
<1>4. CallbackFrameAlive
  BY NoTaskAssumption DEF Init, CallbackFrameAlive
<1> QED BY <1>1, <1>2, <1>3, <1>4 DEF IInv, HandleInv

\* IInv is inductive, whoever calls what and in whatever order.
THEOREM Invariance == Spec => []IInv
<1>1. IInv /\ [Next]_vars => IInv'
  BY TypeInv, HandleStep, WakeupStep DEF IInv
<1> QED BY InitInv, <1>1, PTL DEF Spec
-----------------------------------------------------------------------------
\* Every variable of the loop keeps its type.
THEOREM TypeCorrect == Spec => []TypeOK
<1>1. IInv => TypeOK
  BY DEF IInv
<1> QED BY <1>1, Invariance, PTL

\* The concatenation Queued holds the handles of the three queues, once each.
LEMMA QueuedFacts ==
  ASSUME TypeOK, QueuesDistinct
  PROVE  /\ \A i, j \in 1..Len(Queued) : Queued[i] = Queued[j] => i = j
         /\ \A t \in Tasks : InQueue(t) <=> InSomeQueue(t)
<1>1. /\ ready_queue \in Seq(Tasks) /\ scratch \in Seq(Tasks)
      /\ cross_core_queue \in Seq(Tasks)
  BY DEF TypeOK
<1> DEFINE rs == ready_queue \o scratch
<1>2. rs \in Seq(Tasks) /\ Distinct(rs)
      /\ \A u : Occurs(rs, u) <=> Occurs(ready_queue, u) \/ Occurs(scratch, u)
  BY <1>1, ConcatFacts, ApartFacts, OccursType DEF QueuesDistinct
<1> HIDE DEF rs
<1>3. Distinct(rs \o cross_core_queue)
      /\ \A u : Occurs(rs \o cross_core_queue, u) <=> InSomeQueue(u)
  BY <1>1, <1>2, ConcatFacts, ApartFacts, OccursType DEF QueuesDistinct, InSomeQueue
<1>4. Queued = rs \o cross_core_queue
  BY DEF Queued, rs
<1> QED BY <1>3, <1>4 DEF Distinct, Occurs, InQueue

(***************************************************************************)
(* run() never resumes a coroutine twice for one wait, nor a destroyed     *)
(* one: for any number of tasks, services and threads, and whichever       *)
(* thread calls request_graceful_stop().                                   *)
(***************************************************************************)
THEOREM HandlesTheorem == Spec => []HandlesResumableOnce
<1>1. IInv => HandlesResumableOnce
  BY QueuedFacts DEF IInv, HandleInv, HandlesResumableOnce, QueuedIsIdle
<1> QED BY <1>1, Invariance, PTL

\* No submitted task waits in cross_core_queue_ without a wake-up on its way.
THEOREM WakeupTheorem == Spec => []NoLostSubmitWakeup
<1>1. IInv => NoLostSubmitWakeup
  BY DEF IInv
<1> QED BY <1>1, Invariance, PTL

\* No stop callback outlives the suspension of the coroutine whose awaiter it captures.
THEOREM CallbackTheorem == Spec => []CallbackFrameAlive
<1>1. IInv => CallbackFrameAlive
  BY DEF IInv, HandleInv
<1> QED BY <1>1, Invariance, PTL
-----------------------------------------------------------------------------
(***************************************************************************)
(* A registered wait is pending, and the only suspended coroutines nobody  *)
(* will queue are those whose wait a foreign thread has cancelled.         *)
(***************************************************************************)
RegisteredIsPending == \A t \in registered : wait[t] = "Pending"

NoneLost ==
  \A t \in Tasks : frame[t] = "suspended" =>
    t = current \/ InSomeQueue(t) \/ t \in registered \/ t \in abroad

OrphanInv == RegisteredIsPending /\ NoneLost

\* Steps that leave every wait and registration alone.
LEMMA SameWaits ==
  ASSUME RegisteredIsPending, UNCHANGED <<wait, registered>> PROVE RegisteredIsPending'
BY DEF RegisteredIsPending

\* Steps that move no handle and change neither frame, runner nor registration.
LEMMA SamePlaces ==
  ASSUME NoneLost,
         UNCHANGED <<current, ready_queue, scratch, cross_core_queue, frame, registered,
                     abroad>>
  PROVE  NoneLost'
BY DEF NoneLost, InSomeQueue

\* Each step keeps every suspended coroutine reachable.
LEMMA OrphanStep ==
  ASSUME TypeOK, HandleInv, OrphanInv, [Next]_vars
  PROVE  OrphanInv'
<1> USE DEF OrphanInv, threadVars
<1>0. /\ registered \subseteq Tasks /\ callbacks \subseteq Tasks
      /\ frame \in [Tasks -> {"none", "suspended", "done", "destroyed"}]
      /\ wait \in [Tasks -> {"none", "Pending", "Ready", "Cancelled"}]
      /\ current \in Tasks \cup {NoTask}
  BY ServicesAssumption DEF TypeOK
<1>1. CASE \/ UNCHANGED vars \/ Start \/ Leave \/ PollReturn \/ PollError \/ FireEnd
           \/ OwnerStop
  BY <1>1, SameWaits, SamePlaces
     DEF vars, Start, Leave, PollReturn, PollError, FireEnd, OwnerStop, loopVars, waitVars,
         wakeVars
<1>2. CASE LoopTop
  <2>1. RegisteredIsPending'
    BY <1>2, SameWaits DEF LoopTop, waitVars
  <2>2. scratch = <<>>
    BY <1>2 DEF LoopTop, HandleInv, BatchOver
  <2> QED BY <1>2, <2>1, <2>2, EmptyFacts
             DEF LoopTop, waitVars, wakeVars, NoneLost, InSomeQueue
<1>3. CASE Resume
  <2>1. RegisteredIsPending'
    BY <1>3, SameWaits DEF Resume
  <2>2. /\ Head(scratch) \in Tasks /\ Occurs(scratch, Head(scratch))
        /\ \A u : Occurs(scratch, u) => u = Head(scratch) \/ Occurs(scratch', u)
    BY <1>3, TailFacts DEF Resume, TypeOK
  <2>3. frame[Head(scratch)] = "suspended"
    BY <2>2 DEF HandleInv, QueuedIsIdle, InSomeQueue
  <2>4. /\ current = NoTask /\ current' = Head(scratch)
        /\ UNCHANGED <<ready_queue, cross_core_queue, frame, registered, abroad>>
    BY <1>3, <2>3 DEF Resume, wakeVars
  <2> QED BY <2>1, <2>2, <2>4, NoTaskAssumption DEF NoneLost, InSomeQueue
<1>4. CASE Return
  BY <1>0, <1>4 DEF Return, wakeVars, RegisteredIsPending, NoneLost, InSomeQueue,
                    HandleInv, WaitingIsSuspended
<1>5. CASE Suspend
  <2>1. current \in Tasks /\ current \notin registered
    BY <1>0, <1>5 DEF Suspend, HandleInv, WaitingIsSuspended
  <2>2. \A u : Occurs(Append(ready_queue, current), u)
                 <=> Occurs(ready_queue, u) \/ u = current
    BY <2>1, AppendFacts DEF TypeOK
  <2>3. UNCHANGED <<frame, scratch, cross_core_queue, abroad>>
    BY <1>5 DEF Suspend, wakeVars
  <2>4. CASE /\ wait' = [wait EXCEPT ![current] = "Cancelled"]
             /\ ready_queue' = Append(ready_queue, current)
             /\ UNCHANGED registered
    BY <1>0, <2>1, <2>2, <2>3, <2>4 DEF RegisteredIsPending, NoneLost, InSomeQueue
  <2>5. CASE /\ wait' = [wait EXCEPT ![current] = "Pending"]
             /\ registered' = registered \cup {current}
             /\ UNCHANGED ready_queue
    BY <1>0, <2>1, <2>3, <2>5 DEF RegisteredIsPending, NoneLost, InSomeQueue
  <2> QED BY <1>5, <2>4, <2>5 DEF Suspend
<1>6. CASE Cleanup
  BY <1>0, <1>6 DEF Cleanup, waitVars, wakeVars, RegisteredIsPending, NoneLost, InSomeQueue
<1>7. ASSUME DrainCrossCore, UNCHANGED <<current, scratch, frame, wait, registered, abroad>>
      PROVE  RegisteredIsPending' /\ NoneLost'
  <2>1. \A u : Occurs(ready_queue', u)
                 <=> Occurs(ready_queue, u) \/ Occurs(cross_core_queue, u)
    BY <1>7, ConcatFacts DEF DrainCrossCore, TypeOK
  <2> QED BY <1>7, <2>1, SameWaits DEF NoneLost, InSomeQueue
<1>8. CASE ExitCheck \/ Drain
  <2>1. CASE DrainCrossCore
    BY <1>7, <1>8, <2>1 DEF ExitCheck, Drain, waitVars
  <2>2. CASE UNCHANGED <<ready_queue, owned_tasks, wakeVars>>
    BY <1>8, <2>2, SameWaits, SamePlaces DEF ExitCheck, Drain, waitVars, wakeVars
  <2> QED BY <1>8, <2>1, <2>2 DEF ExitCheck, Drain
<1>9. ASSUME NEW t \in Tasks, Spawn(t) PROVE RegisteredIsPending' /\ NoneLost'
  <2>1. \A u : Occurs(ready_queue', u) <=> Occurs(ready_queue, u) \/ u = t
    BY <1>9, AppendFacts DEF Spawn, TypeOK
  <2> QED BY <1>0, <1>9, <2>1, SameWaits DEF Spawn, waitVars, wakeVars, NoneLost, InSomeQueue
<1>10. ASSUME NEW t \in Tasks, Fire(t) PROVE RegisteredIsPending' /\ NoneLost'
  <2>1. wait[t] = "Pending"
    BY <1>10 DEF Fire, RegisteredIsPending
  <2>2. \A u : Occurs(ready_queue', u) <=> Occurs(ready_queue, u) \/ u = t
    <3>1. ready_queue' = Append(ready_queue, t) /\ ready_queue \in Seq(Tasks)
      BY <1>10, <2>1 DEF Fire, TypeOK
    <3> QED BY <3>1, AppendFacts
  <2> QED BY <1>0, <1>10, <2>1, <2>2
             DEF Fire, wakeVars, RegisteredIsPending, NoneLost, InSomeQueue
<1>11. CASE OwnerGraceful
  <2>1. UNCHANGED <<current, scratch, frame, cross_core_queue, abroad>>
    BY <1>11 DEF OwnerGraceful
  <2>2. CASE UNCHANGED <<wait, registered, callbacks, ready_queue>>
    BY <2>1, <2>2, SameWaits, SamePlaces
  <2>3. CASE ~graceful
    <3>0. PICK S \in SUBSET Tasks : S = {t \in callbacks : wait[t] = "Pending"}
      BY <1>0
    <3>1. PICK order \in Orders(S) : ready_queue' = ready_queue \o order
      BY <1>11, <2>3, <3>0 DEF OwnerGraceful
    <3>2. order \in Seq(Tasks) /\ \A u : Occurs(order, u) <=> u \in S
      BY OrdersFacts
    <3>3. \A u : Occurs(ready_queue', u) <=> Occurs(ready_queue, u) \/ u \in S
      BY <3>1, <3>2, ConcatFacts DEF TypeOK
    <3>4. /\ wait' = [t \in Tasks |-> IF t \in S THEN "Cancelled" ELSE wait[t]]
          /\ registered' = registered \ S
      BY <1>11, <2>3, <3>0 DEF OwnerGraceful
    <3> QED BY <1>0, <2>1, <3>3, <3>4 DEF RegisteredIsPending, NoneLost, InSomeQueue
  <2> QED BY <1>11, <2>2, <2>3 DEF OwnerGraceful
<1>12. ASSUME NEW s \in Threads, NEW t \in Tasks, SubmitPush(s, t)
       PROVE  RegisteredIsPending' /\ NoneLost'
  <2>1. \A u : Occurs(cross_core_queue', u) <=> Occurs(cross_core_queue, u) \/ u = t
    BY <1>12, AppendFacts DEF SubmitPush, TypeOK
  <2> QED BY <1>0, <1>12, <2>1, SameWaits DEF SubmitPush, waitVars, NoneLost, InSomeQueue
<1>13. ASSUME NEW s \in Threads,
              StopFlag(s) \/ GracefulFlag(s) \/ CallbacksEnd(s) \/ WriteAndReturn(s)
       PROVE  RegisteredIsPending' /\ NoneLost'
  BY <1>13, SameWaits, SamePlaces
     DEF StopFlag, GracefulFlag, CallbacksEnd, WriteAndReturn, loopVars, waitVars, wakeVars
<1>14. ASSUME NEW s \in Threads, NEW t \in Tasks, CallbackEnter(s, t)
       PROVE  RegisteredIsPending' /\ NoneLost'
  BY <1>14, SameWaits, SamePlaces DEF CallbackEnter, loopVars, wakeVars
<1>15. ASSUME NEW s \in Threads, CallbackCancel(s) PROVE RegisteredIsPending' /\ NoneLost'
  BY <1>0, <1>15
     DEF CallbackCancel, loopVars, wakeVars, RegisteredIsPending, NoneLost, InSomeQueue
<1> QED
  BY <1>1, <1>2, <1>3, <1>4, <1>5, <1>6, <1>8, <1>9, <1>10, <1>11, <1>12, <1>13,
     <1>14, <1>15
  DEF Next, LoopStep, ThreadStep

(***************************************************************************)
(* Every suspended coroutine is queued or registered, unless a foreign     *)
(* thread's request_graceful_stop() cancelled its wait: no other step of   *)
(* the loop or of a thread forgets one.                                    *)
(***************************************************************************)
THEOREM OrphanTheorem == Spec => []NoOrphanedTask
<1>1. Init => OrphanInv
  BY DEF Init, OrphanInv, RegisteredIsPending, NoneLost
<1>2. IInv /\ OrphanInv /\ [Next]_vars => OrphanInv'
  BY OrphanStep DEF IInv
<1>3. IInv /\ OrphanInv => NoOrphanedTask
  BY QueuedFacts DEF IInv, HandleInv, OrphanInv, NoneLost, NoOrphanedTask
<1> QED BY <1>1, <1>2, <1>3, Invariance, PTL DEF Spec
=============================================================================
