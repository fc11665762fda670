----------------------------- MODULE EventLoop -----------------------------
(***************************************************************************)
(* async::EventLoop (async/event_loop.hpp) on its owner thread, and the    *)
(* threads that talk to it: submit(), request_stop(),                      *)
(* request_graceful_stop().                                                *)
(*                                                                         *)
(* A task is a root coroutine.  What it does when it is resumed is left    *)
(* open: it calls spawn(), request_stop() or request_graceful_stop(), and  *)
(* ends in a suspension or in its return.  A suspended task waits on one   *)
(* awaiter; the reactor and the timer wheel are the choice of which waits  *)
(* a pass of the loop completes.  The awaiters with a WaitState and a stop *)
(* callback are modelled after AcceptAwaiter, the one a service loop       *)
(* suspends in.                                                            *)
(*                                                                         *)
(* The eventfd counter is kept as zero or not zero.  wakeup_edge is the    *)
(* membership of the eventfd in epoll's ready list: it is registered with  *)
(* EPOLLET, so a write enters it and one epoll_wait takes it out.          *)
(***************************************************************************)
EXTENDS Naturals, Sequences, FiniteSets

CONSTANTS
  Tasks,            \* root coroutines
  Services,         \* those started with spawn_service()
  Threads,          \* threads other than the owner
  GracefulCallers,  \* who calls request_graceful_stop(): "owner", "foreign" or both
  MaxSuspends       \* bound of the model: how often a task that is no service suspends

ASSUME TasksAssumption == IsFiniteSet(Tasks)
ASSUME ServicesAssumption == Services \subseteq Tasks
ASSUME GracefulCallersAssumption == GracefulCallers \subseteq {"owner", "foreign"}
ASSUME MaxSuspendsAssumption == MaxSuspends \in Nat

VARIABLES
  pc,                \* the owner's place in run()
  current,           \* the task being resumed, or NoTask
  ready_queue,       \* ready_queue_
  scratch,           \* the part of resume_scratch_ still to be visited
  owned_tasks,       \* owned_tasks_
  frame,             \* "none", "suspended", "done" or "destroyed", per task
  wait,              \* the WaitState of the awaiter a task is suspended in, or "none"
  registered,        \* tasks whose wait is registered with the reactor or the wheel
  callbacks,         \* tasks with a stop_callback in graceful_source_'s list
  stop_requested,    \* stop_source_
  graceful,          \* graceful_source_
  cross_core_queue,  \* cross_core_queue_
  eventfd,           \* cross_core_fd_: is its counter above zero?
  wakeup_edge,       \* is cross_core_fd_ in epoll's ready list?
  tpc,               \* the place of each foreign thread in its call
  running_cb,        \* the task whose stop callback a foreign thread is in, or NoTask
  abroad,            \* history: tasks whose registered wait a foreign thread has cancelled
  suspends           \* how often each task that is no service has suspended

loopVars == <<pc, current, ready_queue, scratch, owned_tasks, frame>>
waitVars == <<wait, registered, callbacks, suspends>>
wakeVars == <<cross_core_queue, eventfd, wakeup_edge>>
stopVars == <<stop_requested, graceful>>
threadVars == <<tpc, running_cb, abroad>>
vars == <<loopVars, waitVars, wakeVars, stopVars, threadVars>>

NoTask == "no task"
ASSUME NoTaskAssumption == NoTask \notin Tasks

TypeOK ==
  /\ pc \in {"setup", "top", "resume", "exit_check", "poll", "fire", "drain",
             "leaving", "returned_ok", "returned_err"}
  /\ current \in Tasks \cup {NoTask}
  /\ ready_queue \in Seq(Tasks)
  /\ scratch \in Seq(Tasks)
  /\ owned_tasks \in SUBSET Tasks
  /\ frame \in [Tasks -> {"none", "suspended", "done", "destroyed"}]
  /\ wait \in [Tasks -> {"none", "Pending", "Ready", "Cancelled"}]
  /\ registered \in SUBSET Tasks
  /\ callbacks \in SUBSET Services
  /\ stop_requested \in BOOLEAN
  /\ graceful \in BOOLEAN
  /\ cross_core_queue \in Seq(Tasks)
  /\ eventfd \in BOOLEAN
  /\ wakeup_edge \in BOOLEAN
  /\ tpc \in [Threads -> {"idle", "submit_write", "stop_write", "callbacks",
                          "cancel", "graceful_write"}]
  /\ running_cb \in [Threads -> Tasks \cup {NoTask}]
  /\ abroad \in SUBSET Tasks
  /\ suspends \in [Tasks -> 0..MaxSuspends]

Init ==
  /\ pc = "setup"
  /\ current = NoTask
  /\ ready_queue = <<>>
  /\ scratch = <<>>
  /\ owned_tasks = {}
  /\ frame = [t \in Tasks |-> "none"]
  /\ wait = [t \in Tasks |-> "none"]
  /\ registered = {}
  /\ callbacks = {}
  /\ stop_requested = FALSE
  /\ graceful = FALSE
  /\ cross_core_queue = <<>>
  /\ eventfd = FALSE
  /\ wakeup_edge = FALSE
  /\ tpc = [s \in Threads |-> "idle"]
  /\ running_cb = [s \in Threads |-> NoTask]
  /\ abroad = {}
  /\ suspends = [t \in Tasks |-> 0]

Returned == pc \in {"returned_ok", "returned_err"}

\* write(cross_core_fd_, 1)
WriteEventfd == eventfd' = TRUE /\ wakeup_edge' = TRUE
-----------------------------------------------------------------------------
(***************************************************************************)
(* enqueue(), shared by spawn(), spawn_with_handle(), spawn_service() and  *)
(* run_until_complete(): called by the set-up code before run(), or by the *)
(* coroutine the loop is resuming.                                         *)
(***************************************************************************)
Spawn(t) ==
  /\ pc = "setup" \/ current # NoTask
  /\ frame[t] = "none"
  /\ frame' = [frame EXCEPT ![t] = "suspended"]
  /\ owned_tasks' = owned_tasks \cup {t}
  /\ ready_queue' = Append(ready_queue, t)
  /\ UNCHANGED <<pc, current, scratch, waitVars, wakeVars, stopVars, threadVars>>

Start ==
  /\ pc = "setup"
  /\ pc' = "top"
  /\ UNCHANGED <<current, ready_queue, scratch, owned_tasks, frame, waitVars, wakeVars,
                 stopVars, threadVars>>

\* Mutant: the stop token is never looked at.
StopIgnored == FALSE

\* The condition of the while loop.
StopSeen == stop_requested

\* while (!stop_requested), then swap(resume_scratch_, ready_queue_).
LoopTop ==
  /\ pc = "top"
  /\ IF StopSeen
     THEN /\ pc' = "returned_ok"
          /\ UNCHANGED <<scratch, ready_queue>>
     ELSE /\ pc' = "resume"
          /\ scratch' = ready_queue
          /\ ready_queue' = <<>>
  /\ UNCHANGED <<current, owned_tasks, frame, waitVars, wakeVars, stopVars, threadVars>>

\* Mutant: await_resume() leaves its stop callback installed.
NoReset(h) == {}

\* cancel_cb_.reset()
Reset(h) == {h}

(***************************************************************************)
(* The next handle of the batch; the filter drops one that is done.        *)
(* h.resume() runs await_resume() of the wait the task is suspended in:    *)
(* cancel_cb_.reset() takes the callback out of the list, and waits for    *)
(* the callback to end if another thread is in it.                         *)
(***************************************************************************)
Resume ==
  /\ pc = "resume" /\ current = NoTask /\ scratch # <<>>
  /\ scratch' = Tail(scratch)
  /\ LET h == Head(scratch)
     IN IF frame[h] = "done"
        THEN UNCHANGED <<current, callbacks>>
        ELSE /\ \A s \in Threads : running_cb[s] # h
             /\ current' = h
             /\ callbacks' = callbacks \ Reset(h)
  /\ UNCHANGED <<pc, ready_queue, owned_tasks, frame, wait, registered, suspends,
                 wakeVars, stopVars, threadVars>>

Return ==
  /\ current # NoTask
  /\ frame' = [frame EXCEPT ![current] = "done"]
  /\ wait' = [wait EXCEPT ![current] = "none"]
  /\ current' = NoTask
  /\ UNCHANGED <<pc, ready_queue, scratch, owned_tasks, registered, callbacks, suspends,
                 wakeVars, stopVars, threadVars>>

\* Mutant: a stop requested before the wait is not seen by it.
EarlierStopMissed == FALSE

\* The constructor of the stop callback finds the stop already requested.
EarlierStop == graceful

(***************************************************************************)
(* await_suspend(): register with the reactor, then install the stop       *)
(* callback.  If a stop was requested before, the constructor of the       *)
(* callback runs it at once, on the owner: Cancelled, deregistered and     *)
(* notify()ed.  A service whose accept was cancelled returns instead of    *)
(* waiting again; until then it may wait without end.                      *)
(***************************************************************************)
Suspend ==
  /\ current # NoTask
  /\ wait[current] # "Cancelled"
  /\ IF current \in Services
     THEN UNCHANGED suspends
     ELSE /\ suspends[current] < MaxSuspends
          /\ suspends' = [suspends EXCEPT ![current] = @ + 1]
  /\ IF current \in Services /\ EarlierStop
     THEN /\ wait' = [wait EXCEPT ![current] = "Cancelled"]
          /\ ready_queue' = Append(ready_queue, current)
          /\ UNCHANGED <<registered, callbacks>>
     ELSE /\ wait' = [wait EXCEPT ![current] = "Pending"]
          /\ registered' = registered \cup {current}
          /\ callbacks' = callbacks \cup ({current} \cap Services)
          /\ UNCHANGED ready_queue
  /\ current' = NoTask
  /\ UNCHANGED <<pc, scratch, owned_tasks, frame, wakeVars, stopVars, threadVars>>
-----------------------------------------------------------------------------
\* cleanup_completed(), after the last handle of the batch.
Cleanup ==
  /\ pc = "resume" /\ current = NoTask /\ scratch = <<>>
  /\ owned_tasks' = {t \in owned_tasks : frame[t] # "done"}
  /\ frame' = [t \in Tasks |-> IF t \in owned_tasks /\ frame[t] = "done"
                               THEN "destroyed" ELSE frame[t]]
  /\ pc' = "exit_check"
  /\ UNCHANGED <<current, ready_queue, scratch, waitVars, wakeVars, stopVars, threadVars>>

\* Mutant: a drained task is owned but not queued.
NoneTaken == <<>>

\* The handles drain_cross_core() moves to ready_queue_.
Taken == cross_core_queue

\* drain_cross_core(), under the mutex: it also reads the eventfd down to zero.
DrainCrossCore ==
  /\ ready_queue' = ready_queue \o Taken
  /\ owned_tasks' = owned_tasks
       \cup {cross_core_queue[i] : i \in 1..Len(cross_core_queue)}
  /\ cross_core_queue' = <<>>
  /\ eventfd' = FALSE
  /\ UNCHANGED wakeup_edge

ExitCheck ==
  /\ pc = "exit_check"
  /\ IF owned_tasks = {}
     THEN /\ DrainCrossCore
          /\ pc' = IF owned_tasks' = {} THEN "leaving" ELSE "poll"
     ELSE /\ pc' = "poll"
          /\ UNCHANGED <<ready_queue, owned_tasks, wakeVars>>
  /\ UNCHANGED <<current, scratch, frame, waitVars, stopVars, threadVars>>

\* The break of the exit check: run() has made up its mind and returns.
Leave ==
  /\ pc = "leaving"
  /\ pc' = "returned_ok"
  /\ UNCHANGED <<current, ready_queue, scratch, owned_tasks, frame, waitVars, wakeVars,
                 stopVars, threadVars>>

\* epoll_wait returns: an event, the eventfd, or the timeout, which is never above 10 ms.
PollReturn ==
  /\ pc = "poll"
  /\ pc' = "fire"
  /\ wakeup_edge' = FALSE
  /\ UNCHANGED <<current, ready_queue, scratch, owned_tasks, frame, waitVars,
                 cross_core_queue, eventfd, stopVars, threadVars>>

\* epoll_wait fails with something other than EINTR, and run() returns the error.
PollError ==
  /\ pc = "poll"
  /\ pc' = "returned_err"
  /\ UNCHANGED <<current, ready_queue, scratch, owned_tasks, frame, waitVars, wakeVars,
                 stopVars, threadVars>>

\* Mutant: a completed wait stays registered.
NothingUnhooked(t) == {}

\* fire() and expire() take the entry out of the fd table or the wheel.
Unhooked(t) == {t}

\* The reactor or the wheel completes the wait of one registered task.
Fire(t) ==
  /\ pc = "fire"
  /\ t \in registered
  /\ registered' = registered \ Unhooked(t)
  /\ IF wait[t] = "Pending"
     THEN /\ wait' = [wait EXCEPT ![t] = "Ready"]
          /\ ready_queue' = Append(ready_queue, t)
     ELSE UNCHANGED <<wait, ready_queue>>
  /\ UNCHANGED <<pc, current, scratch, owned_tasks, frame, callbacks, suspends, wakeVars,
                 stopVars, threadVars>>

FireEnd ==
  /\ pc = "fire"
  /\ pc' = "drain"
  /\ UNCHANGED <<current, ready_queue, scratch, owned_tasks, frame, waitVars, wakeVars,
                 stopVars, threadVars>>

Drain ==
  /\ pc = "drain"
  /\ DrainCrossCore
  /\ pc' = "top"
  /\ UNCHANGED <<current, scratch, frame, waitVars, stopVars, threadVars>>
-----------------------------------------------------------------------------
(***************************************************************************)
(* request_stop() and request_graceful_stop() called by the coroutine that *)
(* runs on the owner.  The stop callbacks run inside request_stop(), in an *)
(* order the standard leaves open, and find g_event_loop set.              *)
(***************************************************************************)
Orders(S) ==
  {q \in [1..Cardinality(S) -> S] :
     /\ \A t \in S : \E i \in DOMAIN q : q[i] = t
     /\ \A i, j \in DOMAIN q : q[i] = q[j] => i = j}

OwnerStop ==
  /\ current # NoTask
  /\ stop_requested' = TRUE
  /\ WriteEventfd
  /\ UNCHANGED <<loopVars, waitVars, cross_core_queue, graceful, threadVars>>

OwnerGraceful ==
  /\ "owner" \in GracefulCallers
  /\ current # NoTask
  /\ graceful' = TRUE
  /\ IF graceful
     THEN UNCHANGED <<wait, registered, callbacks, ready_queue>>
     ELSE LET cancelled == {t \in callbacks : wait[t] = "Pending"}
          IN /\ wait' = [t \in Tasks |-> IF t \in cancelled THEN "Cancelled" ELSE wait[t]]
             /\ registered' = registered \ cancelled
             /\ callbacks' = {}
             /\ \E order \in Orders(cancelled) : ready_queue' = ready_queue \o order
  /\ WriteEventfd
  /\ UNCHANGED <<pc, current, scratch, owned_tasks, frame, suspends, cross_core_queue,
                 stop_requested, threadVars>>
-----------------------------------------------------------------------------
\* Mutant: submit() does not write to the eventfd.
ReturnAtOnce == "idle"

\* What is left of submit() after the mutex is released.
AfterPush == "submit_write"

\* submit(): push_back under the mutex, and the write after it is released.
SubmitPush(s, t) ==
  /\ tpc[s] = "idle"
  /\ frame[t] = "none" /\ t \notin Services
  /\ frame' = [frame EXCEPT ![t] = "suspended"]
  /\ cross_core_queue' = Append(cross_core_queue, t)
  /\ tpc' = [tpc EXCEPT ![s] = AfterPush]
  /\ UNCHANGED <<pc, current, ready_queue, scratch, owned_tasks, waitVars, eventfd,
                 wakeup_edge, stopVars, running_cb, abroad>>

StopFlag(s) ==
  /\ tpc[s] = "idle"
  /\ stop_requested' = TRUE
  /\ tpc' = [tpc EXCEPT ![s] = "stop_write"]
  /\ UNCHANGED <<loopVars, waitVars, wakeVars, graceful, running_cb, abroad>>

\* graceful_source_.request_stop(): only the first call goes on to run the callbacks.
GracefulFlag(s) ==
  /\ "foreign" \in GracefulCallers
  /\ tpc[s] = "idle"
  /\ graceful' = TRUE
  /\ tpc' = [tpc EXCEPT ![s] = IF graceful THEN "graceful_write" ELSE "callbacks"]
  /\ UNCHANGED <<loopVars, waitVars, wakeVars, stop_requested, running_cb, abroad>>

\* Takes the next callback from the list and runs its test of the WaitState.
CallbackEnter(s, t) ==
  /\ tpc[s] = "callbacks"
  /\ t \in callbacks
  /\ callbacks' = callbacks \ {t}
  /\ IF wait[t] = "Pending"
     THEN /\ tpc' = [tpc EXCEPT ![s] = "cancel"]
          /\ running_cb' = [running_cb EXCEPT ![s] = t]
     ELSE UNCHANGED <<tpc, running_cb>>
  /\ UNCHANGED <<loopVars, wait, registered, suspends, wakeVars, stopVars, abroad>>

(***************************************************************************)
(* The rest of the callback.  g_event_loop is thread_local and null on     *)
(* this thread, so there is no notify().                                   *)
(***************************************************************************)
CallbackCancel(s) ==
  /\ tpc[s] = "cancel"
  /\ wait' = [wait EXCEPT ![running_cb[s]] = "Cancelled"]
  /\ registered' = registered \ {running_cb[s]}
  /\ abroad' = abroad \cup ({running_cb[s]} \cap registered)
  /\ tpc' = [tpc EXCEPT ![s] = "callbacks"]
  /\ running_cb' = [running_cb EXCEPT ![s] = NoTask]
  /\ UNCHANGED <<loopVars, callbacks, suspends, wakeVars, stopVars>>

CallbacksEnd(s) ==
  /\ tpc[s] = "callbacks"
  /\ callbacks = {}
  /\ tpc' = [tpc EXCEPT ![s] = "graceful_write"]
  /\ UNCHANGED <<loopVars, waitVars, wakeVars, stopVars, running_cb, abroad>>

\* The write(cross_core_fd_) that ends each of the three calls.
WriteAndReturn(s) ==
  /\ tpc[s] \in {"submit_write", "stop_write", "graceful_write"}
  /\ WriteEventfd
  /\ tpc' = [tpc EXCEPT ![s] = "idle"]
  /\ UNCHANGED <<loopVars, waitVars, cross_core_queue, stopVars, running_cb, abroad>>
-----------------------------------------------------------------------------
\* What run() does by itself, the coroutine's choices, and the end of a call in progress.
LoopStep ==
  \/ LoopTop \/ Resume \/ Return \/ Suspend
  \/ Cleanup \/ ExitCheck \/ Leave \/ PollReturn \/ FireEnd \/ Drain

ThreadStep(s) ==
  \/ \E t \in Tasks : CallbackEnter(s, t)
  \/ CallbackCancel(s)
  \/ CallbacksEnd(s)
  \/ WriteAndReturn(s)

Next ==
  \/ Start
  \/ LoopStep
  \/ PollError
  \/ \E t \in Tasks : Spawn(t) \/ Fire(t)
  \/ OwnerStop
  \/ OwnerGraceful
  \/ \E s \in Threads :
       \/ ThreadStep(s)
       \/ \E t \in Tasks : SubmitPush(s, t)
       \/ StopFlag(s)
       \/ GracefulFlag(s)

Spec == Init /\ [][Next]_vars

(***************************************************************************)
(* The owner keeps running, a thread ends the call it is in, and the wait  *)
(* of a task in flight is completed in some pass: its peer sends, or its   *)
(* timer expires.  No connection has to arrive for a service, and nobody   *)
(* has to call anything.                                                   *)
(***************************************************************************)
Fairness ==
  /\ WF_vars(LoopStep)
  /\ \A s \in Threads : WF_vars(ThreadStep(s))
  /\ \A t \in Tasks \ Services : SF_vars(Fire(t))

FairSpec == Spec /\ Fairness
-----------------------------------------------------------------------------
Queued == ready_queue \o scratch \o cross_core_queue

InQueue(t) == \E i \in 1..Len(Queued) : Queued[i] = t

(***************************************************************************)
(* A handle is in at most one of the queues, once, and never while its     *)
(* coroutine runs or waits with a live registration; a queued coroutine is *)
(* neither done nor destroyed.  Otherwise run() would resume a coroutine   *)
(* twice for one wait, or resume a freed frame.                            *)
(***************************************************************************)
HandlesResumableOnce ==
  /\ \A i, j \in 1..Len(Queued) : Queued[i] = Queued[j] => i = j
  /\ \A t \in Tasks : InQueue(t) =>
        /\ t # current
        /\ t \notin registered
        /\ frame[t] = "suspended"

(***************************************************************************)
(* Every suspended coroutine the loop owns is about to be resumed or waits *)
(* for something that will queue it: the reactor, the wheel, or the        *)
(* cross-core queue.  One that is none of these keeps owned_tasks_ from    *)
(* becoming empty and run() from returning.  The one way to lose a task is *)
(* a stop callback that cancels its wait on a foreign thread.              *)
(***************************************************************************)
NoOrphanedTask ==
  \A t \in Tasks : frame[t] = "suspended" =>
    t = current \/ InQueue(t) \/ t \in registered \/ t \in abroad

(***************************************************************************)
(* request_graceful_stop() may be called by any thread: a task whose wait  *)
(* it cancels is queued, as the comment on the function says.              *)
(***************************************************************************)
GracefulStopCrossCore ==
  \A t \in Tasks : frame[t] = "suspended" =>
    t = current \/ InQueue(t) \/ t \in registered

(***************************************************************************)
(* The eventfd protocol: while a submitted task is in cross_core_queue_,   *)
(* its submitter has still to write, or the next epoll_wait returns at     *)
(* once, or the owner is on its way to drain_cross_core().                 *)
(***************************************************************************)
NoLostSubmitWakeup ==
  cross_core_queue # <<>> =>
    \/ \E s \in Threads : tpc[s] = "submit_write"
    \/ eventfd /\ wakeup_edge
    \/ pc \in {"fire", "drain"}

(***************************************************************************)
(* A stop callback in the list, or being run by another thread, belongs to *)
(* a suspended coroutine: the awaiter it captures lives in that frame.     *)
(***************************************************************************)
CallbackFrameAlive ==
  \A t \in Tasks :
    t \in callbacks \/ (\E s \in Threads : running_cb[s] = t)
      => frame[t] = "suspended" /\ t # current

(***************************************************************************)
(* run() returns once request_stop() has been called, whatever the         *)
(* coroutines wait for.                                                    *)
(***************************************************************************)
StopReturns == stop_requested /\ pc # "setup" ~> Returned

(***************************************************************************)
(* After request_graceful_stop() the service loops leave, the tasks in     *)
(* flight finish, and run() returns through its empty owned_tasks_, unless *)
(* a foreign thread has cancelled a wait.                                  *)
(***************************************************************************)
GracefulDrains == graceful /\ pc # "setup" ~> Returned \/ abroad # {}
=============================================================================
