------------------------------ MODULE Reactor ------------------------------
(***************************************************************************)
(* EpollReactor (async/io_reactor.hpp) with the awaiters that use it:      *)
(* ConnectAwaiter, ReadReadyAwaiter, WriteReadyAwaiter and                 *)
(* TimedReadyAwaiter (net/io_awaiters.hpp), and the closing of a           *)
(* descriptor (net/socket_fd_ops.hpp).                                     *)
(*                                                                         *)
(* All of it runs on the owner thread: a pass of EventLoop::run() polls,   *)
(* expires timers, and resumes the coroutines these made ready.  The       *)
(* timer wheel is the choice of which live timers a pass expires.          *)
(***************************************************************************)
EXTENDS Naturals, Sequences, Functions

CONSTANTS
  Fds,   \* descriptor numbers; a closed one may be handed out again
  Waits  \* coroutines, each suspended in at most one wait at a time

VARIABLES
  phase,    \* the part of a pass the loop is in: "poll", "timer" or "run"
  slots,    \* slots_: the read and the write waiter of each descriptor
  ready,    \* handles for the next batch
  batch,    \* handles of this batch not yet resumed
  state,    \* WaitState of the wait a coroutine is in, "idle" outside of one
  on,       \* the descriptor and direction of each wait
  timer,    \* waits whose timer is live
  is_open,  \* descriptors that are open
  in_set,   \* kernel: descriptors in the epoll set
  armed,    \* kernel: the directions a descriptor is armed for, none after an event
  level     \* kernel: what the descriptor is ready for: "Read", "Write", "Err"

loopVars == <<phase, ready, batch>>
waitVars == <<state, on, timer>>
kernelVars == <<is_open, in_set, armed, level>>
reactorVars == <<loopVars, slots, waitVars, kernelVars>>

Dirs == {"Read", "Write"}
NoWait == "no wait"
Nowhere == [fd |-> "none", dir |-> "none"]

ASSUME NoWaitAssumption == NoWait \notin Waits

Waiting(sl, fd) == {d \in Dirs : sl[fd][d] # NoWait}

ReactorInit ==
  /\ phase = "run"
  /\ slots = [fd \in Fds |-> [d \in Dirs |-> NoWait]]
  /\ ready = <<>> /\ batch = <<>>
  /\ state = [w \in Waits |-> "idle"]
  /\ on = [w \in Waits |-> Nowhere]
  /\ timer = {}
  /\ is_open = {} /\ in_set = {}
  /\ armed = [fd \in Fds |-> {}]
  /\ level = [fd \in Fds |-> {}]

\* ensure(): EPOLL_CTL_MOD, or EPOLL_CTL_ADD for a descriptor that is not in the set.
Ensure(fd, interest) ==
  /\ in_set' = in_set \cup {fd}
  /\ armed' = [armed EXCEPT ![fd] = interest]

\* deregister(fd, dir), by number; rearm_or_erase() arms what still waits, if anything.
Deregister(fd, dir) ==
  /\ slots' = [slots EXCEPT ![fd][dir] = NoWait]
  /\ IF fd \in is_open /\ Waiting(slots', fd) # {}
     THEN Ensure(fd, Waiting(slots', fd))
     ELSE UNCHANGED <<in_set, armed>>
-----------------------------------------------------------------------------
(***************************************************************************)
(* await_suspend(): schedule the timer if there is one, register_read() or *)
(* register_write().  It fails if the direction has a waiter already, and  *)
(* if epoll_ctl fails; the timer is cancelled then and the coroutine goes  *)
(* on with the error.                                                      *)
(***************************************************************************)
Await(w, fd, dir, timed) ==
  /\ phase = "run"
  /\ state[w] = "idle"
  /\ fd \in is_open /\ slots[fd][dir] = NoWait
  /\ slots' = [slots EXCEPT ![fd][dir] = w]
  /\ Ensure(fd, Waiting(slots', fd))
  /\ state' = [state EXCEPT ![w] = "Pending"]
  /\ on' = [on EXCEPT ![w] = [fd |-> fd, dir |-> dir]]
  /\ timer' = IF timed THEN timer \cup {w} ELSE timer
  /\ UNCHANGED <<loopVars, is_open, level>>

\* The slot is taken, or the kernel refuses to add the descriptor.
AwaitRefused(fd, dir) == slots[fd][dir] # NoWait \/ fd \notin in_set

\* The stop callback (cancel_io_wait() and its copy in TimedReadyAwaiter).
Cancel(w) ==
  /\ phase = "run"
  /\ state[w] = "Pending"
  /\ state' = [state EXCEPT ![w] = "Cancelled"]
  /\ timer' = timer \ {w}
  /\ Deregister(on[w].fd, on[w].dir)
  /\ ready' = Append(ready, w)
  /\ UNCHANGED <<phase, batch, on, is_open, level>>

\* Mutant: a wait that timed out stays in its slot.
NeverLeavesSlot(w) == FALSE

\* await_resume() deregisters a wait that timed out; any other has left its slot already.
LeavesSlot(w) == state[w] = "TimedOut"

\* await_resume(): the slot or the timer that did not end the wait is given up.
Resume ==
  /\ phase = "run" /\ batch # <<>>
  /\ batch' = Tail(batch)
  /\ LET w == Head(batch)
     IN /\ state' = [state EXCEPT ![w] = "idle"]
        /\ on' = [on EXCEPT ![w] = Nowhere]
        /\ timer' = timer \ {w}
        /\ IF LeavesSlot(w) THEN Deregister(on[w].fd, on[w].dir)
                            ELSE UNCHANGED <<slots, in_set, armed>>
  /\ UNCHANGED <<phase, ready, is_open, level>>

(***************************************************************************)
(* close_fd(): remove() takes the descriptor out of the epoll set and      *)
(* clears its slot.  The program closes a descriptor when no coroutine     *)
(* waits on it: remove() drops a waiter without waking it.                 *)
(***************************************************************************)
CloseFd(fd) ==
  /\ phase = "run"
  /\ fd \in is_open /\ \A w \in Waits : on[w].fd # fd
  /\ is_open' = is_open \ {fd}
  /\ in_set' = in_set \ {fd}
  /\ armed' = [armed EXCEPT ![fd] = {}]
  /\ slots' = [slots EXCEPT ![fd] = [d \in Dirs |-> NoWait]]
  /\ level' = [level EXCEPT ![fd] = {}]
  /\ UNCHANGED <<loopVars, waitVars>>

\* The kernel hands a number out: accept4(), socket().
OpenFd(fd) ==
  /\ phase = "run"
  /\ fd \notin is_open
  /\ is_open' = is_open \cup {fd}
  /\ UNCHANGED <<loopVars, slots, waitVars, in_set, armed, level>>

EndBatch ==
  /\ phase = "run" /\ batch = <<>>
  /\ phase' = "poll"
  /\ UNCHANGED <<ready, batch, slots, waitVars, kernelVars>>
-----------------------------------------------------------------------------
\* Mutant: the descriptor is armed for what it was ready for.
RearmedByLevel(sl, fd) == level[fd]

\* rearm_or_erase() after an event, which has disarmed the descriptor.
Rearmed(sl, fd) == Waiting(sl, fd)

\* fire(): the entry's WaitState decides whether its handle is made ready.
Fired(w) == IF w # NoWait /\ state[w] = "Pending" THEN <<w>> ELSE <<>>

(***************************************************************************)
(* One event of poll().  The kernel disarms the descriptor.  An error or a *)
(* hang-up is for both directions; what still waits is armed again.        *)
(***************************************************************************)
PollEvent(fd) ==
  /\ phase = "poll"
  /\ fd \in in_set /\ armed[fd] # {}
  /\ LET event == level[fd] \cap (armed[fd] \cup {"Err"})
         hit == {d \in Dirs : d \in event \/ "Err" \in event}
         left == [slots EXCEPT ![fd] = [d \in Dirs |-> IF d \in hit THEN NoWait ELSE @[d]]]
         taken == [d \in Dirs |-> IF d \in hit THEN slots[fd][d] ELSE NoWait]
         fired == Fired(taken["Read"]) \o Fired(taken["Write"])
     IN /\ event # {}
        /\ slots' = left
        /\ state' = [w \in Waits |-> IF w \in Range(fired) THEN "Ready" ELSE state[w]]
        /\ ready' = ready \o fired
        /\ armed' = [armed EXCEPT ![fd] = Rearmed(left, fd)]
  /\ UNCHANGED <<phase, batch, on, timer, is_open, in_set, level>>

EndPoll ==
  /\ phase = "poll"
  /\ phase' = "timer"
  /\ UNCHANGED <<ready, batch, slots, waitVars, kernelVars>>

\* Mutant: the timer fires whatever the WaitState.
AlwaysFires(w) == TRUE

\* A timer fires unless it finds that the WaitState has moved on.
TimerFires(w) == state[w] = "Pending"

\* The wheel reaches the timer of a wait.
Expire(w) ==
  /\ phase = "timer"
  /\ w \in timer
  /\ timer' = timer \ {w}
  /\ IF TimerFires(w)
     THEN state' = [state EXCEPT ![w] = "TimedOut"] /\ ready' = Append(ready, w)
     ELSE UNCHANGED <<state, ready>>
  /\ UNCHANGED <<phase, batch, slots, on, kernelVars>>

EndTimers ==
  /\ phase = "timer"
  /\ phase' = "run"
  /\ batch' = ready
  /\ ready' = <<>>
  /\ UNCHANGED <<slots, waitVars, kernelVars>>
-----------------------------------------------------------------------------
Completions == {"Ready", "TimedOut", "Cancelled"}

ReactorTypeOK ==
  /\ phase \in {"poll", "timer", "run"}
  /\ slots \in [Fds -> [Dirs -> Waits \cup {NoWait}]]
  /\ ready \in Seq(Waits) /\ batch \in Seq(Waits)
  /\ state \in [Waits -> {"idle", "Pending"} \cup Completions]
  /\ on \in [Waits -> [fd : Fds, dir : Dirs] \cup {Nowhere}]
  /\ timer \in SUBSET Waits
  /\ is_open \in SUBSET Fds /\ in_set \in SUBSET Fds
  /\ armed \in [Fds -> SUBSET Dirs]
  /\ level \in [Fds -> SUBSET {"Read", "Write", "Err"}]

(***************************************************************************)
(* A pending wait is in the slot it registered in, and the kernel watches  *)
(* every direction that has a waiter: neither an event of the other        *)
(* direction (EPOLLONESHOT disarms both) nor the deregistration of another *)
(* wait leaves a coroutine behind that no event can reach.                 *)
(***************************************************************************)
WaitsAreWatched ==
  /\ \A w \in Waits : state[w] = "Pending" => slots[on[w].fd][on[w].dir] = w
  /\ \A fd \in Fds : Waiting(slots, fd) \subseteq armed[fd]

(***************************************************************************)
(* A slot and a live timer hold pointers into the frame of a coroutine     *)
(* that is still suspended in the wait they belong to.                     *)
(***************************************************************************)
EntriesAlive ==
  /\ \A w \in timer : state[w] # "idle"
  /\ \A fd \in Fds, d \in Dirs :
       slots[fd][d] # NoWait => /\ state[slots[fd][d]] # "idle"
                                /\ on[slots[fd][d]] = [fd |-> fd, dir |-> d]

(***************************************************************************)
(* Event, timer and cancellation race for one WaitState: exactly one of    *)
(* them queues the coroutine, once.                                        *)
(***************************************************************************)
CompletedOnce ==
  /\ IsInjective(ready \o batch)
  /\ Range(ready \o batch) = {w \in Waits : state[w] \in Completions}
=============================================================================
