------------------------------- MODULE Bridge -------------------------------
(***************************************************************************)
(* spawn_blocking (runtime/bridge.hpp): a coroutine hands a function to    *)
(* the ThreadPool, suspends, and is woken through an eventfd of its own    *)
(* when a worker has written the result.  The pool's channel is            *)
(* BoundedFifo, which Channel implements; pool_.spawn() is a try_send and  *)
(* fails on a full or closed channel.                                      *)
(*                                                                         *)
(* The BlockingState is shared by the awaiter, in the coroutine's frame,   *)
(* and by the function object in the pool; the last of the two to go       *)
(* destroys it and closes the eventfd.                                     *)
(***************************************************************************)
EXTENDS Naturals, Sequences, FiniteSets

CONSTANTS
  Calls,     \* co_awaits of spawn_blocking()
  Workers,   \* the pool's threads
  Capacity   \* of the pool's channel; 0 means unbounded

ASSUME BridgeCapacityAssumption == Capacity \in Nat

VARIABLES
  items,       \* the pool's channel: the calls whose function is queued
  shut,        \* is the channel closed?
  wpc,         \* each worker: "recv", "run", "notify", "release", "exited"
  job,         \* the call a worker runs the function of
  call,        \* each call: "idle", "suspended", "ready", "returned", "destroyed"
  refs,        \* who holds the BlockingState of a call
  result,      \* state->result
  outcome,     \* history: what the function did
  got,         \* what co_await gave
  counter,     \* calls whose eventfd counter is above zero
  registered,  \* calls whose eventfd has a waiter in the reactor
  torn_down    \* has the loop been destroyed?

poolVars == <<items, shut>>
workerVars == <<wpc, job>>
bridgeVars == <<poolVars, workerVars, call, refs, result, outcome, got, counter,
                registered, torn_down>>

NoCall == "no_call"

ASSUME NoCallAssumption == NoCall \notin Calls

Holders == {"frame", "closure"}
Values == {"not_completed", "Ok", "Err", "refused", "none"}

Pool == INSTANCE BoundedFifo WITH Threads <- Calls

BridgeInit ==
  /\ Pool!Init
  /\ wpc = [w \in Workers |-> "recv"]
  /\ job = [w \in Workers |-> NoCall]
  /\ call = [c \in Calls |-> "idle"]
  /\ refs = [c \in Calls |-> {}]
  /\ result = [c \in Calls |-> "not_completed"]
  /\ outcome = [c \in Calls |-> "none"]
  /\ got = [c \in Calls |-> "none"]
  /\ counter = {}
  /\ registered = {}
  /\ torn_down = FALSE
-----------------------------------------------------------------------------
\* Mutant: the function object points into the frame instead of sharing the state.
FrameOnly == {"frame"}

\* The awaiter's state_ and the copy that set_work() captures.
Shared == Holders

\* await_suspend(): the eventfd is registered, the pool takes the function.
Suspend(c) ==
  /\ call[c] = "idle" /\ ~torn_down
  /\ Pool!Enqueue(c)
  /\ call' = [call EXCEPT ![c] = "suspended"]
  /\ refs' = [refs EXCEPT ![c] = Shared]
  /\ registered' = registered \cup {c}
  /\ UNCHANGED <<workerVars, result, outcome, got, counter, torn_down>>

(***************************************************************************)
(* The call goes on with an error without suspending: the eventfd could    *)
(* not be created or registered, or the pool refused the function, and the *)
(* registration is taken back.                                             *)
(***************************************************************************)
Refuse(c) ==
  /\ call[c] = "idle" /\ ~torn_down
  /\ call' = [call EXCEPT ![c] = "returned"]
  /\ got' = [got EXCEPT ![c] = "refused"]
  /\ UNCHANGED <<poolVars, workerVars, refs, result, outcome, counter, registered, torn_down>>

\* poll() finds the eventfd readable; the loop will resume the waiter.
Wake(c) ==
  /\ ~torn_down
  /\ c \in counter \cap registered
  /\ call' = [call EXCEPT ![c] = "ready"]
  /\ registered' = registered \ {c}
  /\ UNCHANGED <<poolVars, workerVars, refs, result, outcome, got, counter, torn_down>>

\* Mutant: await_resume() returns readiness_, still the error it was initialised with.
Readiness(c) == "refused"

\* std::move(state_->result)
Awaited(c) == result[c]

\* await_resume(): acknowledge(), deregister(), the result; the awaiter goes.
Resume(c) ==
  /\ ~torn_down
  /\ call[c] = "ready"
  /\ call' = [call EXCEPT ![c] = "returned"]
  /\ got' = [got EXCEPT ![c] = Awaited(c)]
  /\ counter' = counter \ {c}
  /\ refs' = [refs EXCEPT ![c] = @ \ {"frame"}]
  /\ UNCHANGED <<poolVars, workerVars, result, outcome, registered, torn_down>>

\* The loop is destroyed, and with it the frames of the calls it still waits for.
TearDown ==
  /\ ~torn_down
  /\ torn_down' = TRUE
  /\ call' = [c \in Calls |-> IF call[c] \in {"suspended", "ready"}
                              THEN "destroyed" ELSE call[c]]
  /\ refs' = [c \in Calls |-> refs[c] \ {"frame"}]
  /\ registered' = {}
  /\ UNCHANGED <<poolVars, workerVars, result, outcome, got, counter>>
-----------------------------------------------------------------------------
At(w, from, to) == wpc[w] = from /\ wpc' = [wpc EXCEPT ![w] = to]

WorkerRecv(w) ==
  /\ At(w, "recv", "run")
  /\ Pool!Dequeue
  /\ job' = [job EXCEPT ![w] = Head(items)]
  /\ UNCHANGED <<call, refs, result, outcome, got, counter, registered, torn_down>>

WorkerExit(w) ==
  /\ At(w, "recv", "exited")
  /\ shut /\ items = <<>>
  /\ UNCHANGED <<poolVars, job, call, refs, result, outcome, got, counter, registered,
                 torn_down>>

\* f() returns Ok, returns an error or throws; the try block assigns state->result, or
\* the catch block assigns it an error.
RunFunction(w, o) ==
  /\ At(w, "run", "notify")
  /\ outcome' = [outcome EXCEPT ![job[w]] = o]
  /\ result' = [result EXCEPT ![job[w]] = o]
  /\ UNCHANGED <<poolVars, job, call, refs, got, counter, registered, torn_down>>

\* Mutant: the eventfd is not written for a function that threw.
SignalSuccess(c) == IF outcome[c] = "Err" THEN {} ELSE {c}

\* The eventfd the worker writes to.
Signalled(c) == {c}

\* Mutant: the eventfd may also be written before the function is called.
NotifyFirst(w) ==
  /\ At(w, "notify", "release") \/ (wpc[w] = "run" /\ UNCHANGED wpc)
  /\ counter' = counter \cup Signalled(job[w])
  /\ UNCHANGED <<poolVars, job, call, refs, result, outcome, got, registered, torn_down>>

\* state->notifier.notify()
Notify(w) ==
  /\ At(w, "notify", "release")
  /\ counter' = counter \cup Signalled(job[w])
  /\ UNCHANGED <<poolVars, job, call, refs, result, outcome, got, registered, torn_down>>

\* The function object is destroyed at the end of the turn of worker_loop().
Release(w) ==
  /\ At(w, "release", "recv")
  /\ refs' = [refs EXCEPT ![job[w]] = @ \ {"closure"}]
  /\ job' = [job EXCEPT ![w] = NoCall]
  /\ UNCHANGED <<poolVars, call, result, outcome, got, counter, registered, torn_down>>

Shutdown ==
  /\ ~shut
  /\ Pool!Shut
  /\ UNCHANGED <<workerVars, call, refs, result, outcome, got, counter, registered, torn_down>>

-----------------------------------------------------------------------------
BridgeTypeOK ==
  /\ items \in Seq(Calls)
  /\ Capacity > 0 => Len(items) <= Capacity
  /\ shut \in BOOLEAN
  /\ wpc \in [Workers -> {"recv", "run", "notify", "release", "exited"}]
  /\ job \in [Workers -> Calls \cup {NoCall}]
  /\ call \in [Calls -> {"idle", "suspended", "ready", "returned", "destroyed"}]
  /\ refs \in [Calls -> SUBSET Holders]
  /\ result \in [Calls -> Values]
  /\ outcome \in [Calls -> Values]
  /\ got \in [Calls -> Values]
  /\ counter \in SUBSET Calls
  /\ registered \in SUBSET Calls
  /\ torn_down \in BOOLEAN

\* A worker that is about to touch the BlockingState of a call, its result or its
\* eventfd, finds it alive, even if the frame was destroyed while the function ran.
SharedStateAlive ==
  \A w \in Workers : job[w] # NoCall => refs[job[w]] # {}

\* The loop never resumes a call whose result a worker has still to write or may write
\* again: result is not atomic, and only the eventfd orders the two threads.
NoResultRace ==
  \A c \in Calls : call[c] = "ready" =>
    /\ \A w \in Workers : job[w] = c => wpc[w] = "release"
    /\ result[c] = outcome[c]

\* A call that was suspended gives what its function did, once it has run; only a call
\* that never suspended gives the refusal, and its function never runs.
OutcomeDelivered ==
  \A c \in Calls :
    /\ call[c] = "returned" /\ got[c] # "refused" => got[c] = outcome[c] /\ got[c] # "none"
    /\ got[c] = "refused" => outcome[c] = "none" /\ refs[c] = {}

\* No call is suspended for ever: it returns, also if the pool is shut down before its
\* function was taken from the queue, unless the loop is destroyed.
CallsReturn == <>[](\A c \in Calls : call[c] \notin {"suspended", "ready"})
=============================================================================
