-------------------------------- MODULE Task --------------------------------
(***************************************************************************)
(* async::Task and async::JoinHandle (async/task.hpp): coroutines that     *)
(* await each other.  Runtime::block_on() starts two roots: Main, and      *)
(* Capture, which awaits Main's JoinHandle and moves its result to the     *)
(* caller's stack before the loop destroys the frame.  Main is one of the  *)
(* combinators that await their tasks in turn (async/combinators.hpp):     *)
(* with_deadline_check, retry, or a pipe.  Its children await leaves and   *)
(* children of their own, and return, fail or throw.                       *)
(*                                                                         *)
(* A coroutine runs from one suspension to the next; awaiting a Task and   *)
(* returning to an awaiting coroutine transfer control directly, and only  *)
(* a leaf gives it back to the loop.                                       *)
(***************************************************************************)
EXTENDS Naturals, Sequences, FiniteSets, SequencesExt

CONSTANTS
  Scripts,      \* what Main may be: "deadline", "and_then", "or_else", "map", "retry"
  MaxAttempts,  \* bound of the model: the largest max_attempts of retry
  MaxChildren   \* bound of the model: how many Tasks are created below Main

ASSUME TaskAssumption ==
  /\ Scripts \subseteq {"deadline", "and_then", "or_else", "map", "retry"}
  /\ MaxAttempts \in Nat
  /\ MaxChildren \in Nat

VARIABLES
  script,    \* what Main is, never changed
  limit,     \* max_attempts, never changed
  state,     \* each frame: where its coroutine is
  cont,      \* continuation_
  token,     \* frames whose cancel_token_ is set
  stopped,   \* has the source of that token been asked to stop?
  wait,      \* the WaitState of the leaf a frame is suspended in, or "none"
  deaf,      \* frames whose last leaf has no set_cancellation()
  result,    \* result_
  outcomes,  \* what Main's co_awaits of its children gave, in order
  slept,     \* has retry waited since its last attempt?
  running,   \* the frame that runs, or None
  queue,     \* ready_queue_
  batch,     \* the handles of resume_scratch_ still to be visited
  pc,        \* the loop: "batch", "poll" or "returned"
  slot       \* block_on()'s slot

chainVars == <<script, limit, token, stopped, deaf, outcomes, slept>>
loopVars == <<queue, batch, pc, slot>>
vars == <<chainVars, state, cont, wait, result, running, loopVars>>

Main == 0
Capture == MaxChildren + 1
Children == 1..MaxChildren
Frames == 0..(MaxChildren + 1)
None == MaxChildren + 2

Results == {"Ok", "Err", "exception"}

\* block_on(): spawn_with_handle(task), then spawn(capture_into(slot, handle)).
Init ==
  /\ script \in Scripts /\ limit \in 0..MaxAttempts
  /\ script # "retry" => limit = 0
  /\ state = [f \in Frames |-> IF f \in Children THEN "none" ELSE "queued"]
  /\ cont = [f \in Frames |-> None]
  /\ token \in {{}, {Main}}
  /\ stopped = FALSE
  /\ wait = [f \in Frames |-> "none"]
  /\ deaf = {}
  /\ result = [f \in Frames |-> "none"]
  /\ outcomes = <<>>
  /\ slept = FALSE
  /\ running = None
  /\ queue = <<>>
  /\ batch = <<Main, Capture>>
  /\ pc = "batch"
  /\ slot = "none"
-----------------------------------------------------------------------------
\* Mutant: await_transform() does not pass the token on.
TokenKept(f, hears) == FALSE

\* await_transform(): what frame f awaits is given the token of f, if f has one and what
\* it awaits has set_cancellation().
TokenPassed(f, hears) == hears /\ f \in token

(***************************************************************************)
(* The running frame f suspends in a leaf, which the reactor, the wheel or *)
(* the pool completes.  One that hears of a stop has set_cancellation():   *)
(* those of sleep, connect, readiness and accept.  Those of spawn_blocking *)
(* and of signals, and the reactor's async_read and async_write, have not. *)
(* A stop requested before cancels the first kind at once.                 *)
(***************************************************************************)
LeafWait(f, hears) ==
  /\ LET cancelled == stopped /\ TokenPassed(f, hears)
     IN /\ wait' = [wait EXCEPT ![f] = IF cancelled THEN "Cancelled" ELSE "Pending"]
        /\ queue' = IF cancelled THEN Append(queue, f) ELSE queue
  /\ deaf' = IF hears THEN deaf \ {f} ELSE deaf \cup {f}
  /\ state' = [state EXCEPT ![f] = "leaf"]
  /\ running' = None
  /\ UNCHANGED <<script, limit, token, stopped, outcomes, cont, result, batch, pc, slot>>

\* co_await of a new Task by frame f: continuation_ is set, and the child runs.
CallChild(f) ==
  \E c \in Children :
    /\ state[c] = "none" /\ \A d \in Children : d < c => state[d] # "none"
    /\ state' = [state EXCEPT ![f] = "awaiting", ![c] = "running"]
    /\ cont' = [cont EXCEPT ![c] = f]
    /\ token' = IF TokenPassed(f, TRUE) THEN token \cup {c} ELSE token
    /\ running' = c
    /\ UNCHANGED <<script, limit, stopped, deaf, outcomes, wait, result, loopVars>>

\* Mutant: FinalAwaiter returns to the loop.
NoTransfer(f) == None

\* FinalAwaiter: the coroutine that awaits f, or noop_coroutine().
TransfersTo(f) == cont[f]

(***************************************************************************)
(* Frame f returns v or throws; control goes to its continuation, which    *)
(* reads the result.  A Task awaited is destroyed by the coroutine that    *)
(* awaits it, after await_resume(), and its promise goes with it.          *)
(* Awaiting a Task that threw dereferences a result_ without a value:      *)
(* anything may be read.                                                   *)
(***************************************************************************)
Finish(f, v) ==
  /\ result' = [result EXCEPT ![f] = IF f \in Children THEN "none" ELSE v]
  /\ cont' = [cont EXCEPT ![f] = IF f \in Children THEN None ELSE @]
  /\ wait' = [wait EXCEPT ![f] = "none"]
  /\ deaf' = deaf \ {f}
  /\ running' = TransfersTo(f)
  /\ LET p == TransfersTo(f)
     IN /\ state' = [g \in Frames |-> IF g = f
                                      THEN IF f \in Children /\ p # None
                                           THEN "destroyed" ELSE "done"
                                      ELSE IF g = p THEN "running" ELSE state[g]]
        /\ IF p = Main
           THEN \E r \in IF v = "exception" THEN {"Ok", "Err"} ELSE {v} :
                  outcomes' = Append(outcomes, r)
           ELSE UNCHANGED outcomes
  /\ slept' = FALSE
  /\ UNCHANGED <<script, limit, token, stopped, loopVars>>
-----------------------------------------------------------------------------
\* Mutant: one attempt too many.
AttemptsLeftAfter(n) == n <= limit

\* for (attempt = 0; attempt < max_attempts; ++attempt)
AttemptsLeft(n) == n < limit

\* Does Main await another Task after the outcomes it has seen?
Continues ==
  LET n == Len(outcomes)
  IN \/ script # "retry" /\ n = 0
     \/ script = "and_then" /\ n = 1 /\ outcomes[1] = "Ok"
     \/ script = "or_else" /\ n = 1 /\ outcomes[1] = "Err"
     \/ script = "retry" /\ AttemptsLeft(n) /\ \A i \in 1..n : outcomes[i] = "Err"

MainCalls ==
  /\ running = Main /\ Continues
  /\ CallChild(Main)
  /\ UNCHANGED slept

\* co_await sleep_for() between two attempts.
MainSleeps ==
  /\ running = Main /\ Continues
  /\ script = "retry" /\ outcomes # <<>> /\ ~slept
  /\ slept' = TRUE
  /\ LeafWait(Main, TRUE)

\* The last outcome is returned, a cancelled error if there is none; a deadline
\* that has passed replaces it.
MainReturns ==
  /\ running = Main /\ ~Continues
  /\ \E v \in {IF outcomes = <<>> THEN "Err" ELSE Last(outcomes)}
                \cup (IF script = "deadline" THEN {"Err"} ELSE {}) : Finish(Main, v)

\* The factory of retry, or the function of a pipe, throws.
MainThrows ==
  /\ running = Main
  /\ \/ script = "retry" /\ Continues
     \/ script \in {"and_then", "or_else"} /\ Continues /\ outcomes # <<>>
     \/ script = "map" /\ ~Continues
  /\ Finish(Main, "exception")

\* A child awaits leaves and children of its own, and ends.
ChildWaits(c, hears) ==
  /\ running = c
  /\ LeafWait(c, hears)
  /\ UNCHANGED slept

ChildCalls(c) ==
  /\ running = c
  /\ CallChild(c)
  /\ UNCHANGED slept

ChildReturns(c, v) == running = c /\ Finish(c, v)

\* Mutant: await_suspend() does not look at done().
NeverDone == FALSE

\* JoinHandle::done()
JoinDone == state[Main] = "done"

\* co_await of the JoinHandle: Main is done, or resumes Capture when it is.
CaptureJoins ==
  /\ running = Capture /\ state[Main] # "destroyed" /\ cont[Main] = None
  /\ IF JoinDone
     THEN /\ slot' = result[Main]
          /\ state' = [state EXCEPT ![Capture] = "done"]
          /\ UNCHANGED cont
     ELSE /\ cont' = [cont EXCEPT ![Main] = Capture]
          /\ state' = [state EXCEPT ![Capture] = "awaiting"]
          /\ UNCHANGED slot
  /\ running' = None
  /\ UNCHANGED <<chainVars, wait, result, queue, batch, pc>>

\* Main has returned to Capture.
CaptureReturns ==
  /\ running = Capture /\ cont[Main] = Capture
  /\ slot' = result[Main]
  /\ state' = [state EXCEPT ![Capture] = "done"]
  /\ running' = None
  /\ UNCHANGED <<chainVars, cont, wait, result, queue, batch, pc>>
-----------------------------------------------------------------------------
\* The loop resumes the next handle of the batch that is not done.
ResumeNext ==
  /\ pc = "batch" /\ running = None /\ batch # <<>>
  /\ batch' = Tail(batch)
  /\ IF state[Head(batch)] = "done"
     THEN UNCHANGED <<running, state>>
     ELSE /\ running' = Head(batch)
          /\ state' = [state EXCEPT ![Head(batch)] = "running"]
  /\ UNCHANGED <<chainVars, cont, wait, result, queue, pc, slot>>

\* cleanup_completed(), and the test of owned_tasks_.
Cleanup ==
  /\ pc = "batch" /\ running = None /\ batch = <<>>
  /\ state' = [f \in Frames |-> IF state[f] = "done" THEN "destroyed" ELSE state[f]]
  /\ pc' = IF state'[Main] = "destroyed" /\ state'[Capture] = "destroyed"
           THEN "returned" ELSE "poll"
  /\ UNCHANGED <<chainVars, cont, wait, result, running, queue, batch, slot>>

\* The reactor, the wheel or a job of the pool completes a leaf.
Fire(f) ==
  /\ pc = "poll" /\ wait[f] = "Pending"
  /\ wait' = [wait EXCEPT ![f] = "Ready"]
  /\ queue' = Append(queue, f)
  /\ UNCHANGED <<chainVars, state, cont, result, running, batch, pc, slot>>

NextBatch ==
  /\ pc = "poll" /\ queue # <<>>
  /\ batch' = queue
  /\ queue' = <<>>
  /\ pc' = "batch"
  /\ UNCHANGED <<chainVars, state, cont, wait, result, running, slot>>

\* The source of the token is asked to stop, by a coroutine of the same loop.
RequestStop ==
  /\ running = None /\ pc # "returned" /\ ~stopped
  /\ stopped' = TRUE
  /\ LET hit == {f \in token \ deaf : wait[f] = "Pending"}
     IN /\ wait' = [f \in Frames |-> IF f \in hit THEN "Cancelled" ELSE wait[f]]
        /\ queue' = queue \o SetToSeq(hit)
  /\ UNCHANGED <<script, limit, token, deaf, outcomes, slept, state, cont, result, running,
                 batch, pc, slot>>

\* run() returns for another reason, and the loop is destroyed with its frames.
Abandon ==
  /\ pc = "poll"
  /\ pc' = "returned"
  /\ state' = [f \in Frames |-> IF state[f] = "none" THEN "none" ELSE "destroyed"]
  /\ wait' = [f \in Frames |-> "none"]
  /\ queue' = <<>>
  /\ UNCHANGED <<chainVars, cont, result, running, batch, slot>>

Run ==
  \/ MainCalls \/ MainSleeps \/ MainReturns \/ MainThrows
  \/ \E c \in Children :
       \/ \E hears \in BOOLEAN : ChildWaits(c, hears)
       \/ ChildCalls(c)
       \/ \E v \in Results : ChildReturns(c, v)
  \/ CaptureJoins \/ CaptureReturns
  \/ ResumeNext \/ Cleanup \/ NextBatch

Next == Run \/ RequestStop \/ Abandon \/ \E f \in Frames : Fire(f)

\* The loop keeps running, every leaf completes in the end, and no child awaits for ever.
Fairness ==
  /\ WF_vars(Run)
  /\ SF_vars(\E c \in Children, v \in Results : ChildReturns(c, v))
  /\ \A f \in Frames : WF_vars(Fire(f))

Spec == Init /\ [][Next]_vars /\ Fairness
-----------------------------------------------------------------------------
TypeOK ==
  /\ script \in Scripts /\ limit \in 0..MaxAttempts
  /\ state \in [Frames -> {"none", "queued", "running", "leaf", "awaiting", "done",
                           "destroyed"}]
  /\ cont \in [Frames -> Frames \cup {None}]
  /\ token \in SUBSET Frames /\ deaf \in SUBSET Frames
  /\ stopped \in BOOLEAN /\ slept \in BOOLEAN
  /\ wait \in [Frames -> {"none", "Pending", "Ready", "Cancelled"}]
  /\ result \in [Frames -> Results \cup {"none"}]
  /\ outcomes \in Seq({"Ok", "Err"})
  /\ running \in Frames \cup {None}
  /\ queue \in Seq(Frames) /\ batch \in Seq(Frames)
  /\ pc \in {"batch", "poll", "returned"}
  /\ slot \in Results \cup {"none"}

Handles == batch \o queue

\* The ways in which frame f will be resumed.
Wakers(f) ==
  Cardinality({i \in DOMAIN Handles : Handles[i] = f})
    + Cardinality({x \in {f} : wait[x] = "Pending"})
    + Cardinality({g \in Frames : cont[g] = f
                                  /\ state[g] \in {"queued", "running", "leaf", "awaiting"}})

(***************************************************************************)
(* A suspended coroutine is resumed by exactly one thing, the loop, its    *)
(* leaf or the coroutine it awaits, and nothing will resume one that runs, *)
(* has ended or is destroyed: no frame is forgotten, resumed twice or      *)
(* resumed after its end, at any depth.                                    *)
(***************************************************************************)
OneWaker ==
  \A f \in Frames :
    Wakers(f) = IF state[f] \in {"queued", "leaf", "awaiting"} THEN 1 ELSE 0

(***************************************************************************)
(* Once the token is stopped, a Task below the one that was given it waits *)
(* only in a leaf without set_cancellation(), at any depth, also in Tasks  *)
(* and leaves awaited after the stop.                                      *)
(***************************************************************************)
TokenReachesLeaf ==
  Main \in token /\ stopped =>
    \A f \in Frames \ {Capture} : wait[f] = "Pending" => f \in deaf

(***************************************************************************)
(* block_on() has the result of its task as soon as there is one, however  *)
(* run() ends, and reads it before the frame is destroyed; it is the one   *)
(* the combinator promises: retry stops at the first success and after     *)
(* max_attempts, a pipe goes on only after the outcome it is for.          *)
(***************************************************************************)
BlockOnResult ==
  /\ running = Capture => state[Main] # "destroyed"
  /\ pc # "batch" => slot = result[Main]
  /\ state[Main] = "done" /\ result[Main] # "exception" /\ script # "deadline" =>
       /\ result[Main] = IF outcomes = <<>> THEN "Err" ELSE Last(outcomes)
       /\ outcomes = <<>> <=> script = "retry" /\ limit = 0
       /\ script = "retry" => Len(outcomes) <= limit
       /\ \A i \in DOMAIN outcomes :
            i < Len(outcomes) => outcomes[i] = IF script = "and_then" THEN "Ok" ELSE "Err"
       /\ script = "retry" /\ result[Main] = "Err" => Len(outcomes) = limit

\* block_on() returns if every leaf completes and every child ends, however they nest.
BlockOnReturns == <>(pc = "returned")
=============================================================================
