------------------------------ MODULE Executor ------------------------------
(***************************************************************************)
(* runtime::Executor (runtime/executor.hpp): one EventLoop and one thread  *)
(* per core, the fault policy, stop(), join() and graceful_stop() with its *)
(* watchdog thread.                                                        *)
(*                                                                         *)
(* A loop is what EventLoop shows of it: run() returns when it was asked   *)
(* to stop or has no task left, or fails in epoll_wait.  Tasks may hang.   *)
(* The loops are stopped one after the other, by whoever stops them.       *)
(***************************************************************************)
EXTENDS Naturals, Sequences, FiniteSets, Functions

CONSTANT NumCores  \* loops_.size()

ASSUME NumCoresAssumption == NumCores \in Nat \ {0}

VARIABLES
  policy,    \* policy_: "FailFast" or "LogOnly", chosen before run() and never changed
  core,      \* each worker thread: where it is in its lambda
  stop,      \* cores whose loop was asked to stop
  graceful,  \* cores whose loop was asked to stop gracefully
  tasks,     \* cores whose loop owns tasks
  faults,    \* faults_: the cores whose run() failed, in order
  main,      \* the thread that owns the Executor: where it is in its call
  next,      \* the core a loop over the cores has reached, per thread
  after,     \* what the owner does after stop(): "run" on, "join", or "never" called it
  drained,   \* graceful_stop()'s drained
  watchdog,  \* graceful_stop()'s thread: "none", "waiting", "stopping", "exited"
  result     \* what run(), join() or graceful_stop() returned

coreVars == <<policy, core, tasks, faults>>
executorVars == <<coreVars, stop, graceful, main, next, after, drained, watchdog, result>>

Cores == 1..NumCores
Owner == 0
Watchdog == NumCores + 1

ExecutorInit ==
  /\ policy \in {"FailFast", "LogOnly"}
  /\ core = [i \in Cores |-> "none"]
  /\ stop = {}
  /\ graceful = {}
  /\ tasks = {}
  /\ faults = <<>>
  /\ main = "setup"
  /\ next = [x \in Cores \cup {Owner, Watchdog} |-> 1]
  /\ after = "never"
  /\ drained = FALSE
  /\ watchdog = "none"
  /\ result = <<"none">>

\* Thread x has dealt with core next[x]; it is through when no core is left.
Through(x) == next[x] = NumCores

Forward(x) == next' = [next EXCEPT ![x] = IF Through(x) THEN 1 ELSE @ + 1]
-----------------------------------------------------------------------------
\* run(): all set-ups come first.  A set-up spawns tasks, or none.
Setup ==
  /\ main = "setup"
  /\ tasks' \in {tasks, tasks \cup {next[Owner]}}
  /\ Forward(Owner)
  /\ main' = IF Through(Owner) THEN "spawn" ELSE "setup"
  /\ UNCHANGED <<policy, core, faults, stop, graceful, after, drained, watchdog, result>>

\* A set-up fails, perhaps after it has spawned tasks: stop_and_join(), and run() returns
\* the error.
SetupFails ==
  /\ main = "setup"
  /\ tasks' \in {tasks, tasks \cup {next[Owner]}}
  /\ stop' = Cores
  /\ main' = "returned"
  /\ result' = <<"setup_error">>
  /\ UNCHANGED <<policy, core, faults, graceful, next, after, drained, watchdog>>

SpawnWorker ==
  /\ main = "spawn"
  /\ core' = [core EXCEPT ![next[Owner]] = "running"]
  /\ Forward(Owner)
  /\ main' = IF Through(Owner) THEN "run" ELSE "spawn"
  /\ UNCHANGED <<policy, tasks, faults, stop, graceful, after, drained, watchdog, result>>
-----------------------------------------------------------------------------
\* The owner calls stop(), join(), stop_and_join() or graceful_stop().
CallStop ==
  /\ main = "run"
  /\ main' = "stop"
  /\ after' \in {"run", "join"}
  /\ UNCHANGED <<coreVars, stop, graceful, next, drained, watchdog, result>>

CallJoin ==
  /\ main = "run"
  /\ main' = "join"
  /\ UNCHANGED <<coreVars, stop, graceful, next, after, drained, watchdog, result>>

\* graceful_stop(), or request_graceful_stop() alone.
CallGracefulStop ==
  /\ main = "run"
  /\ main' \in {"graceful", "request"}
  /\ UNCHANGED <<coreVars, stop, graceful, next, after, drained, watchdog, result>>

StopLoop ==
  /\ main = "stop"
  /\ stop' = stop \cup {next[Owner]}
  /\ Forward(Owner)
  /\ main' = IF Through(Owner) THEN after ELSE "stop"
  /\ UNCHANGED <<coreVars, graceful, after, drained, watchdog, result>>

\* The thread graceful_stop() starts before it joins.
StartedWatchdog == "waiting"

\* request_graceful_stop() on each loop, which graceful_stop() follows with join().
GracefulLoop ==
  /\ main \in {"graceful", "request"}
  /\ graceful' = graceful \cup {next[Owner]}
  /\ Forward(Owner)
  /\ \/ ~Through(Owner) /\ UNCHANGED <<main, watchdog>>
     \/ Through(Owner) /\ main = "request" /\ main' = "run" /\ UNCHANGED watchdog
     \/ Through(Owner) /\ main = "graceful" /\ main' = "join" /\ watchdog' = StartedWatchdog
  /\ UNCHANGED <<coreVars, stop, after, drained, result>>

\* Mutant: join() does not wait for the last thread.
JoinableButLast(i) == core[i] = "exited" \/ i = NumCores

\* t.join() returns.
Joinable(i) == core[i] = "exited"

\* join(): the threads in order; then the first fault, if there is one.
JoinThread ==
  /\ main = "join"
  /\ Joinable(next[Owner])
  /\ Forward(Owner)
  /\ IF Through(Owner)
     THEN /\ result' = IF faults = <<>> THEN <<"Ok">> ELSE <<"fault", Head(faults)>>
          /\ drained' = (watchdog # "none")
          /\ main' = IF watchdog = "none" THEN "returned" ELSE "join_watchdog"
     ELSE UNCHANGED <<result, drained, main>>
  /\ UNCHANGED <<coreVars, stop, graceful, after, watchdog>>

JoinWatchdog ==
  /\ main = "join_watchdog"
  /\ watchdog = "exited"
  /\ main' = "returned"
  /\ UNCHANGED <<coreVars, stop, graceful, next, after, drained, watchdog, result>>
-----------------------------------------------------------------------------
WatchdogSeesDrained ==
  /\ watchdog = "waiting" /\ drained
  /\ watchdog' = "exited"
  /\ UNCHANGED <<coreVars, stop, graceful, main, next, after, drained, result>>

\* The deadline passes; drained is not looked at again.
WatchdogExpires ==
  /\ watchdog = "waiting"
  /\ watchdog' = "stopping"
  /\ UNCHANGED <<coreVars, stop, graceful, main, next, after, drained, result>>

WatchdogStops ==
  /\ watchdog = "stopping"
  /\ stop' = stop \cup {next[Watchdog]}
  /\ Forward(Watchdog)
  /\ watchdog' = IF Through(Watchdog) THEN "exited" ELSE "stopping"
  /\ UNCHANGED <<coreVars, graceful, main, after, drained, result>>
-----------------------------------------------------------------------------
\* The last task of a loop ends.
TasksEnd(i) ==
  /\ core[i] = "running" /\ i \in tasks
  /\ tasks' = tasks \ {i}
  /\ UNCHANGED <<policy, core, faults, stop, graceful, main, next, after, drained, watchdog, result>>

\* Mutant: a graceful stop ends run() like a stop.
EndsOnGraceful(i) == i \in stop \cup graceful \/ i \notin tasks

\* When loop.run() returns Ok.
Ends(i) == i \in stop \/ i \notin tasks

RunReturns(i) ==
  /\ core[i] = "running"
  /\ Ends(i)
  /\ core' = [core EXCEPT ![i] = "teardown"]
  /\ UNCHANGED <<policy, tasks, faults, stop, graceful, main, next, after, drained, watchdog, result>>

RunFails(i) ==
  /\ core[i] = "running"
  /\ core' = [core EXCEPT ![i] = "failed"]
  /\ UNCHANGED <<policy, tasks, faults, stop, graceful, main, next, after, drained, watchdog, result>>

\* Mutant: the fault policy is not applied.
NoPolicy == "teardown"

\* What a worker does after it has recorded its fault.
AfterFault == IF policy = "FailFast" THEN "stopping" ELSE "teardown"

\* faults_.push_back() under faults_mu_.
RecordFault(i) ==
  /\ core[i] = "failed"
  /\ faults' = Append(faults, i)
  /\ core' = [core EXCEPT ![i] = AfterFault]
  /\ UNCHANGED <<policy, tasks, stop, graceful, main, next, after, drained, watchdog, result>>

\* FailFast: request_stop() on every loop.
StopOther(i) ==
  /\ core[i] = "stopping"
  /\ stop' = stop \cup {next[i]}
  /\ Forward(i)
  /\ core' = [core EXCEPT ![i] = IF Through(i) THEN "teardown" ELSE "stopping"]
  /\ UNCHANGED <<policy, tasks, faults, graceful, main, after, drained, watchdog, result>>

\* teardown_(), and the thread ends.
Exit(i) ==
  /\ core[i] = "teardown"
  /\ core' = [core EXCEPT ![i] = "exited"]
  /\ UNCHANGED <<policy, tasks, faults, stop, graceful, main, next, after, drained, watchdog, result>>
-----------------------------------------------------------------------------
CoreStep(i) == RunReturns(i) \/ RecordFault(i) \/ StopOther(i) \/ Exit(i)

WatchdogStep == WatchdogSeesDrained \/ WatchdogExpires \/ WatchdogStops
-----------------------------------------------------------------------------
ExecutorTypeOK ==
  /\ policy \in {"FailFast", "LogOnly"}
  /\ core \in [Cores -> {"none", "running", "failed", "stopping", "teardown", "exited"}]
  /\ stop \in SUBSET Cores
  /\ graceful \in SUBSET Cores
  /\ tasks \in SUBSET Cores
  /\ faults \in Seq(Cores)
  /\ main \in {"setup", "spawn", "run", "stop", "request", "graceful", "join",
               "join_watchdog", "returned"}
  /\ next \in [Cores \cup {Owner, Watchdog} -> Cores]
  /\ after \in {"never", "run", "join"}
  /\ drained \in BOOLEAN
  /\ watchdog \in {"none", "waiting", "stopping", "exited"}

\* When the call that joins has returned, no thread of the Executor is left that
\* could still touch its loops, whoever raced with it to stop them.
ThreadsJoined ==
  main = "returned" =>
    /\ \A i \in Cores : core[i] \in {"none", "exited"}
    /\ watchdog \in {"none", "exited"}

\* No fault is lost: join() and graceful_stop() return Ok only if no run() failed, and
\* otherwise the fault recorded first, although the cores fail concurrently.
FaultsReported ==
  main \in {"join_watchdog", "returned"} /\ result # <<"setup_error">> =>
    IF faults = <<>> THEN result = <<"Ok">> /\ \A i \in Cores : core[i] # "failed"
    ELSE result = <<"fault", Head(faults)>>

\* A loop is left with tasks in flight only by its own failure, a stop() of the owner,
\* another core's failure under FailFast, or the deadline of graceful_stop().
NoWorkCutShort ==
  \A i \in Cores :
    core[i] \in {"teardown", "exited"} /\ i \in tasks =>
      \/ i \in Range(faults)
      \/ policy = "FailFast" /\ faults # <<>>
      \/ watchdog \in {"stopping", "exited"}
      \/ i \in stop /\ after # "never"
=============================================================================
