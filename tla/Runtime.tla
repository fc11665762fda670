------------------------------ MODULE Runtime ------------------------------
(***************************************************************************)
(* runtime::Runtime (runtime/runtime.hpp): an Executor and a blocking pool *)
(* built together, run, and destroyed by the thread that owns them; and    *)
(* the signals its loops wait for (async/signal.hpp).                      *)
(*                                                                         *)
(* One signal is followed: which threads block it, which loops have a      *)
(* signalfd for it, and whether a signal sent to the process is read from  *)
(* a signalfd or reaches a thread that does not block it, whose default    *)
(* action ends the process.  A set-up calls add_signals() at most once,    *)
(* and may fail before or after it.                                        *)
(***************************************************************************)
EXTENDS Executor

VARIABLES
  blocking,  \* enable_blocking_, fixed by the builder
  pool,      \* are the threads of the pool alive?
  blocked,   \* threads whose mask blocks the signal
  signals,   \* cores whose loop was given a SignalSet
  saved,     \* SignalSet::old_mask_: was the signal blocked before, per core?
  signal,    \* "none", "pending" or "default", which has ended the process
  life,      \* ~Runtime(): "alive", "pool", "executor", "destroyed"
  loops      \* the elements of loops_ that are not destroyed

signalVars == <<blocked, signals, saved, signal>>
runtimeVars == <<blocking, pool, signalVars, life, loops>>
vars == <<executorVars, runtimeVars>>

Pool == NumCores + 2  \* stands for all threads of the pool

\* Builder::build(): the loops exist, and the threads of the pool run.
Init ==
  /\ ExecutorInit
  /\ blocking \in BOOLEAN
  /\ pool = blocking
  /\ blocked = {}
  /\ signals = {}
  /\ saved = [i \in Cores |-> FALSE]
  /\ signal = "none"
  /\ life = "alive"
  /\ loops = Cores
-----------------------------------------------------------------------------
\* SignalSet::create() in the set-up of core i, on the owner's thread.
AddSignals(i) ==
  /\ signals' = signals \cup {i}
  /\ saved' = [saved EXCEPT ![i] = Owner \in blocked]
  /\ blocked' = blocked \cup {Owner}

SetupCore ==
  /\ Setup \/ SetupFails
  /\ AddSignals(next[Owner]) \/ UNCHANGED <<blocked, signals, saved>>
  /\ UNCHANGED <<blocking, pool, signal, life, loops>>

\* Mutant: each worker is started right after the set-up of its own core.
InheritedEarly(i) == IF \E j \in signals : j <= i THEN {i} ELSE {}

\* A new thread inherits the mask of the owner, which has run every set-up.
Inherited(i) == IF Owner \in blocked THEN {i} ELSE {}

StartWorker ==
  /\ SpawnWorker
  /\ blocked' = blocked \cup Inherited(next[Owner])
  /\ UNCHANGED <<blocking, pool, signals, saved, signal, life, loops>>

\* The signal is sent to the process while a loop has a signalfd for it.
Kill ==
  /\ signal = "none" /\ signals \cap loops # {}
  /\ signal' = "pending"
  /\ UNCHANGED <<executorVars, blocking, pool, blocked, signals, saved, life, loops>>

Threads ==
  {Owner} \cup {i \in Cores : core[i] \notin {"none", "exited"}}
          \cup {x \in {Pool} : pool}

\* The kernel gives a pending signal to any thread that does not block it.
Delivered ==
  /\ signal = "pending"
  /\ Threads \ blocked # {}
  /\ signal' = "default"
  /\ UNCHANGED <<executorVars, blocking, pool, blocked, signals, saved, life, loops>>

\* SignalAwaiter: the signalfd is readable, and await_resume() reads the signal.
ReadSignal(i) ==
  /\ signal = "pending"
  /\ i \in signals \cap tasks /\ core[i] = "running"
  /\ signal' = "none"
  /\ UNCHANGED <<executorVars, blocking, pool, blocked, signals, saved, life, loops>>
-----------------------------------------------------------------------------
\* ~Runtime(), also of a Runtime that was not joined: pool_ is the last member.
Destroy ==
  /\ life = "alive" /\ main \in {"run", "returned"}
  /\ life' = "pool"
  /\ UNCHANGED <<executorVars, blocking, pool, signalVars, loops>>

\* ~ThreadPool() has joined; ~Executor() begins with stop_and_join().
DestroyPool ==
  /\ life = "pool"
  /\ life' = "executor"
  /\ pool' = FALSE
  /\ IF main = "run" THEN main' = "stop" /\ after' = "join" ELSE UNCHANGED <<main, after>>
  /\ UNCHANGED <<coreVars, stop, graceful, next, drained, watchdog, result, blocking,
                 signalVars, loops>>

\* Mutant: SignalSet::close() leaves the mask alone.
NotRestored(i) == TRUE

\* The mask that SignalSet::close() of core i sets.
Restored(i) == saved[i]

(***************************************************************************)
(* loops_ is destroyed element by element, in an order the language leaves *)
(* open, and the SignalSet of each sets the mask back to its own old one.  *)
(***************************************************************************)
DestroyLoop(i) ==
  /\ life = "executor" /\ main = "returned"
  /\ i \in loops
  /\ loops' = loops \ {i}
  /\ life' = IF loops' = {} THEN "destroyed" ELSE "executor"
  /\ blocked' = IF i \notin signals THEN blocked
                ELSE IF Restored(i) THEN blocked \cup {Owner} ELSE blocked \ {Owner}
  /\ UNCHANGED <<executorVars, blocking, pool, signals, saved, signal>>

OwnerCall ==
  /\ life = "alive"
  /\ CallStop \/ CallJoin \/ CallGracefulStop
  /\ UNCHANGED runtimeVars

OwnerStep ==
  \/ StartWorker
  \/ (StopLoop \/ GracefulLoop \/ JoinThread \/ JoinWatchdog) /\ UNCHANGED runtimeVars
  \/ DestroyPool \/ \E i \in Cores : DestroyLoop(i)

Running == signal # "default"

Step ==
  \/ SetupCore \/ OwnerCall \/ OwnerStep \/ Destroy
  \/ WatchdogStep /\ UNCHANGED runtimeVars
  \/ Kill \/ Delivered
  \/ \E i \in Cores :
       \/ (CoreStep(i) \/ RunFails(i) \/ TasksEnd(i)) /\ UNCHANGED runtimeVars
       \/ ReadSignal(i)

Next == Running /\ Step

(***************************************************************************)
(* Threads run, time passes, and the jobs of the pool end.  A loop that    *)
(* was asked to stop returns: EventLoop's StopReturns.  No task has to end *)
(* and no loop has to fail.                                                *)
(***************************************************************************)
Fairness ==
  /\ WF_vars(Running /\ OwnerStep)
  /\ WF_vars(Running /\ WatchdogStep /\ UNCHANGED runtimeVars)
  /\ \A i \in Cores : WF_vars(Running /\ CoreStep(i) /\ UNCHANGED runtimeVars)

Spec == Init /\ [][Next]_vars /\ Fairness
-----------------------------------------------------------------------------
TypeOK ==
  /\ ExecutorTypeOK
  /\ blocking \in BOOLEAN /\ pool \in BOOLEAN
  /\ blocked \in SUBSET (Cores \cup {Owner})
  /\ signals \in SUBSET Cores
  /\ saved \in [Cores -> BOOLEAN]
  /\ signal \in {"none", "pending", "default"}
  /\ life \in {"alive", "pool", "executor", "destroyed"}
  /\ loops \in SUBSET Cores

(***************************************************************************)
(* After join(), stop_and_join(), graceful_stop() or ~Runtime() no thread  *)
(* of the cores and no watchdog is left, the first fault is what the call  *)
(* returned, and no loop is destroyed while a thread is left that could    *)
(* touch it, the threads of the pool included.                             *)
(***************************************************************************)
JoinIsComplete ==
  /\ ThreadsJoined /\ FaultsReported
  /\ loops # Cores => Threads = {Owner}

(***************************************************************************)
(* A signal some loop has a signalfd for is never given to a thread that   *)
(* does not block it, whichever core's set-up added it, as long as all the *)
(* loops with a signalfd exist.  Once one of them is destroyed, its old    *)
(* mask may let the signal through, although another's signalfd is open.   *)
(* This needs a Runtime without a blocking pool, whose threads are older   *)
(* than the set-ups.                                                       *)
(***************************************************************************)
SignalsCaught == signal = "default" => blocking \/ ~(signals \subseteq loops)

(***************************************************************************)
(* The owner's signal mask is again what it was before the set-ups once    *)
(* the loops are destroyed, if no more than one of them had signals.       *)
(***************************************************************************)
MaskRestored == life = "destroyed" => Owner \notin blocked \/ Cardinality(signals) > 1

(***************************************************************************)
(* Whatever hangs, the calls that promise an end come to it: a failure     *)
(* under FailFast ends every core, graceful_stop() returns, and ~Runtime() *)
(* ends even if nobody stopped or joined the cores.                        *)
(***************************************************************************)
StopsEnd ==
  /\ policy = "FailFast" =>
       (\E i \in Cores : core[i] = "failed")
         ~> ~Running \/ \A j \in Cores : core[j] = "exited"
  /\ main = "graceful" ~> ~Running \/ main = "returned"
  /\ life = "pool" ~> ~Running \/ life = "destroyed"
=============================================================================
