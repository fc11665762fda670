----------------------------- MODULE ThreadPool -----------------------------
(***************************************************************************)
(* runtime::ThreadPool (runtime/thread_pool.hpp): worker threads that take *)
(* jobs from a Channel, clients that submit jobs, and shutdown(), which    *)
(* closes the channel and joins the workers.  The channel is Channel; this *)
(* module adds the worker loop, the jobs and shutdown().                   *)
(*                                                                         *)
(* A job that throws is caught in worker_loop and handed to on_error_; the *)
(* worker goes on as after a job that returns, so both are FinishJob.      *)
(***************************************************************************)
EXTENDS Channel

CONSTANTS
  Workers          \* the threads of workers_; the other threads are clients

ASSUME WorkersAssumption == Workers \subseteq Threads

VARIABLES
  shutdown,        \* shutdown_
  wpc,             \* worker_loop: "loop" in recv(), "running" a job, "exited"
  spc,             \* shutdown(), per client: "none", "won", "closed", "returned"
  finished         \* history: how many jobs have run to their end

poolVars == <<shutdown, wpc, spc, finished>>
allVars == <<vars, poolVars>>

Clients == Threads \ Workers

PoolTypeOK ==
  /\ TypeOK
  /\ shutdown \in BOOLEAN
  /\ wpc \in [Workers -> {"loop", "running", "exited"}]
  /\ spc \in [Clients -> {"none", "won", "closed", "returned"}]
  /\ finished \in 0..MaxSends

PoolInit ==
  /\ Init
  /\ shutdown = FALSE
  /\ wpc = [w \in Workers |-> "loop"]
  /\ spc = [c \in Clients |-> "none"]
  /\ finished = 0
-----------------------------------------------------------------------------
\* while (auto task = tasks_.recv()): an item starts a job, nullopt ends the loop.
WorkerRecv(w) ==
  /\ wpc[w] = "loop"
  /\ Recv(w)
  /\ wpc' = [wpc EXCEPT ![w] = IF received' # received THEN "running"
                               ELSE IF pc'[w] = "idle" THEN "exited" ELSE "loop"]
  /\ UNCHANGED <<shutdown, spc, finished>>

\* Mutant: a job that throws ends its worker.
MayLeave == {"loop", "exited"}

\* Where a worker goes after a job, whether it returned or threw.
AfterJob == {"loop"}

FinishJob(w) ==
  /\ wpc[w] = "running"
  /\ pc[w] = "idle"
  /\ \E next \in AfterJob : wpc' = [wpc EXCEPT ![w] = next]
  /\ finished' = finished + 1
  /\ UNCHANGED <<vars, shutdown, spc>>

\* Who may call submit() and spawn(): a client that does not destroy the pool, and a job.
MaySubmit(t) ==
  \/ t \in Clients /\ spc[t] = "none"
  \/ t \in Workers /\ wpc[t] = "running"

\* submit() is a blocking send, spawn() a try_send.
Submit(t) == MaySubmit(t) /\ Send(t) /\ UNCHANGED poolVars
Spawn(t) == MaySubmit(t) /\ TrySend(t) /\ UNCHANGED poolVars

(***************************************************************************)
(* shutdown(): shutdown_.exchange(true) decides who closes and joins; any  *)
(* later caller returns at once.                                           *)
(***************************************************************************)
ShutdownExchange(c) ==
  /\ spc[c] = "none"
  /\ pc[c] = "idle"
  /\ shutdown' = TRUE
  /\ spc' = [spc EXCEPT ![c] = IF shutdown THEN "returned" ELSE "won"]
  /\ UNCHANGED <<vars, wpc, finished>>

ShutdownClose(c) ==
  /\ spc[c] = "won"
  /\ Close(c)
  /\ spc' = [spc EXCEPT ![c] = "closed"]
  /\ UNCHANGED <<shutdown, wpc, finished>>

ShutdownJoin(c) ==
  /\ spc[c] = "closed"
  /\ \A w \in Workers : wpc[w] = "exited"
  /\ spc' = [spc EXCEPT ![c] = "returned"]
  /\ UNCHANGED <<vars, shutdown, wpc, finished>>

PoolSpurious(t) == SpuriousWake(t) /\ UNCHANGED poolVars

PoolNext ==
  \/ \E w \in Workers : WorkerRecv(w) \/ FinishJob(w)
  \/ \E t \in Threads : Submit(t) \/ Spawn(t) \/ PoolSpurious(t)
  \/ \E c \in Clients : ShutdownExchange(c) \/ ShutdownClose(c) \/ ShutdownJoin(c)

(***************************************************************************)
(* The operating system runs every thread that can run, and lets it have   *)
(* the mutex; jobs end.  Nobody is obliged to call submit() or shutdown(). *)
(***************************************************************************)
PoolFairness ==
  /\ \A w \in Workers : WF_allVars(WorkerRecv(w)) /\ WF_allVars(FinishJob(w))
  /\ \A t \in Threads : WF_allVars(pc[t] = "sendAwake" /\ Submit(t))
  /\ \A c \in Clients : WF_allVars(ShutdownClose(c)) /\ WF_allVars(ShutdownJoin(c))

PoolSpec == PoolInit /\ [][PoolNext]_allVars /\ PoolFairness
-----------------------------------------------------------------------------
\* shutdown() drains: when the call that joins the workers returns, every job that
\* submit() or spawn() accepted, from a client or from a job, has run to its end.
ShutdownDrains ==
  closed /\ (\A w \in Workers : wpc[w] = "exited") => queue = <<>> /\ finished = Len(sent)

\* Every accepted job is run, with or without a shutdown: after at most MaxSends of them
\* none is left.  The one thing that can hold a job up is that all workers are blocked in
\* a submit() of their jobs to the full queue.
AcceptedJobsFinish ==
  []<>(finished = Len(sent) \/ \A w \in Workers : pc[w] \in SendPhases)

\* The call of shutdown() that joins returns, even when it finds every worker blocked
\* in a submit() to its own full queue.
ShutdownReturns == shutdown ~> \A c \in Clients : spc[c] \notin {"won", "closed"}
=============================================================================
