---------------------------- MODULE Combinators ----------------------------
(***************************************************************************)
(* when_all, when_any and timeout (async/combinators.hpp): a parent        *)
(* coroutine spawns one racer per task, shares a state with them and       *)
(* suspends until a racer notifies it.  All of them run on the owner       *)
(* thread of one loop; a racer runs from one suspension to the next.       *)
(*                                                                         *)
(* A task is left open: it suspends in leaf awaiters a few times and ends  *)
(* with Ok or Err, whatever its leaves said.  Cancelled leaves of a sleep  *)
(* and of an I/O wait reach the ready queue by different ways, so the      *)
(* order in which the loop resumes ready handles is left open too.         *)
(***************************************************************************)
EXTENDS Naturals, FiniteSets, SequencesExt

CONSTANTS
  Kinds,        \* the combinators considered: "all", "any" and "timeout"
  Tasks,        \* the tasks a combinator may be given
  Parent,       \* the coroutine that awaits the combinator
  Timer,        \* the racer of a timeout that sleeps
  TrivialMove,  \* does moving from a Result<T> leave its value in place?
  MaxWaits      \* bound of the model: how often a task suspends

ASSUME KindsAssumption == Kinds \subseteq {"all", "any", "timeout"}
ASSUME RacersAssumption ==
  IsFiniteSet(Tasks) /\ Parent \notin Tasks /\ Timer \notin Tasks \cup {Parent}
ASSUME WaitsAssumption == MaxWaits \in Nat \ {0}

VARIABLES
  kind,        \* the combinator that is called, never changed
  racers,      \* its tasks, and Timer for a timeout, never changed
  deaf,        \* tasks that wait in awaiters without set_cancellation(), never changed
  parent,      \* "start", "waiting" or "returned"
  ready,       \* the handles the loop will resume
  leaf,        \* the WaitState of the leaf a racer is suspended in, or "none"
  done,        \* racers that have returned
  waits,       \* how often each racer has suspended
  stop,        \* racers whose stop_source was asked to stop
  remaining,   \* state->remaining
  resolved,    \* state->resolved
  result,      \* state->result
  results,     \* state->results
  returned,    \* what the parent's co_return gives
  finishes     \* history: the outcomes of the racers, in the order of completion

sharedVars == <<remaining, resolved, result, results>>
inputVars == <<kind, racers, deaf>>
vars == <<inputVars, parent, ready, leaf, done, waits, stop, sharedVars, returned, finishes>>

Cancelled == <<"no_task", "cancelled">>
TimedOut == <<"no_task", "timed_out">>
Moved == <<"no_task", "moved_from">>
Outcomes == {"Ok", "Err"}
Values == (Tasks \X Outcomes) \cup {Cancelled, TimedOut, Moved}

Init ==
  /\ kind \in Kinds
  /\ racers \in IF kind = "timeout" THEN {{t, Timer} : t \in Tasks} ELSE SUBSET Tasks
  /\ deaf \in SUBSET (racers \ {Timer})
  /\ parent = "start"
  /\ ready = <<>>
  /\ leaf = [t \in racers |-> "none"]
  /\ done = {}
  /\ waits = [t \in racers |-> 0]
  /\ stop = {}
  /\ remaining = Cardinality(racers)
  /\ resolved = FALSE
  /\ result = Cancelled
  /\ results = [t \in racers |-> Cancelled]
  /\ returned = Cancelled
  /\ finishes = <<>>

\* The parent's first run: it spawns the racers, none of which has run when it suspends.
\* Without tasks when_all returns no results and when_any an error, at once.
Start ==
  /\ parent = "start"
  /\ parent' = IF racers = {} THEN "returned" ELSE "waiting"
  /\ returned' = IF racers = {} /\ kind = "all" THEN results ELSE returned
  /\ ready' = SetToSeq(racers)
  /\ UNCHANGED <<inputVars, leaf, done, waits, stop, sharedVars, finishes>>
-----------------------------------------------------------------------------
\* The leaf a racer waits in completes: an event, or the end of a sleep.
Fire(t) ==
  /\ leaf[t] = "Pending"
  /\ leaf' = [leaf EXCEPT ![t] = "Ready"]
  /\ ready' = Append(ready, t)
  /\ UNCHANGED <<inputVars, parent, done, waits, stop, sharedVars, returned, finishes>>

(***************************************************************************)
(* A racer suspends in a leaf; q is the rest of the ready handles.  If its *)
(* token was stopped before, the stop callback runs as it is installed.    *)
(***************************************************************************)
Suspend(t, q) ==
  /\ waits[t] < IF t = Timer THEN 1 ELSE MaxWaits
  /\ waits' = [waits EXCEPT ![t] = @ + 1]
  /\ LET stopped == t \in stop \ deaf
     IN /\ leaf' = [leaf EXCEPT ![t] = IF stopped THEN "Cancelled" ELSE "Pending"]
        /\ ready' = IF stopped THEN Append(q, t) ELSE q
  /\ UNCHANGED <<inputVars, parent, done, stop, sharedVars, returned, finishes>>

\* The task of racer t is over; the racer is about to return.
RacerReturns(t) ==
  /\ done' = done \cup {t}
  /\ UNCHANGED <<inputVars, parent, waits, returned>>

\* Mutant: the losers are left waiting.
WokenNone(t, S) == {}

\* Mutant: the callback of a leaf that is already Ready wakes its racer once more.
WokenReadyToo(t, S) == {u \in S \ (deaf \cup {t}) : leaf[u] \in {"Pending", "Ready"}}

\* The racers of S whose stop callback wakes them as racer t requests their stop.
Woken(t, S) == {u \in S \ deaf : leaf[u] = "Pending"}

(***************************************************************************)
(* Racer t calls request_stop() on the sources of S: the callbacks of      *)
(* their pending leaves run at once.  Then it notifies the waiter.         *)
(***************************************************************************)
StopAndNotify(t, S, q) ==
  /\ stop' = stop \cup S
  /\ leaf' = [u \in racers |-> IF u = t THEN "none"
                              ELSE IF u \in Woken(t, S) THEN "Cancelled" ELSE leaf[u]]
  /\ ready' = q \o SetToSeq(Woken(t, S)) \o <<Parent>>

\* Racer t returns without touching the waiter.
Quiet(t, q) ==
  /\ leaf' = [leaf EXCEPT ![t] = "none"]
  /\ ready' = q
  /\ UNCHANGED stop

\* Mutant: the last but one notifies.
LastButOne(n) == n = 1

\* Does the racer that leaves n others running notify the waiter of when_all?
LastOne(n) == n = 0

\* when_all_racer(); nobody is cancelled.
FinishAll(t, r, q) ==
  /\ results' = [results EXCEPT ![t] = <<t, r>>]
  /\ remaining' = remaining - 1
  /\ IF LastOne(remaining') THEN StopAndNotify(t, {}, q) ELSE Quiet(t, q)
  /\ UNCHANGED <<resolved, result>>

\* Mutant: a later success replaces the first one.
DecidesAgain(r, n) == r = "Ok" \/ (~resolved /\ n = 0)

\* when_any_racer(): the first success, or the last one to fail, resolves.
Decides(r, n) == ~resolved /\ (r = "Ok" \/ n = 0)

FinishAny(t, r, q) ==
  /\ remaining' = remaining - 1
  /\ IF Decides(r, remaining')
     THEN /\ resolved' = TRUE
          /\ result' = <<t, r>>
          /\ StopAndNotify(t, racers, q)
     ELSE Quiet(t, q) /\ UNCHANGED <<resolved, result>>
  /\ UNCHANGED results

\* timeout_task_racer() and timeout_timer_racer(): the first to complete stops the other.
FinishTimeout(t, value, q) ==
  /\ IF ~resolved
     THEN /\ resolved' = TRUE
          /\ result' = value
          /\ StopAndNotify(t, racers \ {t}, q)
     ELSE Quiet(t, q) /\ UNCHANGED <<resolved, result>>
  /\ UNCHANGED <<remaining, results>>

\* timeout_timer_racer(): a cancelled sleep resolves nothing.
TimerEnds(q) ==
  /\ IF leaf[Timer] = "Cancelled"
     THEN Quiet(Timer, q) /\ UNCHANGED <<sharedVars, finishes>>
     ELSE /\ FinishTimeout(Timer, TimedOut, q)
          /\ finishes' = Append(finishes, TimedOut)
  /\ RacerReturns(Timer)

TaskEnds(t, r, q) ==
  /\ \/ kind = "all" /\ FinishAll(t, r, q)
     \/ kind = "any" /\ FinishAny(t, r, q)
     \/ kind = "timeout" /\ FinishTimeout(t, <<t, r>>, q)
  /\ finishes' = Append(finishes, <<t, r>>)
  /\ RacerReturns(t)

(***************************************************************************)
(* await_resume() of the combinator's awaiter, and the co_return.  For     *)
(* when_all the first hands out the results.  For the other two it moves   *)
(* the result into a temporary that is discarded, and the co_return moves  *)
(* from state->result a second time.                                       *)
(***************************************************************************)
ParentReturns(q) ==
  /\ parent' = "returned"
  /\ returned' = IF kind = "all" THEN results
                 ELSE IF TrivialMove THEN result ELSE Moved
  /\ ready' = q
  /\ UNCHANGED <<inputVars, leaf, done, waits, stop, sharedVars, finishes>>

\* The loop resumes one of the ready handles.
Resume ==
  \E i \in DOMAIN ready :
    LET h == ready[i]
        q == RemoveAt(ready, i)
    IN \/ h = Parent /\ ParentReturns(q)
       \/ h # Parent /\ Suspend(h, q)
       \/ h = Timer /\ TimerEnds(q)
       \/ h \in racers \ {Timer} /\ \E r \in Outcomes : TaskEnds(h, r, q)

Next == Start \/ Resume \/ \E t \in racers : Fire(t)

Spec == Init /\ [][Next]_vars

(***************************************************************************)
(* The loop keeps resuming what is ready, and the wheel ends the sleep of  *)
(* a timeout.  No other leaf has to complete: a peer may stay silent.      *)
(***************************************************************************)
Fairness ==
  /\ WF_vars(Start)
  /\ WF_vars(Resume)
  /\ WF_vars(Timer \in racers /\ Fire(Timer))

FairSpec == Spec /\ Fairness
-----------------------------------------------------------------------------
TypeOK ==
  /\ kind \in Kinds
  /\ racers \subseteq Tasks \cup {Timer}
  /\ deaf \subseteq racers \ {Timer}
  /\ parent \in {"start", "waiting", "returned"}
  /\ ready \in Seq(racers \cup {Parent})
  /\ leaf \in [racers -> {"none", "Pending", "Ready", "Cancelled"}]
  /\ done \subseteq racers
  /\ waits \in [racers -> 0..MaxWaits]
  /\ stop \subseteq racers
  /\ remaining \in 0..Cardinality(racers)
  /\ resolved \in BOOLEAN
  /\ result \in Values
  /\ results \in [racers -> Values]
  /\ returned \in IF kind = "all" /\ parent = "returned" THEN [racers -> Values] ELSE Values
  /\ finishes \in Seq(Values)

\* The places in finishes of the outcomes that can decide a when_any or a timeout.
Deciding ==
  LET good == {i \in DOMAIN finishes : finishes[i][2] = "Ok"}
  IN IF kind = "timeout" THEN DOMAIN finishes
     ELSE IF good # {} THEN good
     ELSE {i \in DOMAIN finishes : i = Cardinality(racers)}

Settled == IF kind = "all" THEN remaining = 0 ELSE resolved

\* when_any is resolved by its first success, or by its last failure when all fail, and
\* timeout by the first of its two to complete: as soon as there is such an outcome,
\* and never again after it, however many losers complete later.
WinnerStands ==
  kind # "all" =>
    /\ resolved <=> Deciding # {}
    /\ resolved => \E i \in Deciding : result = finishes[i] /\ \A j \in Deciding : i <= j

(***************************************************************************)
(* The parent is woken exactly once and never too late: it is in the ready *)
(* queue, once, from the step that settles the combinator until it         *)
(* returns, and its handle, which dangles after that, is never queued      *)
(* again.  A racer is resumed once per suspension although its leaf and    *)
(* the winner's request_stop() race to wake it, and not after its return.  *)
(***************************************************************************)
WokenOnce ==
  /\ Parent \in Range(ready) <=> parent = "waiting" /\ Settled
  /\ parent = "returned" /\ racers # {} => Settled
  /\ IsInjective(ready)
  /\ parent # "start" =>
       \A t \in racers :
         t \in Range(ready) <=> t \notin done /\ leaf[t] # "Pending"

\* when_all returns when every task has ended, with each result at its own place.
AllResultsInPlace ==
  kind = "all" /\ parent = "returned" =>
    done = racers /\ \A t \in racers : returned[t] \in Range(finishes) /\ returned[t][1] = t

(***************************************************************************)
(* The parent of a timeout always returns, even if the task's leaf never   *)
(* completes and even if it cannot be cancelled.  Every loser that listens *)
(* to its token ends, without any event for its leaf: the loop, which runs *)
(* until all its tasks are done, is not kept alive by it.                  *)
(***************************************************************************)
RacesEnd ==
  /\ kind = "timeout" => <>(parent = "returned")
  /\ resolved ~> racers \ deaf \subseteq done

\* What the combinators return is the result they were resolved with.
ReturnsTheResult == kind # "all" /\ parent = "returned" => returned = result
=============================================================================
