----------------------------- MODULE FileProofs -----------------------------
(***************************************************************************)
(* Proofs about File and the Bridge under it, for every set of calls and   *)
(* workers, every capacity of the pool's channel and every file size.      *)
(***************************************************************************)
EXTENDS File, QueueLemmas, TLAPS

\* Zenon proves most leaves; one with arithmetic, records or sequences cites SMT.
USE ZenonT(30)
USE NoCallAssumption, FileAssumption, BridgeCapacityAssumption
    DEF Holders, Values, Shared, Awaited, Signalled, Destructor, CloseLocks

\* Who runs the function of a call.
Runs(w, c) == job[w] = c

\* A function is in the pool's queue or with one worker while its closure exists, and it
\* runs once.
QueueInv ==
  /\ IsInjective(items)
  /\ \A c \in Calls : "closure" \in refs[c] <=> c \in Range(items) \/ \E w \in Workers : Runs(w, c)
  /\ \A w \in Workers : job[w] \notin Range(items)
  /\ \A v, w \in Workers : job[v] = job[w] /\ job[w] # NoCall => v = w
  /\ \A w \in Workers : job[w] # NoCall <=> wpc[w] \in {"run", "notify", "release"}
  /\ \A c \in Range(items) : outcome[c] = "none"
  /\ \A w \in Workers : job[w] # NoCall => (outcome[job[w]] = "none" <=> wpc[w] = "run")

\* What the loop's thread may conclude from the eventfd and from the state of a call.
CallInv ==
  /\ \A c \in Calls : call[c] = "idle" => refs[c] = {} /\ outcome[c] = "none" /\ got[c] = "none"
  /\ \A c \in counter :
       outcome[c] # "none" /\ \A w \in Workers : Runs(w, c) => wpc[w] = "release"
  /\ \A c \in Calls : call[c] = "ready" => c \in counter
  /\ \A c \in Calls :
       outcome[c] # "none" => outcome[c] \in {"Ok", "Err"} /\ result[c] = outcome[c]

\* Functions inside the File's mutex, and what keeps its descriptor open.
InUseInv ==
  /\ \A w \in Workers : at[w] # "begin" => wpc[w] = "run" /\ job[w] # Opener
  /\ \A w \in Workers : at[w] # "begin" /\ job[w] \in paths \cap Writers => torn
  /\ \A w \in Workers : at[w] = "append" => job[w] \in paths \cap Writers
  /\ fd # "none" \/ closing => outcome[Opener] # "none"

\* The file before any write, or after a whole one.
Uniform == \/ \A i \in Cells : content[i] = NoCall
           \/ \E v \in Writers : \A i \in Cells : content[i] = v

\* The file while worker w writes to it: its own cells, and what was there before.
HalfWritten(w) ==
  /\ \A i \in Cells : i <= done[w] => content[i] = job[w]
  /\ \/ \A i \in Cells : i > done[w] => content[i] = NoCall
     \/ \E v \in Writers : \A i \in Cells : i > done[w] => content[i] = v

\* What worker w has read so far is the beginning of the file.
ReadSoFar(w) ==
  /\ Len(data[job[w]]) = done[w]
  /\ \A i \in 1..done[w] : data[job[w]][i] = content[i] /\ content[i] # NoCall

ContentInv ==
  ~torn =>
    /\ (\A w \in Workers : ~(at[w] = "io" /\ job[w] \in Writers)) => Uniform
    /\ \A w \in Workers : at[w] = "io" /\ job[w] \in Writers => HalfWritten(w)
    /\ \A w \in Workers : at[w] = "io" /\ job[w] \in Readers \cap Ops => ReadSoFar(w)

\* A reader that has not begun has read nothing.
DataInv ==
  \A c \in Calls :
    outcome[c] = "none" /\ (\A w \in Workers : Runs(w, c) => at[w] = "begin") => data[c] = <<>>

BridgeInv == BridgeTypeOK /\ QueueInv /\ CallInv /\ OutcomeDelivered

IInv == TypeOK /\ BridgeInv /\ InUseInv /\ FileOpenInUse /\ ContentInv /\ DataInv /\ ReadsWhole
-----------------------------------------------------------------------------
\* The queue of the pool takes a function at its end, if it is open and not full, and
\* gives them out from its head.
LEMMA PoolSteps ==
  ASSUME BridgeTypeOK
  PROVE  /\ \A c \in Calls : Pool!Enqueue(c) =>
              /\ items' \in Seq(Calls) /\ Range(items') = Range(items) \cup {c}
              /\ Capacity > 0 => Len(items') <= Capacity
              /\ IsInjective(items) /\ c \notin Range(items) => IsInjective(items')
         /\ Pool!Dequeue =>
              /\ items' \in Seq(Calls) /\ Head(items) \in Calls
              /\ Range(items) = Range(items') \cup {Head(items)}
              /\ Capacity > 0 => Len(items') <= Capacity
              /\ IsInjective(items) => IsInjective(items') /\ Head(items) \notin Range(items')
<1>0. items \in Seq(Calls) /\ (Capacity > 0 => Len(items) <= Capacity)
  BY DEF BridgeTypeOK
<1>1. ASSUME NEW c \in Calls, Pool!Enqueue(c)
      PROVE  /\ items' \in Seq(Calls) /\ Range(items') = Range(items) \cup {c}
             /\ Capacity > 0 => Len(items') <= Capacity
             /\ IsInjective(items) /\ c \notin Range(items) => IsInjective(items')
  <2>1. items' = Append(items, c) /\ (Capacity = 0 \/ Len(items) < Capacity)
    BY <1>1 DEF Pool!Enqueue
  <2>2. Capacity > 0 => Len(items') <= Capacity
    BY <1>0, <2>1, SMTT(20)
  <2> QED
    BY <1>0, <2>1, <2>2, Appended
<1>2. ASSUME Pool!Dequeue
      PROVE  /\ items' \in Seq(Calls) /\ Head(items) \in Calls
             /\ Range(items) = Range(items') \cup {Head(items)}
             /\ Capacity > 0 => Len(items') <= Capacity
             /\ IsInjective(items) => IsInjective(items') /\ Head(items) \notin Range(items')
  <2>1. items' = Tail(items) /\ items # <<>>
    BY <1>2 DEF Pool!Dequeue
  <2>2. Capacity > 0 => Len(items') <= Capacity
    BY <1>0, <2>1, SMTT(20)
  <2> QED
    BY <1>0, <2>1, <2>2, Popped
<1> QED
  BY <1>1, <1>2

\* The types of the functions of a call and of a worker, which single leaves use.
LEMMA BridgeTypes ==
  ASSUME BridgeTypeOK
  PROVE  /\ items \in Seq(Calls) /\ Range(items) \subseteq Calls
         /\ wpc \in [Workers -> {"recv", "run", "notify", "release", "exited"}]
         /\ job \in [Workers -> Calls \cup {NoCall}]
         /\ call \in [Calls -> {"idle", "suspended", "ready", "returned", "destroyed"}]
         /\ refs \in [Calls -> SUBSET Holders]
         /\ result \in [Calls -> Values]
         /\ outcome \in [Calls -> Values]
         /\ got \in [Calls -> Values]
         /\ counter \in SUBSET Calls
<1>1. items \in Seq(Calls)
  BY DEF BridgeTypeOK
<1>2. Range(items) \subseteq Calls
  BY <1>1, ElementsOf
<1> QED
  BY <1>1, <1>2 DEF BridgeTypeOK

\* await_suspend(): the call was idle, so that no closure of it exists yet.
LEMMA SuspendInv ==
  ASSUME BridgeInv, NEW c \in Calls, Suspend(c)
  PROVE  BridgeInv'
<1> USE DEF BridgeInv
<1>1. /\ call[c] = "idle" /\ Pool!Enqueue(c)
      /\ call' = [call EXCEPT ![c] = "suspended"]
      /\ refs' = [refs EXCEPT ![c] = Holders]
      /\ registered' = registered \cup {c}
      /\ UNCHANGED <<shut, wpc, job, result, outcome, got, counter, torn_down>>
  BY DEF Suspend, workerVars, Pool!Enqueue
<1>2. /\ items' \in Seq(Calls) /\ Range(items') = Range(items) \cup {c}
      /\ Capacity > 0 => Len(items') <= Capacity
      /\ IsInjective(items) /\ c \notin Range(items) => IsInjective(items')
  BY <1>1, PoolSteps
<1>3. /\ refs[c] = {} /\ outcome[c] = "none" /\ got[c] = "none"
      /\ c \notin Range(items) /\ \A w \in Workers : ~Runs(w, c)
  <2>1. refs[c] = {} /\ outcome[c] = "none" /\ got[c] = "none"
    BY <1>1 DEF CallInv
  <2> QED
    BY <2>1 DEF QueueInv
<1>4. BridgeTypeOK'
  <2>1. /\ call' \in [Calls -> {"idle", "suspended", "ready", "returned", "destroyed"}]
        /\ refs' \in [Calls -> SUBSET Holders] /\ registered' \in SUBSET Calls
    BY <1>1 DEF BridgeTypeOK
  <2> QED
    BY <1>1, <1>2, <2>1 DEF BridgeTypeOK
<1>5. QueueInv'
  <2>1. \A d \in Calls : "closure" \in refs'[d] <=> d = c \/ "closure" \in refs[d]
    BY <1>1, BridgeTypes
  <2> QED
    BY <1>1, <1>2, <1>3, <2>1, BridgeTypes, SMTT(20) DEF QueueInv, Runs
<1>6. CallInv'
  <2>1. \A d \in Calls : d # c => call'[d] = call[d] /\ refs'[d] = refs[d]
    BY <1>1, BridgeTypes
  <2>2. call'[c] = "suspended"
    BY <1>1, BridgeTypes
  <2> QED
    BY <1>1, <2>1, <2>2, SMTT(20) DEF CallInv, Runs
<1>7. OutcomeDelivered'
  <2>1. \A d \in Calls : d # c => call'[d] = call[d] /\ refs'[d] = refs[d]
    BY <1>1, BridgeTypes
  <2>2. call'[c] = "suspended"
    BY <1>1, BridgeTypes
  <2> QED
    BY <1>1, <1>3, <2>1, <2>2 DEF OutcomeDelivered
<1> QED
  BY <1>4, <1>5, <1>6, <1>7

\* A refusal, a wake-up and the end of a co_await concern one call and no queued function.
LEMMA LoopInv ==
  ASSUME BridgeInv, NEW c \in Calls, Refuse(c) \/ Wake(c) \/ Resume(c)
  PROVE  BridgeInv'
<1> USE DEF BridgeInv
<1>1. /\ UNCHANGED <<items, shut, wpc, job, result, outcome, torn_down>>
      /\ counter' \in {counter, counter \ {c}} /\ registered' \in SUBSET registered
      /\ \E v \in {"ready", "returned"} : call' = [call EXCEPT ![c] = v]
      /\ got' = got \/ \E v \in Values : got' = [got EXCEPT ![c] = v]
      /\ refs' = refs \/ refs' = [refs EXCEPT ![c] = @ \ {"frame"}]
  BY BridgeTypes DEF Refuse, Wake, Resume, poolVars, workerVars
<1>2. /\ \A d \in Calls : d # c => call'[d] = call[d] /\ got'[d] = got[d] /\ refs'[d] = refs[d]
      /\ call'[c] \in {"ready", "returned"}
      /\ refs'[c] \subseteq refs[c] /\ ("closure" \in refs'[c] <=> "closure" \in refs[c])
  BY <1>1, BridgeTypes, SMTT(20)
<1>3. BridgeTypeOK'
  <2>1. call' \in [Calls -> {"idle", "suspended", "ready", "returned", "destroyed"}]
    BY <1>1, BridgeTypes
  <2>2. got' \in [Calls -> Values]
    BY <1>1, BridgeTypes
  <2>3. refs' \in [Calls -> SUBSET Holders]
    BY <1>1, BridgeTypes, SMTT(20)
  <2> QED
    BY <1>1, <2>1, <2>2, <2>3 DEF BridgeTypeOK
<1>4. QueueInv'
  <2>1. \A d \in Calls : "closure" \in refs'[d] <=> "closure" \in refs[d]
    BY <1>2
  <2> QED
    BY <1>1, <2>1, SMTT(20) DEF QueueInv, Runs
<1>5. CallInv'
  <2>1. call'[c] = "ready" => c \in counter'
    <3>1. CASE Wake(c)
      BY <3>1 DEF Wake
    <3>2. CASE Refuse(c) \/ Resume(c)
      BY <1>2, <3>2, BridgeTypes DEF Refuse, Resume
    <3> QED
      BY <3>1, <3>2
  <2> QED
    BY <1>1, <1>2, <2>1, SMTT(20) DEF CallInv, Runs
<1>6. OutcomeDelivered'
  <2>1. call'[c] = "returned" /\ got'[c] # "refused" => got'[c] = outcome[c] /\ got'[c] # "none"
    <3>1. CASE Refuse(c)
      BY <3>1, BridgeTypes DEF Refuse
    <3>2. CASE Wake(c)
      BY <3>2, BridgeTypes DEF Wake
    <3>3. CASE Resume(c)
      <4>1. got'[c] = result[c] /\ call[c] = "ready"
        BY <3>3, BridgeTypes DEF Resume
      <4> QED
        BY <4>1 DEF CallInv
    <3> QED
      BY <3>1, <3>2, <3>3
  <2>2. got'[c] = "refused" => outcome[c] = "none" /\ refs'[c] = {}
    <3>1. CASE Refuse(c)
      BY <1>2, <3>1 DEF Refuse, CallInv
    <3>2. CASE Wake(c)
      BY <3>2, <1>2 DEF Wake, OutcomeDelivered
    <3>3. CASE Resume(c)
      <4>1. got'[c] = result[c] /\ call[c] = "ready"
        BY <3>3, BridgeTypes DEF Resume
      <4> QED
        BY <4>1 DEF CallInv
    <3> QED
      BY <3>1, <3>2, <3>3
  <2> QED
    BY <1>1, <1>2, <2>1, <2>2 DEF OutcomeDelivered
<1> QED
  BY <1>3, <1>4, <1>5, <1>6

\* The loop is destroyed: the frames go, the closures stay.
LEMMA TearDownInv ==
  ASSUME BridgeInv, TearDown
  PROVE  BridgeInv'
<1> USE DEF BridgeInv
<1>1. /\ UNCHANGED <<items, shut, wpc, job, result, outcome, got, counter>>
      /\ torn_down' = TRUE /\ registered' = {}
      /\ call' = [c \in Calls |-> IF call[c] \in {"suspended", "ready"}
                                  THEN "destroyed" ELSE call[c]]
      /\ refs' = [c \in Calls |-> refs[c] \ {"frame"}]
  BY DEF TearDown, poolVars, workerVars
<1>2. \A c \in Calls : /\ call'[c] \in {call[c], "destroyed"} /\ call'[c] # "ready"
                       /\ refs'[c] = refs[c] \ {"frame"}
  BY <1>1
<1>3. BridgeTypeOK'
  <2>1. call' \in [Calls -> {"idle", "suspended", "ready", "returned", "destroyed"}]
    BY <1>1, BridgeTypes
  <2>2. refs' \in [Calls -> SUBSET Holders]
    BY <1>1, BridgeTypes
  <2> QED
    BY <1>1, <2>1, <2>2 DEF BridgeTypeOK
<1>4. QueueInv'
  <2>1. \A d \in Calls : "closure" \in refs'[d] <=> "closure" \in refs[d]
    BY <1>2
  <2> QED
    BY <1>1, <2>1 DEF QueueInv, Runs
<1>5. CallInv'
  BY <1>1, <1>2, SMTT(20) DEF CallInv, Runs
<1>6. OutcomeDelivered'
  BY <1>1, <1>2 DEF OutcomeDelivered
<1> QED
  BY <1>3, <1>4, <1>5, <1>6

\* A worker takes the function at the head of the queue, which nobody else holds.
LEMMA WorkerRecvInv ==
  ASSUME BridgeInv, NEW w \in Workers, WorkerRecv(w)
  PROVE  BridgeInv'
<1> USE DEF BridgeInv
<1>1. /\ wpc[w] = "recv" /\ wpc' = [wpc EXCEPT ![w] = "run"]
      /\ Pool!Dequeue /\ job' = [job EXCEPT ![w] = Head(items)]
      /\ UNCHANGED <<shut, call, refs, result, outcome, got, counter, registered, torn_down>>
  BY DEF WorkerRecv, At, Pool!Dequeue
<1>2. /\ items' \in Seq(Calls) /\ Head(items) \in Calls
      /\ Range(items) = Range(items') \cup {Head(items)}
      /\ Capacity > 0 => Len(items') <= Capacity
      /\ IsInjective(items') /\ Head(items) \notin Range(items')
  BY <1>1, PoolSteps DEF QueueInv
<1>3. /\ job'[w] = Head(items) /\ wpc'[w] = "run" /\ job[w] = NoCall
      /\ \A v \in Workers : v # w => job'[v] = job[v] /\ wpc'[v] = wpc[v]
      /\ \A v \in Workers : job[v] # Head(items)
  BY <1>1, <1>2, BridgeTypes, SMTT(20) DEF QueueInv
<1>4. BridgeTypeOK'
  <2>1. wpc' \in [Workers -> {"recv", "run", "notify", "release", "exited"}]
    BY <1>1, BridgeTypes
  <2>2. job' \in [Workers -> Calls \cup {NoCall}]
    BY <1>1, <1>2, BridgeTypes
  <2> QED
    BY <1>1, <1>2, <2>1, <2>2 DEF BridgeTypeOK
<1>5. QueueInv'
  <2>1. \A c \in Calls : (c \in Range(items') \/ \E v \in Workers : job'[v] = c)
                           <=> (c \in Range(items) \/ \E v \in Workers : job[v] = c)
    BY <1>2, <1>3
  <2>2. \A c \in Calls :
          "closure" \in refs'[c] <=> c \in Range(items') \/ \E v \in Workers : job'[v] = c
    BY <1>1, <2>1 DEF QueueInv, Runs
  <2>3. \A v \in Workers : job'[v] \notin Range(items')
    BY <1>2, <1>3, SMTT(20) DEF QueueInv
  <2>4. \A u, v \in Workers : job'[u] = job'[v] /\ job'[v] # NoCall => u = v
    BY <1>3, SMTT(20) DEF QueueInv
  <2>5. \A v \in Workers : /\ job'[v] # NoCall <=> wpc'[v] \in {"run", "notify", "release"}
                           /\ job'[v] # NoCall => (outcome[job'[v]] = "none" <=> wpc'[v] = "run")
    BY <1>2, <1>3, SMTT(20) DEF QueueInv
  <2>6. \A c \in Range(items') : outcome'[c] = "none"
    BY <1>1, <1>2 DEF QueueInv
  <2> QED
    BY <1>1, <1>2, <2>2, <2>3, <2>4, <2>5, <2>6 DEF QueueInv, Runs
<1>6. CallInv'
  <2>1. \A c \in counter : c # Head(items)
    BY <1>2 DEF QueueInv, CallInv
  <2> QED
    BY <1>1, <1>3, <2>1, SMTT(20) DEF CallInv, Runs
<1>7. OutcomeDelivered'
  BY <1>1 DEF OutcomeDelivered
<1> QED
  BY <1>4, <1>5, <1>6, <1>7

\* Closing the channel and the exit of a worker without a function move no call.
LEMMA QuietInv ==
  ASSUME BridgeInv, Shutdown \/ \E w \in Workers : WorkerExit(w)
  PROVE  BridgeInv'
<1> USE DEF BridgeInv
<1>1. UNCHANGED <<items, job, call, refs, result, outcome, got, counter, registered, torn_down>>
  BY DEF Shutdown, WorkerExit, Pool!Shut, poolVars, workerVars
<1>2. /\ \A w \in Workers : wpc'[w] = wpc[w] \/ (wpc[w] = "recv" /\ wpc'[w] = "exited")
      /\ wpc' \in [Workers -> {"recv", "run", "notify", "release", "exited"}]
  <2>1. CASE Shutdown
    <3>1. wpc' = wpc
      BY <2>1 DEF Shutdown, workerVars
    <3> QED
      BY <3>1, BridgeTypes
  <2>2. ASSUME NEW v \in Workers, WorkerExit(v)
        PROVE  /\ \A w \in Workers : wpc'[w] = wpc[w] \/ (wpc[w] = "recv" /\ wpc'[w] = "exited")
               /\ wpc' \in [Workers -> {"recv", "run", "notify", "release", "exited"}]
    <3>1. wpc[v] = "recv" /\ wpc' = [wpc EXCEPT ![v] = "exited"]
      BY <2>2 DEF WorkerExit, At
    <3> QED
      BY <3>1, BridgeTypes
  <2> QED
    BY <2>1, <2>2
<1>3. BridgeTypeOK'
  <2>1. shut' \in BOOLEAN
    <3>1. CASE Shutdown
      BY <3>1 DEF Shutdown, Pool!Shut
    <3>2. ASSUME NEW v \in Workers, WorkerExit(v)
          PROVE  shut' \in BOOLEAN
      BY <3>2 DEF BridgeTypeOK, WorkerExit, poolVars
    <3> QED
      BY <3>1, <3>2
  <2> QED
    BY <1>1, <1>2, <2>1 DEF BridgeTypeOK
<1>4. QueueInv'
  BY <1>1, <1>2, SMTT(20) DEF QueueInv, Runs
<1>5. CallInv' /\ OutcomeDelivered'
  BY <1>1, <1>2, SMTT(20) DEF CallInv, OutcomeDelivered, Runs
<1> QED
  BY <1>3, <1>4, <1>5

\* f() runs and its result is stored, once, before the eventfd is written.
LEMMA RunFunctionInv ==
  ASSUME BridgeInv, NEW w \in Workers, NEW o \in {"Ok", "Err"}, RunFunction(w, o)
  PROVE  BridgeInv'
<1> USE DEF BridgeInv
<1> DEFINE c == job[w]
<1>1. /\ wpc[w] = "run" /\ wpc' = [wpc EXCEPT ![w] = "notify"]
      /\ outcome' = [outcome EXCEPT ![c] = o] /\ result' = [result EXCEPT ![c] = o]
      /\ UNCHANGED <<items, shut, job, call, refs, got, counter, registered, torn_down>>
  BY DEF RunFunction, At, poolVars
<1>2. /\ c \in Calls /\ outcome[c] = "none" /\ "closure" \in refs[c] /\ c \notin Range(items)
      /\ \A v \in Workers : job[v] = c => v = w
  <2>1. job[w] # NoCall
    BY <1>1 DEF QueueInv
  <2>2. c \in Calls
    BY <2>1, BridgeTypes
  <2> QED
    BY <1>1, <2>1, <2>2 DEF QueueInv, Runs
<1>3. /\ wpc'[w] = "notify" /\ \A v \in Workers : v # w => wpc'[v] = wpc[v]
      /\ outcome'[c] = o /\ result'[c] = o
      /\ \A d \in Calls : d # c => outcome'[d] = outcome[d] /\ result'[d] = result[d]
  BY <1>1, <1>2, BridgeTypes
<1>4. BridgeTypeOK'
  <2>1. wpc' \in [Workers -> {"recv", "run", "notify", "release", "exited"}]
    BY <1>1, BridgeTypes
  <2>2. outcome' \in [Calls -> Values] /\ result' \in [Calls -> Values]
    BY <1>1, <1>2, BridgeTypes
  <2> QED
    BY <1>1, <2>1, <2>2 DEF BridgeTypeOK
<1>5. QueueInv'
  <2>1. \A d \in Range(items) : outcome'[d] = "none"
    BY <1>2, <1>3, BridgeTypes, SMTT(20) DEF QueueInv
  <2>2. ASSUME NEW v \in Workers, job[v] # NoCall
        PROVE  outcome'[job[v]] = "none" <=> wpc'[v] = "run"
    <3>1. CASE v = w
      BY <1>3, <3>1
    <3>2. CASE v # w
      <4>1. job[v] # c /\ job[v] \in Calls /\ wpc'[v] = wpc[v]
        BY <1>2, <1>3, <2>2, <3>2, BridgeTypes, SMTT(20)
      <4>2. outcome'[job[v]] = outcome[job[v]]
        BY <1>3, <4>1
      <4> QED
        BY <2>2, <4>1, <4>2 DEF QueueInv
    <3> QED
      BY <3>1, <3>2
  <2>3. \A v \in Workers : job[v] # NoCall <=> wpc'[v] \in {"run", "notify", "release"}
    BY <1>1, <1>3 DEF QueueInv
  <2> QED
    BY <1>1, <2>1, <2>2, <2>3, SMTT(20) DEF QueueInv, Runs
<1>6. CallInv'
  <2>1. call[c] # "idle" /\ c \notin counter
    BY <1>2 DEF CallInv
  <2> HIDE DEF c
  <2>2. \A d \in Calls : call'[d] = "idle" => refs'[d] = {} /\ outcome'[d] = "none" /\ got'[d] = "none"
    BY <1>1, <1>3, <2>1 DEF CallInv
  <2>3. \A d \in counter :
          outcome'[d] # "none" /\ \A v \in Workers : job[v] = d => wpc'[v] = "release"
    <3>1. \A d \in counter : d # c /\ d \in Calls
      BY <2>1, BridgeTypes
    <3>2. \A d \in counter : ~(job[w] = d)
      BY <3>1 DEF c
    <3> QED
      BY <1>3, <3>1, <3>2, SMTT(20) DEF CallInv, Runs
  <2>4. \A d \in Calls :
          outcome'[d] # "none" => outcome'[d] \in {"Ok", "Err"} /\ result'[d] = outcome'[d]
    BY <1>3, SMTT(20) DEF CallInv
  <2> QED
    BY <1>1, <2>2, <2>3, <2>4, SMTT(20) DEF CallInv, Runs
<1>7. OutcomeDelivered'
  <2> HIDE DEF c
  <2> QED
    BY <1>1, <1>2, <1>3, SMTT(20) DEF OutcomeDelivered
<1> QED
  BY <1>4, <1>5, <1>6, <1>7

\* The eventfd is written once the result is there; the worker touches it no more.
LEMMA NotifyInv ==
  ASSUME BridgeInv, NEW w \in Workers, Notify(w)
  PROVE  BridgeInv'
<1> USE DEF BridgeInv
<1> DEFINE c == job[w]
<1>1. /\ wpc[w] = "notify" /\ wpc' = [wpc EXCEPT ![w] = "release"]
      /\ counter' = counter \cup {c}
      /\ UNCHANGED <<items, shut, job, call, refs, result, outcome, got, registered, torn_down>>
  BY DEF Notify, At, poolVars
<1>2. c \in Calls /\ outcome[c] # "none" /\ \A v \in Workers : job[v] = c => v = w
  <2>1. job[w] # NoCall
    BY <1>1 DEF QueueInv
  <2> QED
    BY <1>1, <2>1, BridgeTypes, SMTT(20) DEF QueueInv
<1>3. wpc'[w] = "release" /\ \A v \in Workers : v # w => wpc'[v] = wpc[v]
  BY <1>1, BridgeTypes
<1>4. BridgeTypeOK'
  <2>1. wpc' \in [Workers -> {"recv", "run", "notify", "release", "exited"}]
    BY <1>1, BridgeTypes
  <2>2. counter' \in SUBSET Calls
    BY <1>1, <1>2, BridgeTypes
  <2> QED
    BY <1>1, <2>1, <2>2 DEF BridgeTypeOK
<1>5. QueueInv'
  BY <1>1, <1>3, SMTT(20) DEF QueueInv, Runs
<1>6. CallInv'
  BY <1>1, <1>2, <1>3, SMTT(20) DEF CallInv, Runs
<1>7. OutcomeDelivered'
  BY <1>1 DEF OutcomeDelivered
<1> QED
  BY <1>4, <1>5, <1>6, <1>7

\* The function object goes, and with it the worker's claim on the BlockingState.
LEMMA ReleaseInv ==
  ASSUME BridgeInv, NEW w \in Workers, Release(w)
  PROVE  BridgeInv'
<1> USE DEF BridgeInv
<1> DEFINE c == job[w]
<1>1. /\ wpc[w] = "release" /\ wpc' = [wpc EXCEPT ![w] = "recv"]
      /\ refs' = [refs EXCEPT ![c] = @ \ {"closure"}] /\ job' = [job EXCEPT ![w] = NoCall]
      /\ UNCHANGED <<items, shut, call, result, outcome, got, counter, registered, torn_down>>
  BY DEF Release, At, poolVars
<1>2. c \in Calls /\ c \notin Range(items) /\ \A v \in Workers : job[v] = c => v = w
  <2>1. job[w] # NoCall
    BY <1>1 DEF QueueInv
  <2> QED
    BY <1>1, <2>1, BridgeTypes, SMTT(20) DEF QueueInv
<1>3. /\ wpc'[w] = "recv" /\ job'[w] = NoCall
      /\ \A v \in Workers : v # w => wpc'[v] = wpc[v] /\ job'[v] = job[v]
      /\ refs'[c] = refs[c] \ {"closure"}
      /\ \A d \in Calls : d # c => refs'[d] = refs[d]
  BY <1>1, <1>2, BridgeTypes
<1>4. BridgeTypeOK'
  <2>1. wpc' \in [Workers -> {"recv", "run", "notify", "release", "exited"}]
    BY <1>1, BridgeTypes
  <2>2. job' \in [Workers -> Calls \cup {NoCall}]
    BY <1>1, BridgeTypes
  <2>3. refs' \in [Calls -> SUBSET Holders]
    BY <1>1, <1>2, BridgeTypes
  <2> QED
    BY <1>1, <2>1, <2>2, <2>3 DEF BridgeTypeOK
<1>5. QueueInv'
  <2>1. \A d \in Calls :
          "closure" \in refs'[d] <=> d \in Range(items) \/ \E v \in Workers : job'[v] = d
    <3>1. "closure" \notin refs'[c] /\ \A v \in Workers : job'[v] # c
      BY <1>2, <1>3
    <3>2. \A d \in Calls : d # c =>
            ((\E v \in Workers : job'[v] = d) <=> \E v \in Workers : job[v] = d)
      BY <1>3
    <3>3. \A d \in Calls :
            "closure" \in refs[d] <=> d \in Range(items) \/ \E v \in Workers : job[v] = d
      BY DEF QueueInv, Runs
    <3>4. c \notin Range(items) /\ \A d \in Calls : d # c => refs'[d] = refs[d]
      BY <1>2, <1>3
    <3> HIDE DEF c
    <3> QED
      BY <3>1, <3>2, <3>3, <3>4
  <2>2. \A u, v \in Workers : job'[u] = job'[v] /\ job'[v] # NoCall => u = v
    BY <1>3, SMTT(20) DEF QueueInv
  <2>3. NoCall \notin Range(items)
    BY BridgeTypes
  <2>4. \A v \in Workers : job'[v] \notin Range(items)
    BY <1>3, <2>3 DEF QueueInv
  <2>5. \A v \in Workers : /\ job'[v] # NoCall <=> wpc'[v] \in {"run", "notify", "release"}
                           /\ job'[v] # NoCall => (outcome[job'[v]] = "none" <=> wpc'[v] = "run")
    BY <1>3, SMTT(20) DEF QueueInv
  <2> QED
    BY <1>1, <2>1, <2>2, <2>4, <2>5 DEF QueueInv, Runs
<1>6. CallInv'
  <2>1. \A d \in Calls : call[d] = "idle" => refs'[d] = {}
    <3> HIDE DEF c
    <3> QED
      BY <1>3, SMTT(20) DEF CallInv
  <2>2. \A d \in counter : \A v \in Workers : job'[v] = d => wpc'[v] = "release"
    BY <1>3, BridgeTypes, SMTT(20) DEF CallInv, Runs
  <2> QED
    BY <1>1, <2>1, <2>2 DEF CallInv, Runs
<1>7. OutcomeDelivered'
  <2>1. \A d \in Calls : refs[d] = {} => refs'[d] = {}
    <3> HIDE DEF c
    <3> QED
      BY <1>3
  <2> QED
    BY <1>1, <2>1 DEF OutcomeDelivered
<1> QED
  BY <1>4, <1>5, <1>6, <1>7

\* Every step of File is a step of the Bridge or leaves it alone.
BridgeStep ==
  \/ \E c \in Calls : Suspend(c) \/ Refuse(c) \/ Wake(c) \/ Resume(c)
  \/ \E w \in Workers : \/ WorkerRecv(w) \/ WorkerExit(w) \/ Notify(w) \/ Release(w)
                        \/ \E o \in {"Ok", "Err"} : RunFunction(w, o)
  \/ TearDown \/ Shutdown

\* What File adds to a step of the Bridge does not change the step.
LEMMA FileIsBridge == [Next]_vars => BridgeStep \/ UNCHANGED bridgeVars
<1> SUFFICES ASSUME [Next]_vars
             PROVE  BridgeStep \/ UNCHANGED bridgeVars
  OBVIOUS
<1>1. ASSUME NEW c \in Calls, CallFile(c) \/ RefuseFile(c) \/ WakeFile(c) \/ ResumeFile(c)
      PROVE  BridgeStep
  BY <1>1 DEF CallFile, RefuseFile, WakeFile, ResumeFile, BridgeStep
<1>2. ASSUME NEW w \in Workers, Worker(w)
      PROVE  BridgeStep \/ UNCHANGED bridgeVars
  <2>1. CASE WorkerRecv(w) \/ WorkerExit(w) \/ Notify(w) \/ ReleaseFile(w)
    BY <2>1 DEF ReleaseFile, BridgeStep
  <2>2. CASE Enter(w) \/ Transfer(w)
    BY <2>2 DEF Enter, Transfer
  <2>3. CASE EnterFails(w) \/ Finish(w) \/ Fail(w) \/ \E o \in {"Ok", "Err"} : OpenFile(w, o)
    <3>1. \E o \in {"Ok", "Err"} : RunFunction(w, o)
      BY <2>3 DEF EnterFails, Finish, Fail, OpenFile, Ends
    <3> QED
      BY <3>1 DEF BridgeStep
  <2> QED
    BY <1>2, <2>1, <2>2, <2>3 DEF Worker
<1>3. CASE DropFile \/ CloseBegin \/ CloseEnd
  BY <1>3 DEF DropFile, CloseBegin, CloseEnd
<1>4. CASE TearDownFile \/ Shutdown
  BY <1>4 DEF TearDownFile, BridgeStep
<1> QED
  BY <1>1, <1>2, <1>3, <1>4 DEF Next, vars

\* The invariant of the Bridge is inductive.
LEMMA BridgeInvStep == BridgeInv /\ [Next]_vars => BridgeInv'
<1> SUFFICES ASSUME BridgeInv, [Next]_vars
             PROVE  BridgeInv'
  OBVIOUS
<1>1. CASE UNCHANGED bridgeVars
  <2>1. UNCHANGED <<items, shut, wpc, job, call, refs, result, outcome, got, counter,
                    registered, torn_down>>
    BY <1>1 DEF bridgeVars, poolVars, workerVars
  <2>2. BridgeTypeOK'
    BY <2>1 DEF BridgeInv, BridgeTypeOK
  <2>3. QueueInv' /\ CallInv' /\ OutcomeDelivered'
    BY <2>1, SMTT(20) DEF BridgeInv, QueueInv, CallInv, OutcomeDelivered, Runs
  <2> QED
    BY <2>2, <2>3 DEF BridgeInv
<1>2. CASE BridgeStep
  BY <1>2, SuspendInv, LoopInv, TearDownInv, WorkerRecvInv, QuietInv, RunFunctionInv,
     NotifyInv, ReleaseInv
  DEF BridgeStep
<1> QED
  BY <1>1, <1>2, FileIsBridge
-----------------------------------------------------------------------------
\* Steps outside the functions on the pool: they move no cell and no worker that is
\* between two system calls.
Calm ==
  \/ \E c \in Calls : CallFile(c) \/ RefuseFile(c) \/ WakeFile(c) \/ ResumeFile(c)
  \/ \E w \in Workers :
       \/ (WorkerRecv(w) \/ WorkerExit(w) \/ Notify(w)) /\ UNCHANGED fileVars
       \/ ReleaseFile(w)
  \/ DropFile \/ TearDownFile \/ CloseBegin \/ CloseEnd
  \/ Shutdown /\ UNCHANGED fileVars
  \/ UNCHANGED vars

\* The steps of a function on the pool.
Function(w) ==
  \/ Enter(w) \/ EnterFails(w) \/ Transfer(w) \/ Finish(w) \/ Fail(w)
  \/ \E o \in {"Ok", "Err"} : OpenFile(w, o)

\* Every step is one or the other.
LEMMA CalmOrFunction == [Next]_vars => Calm \/ \E w \in Workers : Function(w)
BY DEF Next, Worker, Calm, Function

\* What File adds to the types of the Bridge.
FileTypes ==
  /\ fd \in {"none", "open", "closed"}
  /\ paths \in SUBSET (Calls \ {Opener})
  /\ at \in [Workers -> {"begin", "io", "append"}]
  /\ done \in [Workers -> 0..Size]
  /\ content \in [Cells -> Calls \cup {NoCall}]
  /\ data \in [Calls -> Seq(Calls \cup {NoCall})]

\* The flags of File stay flags.
FileFlags == object \in BOOLEAN /\ closing \in BOOLEAN /\ torn \in BOOLEAN

\* The flags are only ever given truth values.
LEMMA FlagsStep == FileFlags /\ [Next]_vars => FileFlags'
<1> SUFFICES ASSUME FileFlags, [Next]_vars
             PROVE  FileFlags'
  OBVIOUS
<1> USE DEF FileFlags
<1>1. CASE UNCHANGED fileVars
  BY <1>1 DEF fileVars
<1>2. ASSUME NEW c \in Calls, CallFile(c) \/ RefuseFile(c) \/ WakeFile(c) \/ ResumeFile(c)
      PROVE  FileFlags'
  BY <1>1, <1>2 DEF CallFile, RefuseFile, WakeFile, ResumeFile, ioVars
<1>3. ASSUME NEW w \in Workers, ReleaseFile(w)
      PROVE  FileFlags'
  BY <1>3 DEF ReleaseFile
<1>4. CASE DropFile \/ TearDownFile
  BY <1>4 DEF DropFile, TearDownFile, ioVars
<1>5. CASE CloseBegin \/ CloseEnd
  BY <1>5 DEF CloseBegin, CloseEnd, ioVars
<1>6. ASSUME NEW w \in Workers, Enter(w) \/ Transfer(w)
      PROVE  FileFlags'
  BY <1>6 DEF Enter, Transfer
<1>7. ASSUME NEW w \in Workers,
             EnterFails(w) \/ Finish(w) \/ Fail(w) \/ \E o \in {"Ok", "Err"} : OpenFile(w, o)
      PROVE  FileFlags'
  BY <1>7 DEF EnterFails, Finish, Fail, OpenFile, Ends
<1> HIDE DEF FileFlags
<1> QED
  BY <1>1, <1>2, <1>3, <1>4, <1>5, <1>6, <1>7 DEF Next, Worker, vars

\* A call that is about to suspend has no function in the pool.
LEMMA IdleRunsNowhere ==
  ASSUME BridgeInv, NEW c \in Calls, call[c] = "idle"
  PROVE  \A w \in Workers : job[w] # c
BY SMTT(20) DEF BridgeInv, CallInv, QueueInv, Runs

\* A calm step leaves the cells, what was read and the functions in progress alone.
LEMMA CalmFrame ==
  ASSUME BridgeInv, FileTypes, InUseInv, Calm
  PROVE  /\ UNCHANGED <<at, content, data, torn, outcome>>
         /\ \A w \in Workers : at[w] # "begin" => /\ job'[w] = job[w] /\ done'[w] = done[w]
                                                  /\ wpc'[w] = "run"
                                                  /\ (job[w] \in paths' <=> job[w] \in paths)
         /\ paths \subseteq paths' /\ paths' \in SUBSET (Calls \ {Opener})
         /\ done' \in [Workers -> 0..Size]
<1>0. \A w \in Workers : at[w] # "begin" => wpc[w] = "run"
  BY DEF InUseInv
<1>t. paths \in SUBSET (Calls \ {Opener}) /\ done \in [Workers -> 0..Size]
  BY DEF FileTypes
<1>b. BridgeTypeOK
  BY DEF BridgeInv
<1>1. ASSUME NEW c \in Calls, CallFile(c)
      PROVE  /\ UNCHANGED <<at, content, data, torn, outcome, job, done, wpc>>
             /\ \A w \in Workers : job[w] \in paths' <=> job[w] \in paths
             /\ paths \subseteq paths' /\ paths' \in SUBSET (Calls \ {Opener})
  <2>1. call[c] = "idle" /\ UNCHANGED <<at, content, data, torn, outcome, job, done, wpc>>
    BY <1>1 DEF CallFile, Suspend, ioVars, workerVars
  <2>2. \A w \in Workers : job[w] # c
    BY <2>1, IdleRunsNowhere
  <2>3. paths' \in {paths, paths \cup ({c} \ {Opener})}
    BY <1>1 DEF CallFile
  <2> QED
    BY <1>t, <2>1, <2>2, <2>3
<1>2. ASSUME NEW c \in Calls, RefuseFile(c) \/ WakeFile(c) \/ ResumeFile(c)
      PROVE  UNCHANGED <<at, content, data, torn, outcome, job, done, wpc, paths>>
  BY <1>2 DEF RefuseFile, WakeFile, ResumeFile, Refuse, Wake, Resume, fileVars, ioVars,
              workerVars
<1>3. ASSUME NEW w \in Workers, WorkerRecv(w) \/ WorkerExit(w) \/ Notify(w),
             UNCHANGED fileVars
      PROVE  /\ UNCHANGED <<at, content, data, torn, outcome, done, paths>>
             /\ \A v \in Workers : at[v] # "begin" => job'[v] = job[v] /\ wpc'[v] = "run"
  <2>1. wpc[w] # "run" /\ \E x \in {"run", "exited", "release"} : wpc' = [wpc EXCEPT ![w] = x]
    BY <1>3 DEF WorkerRecv, WorkerExit, Notify, At
  <2>2. job' = job \/ \E x \in Calls : job' = [job EXCEPT ![w] = x]
    BY <1>3, <1>b, PoolSteps DEF WorkerRecv, WorkerExit, Notify
  <2>3. UNCHANGED <<at, content, data, torn, outcome, done, paths>>
    BY <1>3 DEF WorkerRecv, WorkerExit, Notify, fileVars
  <2> QED
    BY <1>0, <1>b, <2>1, <2>2, <2>3, BridgeTypes
<1>4. ASSUME NEW w \in Workers, ReleaseFile(w)
      PROVE  /\ UNCHANGED <<at, content, data, torn, outcome, paths>>
             /\ done' \in [Workers -> 0..Size]
             /\ \A v \in Workers : at[v] # "begin" => /\ job'[v] = job[v] /\ wpc'[v] = "run"
                                                      /\ done'[v] = done[v]
  <2>1. /\ wpc[w] = "release" /\ wpc' = [wpc EXCEPT ![w] = "recv"]
        /\ job' = [job EXCEPT ![w] = NoCall] /\ done' = [done EXCEPT ![w] = 0]
        /\ UNCHANGED <<at, content, data, torn, outcome, paths>>
    BY <1>4 DEF ReleaseFile, Release, At
  <2> QED
    BY <1>0, <1>b, <1>t, <2>1, BridgeTypes, SMTT(20)
<1>5. CASE DropFile \/ TearDownFile \/ CloseBegin \/ CloseEnd \/ UNCHANGED vars
           \/ (Shutdown /\ UNCHANGED fileVars)
  <2>1. UNCHANGED <<at, content, data, torn, outcome, job, done, wpc, paths>>
    BY <1>5 DEF DropFile, TearDownFile, TearDown, CloseBegin, CloseEnd, Shutdown, ioVars,
                bridgeVars, workerVars, vars, fileVars
  <2> QED
    BY <1>0, <1>t, <2>1
<1> QED
  BY <1>0, <1>t, <1>1, <1>2, <1>3, <1>4, <1>5 DEF Calm

\* No calm step opens the descriptor, and none closes it under a function that uses it:
\* close() waits for the mutex, and the function's own copy of state_ keeps State alive.
LEMMA CalmKeepsOpen ==
  ASSUME BridgeInv, FileTypes, InUseInv, Calm
  PROVE  /\ fd' = fd \/ (fd' = "closed" /\ (fd = "open" \/ closing))
         /\ closing' => closing \/ fd = "open"
         /\ \A w \in Workers : at[w] = "io" /\ job[w] \in Ops => fd' = fd
<1>b. BridgeTypeOK
  BY DEF BridgeInv
<1>h. ASSUME NEW w \in Workers, at[w] = "io", job[w] \in Ops
      PROVE  job[w] \in Calls /\ "closure" \in refs[job[w]] /\ wpc[w] = "run"
  <2>1. wpc[w] = "run" /\ job[w] # NoCall
    BY <1>h DEF InUseInv, BridgeInv, QueueInv
  <2>2. job[w] \in Calls
    BY <2>1, <1>b, BridgeTypes
  <2> QED
    BY <2>1, <2>2 DEF BridgeInv, QueueInv, Runs
<1>1. CASE \/ \E c \in Calls : CallFile(c) \/ RefuseFile(c) \/ WakeFile(c) \/ ResumeFile(c)
           \/ UNCHANGED fileVars
  BY <1>1, SMTT(20) DEF CallFile, RefuseFile, WakeFile, ResumeFile, fileVars
<1>2. ASSUME UNCHANGED <<paths, closing>>, LetGo,
             \A c \in Calls : "closure" \in refs[c] /\ (\E w \in Workers : wpc[w] = "run" /\ job[w] = c)
                                => "closure" \in refs'[c]
      PROVE  /\ fd' = fd \/ (fd' = "closed" /\ (fd = "open" \/ closing))
             /\ closing' => closing \/ fd = "open"
             /\ \A w \in Workers : at[w] = "io" /\ job[w] \in Ops => fd' = fd
  <2>1. Ops' = Ops
    BY <1>2 DEF Ops
  <2>2. ASSUME NEW w \in Workers, at[w] = "io", job[w] \in Ops
        PROVE  Held'
    <3>1. "closure" \in refs'[job[w]] /\ job[w] \in Ops'
      BY <1>2, <1>h, <2>1, <2>2
    <3> QED
      BY <3>1 DEF Held
  <2> QED
    BY <1>2, <2>2 DEF LetGo
<1>3. CASE DropFile
  BY <1>2, <1>3 DEF DropFile, bridgeVars
<1>4. CASE TearDownFile
  <2>1. \A c \in Calls : "closure" \in refs[c] => "closure" \in refs'[c]
    BY <1>4 DEF TearDownFile, TearDown
  <2> QED
    BY <1>2, <1>4, <2>1 DEF TearDownFile
<1>5. ASSUME NEW w \in Workers, ReleaseFile(w)
      PROVE  /\ fd' = fd \/ (fd' = "closed" /\ (fd = "open" \/ closing))
             /\ closing' => closing \/ fd = "open"
             /\ \A v \in Workers : at[v] = "io" /\ job[v] \in Ops => fd' = fd
  <2>1. /\ wpc[w] = "release" /\ refs' = [refs EXCEPT ![job[w]] = @ \ {"closure"}]
        /\ UNCHANGED <<paths, closing>> /\ LetGo
    BY <1>5 DEF ReleaseFile, Release, At
  <2>2. job[w] \in Calls /\ \A v \in Workers : job[v] = job[w] => v = w
    BY <2>1, <1>b, BridgeTypes, SMTT(20) DEF BridgeInv, QueueInv
  <2>3. \A c \in Calls : c # job[w] => refs'[c] = refs[c]
    BY <2>1, <2>2, <1>b, BridgeTypes
  <2>4. \A v \in Workers : wpc[v] = "run" => job[v] # job[w]
    BY <2>1, <2>2
  <2> QED
    BY <1>2, <2>1, <2>3, <2>4
<1>6. CASE CloseBegin
  BY <1>6 DEF CloseBegin
<1>7. CASE CloseEnd
  BY <1>7 DEF CloseEnd, Busy
<1> QED
  BY <1>1, <1>3, <1>4, <1>5, <1>6, <1>7 DEF Calm, vars

\* A calm step keeps the invariant of the functions on the pool.
LEMMA CalmInv ==
  ASSUME BridgeInv, FileTypes, InUseInv, FileOpenInUse, ContentInv, DataInv, ReadsWhole, Calm
  PROVE  FileTypes' /\ InUseInv' /\ FileOpenInUse' /\ ContentInv' /\ DataInv' /\ ReadsWhole'
<1>1. /\ UNCHANGED <<at, content, data, torn, outcome>>
      /\ \A w \in Workers : at[w] # "begin" => /\ job'[w] = job[w] /\ done'[w] = done[w]
                                               /\ wpc'[w] = "run"
                                               /\ (job[w] \in paths' <=> job[w] \in paths)
      /\ paths \subseteq paths' /\ paths' \in SUBSET (Calls \ {Opener})
      /\ done' \in [Workers -> 0..Size]
  BY CalmFrame
<1>2. /\ fd' = fd \/ (fd' = "closed" /\ (fd = "open" \/ closing))
      /\ closing' => closing \/ fd = "open"
      /\ \A w \in Workers : at[w] = "io" /\ job[w] \in Ops => fd' = fd
  BY CalmKeepsOpen
<1>3. /\ \A w \in Workers : at[w] # "begin" => (job'[w] \in Ops' <=> job[w] \in Ops)
      /\ Ops' \subseteq Ops
  BY <1>1 DEF Ops
<1>4. FileTypes'
  BY <1>1, <1>2 DEF FileTypes
<1>5. InUseInv'
  BY <1>1, <1>2 DEF InUseInv
<1>6. FileOpenInUse'
  BY <1>1, <1>2, <1>3 DEF FileOpenInUse
<1>7. ContentInv'
  <2>1. Uniform' <=> Uniform
    BY <1>1 DEF Uniform, Cells
  <2>2. \A w \in Workers : at[w] = "io" => (HalfWritten(w)' <=> HalfWritten(w))
    BY <1>1 DEF HalfWritten
  <2>3. \A w \in Workers : at[w] = "io" => (ReadSoFar(w)' <=> ReadSoFar(w))
    BY <1>1 DEF ReadSoFar
  <2>4. \A w \in Workers : at[w] = "io" => job'[w] = job[w] /\ (job'[w] \in Ops' <=> job[w] \in Ops)
    BY <1>1, <1>3
  <2> QED
    BY <1>1, <2>1, <2>2, <2>3, <2>4 DEF ContentInv
<1>8. DataInv'
  BY <1>1 DEF DataInv, Runs
<1>9. ReadsWhole'
  BY <1>1, <1>3 DEF ReadsWhole, Cells
<1> QED
  BY <1>4, <1>5, <1>6, <1>7, <1>8, <1>9

\* A worker that runs a function is the only one with that call, which has no outcome yet.
LEMMA Running ==
  ASSUME BridgeInv, NEW w \in Workers, wpc[w] = "run"
  PROVE  /\ job[w] \in Calls /\ outcome[job[w]] = "none"
         /\ \A v \in Workers : job[v] = job[w] => v = w
<1>1. job[w] # NoCall
  BY DEF BridgeInv, QueueInv
<1>2. job[w] \in Calls
  BY <1>1, BridgeTypes DEF BridgeInv
<1> QED
  BY <1>1, <1>2 DEF BridgeInv, QueueInv

\* The end of a function changes nothing but its worker and the outcome of its call.
LEMMA EndsFrame ==
  ASSUME BridgeInv, FileTypes, NEW w \in Workers, NEW o \in {"Ok", "Err"}, Ends(w, o)
  PROVE  /\ wpc[w] = "run" /\ UNCHANGED <<job, paths, closing, content, data>>
         /\ at' \in [Workers -> {"begin", "io", "append"}]
         /\ at'[w] = "begin" /\ \A v \in Workers : v # w => at'[v] = at[v] /\ wpc'[v] = wpc[v]
         /\ outcome'[job[w]] = o /\ \A c \in Calls : c # job[w] => outcome'[c] = outcome[c]
<1>1. /\ wpc[w] = "run" /\ wpc' = [wpc EXCEPT ![w] = "notify"]
      /\ outcome' = [outcome EXCEPT ![job[w]] = o] /\ at' = [at EXCEPT ![w] = "begin"]
      /\ UNCHANGED <<job, paths, closing, content, data>>
  BY DEF Ends, RunFunction, At
<1>2. job[w] \in Calls
  BY <1>1, Running
<1>3. /\ at'[w] = "begin" /\ at' \in [Workers -> {"begin", "io", "append"}]
      /\ \A v \in Workers : v # w => at'[v] = at[v] /\ wpc'[v] = wpc[v]
  BY <1>1, BridgeTypes DEF FileTypes, BridgeInv
<1>4. outcome'[job[w]] = o /\ \A c \in Calls : c # job[w] => outcome'[c] = outcome[c]
  BY <1>1, <1>2, BridgeTypes DEF BridgeInv
<1> QED
  BY <1>1, <1>3, <1>4

\* In a file that no write left torn, a function that writes is an operation of the File,
\* inside its mutex, and no other operation is.
LEMMA WriterAlone ==
  ASSUME BridgeInv, FileTypes, InUseInv, FileOpenInUse, ~torn,
         NEW w \in Workers, at[w] # "begin", job[w] \in Writers
  PROVE  /\ at[w] = "io" /\ job[w] \in Ops
         /\ \A v \in Workers : at[v] = "io" /\ job[v] \in Ops => v = w
         /\ \A v \in Workers : at[v] = "io" /\ job[v] \in Writers => v = w
<1>1. ASSUME NEW v \in Workers, at[v] # "begin", job[v] \in Writers
      PROVE  at[v] = "io" /\ job[v] \in Ops
  <2>1. wpc[v] = "run" /\ job[v] # Opener /\ job[v] \notin paths
    BY <1>1 DEF InUseInv
  <2>2. at[v] # "append" /\ at[v] \in {"begin", "io", "append"}
    BY <2>1 DEF InUseInv, FileTypes
  <2>3. job[v] \in Calls
    BY <2>1, Running
  <2> QED
    BY <1>1, <2>1, <2>2, <2>3 DEF Ops
<1>2. \A v \in Workers : at[v] = "io" /\ job[v] \in Ops => v = w
  BY <1>1 DEF FileOpenInUse
<1> QED
  BY <1>1, <1>2

\* Half of a write is nothing at its beginning, and everything at its end.
LEMMA HalfWrittenIsUniform ==
  ASSUME FileTypes, NEW w \in Workers, job[w] \in Writers, HalfWritten(w)
  PROVE  done[w] \in {0, Size} => Uniform
<1>1. done[w] = 0 => Uniform
  <2> SUFFICES ASSUME done[w] = 0
               PROVE  Uniform
    OBVIOUS
  <2>1. \A i \in Cells : i > done[w]
    BY SMTT(20) DEF Cells
  <2> QED
    BY <2>1 DEF HalfWritten, Uniform
<1>2. done[w] = Size => Uniform
  <2> SUFFICES ASSUME done[w] = Size
               PROVE  Uniform
    OBVIOUS
  <2>1. \A i \in Cells : i <= done[w]
    BY SMTT(20) DEF Cells
  <2> QED
    BY <2>1 DEF HalfWritten, Uniform
<1> QED
  BY <1>1, <1>2

\* A file that was never written is empty, and one that was written whole is full.
LEMMA UniformLength ==
  ASSUME Uniform
  PROVE  \/ (\A i \in Cells : content[i] = NoCall) /\ Length = 0
         \/ \E v \in Writers : (\A i \in Cells : content[i] = v) /\ v # NoCall /\ Length = Size
<1> DEFINE P(n) == (n = 0 \/ content[n] # NoCall) /\ \A i \in Cells : i > n => content[i] = NoCall
<1>0. Length = CHOOSE n \in 0..Size : P(n)
  BY DEF Length
<1>1. CASE \A i \in Cells : content[i] = NoCall
  <2>1. P(0) /\ \A n \in 0..Size : P(n) => n = 0
    BY <1>1, SMTT(20) DEF Cells
  <2> HIDE DEF P
  <2> QED
    BY <1>0, <1>1, <2>1, SMTT(20)
<1>2. ASSUME NEW v \in Writers, \A i \in Cells : content[i] = v
      PROVE  v # NoCall /\ Length = Size
  <2>1. v # NoCall
    OBVIOUS
  <2>2. P(Size) /\ \A n \in 0..Size : P(n) => n = Size
    BY <1>2, <2>1, SMTT(20) DEF Cells
  <2> HIDE DEF P
  <2> QED
    BY <1>0, <2>1, <2>2, SMTT(20)
<1> QED
  BY <1>1, <1>2 DEF Uniform

\* open(): the descriptor is opened once, when no operation of the File can exist.
LEMMA OpenInv ==
  ASSUME BridgeInv, FileTypes, InUseInv, FileOpenInUse, ContentInv, DataInv, ReadsWhole,
         NEW w \in Workers, NEW o \in {"Ok", "Err"},
         OpenFile(w, o) \/ (EnterFails(w) /\ o = "Err")
  PROVE  FileTypes' /\ InUseInv' /\ FileOpenInUse' /\ ContentInv' /\ DataInv' /\ ReadsWhole'
<1>1. /\ Ends(w, o) /\ wpc[w] = "run" /\ UNCHANGED <<done, torn>>
      /\ job[w] = Opener \/ (at[w] = "begin" /\ o = "Err")
      /\ fd' = fd \/ (job[w] = Opener /\ fd' = "open")
  BY DEF OpenFile, EnterFails
<1>2. /\ UNCHANGED <<job, paths, closing, content, data>>
      /\ at' \in [Workers -> {"begin", "io", "append"}]
      /\ at'[w] = "begin" /\ \A v \in Workers : v # w => at'[v] = at[v] /\ wpc'[v] = wpc[v]
      /\ outcome'[job[w]] = o /\ \A c \in Calls : c # job[w] => outcome'[c] = outcome[c]
  BY <1>1, EndsFrame, SMTT(20)
<1>3. at[w] = "begin" /\ at' = at
  <2>1. at[w] = "begin"
    BY <1>1 DEF InUseInv
  <2> QED
    BY <1>2, <2>1, SMTT(20) DEF FileTypes
<1>4. job[w] \in Calls /\ outcome[job[w]] = "none"
  BY <1>1, Running
<1>5. FileTypes'
  BY <1>1, <1>2 DEF FileTypes
<1>6. fd' # fd => job[w] = Opener /\ fd = "none"
  BY <1>1, <1>4 DEF InUseInv, FileTypes
<1>7. InUseInv'
  <2>1. fd' # "none" \/ closing' => outcome'[Opener] # "none"
    <3>1. outcome'[job[w]] # "none" /\ (Opener # job[w] => outcome'[Opener] = outcome[Opener])
      BY <1>2
    <3>2. CASE job[w] = Opener
      BY <3>1, <3>2
    <3>3. CASE job[w] # Opener
      BY <1>1, <1>2, <3>1, <3>3 DEF InUseInv
    <3> QED
      BY <3>2, <3>3
  <2> QED
    BY <1>1, <1>2, <1>3, <2>1 DEF InUseInv
<1>8. FileOpenInUse'
  <2>1. Ops' = Ops
    BY <1>2 DEF Ops
  <2> QED
    BY <1>2, <1>3, <1>6, <2>1 DEF FileOpenInUse
<1>9. ContentInv'
  <2>1. Ops' = Ops
    BY <1>2 DEF Ops
  <2> QED
    BY <1>1, <1>2, <1>3, <2>1, SMTT(20) DEF ContentInv, Uniform, HalfWritten, ReadSoFar, Cells
<1>10. DataInv'
  BY <1>2, <1>3, SMTT(20) DEF DataInv, Runs
<1>11. ReadsWhole'
  <2>1. Ops' = Ops
    BY <1>2 DEF Ops
  <2>2. \A c \in Readers : outcome'[c] = "Ok" => outcome[c] = "Ok"
    BY <1>1, <1>2
  <2> QED
    BY <1>1, <1>2, <2>1, <2>2, SMTT(20) DEF ReadsWhole, Cells
<1> QED
  BY <1>5, <1>7, <1>8, <1>9, <1>10, <1>11

\* lock_guard: a function enters the file when no operation is in it and the descriptor is
\* open, and what it finds there is whole.
LEMMA EnterInv ==
  ASSUME BridgeInv, FileTypes, InUseInv, FileOpenInUse, ContentInv, DataInv, ReadsWhole,
         NEW w \in Workers, Enter(w)
  PROVE  FileTypes' /\ InUseInv' /\ FileOpenInUse' /\ ContentInv' /\ DataInv' /\ ReadsWhole'
<1>1. /\ wpc[w] = "run" /\ job[w] # Opener /\ at[w] = "begin"
      /\ job[w] \in Ops => ~Busy /\ fd = "open"
      /\ done' = [done EXCEPT ![w] = 0] /\ torn' = (torn \/ job[w] \in paths \cap Writers)
      /\ UNCHANGED <<wpc, job, outcome, fd, paths, closing, data>>
  BY DEF Enter, bridgeVars, workerVars
<1>2. \/ at' = [at EXCEPT ![w] = "io"]
      \/ job[w] \in paths \cap Writers /\ at' = [at EXCEPT ![w] = "append"]
  BY DEF Enter
<1>3. \/ content' = content
      \/ job[w] \in paths \cap Writers /\ content' = [i \in Cells |-> NoCall]
  BY DEF Enter
<1>4. /\ at' \in [Workers -> {"begin", "io", "append"}] /\ at'[w] # "begin"
      /\ \A v \in Workers : v # w => at'[v] = at[v] /\ done'[v] = done[v]
      /\ at'[w] = "append" => job[w] \in paths \cap Writers
      /\ done' \in [Workers -> 0..Size] /\ done'[w] = 0
  <2>1. done' \in [Workers -> 0..Size] /\ done'[w] = 0
    BY <1>1, SMTT(20) DEF FileTypes
  <2> QED
    BY <1>1, <1>2, <2>1 DEF FileTypes
<1>5. Ops' = Ops
  BY <1>1 DEF Ops
<1>6. job[w] \in Calls /\ outcome[job[w]] = "none" /\ \A v \in Workers : job[v] = job[w] => v = w
  BY <1>1, Running
<1>7. FileTypes'
  <2>1. content' \in [Cells -> Calls \cup {NoCall}]
    BY <1>3 DEF FileTypes
  <2> QED
    BY <1>1, <1>4, <2>1 DEF FileTypes
<1>8. InUseInv'
  BY <1>1, <1>4 DEF InUseInv
<1>9. FileOpenInUse'
  BY <1>1, <1>4, <1>5 DEF FileOpenInUse, Busy
<1>10. ContentInv'
  <2> SUFFICES ASSUME ~torn'
               PROVE  ContentInv'
    BY DEF ContentInv
  <2>1. ~torn /\ job[w] \notin paths \cap Writers /\ content' = content /\ at'[w] = "io"
    BY <1>1, <1>3, <1>4 DEF FileTypes
  <2>2. job[w] \in Writers => Uniform /\ job[w] \in Ops
    <3> SUFFICES ASSUME job[w] \in Writers
                 PROVE  Uniform /\ job[w] \in Ops
      OBVIOUS
    <3>1. job[w] \in Ops
      BY <1>1, <1>6, <2>1 DEF Ops
    <3>2. \A v \in Workers : ~(at[v] = "io" /\ job[v] \in Writers)
      BY <1>1, <2>1, <3>1, WriterAlone DEF Busy
    <3> QED
      BY <2>1, <3>1, <3>2 DEF ContentInv
  <2>3. (\A v \in Workers : ~(at'[v] = "io" /\ job'[v] \in Writers)) => Uniform'
    <3> SUFFICES ASSUME \A v \in Workers : ~(at'[v] = "io" /\ job'[v] \in Writers)
                 PROVE  Uniform'
      OBVIOUS
    <3>1. \A v \in Workers : ~(at[v] = "io" /\ job[v] \in Writers)
      BY <1>1, <1>4
    <3>2. Uniform
      BY <2>1, <3>1 DEF ContentInv
    <3> QED
      BY <2>1, <3>2 DEF Uniform, Cells
  <2>4. ASSUME NEW v \in Workers, at'[v] = "io", job'[v] \in Writers
        PROVE  HalfWritten(v)'
    <3>1. CASE v = w
      <4>1. done'[v] = 0 /\ Uniform /\ \A i \in Cells : ~(i <= done'[v])
        BY <1>1, <1>4, <2>2, <2>4, <3>1, SMTT(20) DEF Cells
      <4> QED
        BY <2>1, <4>1 DEF HalfWritten, Uniform, Cells
    <3>2. CASE v # w
      <4>1. HalfWritten(v)
        BY <1>1, <1>4, <2>1, <2>4, <3>2 DEF ContentInv
      <4> QED
        BY <1>1, <1>4, <2>1, <3>2, <4>1 DEF HalfWritten, Cells
    <3> QED
      BY <3>1, <3>2
  <2>5. ASSUME NEW v \in Workers, at'[v] = "io", job'[v] \in Readers \cap Ops'
        PROVE  ReadSoFar(v)'
    <3>1. CASE v = w
      <4>1. data[job[w]] = <<>>
        BY <1>1, <1>6 DEF DataInv, Runs
      <4> QED
        BY <1>1, <1>4, <3>1, <4>1, SMTT(20) DEF ReadSoFar
    <3>2. CASE v # w
      <4>1. ReadSoFar(v)
        BY <1>1, <1>4, <1>5, <2>1, <2>5, <3>2 DEF ContentInv
      <4> QED
        BY <1>1, <1>4, <2>1, <3>2, <4>1 DEF ReadSoFar
    <3> QED
      BY <3>1, <3>2
  <2> QED
    BY <2>3, <2>4, <2>5 DEF ContentInv
<1>11. DataInv'
  BY <1>1, <1>4 DEF DataInv, Runs
<1>12. ReadsWhole'
  BY <1>1, <1>5 DEF ReadsWhole, Cells
<1> QED
  BY <1>7, <1>8, <1>9, <1>10, <1>11, <1>12

\* pwrite() and write(): a writer adds one of its cells, and no operation looks on.
LEMMA WriteInv ==
  ASSUME BridgeInv, FileTypes, InUseInv, FileOpenInUse, ContentInv, DataInv, ReadsWhole,
         NEW w \in Workers, Transfer(w), job[w] \in Writers
  PROVE  FileTypes' /\ InUseInv' /\ FileOpenInUse' /\ ContentInv' /\ DataInv' /\ ReadsWhole'
<1> DEFINE cell == 1 + IF at[w] = "append" THEN Length ELSE done[w]
<1>1. /\ at[w] # "begin" /\ done[w] < Size /\ done' = [done EXCEPT ![w] = @ + 1]
      /\ content' = [i \in Cells |-> IF i = cell THEN job[w] ELSE content[i]]
      /\ UNCHANGED <<wpc, job, outcome, fd, paths, closing, data, at, torn>>
  BY DEF Transfer, bridgeVars, workerVars
<1>2. /\ done' \in [Workers -> 0..Size] /\ done'[w] = done[w] + 1 /\ done[w] \in 0..Size
      /\ \A v \in Workers : v # w => done'[v] = done[v]
  BY <1>1, SMTT(20) DEF FileTypes
<1>3. content' \in [Cells -> Calls \cup {NoCall}]
  BY <1>1 DEF FileTypes
<1>4. Ops' = Ops
  BY <1>1 DEF Ops
<1>5. FileTypes'
  BY <1>1, <1>2, <1>3 DEF FileTypes
<1>6. InUseInv' /\ FileOpenInUse' /\ DataInv' /\ ReadsWhole'
  BY <1>1, <1>4, SMTT(20) DEF InUseInv, FileOpenInUse, DataInv, Runs, ReadsWhole, Cells
<1>7. ContentInv'
  <2> SUFFICES ASSUME ~torn
               PROVE  ContentInv'
    BY <1>1 DEF ContentInv
  <2>1. /\ at[w] = "io" /\ job[w] \in Ops
        /\ \A v \in Workers : at[v] = "io" /\ job[v] \in Ops \cup Writers => v = w
    BY <1>1, WriterAlone
  <2>2. HalfWritten(w)
    BY <2>1 DEF ContentInv
  <2>3. content' = [i \in Cells |-> IF i = 1 + done[w] THEN job[w] ELSE content[i]]
    BY <1>1, <2>1
  <2>4. \A i \in Cells : i <= done'[w] => content'[i] = job[w]
    BY <1>2, <2>2, <2>3, SMTT(20) DEF HalfWritten, Cells
  <2>5. \A i \in Cells : i > done'[w] => i > done[w] /\ content'[i] = content[i]
    BY <1>2, <2>3, SMTT(20) DEF Cells
  <2>6. HalfWritten(w)'
    BY <1>1, <2>2, <2>4, <2>5, SMTT(20) DEF HalfWritten, Cells
  <2> QED
    BY <1>1, <1>4, <2>1, <2>6 DEF ContentInv
<1> QED
  BY <1>5, <1>6, <1>7

\* pread() and read(): a reader adds the next cell of a file in which nothing is written.
LEMMA ReadInv ==
  ASSUME BridgeInv, FileTypes, InUseInv, FileOpenInUse, ContentInv, DataInv, ReadsWhole,
         NEW w \in Workers, Transfer(w), job[w] \notin Writers
  PROVE  FileTypes' /\ InUseInv' /\ FileOpenInUse' /\ ContentInv' /\ DataInv' /\ ReadsWhole'
<1> DEFINE c == job[w]
           next == content[1 + done[w]]
<1>1. /\ at[w] # "begin" /\ done[w] < Size /\ done' = [done EXCEPT ![w] = @ + 1]
      /\ c \in Readers /\ ~AtEnd(w)
      /\ UNCHANGED <<wpc, job, outcome, fd, paths, closing, content, at, torn>>
  BY DEF Transfer, bridgeVars, workerVars
<1>2. /\ done' \in [Workers -> 0..Size] /\ done'[w] = done[w] + 1 /\ done[w] \in 0..Size
      /\ 1 + done[w] \in Cells
      /\ \A v \in Workers : v # w => done'[v] = done[v]
  BY <1>1, SMTT(20) DEF FileTypes, Cells
<1>3. at[w] = "io"
  BY <1>1 DEF InUseInv, FileTypes
<1>4. data' = [data EXCEPT ![c] = Append(@, next)]
  BY <1>3 DEF Transfer
<1>5. wpc[w] = "run" /\ c \in Calls /\ outcome[c] = "none" /\ \A v \in Workers : job[v] = c => v = w
  <2>1. wpc[w] = "run"
    BY <1>1 DEF InUseInv
  <2> QED
    BY <2>1, Running
<1>6. /\ data' \in [Calls -> Seq(Calls \cup {NoCall})] /\ data'[c] = Append(data[c], next)
      /\ data[c] \in Seq(Calls \cup {NoCall}) /\ next \in Calls \cup {NoCall}
      /\ \A d \in Calls : d # c => data'[d] = data[d]
  <2>1. data[c] \in Seq(Calls \cup {NoCall}) /\ next \in Calls \cup {NoCall}
    BY <1>2, <1>5 DEF FileTypes
  <2>2. Append(data[c], next) \in Seq(Calls \cup {NoCall})
    BY <2>1, SMTT(20)
  <2> HIDE DEF next
  <2> QED
    BY <1>4, <1>5, <2>1, <2>2 DEF FileTypes
<1>7. Ops' = Ops
  BY <1>1 DEF Ops
<1>8. FileTypes'
  BY <1>1, <1>2, <1>6 DEF FileTypes
<1>9. InUseInv' /\ FileOpenInUse'
  BY <1>1, <1>7 DEF InUseInv, FileOpenInUse
<1>10. ContentInv'
  <2> SUFFICES ASSUME ~torn
               PROVE  ContentInv'
    BY <1>1 DEF ContentInv
  <2>1. (\A v \in Workers : ~(at'[v] = "io" /\ job'[v] \in Writers)) => Uniform'
    BY <1>1 DEF ContentInv, Uniform, Cells
  <2>2. ASSUME NEW v \in Workers, at'[v] = "io", job'[v] \in Writers
        PROVE  HalfWritten(v)'
    <3>1. HalfWritten(v) /\ v # w
      BY <1>1, <2>2 DEF ContentInv
    <3> QED
      BY <1>1, <1>2, <3>1 DEF HalfWritten, Cells
  <2>3. ASSUME NEW v \in Workers, at'[v] = "io", job'[v] \in Readers \cap Ops'
        PROVE  ReadSoFar(v)'
    <3>1. ReadSoFar(v)
      BY <1>1, <1>7, <2>3 DEF ContentInv
    <3>2. CASE v # w
      <4>1. job[v] # c /\ job[v] \in Calls
        BY <1>1, <1>5, <2>3, <3>2
      <4> QED
        BY <1>1, <1>2, <1>6, <3>1, <3>2, <4>1 DEF ReadSoFar
    <3>3. CASE v = w
      <4>1. \A u \in Workers : ~(at[u] = "io" /\ job[u] \in Writers)
        <5> SUFFICES ASSUME NEW u \in Workers, at[u] = "io", job[u] \in Writers
                     PROVE  FALSE
          OBVIOUS
        <5>1. u = w
          BY <1>1, <1>3, <1>7, <2>3, <3>3, WriterAlone
        <5> QED
          BY <5>1
      <4>2. Uniform
        BY <4>1 DEF ContentInv
      <4>3. next # NoCall
        <5>1. Length # 0
          BY <1>1, <1>2, SMTT(20) DEF AtEnd
        <5> QED
          BY <1>2, <4>2, <5>1, UniformLength
      <4>4. Len(data[c]) = done[w]
            /\ \A i \in 1..done[w] : data[c][i] = content[i] /\ content[i] # NoCall
        BY <3>1, <3>3 DEF ReadSoFar
      <4> HIDE DEF c
      <4>5. /\ Len(data'[c]) = done[w] + 1 /\ data'[c][done[w] + 1] = next
            /\ \A i \in 1..done[w] : data'[c][i] = data[c][i]
        BY <1>2, <1>6, <4>4, SMTT(20)
      <4>6. \A i \in 1..(done[w] + 1) : data'[c][i] = content[i] /\ content[i] # NoCall
        <5> SUFFICES ASSUME NEW i \in 1..(done[w] + 1)
                     PROVE  data'[c][i] = content[i] /\ content[i] # NoCall
          OBVIOUS
        <5>1. i = 1 + done[w] \/ i \in 1..done[w]
          BY <1>2, SMTT(20)
        <5>2. CASE i = 1 + done[w]
          BY <1>2, <4>3, <4>5, <5>2, SMTT(20)
        <5>3. CASE i \in 1..done[w]
          BY <4>4, <4>5, <5>3
        <5> QED
          BY <5>1, <5>2, <5>3
      <4>7. job'[v] = c /\ done'[v] = done[w] + 1 /\ content' = content
        BY <1>1, <1>2, <3>3 DEF c
      <4> QED
        BY <4>5, <4>6, <4>7 DEF ReadSoFar
    <3> QED
      BY <3>2, <3>3
  <2> QED
    BY <1>1, <2>1, <2>2, <2>3 DEF ContentInv
<1>11. DataInv'
  BY <1>1, <1>6 DEF DataInv, Runs
<1>12. ReadsWhole'
  <2>1. ASSUME NEW d \in Readers \cap Ops, outcome[d] = "Ok"
        PROVE  data'[d] = data[d]
    BY <1>5, <1>6, <2>1 DEF Ops
  <2>2. Ops' = Ops /\ outcome' = outcome /\ (~torn' => ~torn)
    BY <1>1, <1>7
  <2> QED
    <3> SUFFICES ASSUME NEW d \in Readers \cap Ops, outcome[d] = "Ok", ~torn
                 PROVE  data'[d] = <<>> \/ \E v \in Writers : data'[d] = [i \in Cells |-> v]
      BY <2>2 DEF ReadsWhole, Cells
    <3>1. data'[d] = data[d]
      BY <2>1
    <3>2. data[d] = <<>> \/ \E v \in Writers : data[d] = [i \in Cells |-> v]
      BY DEF ReadsWhole
    <3> QED
      BY <3>1, <3>2, SMTT(20)
<1> QED
  BY <1>8, <1>9, <1>10, <1>11, <1>12

\* The end of a function in the file: what a reader returns is what the file holds, and a
\* write that ends before its last cell is known to be torn.
LEMMA EndInv ==
  ASSUME BridgeInv, FileTypes, InUseInv, FileOpenInUse, ContentInv, DataInv, ReadsWhole,
         NEW w \in Workers, Finish(w) \/ Fail(w)
  PROVE  FileTypes' /\ InUseInv' /\ FileOpenInUse' /\ ContentInv' /\ DataInv' /\ ReadsWhole'
<1> DEFINE c == job[w]
<1>1. PICK o \in {"Ok", "Err"} :
        /\ Ends(w, o) /\ at[w] # "begin" /\ UNCHANGED <<fd, done>> /\ (torn => torn')
        /\ c \in Writers => torn' \/ done[w] = Size \/ ~(done[w] > 0)
        /\ o = "Ok" /\ c \in Readers => Complete(w)
  <2>1. CASE Finish(w)
    <3>1. Ends(w, "Ok") /\ at[w] # "begin" /\ UNCHANGED <<fd, done, torn>>
      BY <2>1 DEF Finish
    <3>2. (c \in Writers => done[w] = Size) /\ (c \in Readers => Complete(w))
      BY <2>1 DEF Finish, Complete
    <3> QED
      BY <3>1, <3>2
  <2>2. CASE Fail(w)
    <3>1. Ends(w, "Err") /\ at[w] # "begin" /\ UNCHANGED <<fd, done>>
      BY <2>2 DEF Fail
    <3>2. (torn => torn') /\ (c \in Writers /\ done[w] > 0 => torn')
      BY <2>2 DEF Fail
    <3> QED
      BY <3>1, <3>2
  <2> QED
    BY <2>1, <2>2
<1>2. /\ wpc[w] = "run" /\ UNCHANGED <<job, paths, closing, content, data>>
      /\ at' \in [Workers -> {"begin", "io", "append"}]
      /\ at'[w] = "begin" /\ \A v \in Workers : v # w => at'[v] = at[v] /\ wpc'[v] = wpc[v]
      /\ outcome'[c] = o /\ \A d \in Calls : d # c => outcome'[d] = outcome[d]
  BY <1>1, EndsFrame
<1>3. c \in Calls /\ outcome[c] = "none" /\ (\A v \in Workers : job[v] = c => v = w) /\ c # Opener
  <2>1. c # Opener
    BY <1>1 DEF InUseInv
  <2> QED
    BY <1>2, <2>1, Running
<1>4. Ops' = Ops /\ (torn => torn')
  BY <1>1, <1>2 DEF Ops
<1>5. FileTypes'
  BY <1>1, <1>2 DEF FileTypes
<1>6. InUseInv'
  <2>1. outcome'[Opener] = outcome[Opener]
    BY <1>2, <1>3
  <2>2. \A v \in Workers : at'[v] # "begin" => at'[v] = at[v] /\ wpc'[v] = wpc[v]
    BY <1>2
  <2>3. UNCHANGED <<job, paths, fd, closing>> /\ (torn => torn')
    BY <1>1, <1>2
  <2> QED
    BY <2>1, <2>2, <2>3 DEF InUseInv
<1>7. FileOpenInUse'
  BY <1>1, <1>2, <1>4, SMTT(20) DEF FileOpenInUse
<1>8. DataInv'
  BY <1>2, <1>3, SMTT(20) DEF DataInv, Runs
<1>9. ContentInv'
  <2> SUFFICES ASSUME ~torn'
               PROVE  ContentInv'
    BY DEF ContentInv
  <2>1. ~torn
    BY <1>4
  <2>2. ASSUME \A v \in Workers : ~(at'[v] = "io" /\ job'[v] \in Writers)
        PROVE  Uniform'
    <3>1. CASE c \in Writers
      <4>1. at[w] = "io"
        BY <1>1, <2>1, <3>1, WriterAlone
      <4>2. HalfWritten(w)
        BY <2>1, <3>1, <4>1 DEF ContentInv
      <4>3. done[w] \in {0, Size}
        BY <1>1, <3>1, SMTT(20) DEF FileTypes
      <4>4. Uniform
        BY <3>1, <4>2, <4>3, HalfWrittenIsUniform
      <4> QED
        BY <1>2, <4>4 DEF Uniform, Cells
    <3>2. CASE c \notin Writers
      <4>1. \A v \in Workers : ~(at[v] = "io" /\ job[v] \in Writers)
        BY <1>2, <2>2, <3>2
      <4>2. Uniform
        BY <2>1, <4>1 DEF ContentInv
      <4> QED
        BY <1>2, <4>2 DEF Uniform, Cells
    <3> QED
      BY <3>1, <3>2
  <2>3. ASSUME NEW v \in Workers, at'[v] = "io", job'[v] \in Writers
        PROVE  HalfWritten(v)'
    <3>1. v # w /\ HalfWritten(v)
      BY <1>2, <2>1, <2>3 DEF ContentInv
    <3> QED
      BY <1>1, <1>2, <3>1 DEF HalfWritten, Cells
  <2>4. ASSUME NEW v \in Workers, at'[v] = "io", job'[v] \in Readers \cap Ops'
        PROVE  ReadSoFar(v)'
    <3>1. v # w /\ ReadSoFar(v)
      BY <1>2, <1>4, <2>1, <2>4 DEF ContentInv
    <3> QED
      BY <1>1, <1>2, <3>1 DEF ReadSoFar
  <2> QED
    BY <2>2, <2>3, <2>4 DEF ContentInv
<1>10. ReadsWhole'
  <2> SUFFICES ASSUME NEW d \in Readers \cap Ops, outcome'[d] = "Ok", ~torn'
               PROVE  data[d] = <<>> \/ \E v \in Writers : data[d] = [i \in Cells |-> v]
    BY <1>2, <1>4, SMTT(20) DEF ReadsWhole, Cells
  <2>1. ~torn
    BY <1>4
  <2>2. CASE d # c
    <3>1. outcome[d] = "Ok"
      BY <1>2, <2>2 DEF Ops
    <3> QED
      BY <2>1, <3>1 DEF ReadsWhole
  <2>3. CASE d = c
    <3>1. at[w] = "io" /\ c \in Readers \cap Ops /\ c \notin Writers
      BY <1>1, <2>3 DEF InUseInv, FileTypes
    <3>2. ReadSoFar(w) /\ Complete(w)
      BY <1>1, <1>2, <2>1, <2>3, <3>1 DEF ContentInv
    <3>3. \A u \in Workers : ~(at[u] = "io" /\ job[u] \in Writers)
      <4> SUFFICES ASSUME NEW u \in Workers, at[u] = "io", job[u] \in Writers
                   PROVE  FALSE
        OBVIOUS
      <4>1. u = w
        BY <2>1, <3>1, WriterAlone
      <4> QED
        BY <3>1, <4>1
    <3>4. Uniform
      BY <2>1, <3>3 DEF ContentInv
    <3>5. done[w] \in 0..Size /\ data[c] \in Seq(Calls \cup {NoCall})
      BY <1>3 DEF FileTypes
    <3>6. Len(data[c]) = done[w] /\ \A i \in 1..done[w] : data[c][i] = content[i]
                                                         /\ content[i] # NoCall
      BY <3>2 DEF ReadSoFar
    <3>7. done[w] = Size \/ done[w] >= Length
      BY <3>2 DEF Complete, AtEnd
    <3> HIDE DEF c
    <3>8. CASE (\A i \in Cells : content[i] = NoCall) /\ Length = 0
      <4>1. done[w] = 0
        BY <3>5, <3>6, <3>8, SMTT(20) DEF Cells
      <4> QED
        BY <2>3, <3>5, <3>6, <4>1, SMTT(20)
    <3>9. ASSUME NEW v \in Writers, \A i \in Cells : content[i] = v, Length = Size
          PROVE  data[c] = [i \in Cells |-> v]
      <4>1. done[w] = Size
        BY <3>5, <3>7, <3>9, SMTT(20)
      <4>2. Len(data[c]) = Size /\ \A i \in 1..Size : data[c][i] = v
        BY <3>6, <3>9, <4>1 DEF Cells
      <4> QED
        BY <3>5, <4>2, SMTT(20) DEF Cells
    <3> QED
      BY <2>3, <3>4, <3>8, <3>9, UniformLength
  <2> QED
    BY <2>2, <2>3
<1> QED
  BY <1>5, <1>6, <1>7, <1>8, <1>9, <1>10
-----------------------------------------------------------------------------
\* The conjuncts of the type invariant, regrouped.
LEMMA TypesOf == TypeOK <=> BridgeTypeOK /\ FileTypes /\ FileFlags
BY DEF TypeOK, FileTypes, FileFlags

\* A process that has called nothing satisfies the invariant.
LEMMA InitInv == Init => IInv
<1> SUFFICES ASSUME Init
             PROVE  IInv
  OBVIOUS
<1>1. /\ items = <<>> /\ shut = FALSE /\ counter = {} /\ registered = {} /\ torn_down = FALSE
      /\ wpc = [w \in Workers |-> "recv"] /\ job = [w \in Workers |-> NoCall]
      /\ call = [c \in Calls |-> "idle"] /\ refs = [c \in Calls |-> {}]
      /\ result = [c \in Calls |-> "not_completed"]
      /\ outcome = [c \in Calls |-> "none"] /\ got = [c \in Calls |-> "none"]
  BY DEF Init, BridgeInit, Pool!Init
<1>2. /\ fd = "none" /\ object = FALSE /\ paths = {} /\ closing = FALSE /\ torn = FALSE
      /\ at = [w \in Workers |-> "begin"] /\ done = [w \in Workers |-> 0]
      /\ content = [i \in Cells |-> NoCall] /\ data = [c \in Calls |-> <<>>]
  BY DEF Init
<1>3. items \in Seq(Calls) /\ Len(items) = 0 /\ Range(items) = {} /\ IsInjective(items)
  BY <1>1, EmptyQueue
<1>4. BridgeTypeOK
  <2>1. Capacity > 0 => Len(items) <= Capacity
    BY <1>3, SMTT(20)
  <2>2. /\ wpc \in [Workers -> {"recv", "run", "notify", "release", "exited"}]
        /\ job \in [Workers -> Calls \cup {NoCall}]
        /\ call \in [Calls -> {"idle", "suspended", "ready", "returned", "destroyed"}]
    BY <1>1
  <2>3. /\ refs \in [Calls -> SUBSET Holders] /\ result \in [Calls -> Values]
        /\ outcome \in [Calls -> Values] /\ got \in [Calls -> Values]
    BY <1>1
  <2> QED
    BY <1>1, <1>3, <2>1, <2>2, <2>3 DEF BridgeTypeOK
<1>5. FileTypes /\ FileFlags
  <2>1. at \in [Workers -> {"begin", "io", "append"}] /\ done \in [Workers -> 0..Size]
    BY <1>2, SMTT(20)
  <2>2. /\ content \in [Cells -> Calls \cup {NoCall}]
        /\ data \in [Calls -> Seq(Calls \cup {NoCall})]
    BY <1>2, SMTT(20)
  <2> QED
    BY <1>2, <2>1, <2>2 DEF FileTypes, FileFlags
<1>6. QueueInv
  BY <1>1, <1>3 DEF QueueInv, Runs
<1>7. CallInv /\ OutcomeDelivered
  BY <1>1 DEF CallInv, OutcomeDelivered
<1>8. InUseInv /\ FileOpenInUse
  BY <1>2 DEF InUseInv, FileOpenInUse
<1>9. ContentInv
  BY <1>2 DEF ContentInv, Uniform
<1>10. DataInv /\ ReadsWhole
  BY <1>1, <1>2 DEF DataInv, ReadsWhole
<1> QED
  BY <1>4, <1>5, <1>6, <1>7, <1>8, <1>9, <1>10, TypesOf DEF IInv, BridgeInv

\* Every step of a function on the pool keeps the File's invariants.
LEMMA FunctionInv ==
  ASSUME BridgeInv, FileTypes, InUseInv, FileOpenInUse, ContentInv, DataInv, ReadsWhole,
         NEW w \in Workers, Function(w)
  PROVE  FileTypes' /\ InUseInv' /\ FileOpenInUse' /\ ContentInv' /\ DataInv' /\ ReadsWhole'
<1>1. CASE Enter(w)
  BY <1>1, EnterInv
<1>2. CASE EnterFails(w)
  BY <1>2, OpenInv
<1>3. CASE Transfer(w)
  BY <1>3, WriteInv, ReadInv
<1>4. CASE Finish(w) \/ Fail(w)
  BY <1>4, EndInv
<1>5. ASSUME NEW o \in {"Ok", "Err"}, OpenFile(w, o)
      PROVE  FileTypes' /\ InUseInv' /\ FileOpenInUse' /\ ContentInv' /\ DataInv' /\ ReadsWhole'
  BY <1>5, OpenInv
<1> QED
  BY <1>1, <1>2, <1>3, <1>4, <1>5 DEF Function

\* The invariant is inductive for every set of calls and of workers, every capacity of the
\* pool's channel and every size of the file.
THEOREM Invariance == Spec => []IInv
<1>1. IInv /\ [Next]_vars => IInv'
  <2> SUFFICES ASSUME IInv, [Next]_vars
               PROVE  IInv'
    OBVIOUS
  <2>1. BridgeInv' /\ BridgeTypeOK'
    BY BridgeInvStep DEF IInv, BridgeInv
  <2>2. FileFlags'
    BY FlagsStep, TypesOf DEF IInv
  <2>3. FileTypes' /\ InUseInv' /\ FileOpenInUse' /\ ContentInv' /\ DataInv' /\ ReadsWhole'
    BY CalmOrFunction, CalmInv, FunctionInv, TypesOf DEF IInv
  <2>4. TypeOK'
    BY <2>1, <2>2, <2>3 DEF TypeOK, FileTypes, FileFlags
  <2> QED
    BY <2>1, <2>3, <2>4 DEF IInv
<1> QED
  BY InitInv, <1>1, PTL DEF Spec

\* A worker that writes the result of a call or signals its eventfd finds the BlockingState
\* alive, whether or not the loop destroyed the frame that waited for it.
THEOREM StateOutlivesFrame == Spec => []SharedStateAlive
<1>1. IInv => SharedStateAlive
  <2> SUFFICES ASSUME IInv, NEW w \in Workers, job[w] # NoCall
               PROVE  refs[job[w]] # {}
    BY DEF SharedStateAlive
  <2>1. job[w] \in Calls
    BY BridgeTypes DEF IInv, BridgeInv
  <2> QED
    BY <2>1 DEF IInv, BridgeInv, QueueInv, Runs
<1> QED
  BY Invariance, <1>1, PTL

\* The loop resumes a call only after the worker wrote its result for the last time: the
\* counter of the eventfd orders the two threads.
THEOREM ResultIsOrdered == Spec => []NoResultRace
<1>1. IInv => NoResultRace
  <2> SUFFICES ASSUME IInv, NEW c \in Calls, call[c] = "ready"
               PROVE  /\ \A w \in Workers : job[w] = c => wpc[w] = "release"
                      /\ result[c] = outcome[c]
    BY DEF NoResultRace
  <2>1. c \in counter
    BY DEF IInv, BridgeInv, CallInv
  <2>2. outcome[c] # "none" /\ \A w \in Workers : Runs(w, c) => wpc[w] = "release"
    BY <2>1 DEF IInv, BridgeInv, CallInv
  <2> QED
    BY <2>2 DEF IInv, BridgeInv, CallInv, Runs
<1> QED
  BY Invariance, <1>1, PTL

\* co_await spawn_blocking_result() gives what the function did, and the refusal only for a
\* function that the pool never took.
THEOREM AwaitGivesOutcome == Spec => []OutcomeDelivered
<1>1. IInv => OutcomeDelivered
  BY DEF IInv, BridgeInv
<1> QED
  BY Invariance, <1>1, PTL

\* close() and ~State() never release a descriptor that a worker is using, and the mutex
\* lets one operation of a File in at a time.
THEOREM DescriptorHeld == Spec => []FileOpenInUse
<1>1. IInv => FileOpenInUse
  BY DEF IInv
<1> QED
  BY Invariance, <1>1, PTL

\* read_at() returns one write_at() whole, or the empty file, unless a write failed
\* half-way or went through the path.
THEOREM ReadIsWhole == Spec => []ReadsWhole
<1>1. IInv => ReadsWhole
  BY DEF IInv
<1> QED
  BY Invariance, <1>1, PTL
=============================================================================
