----------------------------- MODULE TaskProofs -----------------------------
(***************************************************************************)
(* Proofs about Task, for every number of children, every nesting of them  *)
(* and every number of attempts.                                           *)
(***************************************************************************)
EXTENDS Task, QueueLemmas, FiniteSetTheorems, TLAPS

\* Zenon proves most leaves; one with arithmetic, records or sequences cites SMT.
USE ZenonT(30)
USE DEF TokenPassed, TransfersTo, AttemptsLeft, JoinDone

\* A frame that has not ended, and the one that frame f waits for.
Alive == {"queued", "running", "leaf", "awaiting"}
Awaits(f, g) == cont[g] = f /\ state[g] \in Alive

\* The frames in the loop's queues are those it is to resume, each of them once.
QueueInv ==
  /\ \A f \in Frames : state[f] = "running" <=> running = f
  /\ IsInjective(batch) /\ IsInjective(queue) /\ Range(batch) \cap Range(queue) = {}
  /\ \A f \in Frames : f \in Range(batch) \cup Range(queue) <=>
                         state[f] = "queued" \/ (state[f] = "leaf" /\ wait[f] # "Pending")
  /\ \A f \in Frames : wait[f] = "Pending" => state[f] = "leaf"
  /\ pc # "batch" => running = None /\ batch = <<>>

\* A frame that awaits waits for exactly one frame, which has not ended, and a frame that
\* has not ended is to resume only a frame that awaits.
ChainInv ==
  /\ \A f \in Frames : state[f] = "awaiting" => \E g \in Frames : Awaits(f, g)
  /\ \A f, g \in Frames :
       Awaits(f, g) => state[f] = "awaiting" /\ \A h \in Frames : Awaits(f, h) => h = g

\* How far Capture is, and what has become of Main and its result by then.
JoinInv ==
  /\ state[Main] # "none" /\ state[Capture] \notin {"none", "leaf"}
  /\ \A g \in Frames : cont[g] = Capture => g = Main
  /\ cont[Main] \in {None, Capture} /\ cont[Capture] = None
  /\ state[Capture] = "queued" => Capture \in Range(batch)
  /\ state[Capture] \in {"queued", "running"} => state[Main] # "destroyed"
  /\ state[Capture] \in {"queued", "running", "awaiting"} => slot = "none"
  /\ state[Main] \in Alive => result[Main] = "none"
  /\ state[Capture] \in {"done", "destroyed"} => state[Main] \in {"done", "destroyed"}
  /\ state[Capture] \notin {"queued", "running"} => slot = result[Main]

\* The token of Main is the token of every Task below it, and a leaf that takes a stopped
\* token does not wait.
TokenInv ==
  /\ Main \in token => \A f \in Frames \ {Capture} : state[f] # "none" => f \in token
  /\ stopped => \A f \in token : wait[f] = "Pending" => f \in deaf

\* What Main has seen is what its combinator lets it see before it goes on.
Seen ==
  /\ script = "retry" => Len(outcomes) <= limit
  /\ \A i \in DOMAIN outcomes :
       i < Len(outcomes) => outcomes[i] = IF script = "and_then" THEN "Ok" ELSE "Err"

Promised ==
  state[Main] = "done" /\ result[Main] # "exception" /\ script # "deadline" =>
    /\ result[Main] = IF outcomes = <<>> THEN "Err" ELSE Last(outcomes)
    /\ outcomes = <<>> <=> script = "retry" /\ limit = 0
    /\ script = "retry" /\ result[Main] = "Err" => Len(outcomes) = limit

ScriptInv == Seen /\ Promised /\ (state[Main] = "awaiting" => Continues)

IInv == TypeOK /\ QueueInv /\ ChainInv /\ JoinInv /\ TokenInv /\ ScriptInv
-----------------------------------------------------------------------------
\* The frames are Main, Capture and the children.
LEMMA FrameFacts ==
  /\ Main \in Frames /\ Capture \in Frames /\ Main # Capture
  /\ None \notin Frames /\ None # Main /\ None # Capture
  /\ Children \subseteq Frames /\ Main \notin Children /\ Capture \notin Children
  /\ Frames = Children \cup {Main, Capture}
  /\ IsFiniteSet(Frames)
<1>1. MaxChildren \in Nat
  BY TaskAssumption
<1>2. IsFiniteSet(Frames)
  BY <1>1, FS_Interval, SMTT(20) DEF Frames
<1> QED
  BY <1>1, <1>2, SMTT(20) DEF Main, Capture, None, Frames, Children

\* A step that changes neither who awaits whom nor which frames await keeps the chain.
LEMMA SameChain ==
  ASSUME ChainInv,
         \A g, h \in Frames : Awaits(g, h)' <=> Awaits(g, h),
         \A g \in Frames : state'[g] = "awaiting" <=> state[g] = "awaiting"
  PROVE  ChainInv'
BY SMTT(20) DEF ChainInv, Awaits

\* The running frame is in no queue, has no pending leaf, and awaits nothing.
LEMMA RunningFacts ==
  ASSUME IInv, NEW f \in Frames, running = f
  PROVE  /\ state[f] = "running" /\ pc = "batch"
         /\ \A g \in Frames : state[g] = "running" => g = f
         /\ f \notin Range(batch) /\ f \notin Range(queue)
         /\ wait[f] # "Pending"
         /\ \A g \in Frames : ~Awaits(f, g)
<1>1. state[f] = "running" /\ \A g \in Frames : state[g] = "running" => g = f
  BY DEF IInv, QueueInv
<1>2. f \notin Range(batch) /\ f \notin Range(queue)
  BY <1>1 DEF IInv, QueueInv
<1>3. wait[f] # "Pending"
  BY <1>1 DEF IInv, QueueInv
<1>4. pc = "batch"
  BY FrameFacts DEF IInv, QueueInv
<1>5. \A g \in Frames : ~Awaits(f, g)
  BY <1>1 DEF IInv, ChainInv
<1> QED
  BY <1>1, <1>2, <1>3, <1>4, <1>5

\* A frame suspends in a leaf.
LEMMA LeafWaitInv ==
  ASSUME IInv, NEW f \in Frames, f # Capture, NEW hears \in BOOLEAN, running = f,
         LeafWait(f, hears), slept' \in BOOLEAN
  PROVE  IInv'
<1> DEFINE cancelled == stopped /\ hears /\ f \in token
<1>0. TypeOK /\ QueueInv /\ ChainInv /\ JoinInv /\ TokenInv /\ ScriptInv
  BY DEF IInv
<1>1. /\ state' = [state EXCEPT ![f] = "leaf"]
      /\ wait' = [wait EXCEPT ![f] = IF cancelled THEN "Cancelled" ELSE "Pending"]
      /\ queue' = IF cancelled THEN Append(queue, f) ELSE queue
      /\ running' = None
      /\ deaf' = IF hears THEN deaf \ {f} ELSE deaf \cup {f}
  BY DEF LeafWait
<1>2. UNCHANGED <<script, limit, token, stopped, outcomes, cont, result, batch, pc, slot>>
  BY DEF LeafWait
<1>3. /\ state[f] = "running" /\ pc = "batch" /\ f \notin Range(batch) /\ f \notin Range(queue)
      /\ \A g \in Frames : state[g] = "running" => g = f
  BY RunningFacts
<1>4. state \in [Frames -> {"none", "queued", "running", "leaf", "awaiting", "done",
                           "destroyed"}]
      /\ wait \in [Frames -> {"none", "Pending", "Ready", "Cancelled"}]
      /\ queue \in Seq(Frames)
  BY <1>0 DEF TypeOK
<1>5. /\ queue' \in Seq(Frames) /\ IsInjective(queue')
      /\ Range(queue') = Range(queue) \cup (IF cancelled THEN {f} ELSE {})
  <2>1. IsInjective(queue)
    BY <1>0 DEF QueueInv
  <2>2. CASE cancelled
    BY <1>1, <1>3, <1>4, <2>1, <2>2, Appended, SMTT(20)
  <2>3. CASE ~cancelled
    BY <1>1, <1>4, <2>1, <2>3
  <2> QED
    BY <2>2, <2>3
<1>6. /\ \A g \in Frames : state'[g] = IF g = f THEN "leaf" ELSE state[g]
      /\ \A g \in Frames : wait'[g] = IF g = f THEN IF cancelled THEN "Cancelled" ELSE "Pending"
                                              ELSE wait[g]
  BY <1>1, <1>4
<1> HIDE DEF cancelled
<1>7. TypeOK'
  <2>1. state' \in [Frames -> {"none", "queued", "running", "leaf", "awaiting", "done",
                              "destroyed"}]
    BY <1>1, <1>4
  <2>2. wait' \in [Frames -> {"none", "Pending", "Ready", "Cancelled"}]
    BY <1>1, <1>4
  <2>3. running' \in Frames \cup {None}
    BY <1>1
  <2>4. deaf' \in SUBSET Frames
    BY <1>0, <1>1 DEF TypeOK
  <2> QED
    BY <1>0, <1>2, <1>5, <2>1, <2>2, <2>3, <2>4 DEF TypeOK
<1>8. QueueInv'
  <2>1. \A g \in Frames : state'[g] = "running" <=> running' = g
    BY <1>1, <1>3, <1>6, FrameFacts, SMTT(20)
  <2>2. Range(batch') \cap Range(queue') = {} /\ IsInjective(batch')
    BY <1>0, <1>2, <1>3, <1>5 DEF QueueInv
  <2>3. \A g \in Frames :
          g \in Range(batch') \cup Range(queue') <=>
            state'[g] = "queued" \/ (state'[g] = "leaf" /\ wait'[g] # "Pending")
    <3>1. CASE cancelled
      BY <1>0, <1>2, <1>3, <1>5, <1>6, <3>1 DEF QueueInv
    <3>2. CASE ~cancelled
      BY <1>0, <1>2, <1>3, <1>5, <1>6, <3>2 DEF QueueInv
    <3> QED
      BY <3>1, <3>2
  <2>4. \A g \in Frames : wait'[g] = "Pending" => state'[g] = "leaf"
    BY <1>0, <1>6 DEF QueueInv
  <2> QED
    BY <1>2, <1>3, <1>5, <2>1, <2>2, <2>3, <2>4 DEF QueueInv
<1>9. ChainInv'
  <2>1. \A g, h \in Frames : Awaits(g, h)' <=> Awaits(g, h)
    BY <1>2, <1>3, <1>6 DEF Awaits, Alive
  <2>2. \A g \in Frames : state'[g] = "awaiting" <=> state[g] = "awaiting"
    BY <1>3, <1>6
  <2> QED
    BY <1>0, <2>1, <2>2, SameChain
<1>10. JoinInv'
  <2>1. state'[Capture] = state[Capture] /\ state[Capture] # "running"
    BY <1>3, <1>6, FrameFacts
  <2>2. \/ state'[Main] = state[Main]
        \/ state[Main] = "running" /\ state'[Main] = "leaf"
    BY <1>3, <1>6, FrameFacts
  <2> QED
    BY <1>0, <1>2, <2>1, <2>2 DEF JoinInv, Alive
<1>11. TokenInv'
  <2>1. Main \in token => \A g \in Frames \ {Capture} : state'[g] # "none" => g \in token
    BY <1>0, <1>3, <1>6 DEF TokenInv
  <2>2. token \subseteq Frames
    BY <1>0 DEF TypeOK
  <2>3. ASSUME stopped, NEW g \in token, wait'[g] = "Pending" PROVE g \in deaf'
    <3>1. CASE g = f
      <4>1. ~cancelled
        BY <1>6, <2>2, <2>3, <3>1
      <4>2. ~hears
        BY <2>3, <3>1, <4>1 DEF cancelled
      <4>3. deaf' = deaf \cup {f}
        BY <1>1, <4>2
      <4> QED
        BY <3>1, <4>3
    <3>2. CASE g # f
      BY <1>0, <1>1, <1>6, <2>2, <2>3, <3>2 DEF TokenInv
    <3> QED
      BY <3>1, <3>2
  <2> QED
    BY <1>2, <2>1, <2>3 DEF TokenInv
<1>12. ScriptInv'
  <2>1. /\ state'[Main] = "done" => state[Main] = "done"
        /\ state'[Main] = "awaiting" => state[Main] = "awaiting"
    BY <1>6, FrameFacts
  <2>2. Seen' /\ Promised'
    BY <1>0, <1>2, <2>1 DEF ScriptInv, Seen, Promised
  <2>3. state'[Main] = "awaiting" => Continues'
    BY <1>0, <1>2, <2>1 DEF ScriptInv, Continues
  <2> QED
    BY <2>2, <2>3 DEF ScriptInv
<1> QED
  BY <1>7, <1>8, <1>9, <1>10, <1>11, <1>12 DEF IInv

\* A frame awaits a new Task.
LEMMA CallChildInv ==
  ASSUME IInv, NEW f \in Frames, f # Capture, running = f, CallChild(f), slept' = slept,
         f = Main => Continues
  PROVE  IInv'
<1>0. TypeOK /\ QueueInv /\ ChainInv /\ JoinInv /\ TokenInv /\ ScriptInv
  BY DEF IInv
<1>1. PICK c \in Children :
        /\ state[c] = "none"
        /\ state' = [state EXCEPT ![f] = "awaiting", ![c] = "running"]
        /\ cont' = [cont EXCEPT ![c] = f]
        /\ token' = IF f \in token THEN token \cup {c} ELSE token
        /\ running' = c
        /\ UNCHANGED <<script, limit, stopped, outcomes, wait, deaf, result, loopVars>>
  BY DEF CallChild
<1>2. UNCHANGED <<script, limit, stopped, outcomes, wait, deaf, result, queue, batch, pc, slot>>
  BY <1>1 DEF loopVars
<1>3. /\ state[f] = "running" /\ pc = "batch"
      /\ \A g \in Frames : state[g] = "running" => g = f
      /\ \A g \in Frames : ~Awaits(f, g)
  BY RunningFacts
<1>4. c \in Frames /\ c # f /\ c # Main /\ c # Capture
  BY <1>1, <1>3, FrameFacts
<1>5. /\ state \in [Frames -> {"none", "queued", "running", "leaf", "awaiting", "done",
                             "destroyed"}]
      /\ cont \in [Frames -> Frames \cup {None}]
  BY <1>0 DEF TypeOK
<1>6. /\ \A g \in Frames : state'[g] = IF g = c THEN "running"
                                       ELSE IF g = f THEN "awaiting" ELSE state[g]
      /\ \A g \in Frames : cont'[g] = IF g = c THEN f ELSE cont[g]
  BY <1>1, <1>4, <1>5
<1>7. TypeOK'
  <2>1. state' \in [Frames -> {"none", "queued", "running", "leaf", "awaiting", "done",
                              "destroyed"}]
    BY <1>1, <1>5
  <2>2. cont' \in [Frames -> Frames \cup {None}]
    BY <1>1, <1>5
  <2>3. token' \in SUBSET Frames
    BY <1>0, <1>1, <1>4 DEF TypeOK
  <2>4. running' \in Frames \cup {None}
    BY <1>1, <1>4
  <2>5. stopped' \in BOOLEAN /\ slept' \in BOOLEAN
    BY <1>0, <1>2 DEF TypeOK
  <2> QED
    BY <1>0, <1>2, <2>1, <2>2, <2>3, <2>4, <2>5 DEF TypeOK
<1>8. QueueInv'
  <2>0. state[c] = "none" /\ running' = c
    BY <1>1
  <2>1. \A g \in Frames : state'[g] = "running" <=> running' = g
    BY <1>3, <1>6, <2>0
  <2>2. ASSUME NEW g \in Frames
        PROVE  /\ state'[g] = "queued" <=> state[g] = "queued"
               /\ state'[g] = "leaf" <=> state[g] = "leaf"
    BY <1>3, <1>6, <2>0
  <2>3. /\ \A g \in Frames :
             g \in Range(batch') \cup Range(queue') <=>
               state'[g] = "queued" \/ (state'[g] = "leaf" /\ wait'[g] # "Pending")
        /\ \A g \in Frames : wait'[g] = "Pending" => state'[g] = "leaf"
    BY <1>0, <1>2, <2>2 DEF QueueInv
  <2> QED
    BY <1>0, <1>2, <1>3, <2>1, <2>3 DEF QueueInv
<1>9. ChainInv'
  <2>1. \A g \in Frames : ~Awaits(c, g)
    BY <1>0, <1>1, <1>4 DEF ChainInv
  <2>2. \A g, h \in Frames :
          Awaits(g, h)' <=> (g = f /\ h = c) \/ (g # f /\ Awaits(g, h))
    <3> SUFFICES ASSUME NEW g \in Frames, NEW h \in Frames
                 PROVE  Awaits(g, h)' <=> (g = f /\ h = c) \/ (g # f /\ Awaits(g, h))
      OBVIOUS
    <3>1. CASE h = c
      BY <1>1, <1>4, <1>6, <3>1 DEF Awaits, Alive
    <3>2. CASE h # c
      <4>1. Awaits(g, h)' <=> Awaits(g, h)
        BY <1>3, <1>6, <3>2 DEF Awaits, Alive
      <4> QED
        BY <1>3, <3>2, <4>1
    <3> QED
      BY <3>1, <3>2
  <2>3. ASSUME NEW g \in Frames, state'[g] = "awaiting"
        PROVE  \E h \in Frames : Awaits(g, h)'
    <3>1. CASE g = f
      BY <1>4, <2>2, <3>1
    <3>2. CASE g # f
      <4>1. state[g] = "awaiting"
        BY <1>6, <2>3, <3>2
      <4>2. PICK h \in Frames : Awaits(g, h)
        BY <1>0, <4>1 DEF ChainInv
      <4> QED
        BY <2>2, <3>2, <4>2
    <3> QED
      BY <3>1, <3>2
  <2>4. ASSUME NEW g \in Frames, NEW h \in Frames, Awaits(g, h)'
        PROVE  state'[g] = "awaiting" /\ \A k \in Frames : Awaits(g, k)' => k = h
    <3>1. CASE g = f
      BY <1>4, <1>6, <2>2, <2>4, <3>1
    <3>2. CASE g # f
      <4>1. Awaits(g, h)
        BY <2>2, <2>4, <3>2
      <4>2. state[g] = "awaiting" /\ \A k \in Frames : Awaits(g, k) => k = h
        BY <1>0, <4>1 DEF ChainInv
      <4>3. state'[g] = "awaiting"
        BY <1>1, <1>6, <3>2, <4>2
      <4> QED
        BY <2>2, <3>2, <4>2, <4>3
    <3> QED
      BY <3>1, <3>2
  <2> QED
    BY <2>3, <2>4 DEF ChainInv
<1>10. JoinInv'
  <2>1. state'[Capture] = state[Capture] /\ state[Capture] # "running"
    BY <1>3, <1>4, <1>6, FrameFacts
  <2>2. \/ state'[Main] = state[Main]
        \/ state[Main] = "running" /\ state'[Main] = "awaiting"
    BY <1>3, <1>4, <1>6, FrameFacts, SMTT(20)
  <2>3. /\ \A g \in Frames : cont'[g] = Capture => cont[g] = Capture
        /\ cont'[Main] = cont[Main] /\ cont'[Capture] = cont[Capture]
    BY <1>4, <1>6, FrameFacts
  <2> QED
    BY <1>0, <1>2, <2>1, <2>2, <2>3 DEF JoinInv, Alive
<1>11. TokenInv'
  <2>1. Main \in token' => Main \in token
    BY <1>1, <1>4
  <2>2. ASSUME Main \in token, NEW g \in Frames \ {Capture}, state'[g] # "none"
        PROVE  g \in token'
    <3>1. f \in token
      BY <1>0, <1>3, <2>2 DEF TokenInv
    <3>2. CASE g = c
      BY <1>1, <3>1, <3>2
    <3>3. CASE g # c
      <4>1. state[g] # "none"
        BY <1>3, <1>6, <2>2, <3>3
      <4> QED
        BY <1>0, <1>1, <2>2, <4>1 DEF TokenInv
    <3> QED
      BY <3>2, <3>3
  <2>3. wait[c] # "Pending"
    BY <1>0, <1>1, <1>4 DEF QueueInv
  <2>4. stopped => \A g \in token' : wait[g] = "Pending" => g \in deaf
    BY <1>0, <1>1, <2>3 DEF TokenInv
  <2> QED
    BY <1>2, <2>1, <2>2, <2>4 DEF TokenInv
<1>12. ScriptInv'
  <2>1. state'[Main] = "done" => state[Main] = "done"
    BY <1>4, <1>6, FrameFacts
  <2>2. Seen' /\ Promised'
    BY <1>0, <1>2, <2>1 DEF ScriptInv, Seen, Promised
  <2>3. state'[Main] = "awaiting" => Continues
    BY <1>0, <1>4, <1>6, FrameFacts DEF ScriptInv
  <2>4. Continues' <=> Continues
    BY <1>2 DEF Continues
  <2> QED
    BY <2>2, <2>3, <2>4 DEF ScriptInv
<1> QED
  BY <1>7, <1>8, <1>9, <1>10, <1>11, <1>12 DEF IInv

\* What Main returns once it awaits no other Task.
LEMMA ScriptEnds ==
  ASSUME TypeOK, Seen, ~Continues, NEW v, v = IF outcomes = <<>> THEN "Err" ELSE Last(outcomes)
  PROVE  /\ outcomes = <<>> <=> script = "retry" /\ limit = 0
         /\ script = "retry" /\ v = "Err" => Len(outcomes) = limit
<1> DEFINE n == Len(outcomes)
<1>1. /\ n \in Nat /\ limit \in Nat /\ DOMAIN outcomes = 1..n
      /\ outcomes = <<>> <=> n = 0
  BY TaskAssumption, SMTT(20) DEF TypeOK
<1>2. script = "retry" => n <= limit
  BY DEF Seen
<1>3. ASSUME script = "retry" PROVE \A i \in 1..n : i < n => outcomes[i] = "Err"
  BY <1>1, <1>3 DEF Seen
<1>4. n = 0 => script = "retry"
  BY DEF Continues
<1>5. ASSUME script = "retry", n < limit PROVE \E i \in 1..n : outcomes[i] # "Err"
  BY <1>5 DEF Continues
<1>6. ASSUME script = "retry", v = "Err" PROVE n = limit
  <2>1. CASE n = 0
    BY <1>1, <1>2, <1>5, <1>6, <2>1, SMTT(20)
  <2>2. CASE n # 0
    <3>0. Last(outcomes) = outcomes[n]
      BY DEF Last
    <3>1. outcomes[n] = "Err"
      <4>1. v = Last(outcomes)
        BY <1>1, <2>2
      <4> QED
        BY <1>6, <3>0, <4>1
    <3>2. \A i \in 1..n : outcomes[i] = "Err"
      BY <1>1, <1>3, <1>6, <3>1, SMTT(20)
    <3>3. ~(n < limit)
      BY <1>5, <1>6, <3>2
    <3>4. n <= limit
      BY <1>2, <1>6
    <3> HIDE DEF n
    <3> QED
      BY <1>1, <3>3, <3>4, SMTT(20)
  <2> QED
    BY <2>1, <2>2
<1>7. n = 0 <=> script = "retry" /\ limit = 0
  <2>1. ASSUME n = 0 PROVE script = "retry" /\ limit = 0
    BY <1>1, <1>2, <1>4, <1>5, <2>1, SMTT(20)
  <2> QED
    BY <1>1, <1>2, <2>1, SMTT(20)
<1> QED
  BY <1>1, <1>6, <1>7

\* One more outcome is seen where Main went on after those before it.
LEMMA SeenMore ==
  ASSUME TypeOK, Seen, Continues, NEW r \in {"Ok", "Err"}, outcomes' = Append(outcomes, r),
         script' = script, limit' = limit
  PROVE  Seen' /\ outcomes' \in Seq({"Ok", "Err"})
<1> DEFINE n == Len(outcomes)
           o == Append(outcomes, r)
<1>1. n \in Nat /\ limit \in Nat /\ DOMAIN outcomes = 1..n
  BY TaskAssumption, SMTT(20) DEF TypeOK
<1>2. /\ o \in Seq({"Ok", "Err"}) /\ Len(o) = n + 1 /\ DOMAIN o = 1..(n + 1)
      /\ \A i \in 1..n : o[i] = outcomes[i]
  BY SMTT(20) DEF TypeOK
<1>3. script = "retry" => n + 1 <= limit
  BY <1>1, SMTT(20) DEF Continues
<1>4. \A i \in 1..n : outcomes[i] = IF script = "and_then" THEN "Ok" ELSE "Err"
  <2>1. CASE n = 0
    BY <2>1, SMTT(20)
  <2>2. CASE n # 0
    BY <1>1, <2>2, SMTT(20) DEF Continues
  <2> QED
    BY <2>1, <2>2
<1> HIDE DEF o
<1>5. outcomes' = o
  BY DEF o
<1>6. script = "retry" => Len(o) <= limit
  BY <1>2, <1>3
<1>7. \A i \in DOMAIN o : i < Len(o) => o[i] = IF script = "and_then" THEN "Ok" ELSE "Err"
  BY <1>1, <1>2, <1>4, SMTT(20)
<1> QED
  BY <1>2, <1>5, <1>6, <1>7 DEF Seen

\* A frame ends, and its continuation runs.
LEMMA FinishInv ==
  ASSUME IInv, NEW f \in Frames, f # Capture, running = f, NEW v \in Results, Finish(f, v),
         f = Main /\ v # "exception" /\ script # "deadline" =>
           ~Continues /\ v = IF outcomes = <<>> THEN "Err" ELSE Last(outcomes)
  PROVE  IInv'
<1> DEFINE p == cont[f]
<1>0. TypeOK /\ QueueInv /\ ChainInv /\ JoinInv /\ TokenInv /\ ScriptInv
  BY DEF IInv
<1>1. /\ result' = [result EXCEPT ![f] = IF f \in Children THEN "none" ELSE v]
      /\ cont' = [cont EXCEPT ![f] = IF f \in Children THEN None ELSE @]
      /\ deaf' = deaf \ {f}
      /\ wait' = [wait EXCEPT ![f] = "none"]
      /\ running' = p
      /\ state' = [g \in Frames |-> IF g = f
                                    THEN IF f \in Children /\ p # None
                                         THEN "destroyed" ELSE "done"
                                    ELSE IF g = p THEN "running" ELSE state[g]]
      /\ slept' = FALSE
  BY DEF Finish
<1>2. UNCHANGED <<script, limit, token, stopped, queue, batch, pc, slot>>
  BY DEF Finish, loopVars
<1>3. \/ p = Main /\ \E r \in {"Ok", "Err"} : outcomes' = Append(outcomes, r)
      \/ p # Main /\ outcomes' = outcomes
  BY DEF Finish, Results
<1>4. /\ state[f] = "running" /\ pc = "batch"
      /\ \A g \in Frames : state[g] = "running" => g = f
      /\ f \notin Range(batch) /\ f \notin Range(queue)
      /\ \A g \in Frames : ~Awaits(f, g)
  BY RunningFacts
<1>5. /\ state \in [Frames -> {"none", "queued", "running", "leaf", "awaiting", "done",
                             "destroyed"}]
      /\ wait \in [Frames -> {"none", "Pending", "Ready", "Cancelled"}]
      /\ result \in [Frames -> Results \cup {"none"}]
      /\ cont \in [Frames -> Frames \cup {None}]
  BY <1>0 DEF TypeOK
<1>6. p \in Frames \cup {None}
  BY <1>5
<1>7. p \in Frames => Awaits(p, f) /\ state[p] = "awaiting" /\ p # f
  <2>1. p \in Frames => Awaits(p, f)
    BY <1>4 DEF Awaits, Alive
  <2>2. p \in Frames => state[p] = "awaiting"
    BY <1>0, <2>1 DEF ChainInv
  <2> QED
    BY <1>4, <2>1, <2>2
<1>8. /\ state'[f] \in {"done", "destroyed"} /\ (f \notin Children => state'[f] = "done")
      /\ \A g \in Frames \ {f} : state'[g] = IF g = p THEN "running" ELSE state[g]
      /\ \A g \in Frames : wait'[g] = IF g = f THEN "none" ELSE wait[g]
      /\ \A g \in Frames \ {f} : result'[g] = result[g] /\ cont'[g] = cont[g]
      /\ f \notin Children => result'[f] = v /\ cont'[f] = p
      /\ f \in Children => cont'[f] = None
  BY <1>1, <1>5
<1> HIDE DEF p
<1>9. p = Main => f # Main /\ Continues
  <2>1. p = Main => state[Main] = "awaiting" /\ f # Main
    BY <1>7, FrameFacts
  <2> QED
    BY <1>0, <2>1 DEF ScriptInv
<1>10. Seen' /\ outcomes' \in Seq({"Ok", "Err"})
  <2>1. CASE p = Main
    <3>1. PICK r \in {"Ok", "Err"} : outcomes' = Append(outcomes, r)
      BY <1>3, <2>1
    <3>2. Seen
      BY <1>0 DEF ScriptInv
    <3> QED
      BY <1>0, <1>2, <1>9, <2>1, <3>1, <3>2, SeenMore
  <2>2. CASE p # Main
    BY <1>0, <1>2, <1>3, <2>2 DEF ScriptInv, Seen, TypeOK
  <2> QED
    BY <2>1, <2>2
<1>11. TypeOK'
  <2>1. state' \in [Frames -> {"none", "queued", "running", "leaf", "awaiting", "done",
                              "destroyed"}]
    BY <1>1, <1>5
  <2>2. wait' \in [Frames -> {"none", "Pending", "Ready", "Cancelled"}]
    BY <1>1, <1>5
  <2>3. result' \in [Frames -> Results \cup {"none"}]
    BY <1>1, <1>5
  <2>4. running' \in Frames \cup {None}
    BY <1>1, <1>6
  <2>5. stopped' \in BOOLEAN /\ slept' \in BOOLEAN
    BY <1>0, <1>1, <1>2 DEF TypeOK
  <2>6. cont' \in [Frames -> Frames \cup {None}] /\ deaf' \in SUBSET Frames
    BY <1>0, <1>1, <1>5 DEF TypeOK
  <2> QED
    BY <1>0, <1>2, <1>10, <2>1, <2>2, <2>3, <2>4, <2>5, <2>6 DEF TypeOK
<1>12. QueueInv'
  <2>1. \A g \in Frames : state'[g] = "running" <=> running' = g
    <3>1. running' = p
      BY <1>1
    <3> QED
      BY <1>4, <1>7, <1>8, <3>1
  <2>2. ASSUME NEW g \in Frames
        PROVE  /\ state'[g] = "queued" <=> state[g] = "queued"
               /\ state'[g] = "leaf" <=> state[g] = "leaf"
               /\ state[g] = "leaf" => wait'[g] = wait[g]
               /\ wait'[g] = "Pending" => wait[g] = "Pending"
    BY <1>4, <1>7, <1>8
  <2>3. /\ \A g \in Frames :
             g \in Range(batch') \cup Range(queue') <=>
               state'[g] = "queued" \/ (state'[g] = "leaf" /\ wait'[g] # "Pending")
        /\ \A g \in Frames : wait'[g] = "Pending" => state'[g] = "leaf"
    BY <1>0, <1>2, <2>2 DEF QueueInv
  <2> QED
    BY <1>0, <1>2, <1>4, <2>1, <2>3 DEF QueueInv
<1>13. ChainInv'
  <2>1. \A g, h \in Frames : Awaits(g, h)' <=> h # f /\ Awaits(g, h)
    <3> SUFFICES ASSUME NEW g \in Frames, NEW h \in Frames
                 PROVE  Awaits(g, h)' <=> h # f /\ Awaits(g, h)
      OBVIOUS
    <3>1. CASE h = f
      BY <1>8, <3>1 DEF Awaits, Alive
    <3>2. CASE h # f
      <4>1. state'[h] \in Alive <=> state[h] \in Alive
        BY <1>7, <1>8, <3>2 DEF Alive
      <4> QED
        BY <1>8, <3>2, <4>1 DEF Awaits
    <3> QED
      BY <3>1, <3>2
  <2>2. ASSUME NEW g \in Frames, state'[g] = "awaiting"
        PROVE  \E h \in Frames : Awaits(g, h)'
    <3>1. g # f /\ g # p /\ state[g] = "awaiting"
      BY <1>8, <2>2
    <3>2. PICK h \in Frames : Awaits(g, h)
      BY <1>0, <3>1 DEF ChainInv
    <3>3. h # f
      BY <3>1, <3>2 DEF Awaits, p
    <3> QED
      BY <2>1, <3>2, <3>3
  <2>3. ASSUME NEW g \in Frames, NEW h \in Frames, Awaits(g, h)'
        PROVE  state'[g] = "awaiting" /\ \A k \in Frames : Awaits(g, k)' => k = h
    <3>1. h # f /\ Awaits(g, h)
      BY <2>1, <2>3
    <3>2. state[g] = "awaiting" /\ \A k \in Frames : Awaits(g, k) => k = h
      BY <1>0, <3>1 DEF ChainInv
    <3>3. g # p
      BY <1>7, <3>1, <3>2
    <3>4. state'[g] = "awaiting"
      BY <1>4, <1>8, <3>2, <3>3
    <3> QED
      BY <2>1, <3>2, <3>4
  <2> QED
    BY <2>2, <2>3 DEF ChainInv
<1>14. JoinInv'
  <2>0. /\ cont'[Main] = cont[Main] /\ cont'[Capture] = cont[Capture]
        /\ \A g \in Frames : cont'[g] = Capture => cont[g] = Capture
    BY <1>8, FrameFacts DEF p
  <2>1. state[Capture] # "running"
    BY <1>4, FrameFacts
  <2>2. CASE f = Main
    <3>1. state'[Main] = "done" /\ state[Main] = "running"
      BY <1>4, <1>8, <2>2, FrameFacts
    <3>2. p \in {None, Capture}
      BY <1>0, <2>2 DEF JoinInv, p
    <3>3. state[Capture] \notin {"done", "destroyed"}
      BY <1>0, <3>1 DEF JoinInv
    <3>4. state[Capture] = "awaiting" => p = Capture
      <4>1. ASSUME state[Capture] = "awaiting" PROVE cont[Main] = Capture
        <5>1. PICK g \in Frames : cont[g] = Capture
          BY <1>0, <4>1, FrameFacts DEF ChainInv, Awaits
        <5> QED
          BY <1>0, <5>1 DEF JoinInv
      <4> QED
        BY <2>2, <4>1 DEF p
    <3>5. p = Capture => state[Capture] = "awaiting"
      BY <1>7, FrameFacts
    <3>6. state'[Capture] = IF p = Capture THEN "running" ELSE state[Capture]
      BY <1>8, <2>2, FrameFacts
    <3>7. state[Capture] \in {"queued", "awaiting"}
      BY <1>0, <1>5, <2>1, <3>3, FrameFacts DEF JoinInv
    <3>8. /\ state'[Capture] \in {"queued", "running"}
          /\ state'[Capture] = "queued" => state[Capture] = "queued"
      BY <3>4, <3>6, <3>7
    <3>9. slot = "none"
      BY <1>0, <3>7 DEF JoinInv
    <3> QED
      BY <1>0, <1>2, <2>0, <3>1, <3>8, <3>9 DEF JoinInv, Alive
  <2>3. CASE f # Main
    <3>1. p # Capture
      BY <1>0, <2>3 DEF JoinInv, p
    <3>2. state'[Capture] = state[Capture]
      BY <1>8, <3>1, FrameFacts
    <3>3. result'[Main] = result[Main]
      BY <1>8, <2>3, FrameFacts
    <3>4. \/ state'[Main] = state[Main]
          \/ state[Main] = "awaiting" /\ state'[Main] = "running"
      BY <1>7, <1>8, <2>3, FrameFacts
    <3> QED
      BY <1>0, <1>2, <2>0, <3>2, <3>3, <3>4 DEF JoinInv, Alive
  <2> QED
    BY <2>2, <2>3
<1>15. TokenInv'
  <2>1. \A g \in Frames : state'[g] # "none" => state[g] # "none"
    BY <1>4, <1>7, <1>8
  <2>2. token \subseteq Frames
    BY <1>0 DEF TypeOK
  <2>3. \A g \in Frames : wait'[g] = "Pending" => wait[g] = "Pending" /\ g # f
    BY <1>8
  <2>4. \A g \in deaf : g # f => g \in deaf'
    BY <1>1
  <2> QED
    BY <1>0, <1>2, <2>1, <2>2, <2>3, <2>4 DEF TokenInv
<1>16. ScriptInv'
  <2>1. Promised'
    <3>1. CASE f = Main
      <4>1. outcomes' = outcomes /\ result'[Main] = v
        BY <1>3, <1>8, <1>9, <3>1, FrameFacts
      <4>2. ASSUME v # "exception", script # "deadline"
            PROVE  /\ v = IF outcomes = <<>> THEN "Err" ELSE Last(outcomes)
                   /\ outcomes = <<>> <=> script = "retry" /\ limit = 0
                   /\ script = "retry" /\ v = "Err" => Len(outcomes) = limit
        <5>1. ~Continues /\ v = IF outcomes = <<>> THEN "Err" ELSE Last(outcomes)
          BY <3>1, <4>2
        <5>2. Seen
          BY <1>0 DEF ScriptInv
        <5> QED
          BY <1>0, <5>1, <5>2, ScriptEnds
      <4> QED
        BY <1>2, <4>1, <4>2 DEF Promised
    <3>2. CASE f # Main
      <4>1. state'[Main] = "done" => state[Main] = "done" /\ p # Main
        BY <1>8, <3>2, FrameFacts
      <4>2. result'[Main] = result[Main]
        BY <1>8, <3>2, FrameFacts
      <4> QED
        BY <1>0, <1>2, <1>3, <4>1, <4>2 DEF ScriptInv, Promised
    <3> QED
      BY <3>1, <3>2
  <2>2. state'[Main] = "awaiting" => state[Main] = "awaiting" /\ p # Main
    BY <1>8, FrameFacts
  <2>3. p # Main => (Continues' <=> Continues)
    BY <1>2, <1>3 DEF Continues
  <2> QED
    BY <1>0, <1>10, <2>1, <2>2, <2>3 DEF ScriptInv
<1> QED
  BY <1>11, <1>12, <1>13, <1>14, <1>15, <1>16 DEF IInv

\* Capture awaits the JoinHandle: it takes the result of Main, or is to be resumed by it.
LEMMA CaptureJoinsInv ==
  ASSUME IInv, CaptureJoins
  PROVE  IInv'
<1>0. TypeOK /\ QueueInv /\ ChainInv /\ JoinInv /\ TokenInv /\ ScriptInv
  BY DEF IInv
<1>1. /\ running = Capture /\ state[Main] # "destroyed" /\ cont[Main] = None
      /\ running' = None
      /\ \/ /\ state[Main] = "done" /\ slot' = result[Main]
            /\ state' = [state EXCEPT ![Capture] = "done"] /\ cont' = cont
         \/ /\ state[Main] # "done" /\ slot' = slot
            /\ state' = [state EXCEPT ![Capture] = "awaiting"]
            /\ cont' = [cont EXCEPT ![Main] = Capture]
  BY DEF CaptureJoins
<1>2. UNCHANGED <<script, limit, token, stopped, outcomes, slept, deaf, wait, result, queue,
                  batch, pc>>
  BY DEF CaptureJoins, chainVars
<1>3. /\ state[Capture] = "running" /\ pc = "batch"
      /\ \A g \in Frames : state[g] = "running" => g = Capture
      /\ \A g \in Frames : ~Awaits(Capture, g)
  BY <1>1, RunningFacts, FrameFacts
<1>4. /\ state \in [Frames -> {"none", "queued", "running", "leaf", "awaiting", "done",
                             "destroyed"}]
      /\ cont \in [Frames -> Frames \cup {None}]
      /\ result \in [Frames -> Results \cup {"none"}]
      /\ slot \in Results \cup {"none"}
  BY <1>0 DEF TypeOK
<1>5. /\ \A g \in Frames \ {Capture} : state'[g] = state[g]
      /\ \A g \in Frames \ {Main} : cont'[g] = cont[g]
      /\ \/ /\ state[Main] = "done" /\ state'[Capture] = "done" /\ slot' = result[Main]
            /\ cont'[Main] = None
         \/ /\ state[Main] \in Alive /\ state'[Capture] = "awaiting" /\ slot' = slot
            /\ cont'[Main] = Capture
  <2>1. state[Main] \in Alive \cup {"done"}
    BY <1>0, <1>1, <1>4, FrameFacts DEF JoinInv, Alive
  <2> QED
    BY <1>1, <1>4, <2>1, FrameFacts
<1>6. TypeOK'
  <2>1. /\ state' \in [Frames -> {"none", "queued", "running", "leaf", "awaiting", "done",
                                "destroyed"}]
        /\ cont' \in [Frames -> Frames \cup {None}]
    BY <1>1, <1>4, FrameFacts
  <2>2. slot' \in Results \cup {"none"} /\ running' \in Frames \cup {None}
    BY <1>1, <1>4, FrameFacts, SMTT(20)
  <2>3. stopped' \in BOOLEAN /\ slept' \in BOOLEAN
    BY <1>0, <1>2 DEF TypeOK
  <2> QED
    BY <1>0, <1>2, <2>1, <2>2, <2>3 DEF TypeOK
<1>7. QueueInv'
  <2>1. ASSUME NEW g \in Frames
        PROVE  /\ state'[g] = "queued" <=> state[g] = "queued"
               /\ state'[g] = "leaf" <=> state[g] = "leaf"
               /\ state'[g] # "running"
    BY <1>3, <1>5
  <2>2. \A g \in Frames : state'[g] = "running" <=> running' = g
    BY <1>1, <2>1, FrameFacts
  <2> QED
    BY <1>0, <1>2, <1>3, <2>1, <2>2 DEF QueueInv
<1>8. ChainInv'
  <2>1. CASE state[Main] = "done"
    <3>1. state'[Capture] = "done" /\ \A g \in Frames : cont'[g] = cont[g]
      BY <1>5, <2>1, <1>1 DEF Alive
    <3>2. \A g, h \in Frames : Awaits(g, h)' <=> Awaits(g, h)
      <4>1. cont[Capture] = None
        BY <1>0 DEF JoinInv
      <4> QED
        BY <1>5, <3>1, <4>1, FrameFacts, SMTT(20) DEF Awaits
    <3>3. \A g \in Frames : state'[g] = "awaiting" <=> state[g] = "awaiting"
      BY <1>3, <1>5, <3>1
    <3> QED
      BY <1>0, <3>2, <3>3, SameChain
  <2>2. CASE state[Main] # "done"
    <3>1. state[Main] \in Alive /\ state'[Capture] = "awaiting" /\ cont'[Main] = Capture
      BY <1>5, <2>2
    <3>2. \A g, h \in Frames :
            Awaits(g, h)' <=> (g = Capture /\ h = Main) \/ (g # Capture /\ Awaits(g, h))
      <4> SUFFICES ASSUME NEW g \in Frames, NEW h \in Frames
                   PROVE  Awaits(g, h)' <=>
                            (g = Capture /\ h = Main) \/ (g # Capture /\ Awaits(g, h))
        OBVIOUS
      <4>1. CASE h = Main
        BY <1>1, <1>5, <3>1, <4>1, FrameFacts DEF Awaits
      <4>2. CASE h # Main
        <5>1. Awaits(g, h)' <=> Awaits(g, h)
          BY <1>3, <1>5, <3>1, <4>2 DEF Awaits, Alive
        <5> QED
          BY <1>3, <4>2, <5>1
      <4> QED
        BY <4>1, <4>2
    <3>3. \A g \in Frames : state'[g] = "awaiting" <=> g = Capture \/ state[g] = "awaiting"
      BY <1>5, <3>1
    <3>4. ASSUME NEW g \in Frames, state'[g] = "awaiting"
          PROVE  \E h \in Frames : Awaits(g, h)'
      <4>1. CASE g = Capture
        BY <3>2, <4>1, FrameFacts
      <4>2. CASE g # Capture
        BY <1>0, <3>2, <3>3, <3>4, <4>2 DEF ChainInv
      <4> QED
        BY <4>1, <4>2
    <3>5. ASSUME NEW g \in Frames, NEW h \in Frames, Awaits(g, h)'
          PROVE  state'[g] = "awaiting" /\ \A k \in Frames : Awaits(g, k)' => k = h
      <4>1. CASE g = Capture
        BY <3>2, <3>3, <3>5, <4>1
      <4>2. CASE g # Capture
        BY <1>0, <3>2, <3>3, <3>5, <4>2 DEF ChainInv
      <4> QED
        BY <4>1, <4>2
    <3> QED
      BY <3>4, <3>5 DEF ChainInv
  <2> QED
    BY <2>1, <2>2
<1>9. JoinInv'
  <2>1. state'[Main] = state[Main] /\ cont'[Capture] = cont[Capture]
        /\ \A g \in Frames : cont'[g] = Capture => cont[g] = Capture \/ g = Main
    BY <1>5, FrameFacts
  <2>2. slot = "none"
    BY <1>0, <1>3 DEF JoinInv
  <2> QED
    BY <1>0, <1>2, <1>5, <2>1, <2>2 DEF JoinInv, Alive
<1>10. TokenInv'
  <2>1. \A g \in Frames \ {Capture} : state'[g] = state[g]
    BY <1>5
  <2> QED
    BY <1>0, <1>2, <2>1 DEF TokenInv
<1>11. ScriptInv'
  <2>1. state'[Main] = state[Main]
    BY <1>5, FrameFacts
  <2>2. Seen' /\ Promised'
    BY <1>0, <1>2, <2>1 DEF ScriptInv, Seen, Promised
  <2>3. Continues' <=> Continues
    BY <1>2 DEF Continues
  <2> QED
    BY <1>0, <2>1, <2>2, <2>3 DEF ScriptInv
<1> QED
  BY <1>6, <1>7, <1>8, <1>9, <1>10, <1>11 DEF IInv

\* A step that neither ends Main nor makes it await keeps what its combinator promises.
LEMMA SameScript ==
  ASSUME ScriptInv, UNCHANGED <<script, limit, outcomes, result>>,
         state'[Main] = "done" => state[Main] = "done",
         state'[Main] = "awaiting" => state[Main] = "awaiting"
  PROVE  ScriptInv'
<1>1. Seen' /\ Promised'
  BY DEF ScriptInv, Seen, Promised
<1>2. Continues' <=> Continues
  BY DEF Continues
<1> QED
  BY <1>1, <1>2 DEF ScriptInv

\* Capture takes the result of Main, which has resumed it.
LEMMA CaptureReturnsInv ==
  ASSUME IInv, CaptureReturns
  PROVE  IInv'
<1>0. TypeOK /\ QueueInv /\ ChainInv /\ JoinInv /\ TokenInv /\ ScriptInv
  BY DEF IInv
<1>1. /\ running = Capture /\ cont[Main] = Capture
      /\ slot' = result[Main] /\ running' = None
      /\ state' = [state EXCEPT ![Capture] = "done"]
  BY DEF CaptureReturns
<1>2. UNCHANGED <<script, limit, token, stopped, outcomes, slept, deaf, cont, wait, result,
                  queue, batch, pc>>
  BY DEF CaptureReturns, chainVars
<1>3. /\ state[Capture] = "running" /\ pc = "batch"
      /\ \A g \in Frames : state[g] = "running" => g = Capture
      /\ \A g \in Frames : ~Awaits(Capture, g)
  BY <1>1, RunningFacts, FrameFacts
<1>4. /\ state \in [Frames -> {"none", "queued", "running", "leaf", "awaiting", "done",
                             "destroyed"}]
      /\ result \in [Frames -> Results \cup {"none"}]
  BY <1>0 DEF TypeOK
<1>5. /\ \A g \in Frames \ {Capture} : state'[g] = state[g]
      /\ state'[Capture] = "done"
  BY <1>1, <1>4, FrameFacts
<1>6. TypeOK'
  <2>1. /\ state' \in [Frames -> {"none", "queued", "running", "leaf", "awaiting", "done",
                                "destroyed"}]
        /\ slot' \in Results \cup {"none"} /\ running' \in Frames \cup {None}
    BY <1>1, <1>4, FrameFacts
  <2>2. stopped' \in BOOLEAN /\ slept' \in BOOLEAN
    BY <1>0, <1>2 DEF TypeOK
  <2> QED
    BY <1>0, <1>2, <2>1, <2>2 DEF TypeOK
<1>7. QueueInv'
  <2>1. ASSUME NEW g \in Frames
        PROVE  /\ state'[g] = "queued" <=> state[g] = "queued"
               /\ state'[g] = "leaf" <=> state[g] = "leaf"
               /\ state'[g] # "running"
    BY <1>3, <1>5
  <2>2. \A g \in Frames : state'[g] = "running" <=> running' = g
    BY <1>1, <2>1, FrameFacts
  <2> QED
    BY <1>0, <1>2, <1>3, <2>1, <2>2 DEF QueueInv
<1>8. ChainInv'
  <2>1. cont[Capture] = None
    BY <1>0 DEF JoinInv
  <2>2. \A g, h \in Frames : Awaits(g, h)' <=> Awaits(g, h)
    BY <1>2, <1>5, <2>1, FrameFacts DEF Awaits
  <2>3. \A g \in Frames : state'[g] = "awaiting" <=> state[g] = "awaiting"
    BY <1>3, <1>5
  <2> QED
    BY <1>0, <2>2, <2>3, SameChain
<1>9. JoinInv'
  <2>1. state[Main] \notin Alive
    BY <1>1, <1>3, FrameFacts DEF Awaits
  <2>2. state[Main] \in {"done", "destroyed"}
    BY <1>0, <1>4, <2>1, FrameFacts DEF JoinInv, Alive
  <2>3. state'[Main] = state[Main]
    BY <1>5, FrameFacts
  <2> QED
    BY <1>0, <1>1, <1>2, <1>5, <2>2, <2>3 DEF JoinInv, Alive
<1>10. TokenInv'
  BY <1>0, <1>2, <1>5 DEF TokenInv
<1>11. ScriptInv'
  BY <1>0, <1>2, <1>5, SameScript, FrameFacts
<1> QED
  BY <1>6, <1>7, <1>8, <1>9, <1>10, <1>11 DEF IInv

\* The loop resumes the first frame of its batch.
LEMMA ResumeNextInv ==
  ASSUME IInv, ResumeNext
  PROVE  IInv'
<1> DEFINE h == Head(batch)
<1>0. TypeOK /\ QueueInv /\ ChainInv /\ JoinInv /\ TokenInv /\ ScriptInv
  BY DEF IInv
<1>1. /\ pc = "batch" /\ running = None /\ batch # <<>> /\ batch' = Tail(batch)
      /\ state[h] # "done" => running' = h /\ state' = [state EXCEPT ![h] = "running"]
  BY DEF ResumeNext
<1>2. UNCHANGED <<script, limit, token, stopped, outcomes, slept, deaf, cont, wait, result,
                  queue, pc, slot>>
  BY DEF ResumeNext, chainVars
<1>3. /\ state \in [Frames -> {"none", "queued", "running", "leaf", "awaiting", "done",
                             "destroyed"}]
      /\ batch \in Seq(Frames)
  BY <1>0 DEF TypeOK
<1>4. /\ batch' \in Seq(Frames) /\ h \in Frames /\ h \notin Range(batch')
      /\ Range(batch) = Range(batch') \cup {h} /\ IsInjective(batch')
  <2>1. IsInjective(batch)
    BY <1>0 DEF QueueInv
  <2> QED
    BY <1>1, <1>3, <2>1, Popped
<1> HIDE DEF h
<1>5. h \notin Range(queue) /\ (state[h] = "queued" \/ (state[h] = "leaf" /\ wait[h] # "Pending"))
  BY <1>0, <1>4 DEF QueueInv
<1>6. /\ running' = h /\ state' = [state EXCEPT ![h] = "running"]
      /\ state'[h] = "running" /\ \A g \in Frames \ {h} : state'[g] = state[g]
  BY <1>1, <1>3, <1>4, <1>5
<1>7. TypeOK'
  <2>1. state' \in [Frames -> {"none", "queued", "running", "leaf", "awaiting", "done",
                              "destroyed"}]
    BY <1>3, <1>6
  <2>2. stopped' \in BOOLEAN /\ slept' \in BOOLEAN
    BY <1>0, <1>2 DEF TypeOK
  <2> QED
    BY <1>0, <1>2, <1>4, <1>6, <2>1, <2>2 DEF TypeOK
<1>8. QueueInv'
  <2>1. \A g \in Frames : state[g] # "running"
    BY <1>0, <1>1, FrameFacts DEF QueueInv
  <2>2. \A g \in Frames : state'[g] = "running" <=> running' = g
    BY <1>4, <1>6, <2>1
  <2>3. \A g \in Frames : g \in Range(batch') \cup Range(queue')
                            <=> g # h /\ g \in Range(batch) \cup Range(queue)
    BY <1>2, <1>4, <1>5
  <2>4. \A g \in Frames :
          g \in Range(batch') \cup Range(queue') <=>
            state'[g] = "queued" \/ (state'[g] = "leaf" /\ wait'[g] # "Pending")
    BY <1>0, <1>2, <1>6, <2>3 DEF QueueInv
  <2>5. \A g \in Frames : wait'[g] = "Pending" => state'[g] = "leaf"
    BY <1>0, <1>2, <1>5, <1>6 DEF QueueInv
  <2>6. Range(batch') \cap Range(queue') = {} /\ IsInjective(queue')
    BY <1>0, <1>2, <1>4 DEF QueueInv
  <2> QED
    BY <1>1, <1>2, <1>4, <2>2, <2>4, <2>5, <2>6 DEF QueueInv
<1>9. ChainInv'
  <2>1. \A g \in Frames : state'[g] \in Alive <=> state[g] \in Alive
    BY <1>5, <1>6 DEF Alive
  <2>2. \A f, g \in Frames : Awaits(f, g)' <=> Awaits(f, g)
    BY <1>2, <2>1 DEF Awaits
  <2>3. \A g \in Frames : state'[g] = "awaiting" <=> state[g] = "awaiting"
    BY <1>5, <1>6
  <2> QED
    BY <1>0, <2>2, <2>3, SameChain
<1>10. JoinInv'
  <2>1. \/ state'[Capture] = state[Capture] /\ h # Capture
        \/ state[Capture] = "queued" /\ state'[Capture] = "running"
    <3>1. h = Capture => state[Capture] = "queued"
      BY <1>0, <1>5 DEF JoinInv
    <3> QED
      BY <1>6, <3>1, FrameFacts
  <2>2. \/ state'[Main] = state[Main]
        \/ state[Main] \in {"queued", "leaf"} /\ state'[Main] = "running"
    BY <1>5, <1>6, FrameFacts
  <2>3. state'[Capture] = "queued" => Capture \in Range(batch')
    BY <1>0, <1>4, <2>1 DEF JoinInv
  <2> QED
    BY <1>0, <1>2, <2>1, <2>2, <2>3 DEF JoinInv, Alive
<1>11. TokenInv'
  <2>1. \A g \in Frames : state'[g] # "none" => state[g] # "none"
    BY <1>5, <1>6
  <2> QED
    BY <1>0, <1>2, <2>1 DEF TokenInv
<1>12. ScriptInv'
  <2>1. /\ state'[Main] = "done" => state[Main] = "done"
        /\ state'[Main] = "awaiting" => state[Main] = "awaiting"
    BY <1>6, FrameFacts
  <2> QED
    BY <1>0, <1>2, <2>1, SameScript
<1> QED
  BY <1>7, <1>8, <1>9, <1>10, <1>11, <1>12 DEF IInv

\* cleanup_completed() destroys the frames that are done.
LEMMA CleanupInv ==
  ASSUME IInv, Cleanup
  PROVE  IInv'
<1>0. TypeOK /\ QueueInv /\ ChainInv /\ JoinInv /\ TokenInv /\ ScriptInv
  BY DEF IInv
<1>1. /\ pc = "batch" /\ running = None /\ batch = <<>>
      /\ state' = [f \in Frames |-> IF state[f] = "done" THEN "destroyed" ELSE state[f]]
      /\ pc' \in {"returned", "poll"}
  BY DEF Cleanup
<1>2. UNCHANGED <<script, limit, token, stopped, outcomes, slept, deaf, cont, wait, result,
                  running, queue, batch, slot>>
  BY DEF Cleanup, chainVars
<1>3. state \in [Frames -> {"none", "queued", "running", "leaf", "awaiting", "done",
                          "destroyed"}]
  BY <1>0 DEF TypeOK
<1>4. \A g \in Frames : state'[g] = IF state[g] = "done" THEN "destroyed" ELSE state[g]
  BY <1>1
<1>5. TypeOK'
  <2>1. state' \in [Frames -> {"none", "queued", "running", "leaf", "awaiting", "done",
                              "destroyed"}]
    BY <1>1, <1>3
  <2>2. stopped' \in BOOLEAN /\ slept' \in BOOLEAN
    BY <1>0, <1>2 DEF TypeOK
  <2>3. pc' \in {"batch", "poll", "returned"}
    BY <1>1
  <2> QED
    BY <1>0, <1>2, <2>1, <2>2, <2>3 DEF TypeOK
<1>6. QueueInv'
  <2>1. ASSUME NEW g \in Frames
        PROVE  /\ state'[g] = "queued" <=> state[g] = "queued"
               /\ state'[g] = "leaf" <=> state[g] = "leaf"
               /\ state'[g] = "running" <=> state[g] = "running"
    BY <1>4
  <2> QED
    BY <1>0, <1>1, <1>2, <2>1 DEF QueueInv
<1>7. ChainInv'
  <2>1. \A g \in Frames : state'[g] \in Alive <=> state[g] \in Alive
    BY <1>4 DEF Alive
  <2>2. \A f, g \in Frames : Awaits(f, g)' <=> Awaits(f, g)
    BY <1>2, <2>1 DEF Awaits
  <2>3. \A g \in Frames : state'[g] = "awaiting" <=> state[g] = "awaiting"
    BY <1>4
  <2> QED
    BY <1>0, <2>2, <2>3, SameChain
<1>8. JoinInv'
  <2>1. state[Capture] \notin {"queued", "running"}
    <3>1. state[Capture] # "queued"
      BY <1>0, <1>1, EmptyQueue DEF JoinInv
    <3>2. state[Capture] # "running"
      BY <1>0, <1>1, FrameFacts DEF QueueInv
    <3> QED
      BY <3>1, <3>2
  <2>2. /\ state'[Capture] = IF state[Capture] = "done" THEN "destroyed" ELSE state[Capture]
        /\ state'[Main] = IF state[Main] = "done" THEN "destroyed" ELSE state[Main]
    BY <1>4, FrameFacts
  <2> QED
    BY <1>0, <1>2, <2>1, <2>2 DEF JoinInv, Alive
<1>9. TokenInv'
  <2>1. \A g \in Frames : state'[g] # "none" => state[g] # "none"
    BY <1>4
  <2> QED
    BY <1>0, <1>2, <2>1 DEF TokenInv
<1>10. ScriptInv'
  <2>1. /\ state'[Main] = "done" => state[Main] = "done"
        /\ state'[Main] = "awaiting" => state[Main] = "awaiting"
    BY <1>4, FrameFacts
  <2> QED
    BY <1>0, <1>2, <2>1, SameScript
<1> QED
  BY <1>5, <1>6, <1>7, <1>8, <1>9, <1>10 DEF IInv

(***************************************************************************)
(* Some leaves that were pending complete, as Ready or as Cancelled, and   *)
(* their frames are queued: what a wake-up does, and what a stop does.     *)
(***************************************************************************)
LEMMA LeavesEndInv ==
  ASSUME IInv, NEW hit, hit \subseteq {f \in Frames : wait[f] = "Pending"},
         NEW how \in {"Ready", "Cancelled"},
         wait' = [f \in Frames |-> IF f \in hit THEN how ELSE wait[f]],
         queue' \in Seq(Frames), IsInjective(queue'), Range(queue') = Range(queue) \cup hit,
         stopped' \in BOOLEAN,
         stopped' => stopped \/ \A f \in token : wait[f] = "Pending" => f \in hit \cup deaf,
         UNCHANGED <<script, limit, token, outcomes, slept, deaf, state, cont, result, running,
                     batch, pc, slot>>
  PROVE  IInv'
<1>0. TypeOK /\ QueueInv /\ ChainInv /\ JoinInv /\ TokenInv /\ ScriptInv
  BY DEF IInv
<1>1. \A f \in hit : f \in Frames /\ wait[f] = "Pending" /\ state[f] = "leaf"
                     /\ f \notin Range(batch) /\ f \notin Range(queue)
  BY <1>0 DEF QueueInv
<1>2. \A f \in Frames : wait'[f] = IF f \in hit THEN how ELSE wait[f]
  OBVIOUS
<1>3. how # "Pending"
  OBVIOUS
<1>4. TypeOK'
  <2>1. wait \in [Frames -> {"none", "Pending", "Ready", "Cancelled"}]
    BY <1>0 DEF TypeOK
  <2>2. wait' \in [Frames -> {"none", "Pending", "Ready", "Cancelled"}]
    BY <2>1
  <2>3. stopped' \in BOOLEAN /\ slept' \in BOOLEAN
    BY <1>0 DEF TypeOK
  <2> QED
    BY <1>0, <2>2, <2>3 DEF TypeOK
<1>5. QueueInv'
  <2>1. Range(batch') \cap Range(queue') = {} /\ IsInjective(batch')
    BY <1>0, <1>1 DEF QueueInv
  <2>2. ASSUME NEW g \in Frames
        PROVE  g \in Range(batch') \cup Range(queue') <=>
                 state'[g] = "queued" \/ (state'[g] = "leaf" /\ wait'[g] # "Pending")
    <3>1. CASE g \in hit
      BY <1>1, <1>2, <1>3, <3>1
    <3>2. CASE g \notin hit
      BY <1>0, <1>2, <3>2 DEF QueueInv
    <3> QED
      BY <3>1, <3>2
  <2>3. \A g \in Frames : wait'[g] = "Pending" => state'[g] = "leaf"
    BY <1>0, <1>2, <1>3 DEF QueueInv
  <2> QED
    BY <1>0, <2>1, <2>2, <2>3 DEF QueueInv
<1>6. ChainInv'
  BY <1>0, SameChain DEF Awaits
<1>7. JoinInv'
  BY <1>0 DEF JoinInv
<1>8. TokenInv'
  <2>1. token \subseteq Frames
    BY <1>0 DEF TypeOK
  <2>2. stopped' => \A g \in token : wait'[g] = "Pending" => g \in deaf
    BY <1>0, <1>2, <1>3, <2>1 DEF TokenInv
  <2> QED
    BY <1>0, <2>2 DEF TokenInv
<1>9. ScriptInv'
  BY <1>0, SameScript
<1> QED
  BY <1>4, <1>5, <1>6, <1>7, <1>8, <1>9 DEF IInv

\* The reactor or the wheel completes a leaf.
LEMMA FireInv ==
  ASSUME IInv, NEW f \in Frames, Fire(f)
  PROVE  IInv'
<1>1. /\ wait[f] = "Pending" /\ wait' = [wait EXCEPT ![f] = "Ready"]
      /\ queue' = Append(queue, f)
  BY DEF Fire
<1>2. UNCHANGED <<script, limit, token, stopped, outcomes, slept, deaf, state, cont, result,
                  running, batch, pc, slot>>
  BY DEF Fire, chainVars
<1>3. queue \in Seq(Frames) /\ wait \in [Frames -> {"none", "Pending", "Ready", "Cancelled"}]
  BY DEF IInv, TypeOK
<1>4. IsInjective(queue) /\ f \notin Range(queue)
  BY <1>1 DEF IInv, QueueInv
<1>5. queue' \in Seq(Frames) /\ IsInjective(queue') /\ Range(queue') = Range(queue) \cup {f}
  BY <1>1, <1>3, <1>4, Appended, SMTT(20)
<1>6. wait' = [g \in Frames |-> IF g \in {f} THEN "Ready" ELSE wait[g]]
  BY <1>1, <1>3
<1>7. stopped' \in BOOLEAN /\ (stopped' => stopped)
  BY <1>2 DEF IInv, TypeOK
<1>8. {f} \subseteq {g \in Frames : wait[g] = "Pending"}
  BY <1>1
<1> QED
  BY <1>2, <1>5, <1>6, <1>7, <1>8, LeavesEndInv

\* SetToSeq lists every element of a finite set once.
LEMMA SetListed ==
  ASSUME NEW S, NEW T, T \subseteq S, IsFiniteSet(T)
  PROVE  SetToSeq(T) \in Seq(S) /\ Range(SetToSeq(T)) = T /\ IsInjective(SetToSeq(T))
BY Listed DEF SetToSeq

\* A stop cancels every pending leaf that was given the token.
LEMMA RequestStopInv ==
  ASSUME IInv, RequestStop
  PROVE  IInv'
<1> DEFINE hit == {f \in token \ deaf : wait[f] = "Pending"}
<1>1. /\ wait' = [f \in Frames |-> IF f \in hit THEN "Cancelled" ELSE wait[f]]
      /\ queue' = queue \o SetToSeq(hit) /\ stopped' = TRUE
  BY DEF RequestStop
<1>2. UNCHANGED <<script, limit, token, outcomes, slept, deaf, state, cont, result, running,
                  batch, pc, slot>>
  BY DEF RequestStop
<1>3. queue \in Seq(Frames) /\ token \subseteq Frames
  BY DEF IInv, TypeOK
<1>4. hit \subseteq {f \in Frames : wait[f] = "Pending"}
  BY <1>3
<1>5. \A f \in token : wait[f] = "Pending" => f \in hit \cup deaf
  OBVIOUS
<1> HIDE DEF hit
<1>6. hit \subseteq Frames /\ IsFiniteSet(hit)
  BY <1>4, FrameFacts, FS_Subset
<1> DEFINE q == SetToSeq(hit)
<1>7. q \in Seq(Frames) /\ Range(q) = hit /\ IsInjective(q)
  BY <1>6, SetListed
<1> HIDE DEF q
<1>8. IsInjective(queue) /\ Range(queue) \cap hit = {}
  BY <1>4 DEF IInv, QueueInv
<1>9. queue' \in Seq(Frames) /\ IsInjective(queue') /\ Range(queue') = Range(queue) \cup hit
  <2>1. queue' = queue \o q
    BY <1>1 DEF q
  <2> QED
    BY <1>3, <1>7, <1>8, <2>1, Joined, SMTT(20)
<1> QED
  BY <1>1, <1>2, <1>4, <1>5, <1>9, LeavesEndInv

\* The loop takes its queue as the next batch.
LEMMA NextBatchInv ==
  ASSUME IInv, NextBatch
  PROVE  IInv'
<1>0. TypeOK /\ QueueInv /\ ChainInv /\ JoinInv /\ TokenInv /\ ScriptInv
  BY DEF IInv
<1>1. pc = "poll" /\ batch' = queue /\ queue' = <<>> /\ pc' = "batch"
  BY DEF NextBatch
<1>2. UNCHANGED <<script, limit, token, stopped, outcomes, slept, deaf, state, cont, wait,
                  result, running, slot>>
  BY DEF NextBatch, chainVars
<1>3. batch = <<>> /\ running = None
  BY <1>0, <1>1 DEF QueueInv
<1>4. /\ Range(batch) = {} /\ Range(queue') = {} /\ IsInjective(queue') /\ queue' \in Seq(Frames)
  BY <1>1, <1>3, EmptyQueue
<1>5. TypeOK'
  <2>1. stopped' \in BOOLEAN /\ slept' \in BOOLEAN
    BY <1>0, <1>2 DEF TypeOK
  <2> QED
    BY <1>0, <1>1, <1>2, <1>4, <2>1 DEF TypeOK
<1>6. QueueInv'
  BY <1>0, <1>1, <1>2, <1>4 DEF QueueInv
<1>7. ChainInv'
  BY <1>0, <1>2, SameChain DEF Awaits
<1>8. JoinInv'
  <2>1. state[Capture] # "queued"
    BY <1>0, <1>4 DEF JoinInv
  <2> QED
    BY <1>0, <1>2, <2>1 DEF JoinInv
<1>9. TokenInv'
  BY <1>0, <1>2 DEF TokenInv
<1>10. ScriptInv'
  BY <1>0, <1>2, SameScript
<1> QED
  BY <1>5, <1>6, <1>7, <1>8, <1>9, <1>10 DEF IInv

\* The loop is destroyed with its frames.
LEMMA AbandonInv ==
  ASSUME IInv, Abandon
  PROVE  IInv'
<1>0. TypeOK /\ QueueInv /\ ChainInv /\ JoinInv /\ TokenInv /\ ScriptInv
  BY DEF IInv
<1>1. /\ pc = "poll" /\ pc' = "returned" /\ queue' = <<>>
      /\ state' = [f \in Frames |-> IF state[f] = "none" THEN "none" ELSE "destroyed"]
      /\ wait' = [f \in Frames |-> "none"]
  BY DEF Abandon
<1>2. UNCHANGED <<script, limit, token, stopped, outcomes, slept, deaf, cont, result, running,
                  batch, slot>>
  BY DEF Abandon, chainVars
<1>3. batch = <<>> /\ running = None
  BY <1>0, <1>1 DEF QueueInv
<1>4. /\ Range(batch) = {} /\ Range(queue') = {} /\ IsInjective(queue') /\ queue' \in Seq(Frames)
  BY <1>1, <1>3, EmptyQueue
<1>5. /\ \A g \in Frames : state'[g] = IF state[g] = "none" THEN "none" ELSE "destroyed"
      /\ \A g \in Frames : wait'[g] = "none"
  BY <1>1
<1>6. TypeOK'
  <2>1. /\ state' \in [Frames -> {"none", "queued", "running", "leaf", "awaiting", "done",
                                "destroyed"}]
        /\ wait' \in [Frames -> {"none", "Pending", "Ready", "Cancelled"}]
    BY <1>1
  <2>2. stopped' \in BOOLEAN /\ slept' \in BOOLEAN
    BY <1>0, <1>2 DEF TypeOK
  <2> QED
    BY <1>0, <1>1, <1>2, <1>4, <2>1, <2>2 DEF TypeOK
<1>7. QueueInv'
  <2>1. \A g \in Frames : state'[g] = "running" <=> running' = g
    BY <1>2, <1>3, <1>5, FrameFacts
  <2> QED
    BY <1>0, <1>2, <1>3, <1>4, <1>5, <2>1 DEF QueueInv
<1>8. ChainInv'
  BY <1>5 DEF ChainInv, Awaits, Alive
<1>9. JoinInv'
  <2>1. state[Capture] \notin {"queued", "running"}
    <3>1. state[Capture] # "queued"
      BY <1>0, <1>4 DEF JoinInv
    <3>2. state[Capture] # "running"
      BY <1>0, <1>3, FrameFacts DEF QueueInv
    <3> QED
      BY <3>1, <3>2
  <2>2. state'[Capture] = "destroyed" /\ state'[Main] = "destroyed"
    BY <1>0, <1>5, FrameFacts DEF JoinInv
  <2> QED
    BY <1>0, <1>2, <2>1, <2>2 DEF JoinInv, Alive
<1>10. TokenInv'
  <2>1. token \subseteq Frames
    BY <1>0 DEF TypeOK
  <2> QED
    BY <1>0, <1>2, <1>5, <2>1 DEF TokenInv
<1>11. ScriptInv'
  <2>1. state'[Main] \in {"none", "destroyed"}
    BY <1>5, FrameFacts
  <2> QED
    BY <1>0, <1>2, <2>1, SameScript
<1> QED
  BY <1>6, <1>7, <1>8, <1>9, <1>10, <1>11 DEF IInv

-----------------------------------------------------------------------------
\* The inductive invariant holds of the two roots that block_on() starts.
LEMMA InitInv == Init => IInv
<1> SUFFICES ASSUME Init PROVE IInv
  OBVIOUS
<1>1. /\ script \in Scripts /\ limit \in 0..MaxAttempts
      /\ state = [f \in Frames |-> IF f \in Children THEN "none" ELSE "queued"]
      /\ cont = [f \in Frames |-> None] /\ token \in {{}, {Main}}
      /\ wait = [f \in Frames |-> "none"] /\ result = [f \in Frames |-> "none"]
      /\ outcomes = <<>> /\ running = None /\ queue = <<>> /\ batch = <<Main, Capture>>
      /\ pc = "batch" /\ slot = "none" /\ deaf = {}
  BY DEF Init
<1>2. stopped = FALSE /\ slept = FALSE
  BY DEF Init
<1>3. /\ \A f \in Frames : cont[f] = None /\ wait[f] = "none" /\ result[f] = "none"
      /\ \A f \in Children : state[f] = "none"
      /\ state[Main] = "queued" /\ state[Capture] = "queued"
  BY <1>1, FrameFacts
<1>4. <<Main, Capture>> \in Seq(Frames)
      /\ Range(<<Main, Capture>>) = {Main, Capture} /\ IsInjective(<<Main, Capture>>)
  <2>1. <<Main, Capture>> \in Seq(Frames)
    BY FrameFacts, SMTT(20)
  <2> DEFINE b == <<Main, Capture>>
  <2>2. b \in Seq(Frames) /\ Len(b) = 2 /\ b[1] = Main /\ b[2] = Capture
    BY <2>1
  <2> HIDE DEF b
  <2>3. Range(b) = {Main, Capture}
    <3>1. \A u : u \in Range(b) <=> \E i \in 1..2 : b[i] = u
      BY <2>2, ElementsOf, SMTT(20)
    <3>2. 1..2 = {1, 2}
      BY SMTT(20)
    <3> QED
      BY <2>2, <3>1, <3>2
  <2>4. IsInjective(b)
    <3>1. \A i, j \in 1..2 : b[i] = b[j] => i = j
      BY <2>2, FrameFacts, SMTT(20)
    <3> QED
      BY <2>2, <3>1, ElementsOf
  <2> QED
    BY <2>1, <2>3, <2>4 DEF b
<1>5. TypeOK
  <2>1. /\ state \in [Frames -> {"none", "queued", "running", "leaf", "awaiting", "done",
                               "destroyed"}]
        /\ cont \in [Frames -> Frames \cup {None}]
        /\ wait \in [Frames -> {"none", "Pending", "Ready", "Cancelled"}]
        /\ result \in [Frames -> Results \cup {"none"}]
    BY <1>1
  <2>2. token \in SUBSET Frames /\ outcomes \in Seq({"Ok", "Err"})
    BY <1>1, FrameFacts, SMTT(20)
  <2>3. queue \in Seq(Frames) /\ batch \in Seq(Frames)
    BY <1>1, <1>4, SMTT(20)
  <2>4. stopped \in BOOLEAN /\ slept \in BOOLEAN
    BY <1>2
  <2> QED
    BY <1>1, <2>1, <2>2, <2>3, <2>4 DEF TypeOK
<1>6. QueueInv
  <2>1. IsInjective(queue) /\ Range(queue) = {}
    BY <1>1, EmptyQueue
  <2>2. IsInjective(batch) /\ Range(batch) = {Main, Capture}
    BY <1>1, <1>4
  <2>3. \A f \in Frames : state[f] \in {"none", "queued"}
                          /\ (state[f] = "queued" <=> f \in {Main, Capture})
    BY <1>3, FrameFacts
  <2>4. \A f \in Frames : state[f] = "running" <=> running = f
    BY <1>1, <2>3, FrameFacts
  <2> QED
    BY <1>1, <1>3, <2>1, <2>2, <2>3, <2>4 DEF QueueInv
<1>7. ChainInv
  <2>1. \A f, g \in Frames : ~Awaits(f, g)
    BY <1>3, FrameFacts DEF Awaits
  <2>2. \A f \in Frames : state[f] # "awaiting"
    BY <1>3, FrameFacts
  <2> QED
    BY <2>1, <2>2 DEF ChainInv
<1>8. JoinInv
  <2>1. Capture \in Range(batch)
    BY <1>1, <1>4
  <2> QED
    BY <1>1, <1>3, <2>1, FrameFacts DEF JoinInv
<1>9. TokenInv
  <2>1. \A f \in Frames \ {Capture} : state[f] # "none" => f = Main
    BY <1>3, FrameFacts
  <2> QED
    BY <1>2, <2>1 DEF TokenInv
<1>10. ScriptInv
  <2>1. Len(outcomes) = 0 /\ DOMAIN outcomes = {} /\ limit \in Nat
    BY <1>1, TaskAssumption, SMTT(20)
  <2>2. Seen
    BY <2>1, SMTT(20) DEF Seen
  <2> QED
    BY <1>3, <2>2 DEF ScriptInv, Promised
<1> QED
  BY <1>5, <1>6, <1>7, <1>8, <1>9, <1>10 DEF IInv

\* Every step of the coroutines and of the loop preserves the inductive invariant.
LEMMA NextInv == IInv /\ [Next]_vars => IInv'
<1> SUFFICES ASSUME IInv, [Next]_vars PROVE IInv'
  OBVIOUS
<1>0. slept \in BOOLEAN /\ outcomes \in Seq({"Ok", "Err"})
  BY DEF IInv, TypeOK
<1>1. CASE MainCalls
  BY <1>1, CallChildInv, FrameFacts DEF MainCalls
<1>2. CASE MainSleeps
  BY <1>2, LeafWaitInv, FrameFacts DEF MainSleeps
<1>3. CASE MainReturns
  <2>1. PICK v \in {IF outcomes = <<>> THEN "Err" ELSE Last(outcomes)}
                     \cup (IF script = "deadline" THEN {"Err"} ELSE {}) : Finish(Main, v)
    BY <1>3 DEF MainReturns
  <2>2. running = Main /\ ~Continues
    BY <1>3 DEF MainReturns
  <2>3. outcomes # <<>> => Last(outcomes) \in {"Ok", "Err"}
    BY <1>0, SMTT(20) DEF Last
  <2>4. v \in Results
    BY <2>1, <2>3 DEF Results
  <2>5. script # "deadline" => v = IF outcomes = <<>> THEN "Err" ELSE Last(outcomes)
    BY <2>1
  <2> QED
    BY <2>1, <2>2, <2>4, <2>5, FinishInv, FrameFacts
<1>4. CASE MainThrows
  <2>1. running = Main /\ Finish(Main, "exception") /\ "exception" \in Results
    BY <1>4 DEF MainThrows, Results
  <2> QED
    BY <2>1, FinishInv, FrameFacts
<1>5. ASSUME NEW c \in Children, NEW hears \in BOOLEAN, ChildWaits(c, hears) PROVE IInv'
  <2>1. running = c /\ LeafWait(c, hears) /\ slept' \in BOOLEAN /\ c \in Frames /\ c # Capture
    BY <1>0, <1>5, FrameFacts DEF ChildWaits
  <2> QED
    BY <2>1, LeafWaitInv
<1>6. ASSUME NEW c \in Children, ChildCalls(c) PROVE IInv'
  <2>1. running = c /\ CallChild(c) /\ slept' = slept /\ c \in Frames /\ c # Capture /\ c # Main
    BY <1>6, FrameFacts DEF ChildCalls
  <2> QED
    BY <2>1, CallChildInv
<1>7. ASSUME NEW c \in Children, NEW v \in Results, ChildReturns(c, v) PROVE IInv'
  <2>1. running = c /\ Finish(c, v) /\ c \in Frames /\ c # Capture /\ c # Main
    BY <1>7, FrameFacts DEF ChildReturns
  <2> QED
    BY <2>1, FinishInv
<1>8. CASE UNCHANGED vars
  <2>1. UNCHANGED <<script, limit, token, stopped, outcomes, slept, deaf, state, cont, wait,
                    result, running, queue, batch, pc, slot>>
    BY <1>8 DEF vars, chainVars, loopVars
  <2>2. TypeOK' /\ QueueInv'
    BY <2>1 DEF IInv, TypeOK, QueueInv
  <2>3. ChainInv' /\ JoinInv' /\ TokenInv'
    BY <2>1 DEF IInv, ChainInv, Awaits, JoinInv, TokenInv
  <2>4. ScriptInv'
    BY <2>1, SameScript DEF IInv
  <2> QED
    BY <2>2, <2>3, <2>4 DEF IInv
<1> QED
  BY <1>1, <1>2, <1>3, <1>4, <1>5, <1>6, <1>7, <1>8, CaptureJoinsInv, CaptureReturnsInv,
     ResumeNextInv, CleanupInv, NextBatchInv, RequestStopInv, AbandonInv, FireInv
  DEF Next, Run

\* The inductive invariant leaves each frame the one way to be resumed that Wakers counts.
LEMMA WakersOfFrame == IInv => OneWaker
<1> SUFFICES ASSUME IInv, NEW f \in Frames
             PROVE  Wakers(f) = IF state[f] \in {"queued", "leaf", "awaiting"} THEN 1 ELSE 0
  BY DEF OneWaker
<1> DEFINE H == Handles
           inQueue == {i \in DOMAIN H : H[i] = f}
           inLeaf == {x \in {f} : wait[x] = "Pending"}
           inChain == {g \in Frames : cont[g] = f
                                      /\ state[g] \in {"queued", "running", "leaf", "awaiting"}}
<1>0. TypeOK /\ QueueInv /\ ChainInv
  BY DEF IInv
<1>1. /\ H \in Seq(Frames) /\ IsInjective(H)
      /\ f \in Range(H) <=> state[f] = "queued" \/ (state[f] = "leaf" /\ wait[f] # "Pending")
  <2>1. batch \in Seq(Frames) /\ queue \in Seq(Frames)
    BY <1>0 DEF TypeOK
  <2>2. Range(batch \o queue) = Range(batch) \cup Range(queue)
    BY <2>1, Joined, SMTT(20)
  <2>3. batch \o queue \in Seq(Frames) /\ IsInjective(batch \o queue)
    BY <1>0, <2>1, Joined DEF QueueInv
  <2>4. f \in Range(batch) \cup Range(queue) <=>
          state[f] = "queued" \/ (state[f] = "leaf" /\ wait[f] # "Pending")
    BY <1>0 DEF QueueInv
  <2> QED
    BY <2>2, <2>3, <2>4 DEF Handles
<1>2. Wakers(f) = Cardinality(inQueue) + Cardinality(inLeaf) + Cardinality(inChain)
  BY DEF Wakers
<1> HIDE DEF H
<1>3. Cardinality(inQueue) = IF f \in Range(H) THEN 1 ELSE 0
  <2>0. /\ DOMAIN H = 1..Len(H)
        /\ f \in Range(H) <=> \E i \in 1..Len(H) : H[i] = f
        /\ \A i, j \in 1..Len(H) : H[i] = H[j] => i = j
    BY <1>1, ElementsOf, SMTT(20)
  <2>1. CASE f \in Range(H)
    <3>1. PICK i \in 1..Len(H) : H[i] = f
      BY <2>0, <2>1
    <3>2. inQueue = {i}
      BY <2>0, <3>1
    <3> QED
      BY <2>1, <3>2, FS_Singleton
  <2>2. CASE f \notin Range(H)
    <3>1. inQueue = {}
      BY <2>0, <2>2
    <3> QED
      BY <2>2, <3>1, FS_EmptySet
  <2> QED
    BY <2>1, <2>2
<1>4. Cardinality(inLeaf) = IF wait[f] = "Pending" THEN 1 ELSE 0
  <2>1. CASE wait[f] = "Pending"
    <3>1. inLeaf = {f}
      BY <2>1
    <3> QED
      BY <2>1, <3>1, FS_Singleton
  <2>2. CASE wait[f] # "Pending"
    <3>1. inLeaf = {}
      BY <2>2
    <3> QED
      BY <2>2, <3>1, FS_EmptySet
  <2> QED
    BY <2>1, <2>2
<1>5. Cardinality(inChain) = IF state[f] = "awaiting" THEN 1 ELSE 0
  <2>0. \A g \in Frames : g \in inChain <=> Awaits(f, g)
    BY DEF Awaits, Alive
  <2>1. CASE state[f] = "awaiting"
    <3>1. PICK g \in Frames : Awaits(f, g)
      BY <1>0, <2>1 DEF ChainInv
    <3>2. \A h \in Frames : Awaits(f, h) => h = g
      BY <1>0, <3>1 DEF ChainInv
    <3>3. inChain = {g}
      BY <2>0, <3>1, <3>2
    <3> QED
      BY <2>1, <3>3, FS_Singleton
  <2>2. CASE state[f] # "awaiting"
    <3>1. \A g \in Frames : ~Awaits(f, g)
      BY <1>0, <2>2 DEF ChainInv
    <3>2. inChain = {}
      BY <2>0, <3>1
    <3> QED
      BY <2>2, <3>2, FS_EmptySet
  <2> QED
    BY <2>1, <2>2
<1>6. wait[f] = "Pending" => state[f] = "leaf"
  BY <1>0 DEF QueueInv
<1> HIDE DEF inQueue, inLeaf, inChain
<1>7. CASE state[f] = "queued"
  BY <1>1, <1>2, <1>3, <1>4, <1>5, <1>6, <1>7, SMTT(20)
<1>8. CASE state[f] = "leaf"
  BY <1>1, <1>2, <1>3, <1>4, <1>5, <1>8, SMTT(20)
<1>9. CASE state[f] = "awaiting"
  BY <1>1, <1>2, <1>3, <1>4, <1>5, <1>6, <1>9, SMTT(20)
<1>10. CASE state[f] \notin {"queued", "leaf", "awaiting"}
  BY <1>1, <1>2, <1>3, <1>4, <1>5, <1>6, <1>10, SMTT(20)
<1> QED
  BY <1>7, <1>8, <1>9, <1>10

\* The inductive invariant holds in every reachable state, for every number of children.
THEOREM Invariance == Spec => []IInv
<1> QED
  BY InitInv, NextInv, PTL DEF Spec

(***************************************************************************)
(* A suspended coroutine is resumed by exactly one of the loop, its leaf   *)
(* and the coroutine it awaits, and nothing resumes one that runs or has   *)
(* ended: FinalAwaiter, the leaves and the ready queue never hold a frame  *)
(* twice, at any depth.                                                    *)
(***************************************************************************)
THEOREM ResumedByOne == Spec => []OneWaker
<1> QED
  BY Invariance, WakersOfFrame, PTL

\* await_transform() takes a stop down to the leaf of every Task below the one it was given
\* to, however deep: only a leaf without set_cancellation() still waits.
THEOREM StopReachesLeaf == Spec => []TokenReachesLeaf
<1>1. IInv => TokenReachesLeaf
  <2> SUFFICES ASSUME IInv, Main \in token, stopped, NEW f \in Frames \ {Capture},
                      wait[f] = "Pending"
               PROVE  f \in deaf
    BY DEF TokenReachesLeaf
  <2>1. state[f] = "leaf"
    BY DEF IInv, QueueInv
  <2>2. f \in token
    BY <2>1 DEF IInv, TokenInv
  <2> QED
    BY <2>2 DEF IInv, TokenInv
<1> QED
  BY <1>1, Invariance, PTL

\* block_on() has the result that Main's combinator promises, read before the frame is gone.
THEOREM ResultOfMain == Spec => []BlockOnResult
<1>1. IInv => BlockOnResult
  <2> SUFFICES ASSUME IInv PROVE BlockOnResult
    OBVIOUS
  <2>1. running = Capture => state[Main] # "destroyed"
    BY FrameFacts DEF IInv, QueueInv, JoinInv
  <2>2. ASSUME pc # "batch" PROVE slot = result[Main]
    <3>1. running = None /\ batch = <<>>
      BY <2>2 DEF IInv, QueueInv
    <3>2. state[Capture] # "running"
      BY <3>1, FrameFacts DEF IInv, QueueInv
    <3>3. state[Capture] # "queued"
      BY <3>1, EmptyQueue DEF IInv, JoinInv
    <3> QED
      BY <3>2, <3>3 DEF IInv, JoinInv
  <2>3. Seen /\ Promised
    BY DEF IInv, ScriptInv
  <2> QED
    BY <2>1, <2>2, <2>3 DEF BlockOnResult, Seen, Promised
<1> QED
  BY <1>1, Invariance, PTL
=============================================================================
