----------------------------- MODULE TimerWheel -----------------------------
(***************************************************************************)
(* HierarchicalTimerWheel (async/timer.hpp) and the waits that use it:     *)
(* SleepAwaiter, and TimedReadyAwaiter, whose timer races a reactor event  *)
(* and a cancellation for one WaitState.  All of it runs on the owner      *)
(* thread of the loop, one call at a time.  tick() is split into a step    *)
(* per timer id that it visits.                                            *)
(*                                                                         *)
(* Time is counted in units of which a tick (1 ms) has Units, so that the  *)
(* duration_casts of place() really truncate.  The wheel starts at 0.      *)
(***************************************************************************)
EXTENDS Naturals, Sequences, FiniteSets, FiniteSetsExt, Functions

CONSTANTS
  Waits,        \* the waits; each schedules one timer
  Level0Size,   \* kLevel0Size, 256 in the code
  LevelNSize,   \* kLevelNSize, 64 in the code
  Units,        \* units of time in a tick
  Delays,       \* the delays a wait may ask for, in units
  MaxTicks,     \* bound of the model: the wheel is not advanced further
  MaxScheduleTick  \* bound of the model: no wait starts later than this

ASSUME SizesAssumption ==
  {Level0Size, LevelNSize, Units} \subseteq Nat \ {0}
\* await_ready() and await_suspend() do not schedule a delay of zero.
ASSUME DelaysAssumption == Delays \subseteq Nat \ {0}

VARIABLES
  now,            \* current_time_
  slots,          \* levels_[l].slots[k] at <<l, k>>: sequences of timer ids
  current_slot,   \* levels_[l].current_slot
  todo,           \* levels tick() still has to handle: 0 between ticks
  slotmap,        \* slotmap_
  free_indices,   \* free_indices_, its top at the end
  active_count,   \* active_count_
  ready,          \* ready_: handles the loop will resume
  state,          \* the WaitState of each wait, "idle" before it suspends
  timer_id,       \* the TimerId each wait holds
  asked           \* history: what each wait asked for, and the tick its timer fired in

tableVars == <<slotmap, free_indices, active_count>>
timedVars == <<ready, state, timer_id, asked>>
wheelVars == <<now, slots, current_slot, todo, tableVars, timedVars>>

kNumLevels == 4
Levels == 0 .. kNumLevels - 1
LevelSize(l) == IF l = 0 THEN Level0Size ELSE LevelNSize

Slots == UNION {{l} \X (0 .. LevelSize(l) - 1) : l \in Levels}

\* Where slots keeps the ids that std::exchange took out of a slot and that the loop of
\* cascade() or process_current_slot() has not reached yet.
InHand == <<kNumLevels, 0>>
Places == Slots \cup {InHand}

\* Ticks a slot of level l spans: the thresholds of place().
Span(l) == CASE l = 0 -> 1
             [] l = 1 -> Level0Size
             [] l = 2 -> Level0Size * LevelNSize
             [] l = 3 -> Level0Size * LevelNSize * LevelNSize

NoId == <<0, 0>>

\* encode_id(): an index (counted from 1) and a generation.
TimerIds == Nat \X Nat

\* lookup(): the id is in the table, active, and of the current generation.
Live(sm, id) ==
  /\ id[1] \in DOMAIN sm
  /\ sm[id[1]].active
  /\ sm[id[1]].generation = id[2]
-----------------------------------------------------------------------------
\* Mutant: the slot is counted from the present instead of taken from the deadline.
SlotByDistance(deadline, diff, l) == <<l, (diff \div Span(l)) % LevelSize(l)>>

\* The slot of level l that the deadline's own digits name.
SlotOf(deadline, diff, l) == <<l, ((deadline \div Units) \div Span(l)) % LevelSize(l)>>

Distance(deadline) == IF deadline > now THEN (deadline - now) \div Units ELSE 0

LevelOf(diff) ==
  IF diff < Span(1) THEN 0
  ELSE IF diff < Span(2) THEN 1
  ELSE IF diff < Span(3) THEN 2 ELSE 3

(***************************************************************************)
(* place(): the level by the distance to the deadline, the slot by the     *)
(* deadline's own digits.                                                  *)
(***************************************************************************)
Place(sl, id, deadline) ==
  LET diff == Distance(deadline)
  IN [sl EXCEPT ![SlotOf(deadline, diff, LevelOf(diff))] = Append(@, id)]
-----------------------------------------------------------------------------
WheelInit ==
  /\ now = 0
  /\ slots = [p \in Places |-> <<>>]
  /\ current_slot = [l \in Levels |-> 0]
  /\ todo = 0
  /\ slotmap = <<>>
  /\ free_indices = <<>>
  /\ active_count = 0
  /\ ready = <<>>
  /\ state = [w \in Waits |-> "idle"]
  /\ timer_id = [w \in Waits |-> NoId]
  /\ asked = [w \in Waits |-> [delay |-> 0, deadline |-> 0, fired |-> 0]]

\* Mutant: a reused index keeps its generation.
SameGeneration(g) == g

\* schedule_at(): the generation of an index that is used again.
NextGeneration(g) == g + 1

\* schedule(), as await_suspend() calls it: the delay counts from current_time_.
Schedule(w, delay) ==
  /\ state[w] = "idle"
  /\ now <= MaxScheduleTick * Units
  /\ LET deadline == now + delay
         reuse == free_indices # <<>>
         index == IF reuse THEN free_indices[Len(free_indices)] ELSE Len(slotmap) + 1
         generation == IF reuse THEN NextGeneration(slotmap[index].generation) ELSE 1
         entry == [generation |-> generation, active |-> TRUE, deadline |-> deadline,
                   wait |-> w]
     IN /\ free_indices' = IF reuse THEN SubSeq(free_indices, 1, Len(free_indices) - 1)
                           ELSE free_indices
        /\ slotmap' = IF reuse THEN [slotmap EXCEPT ![index] = entry]
                      ELSE Append(slotmap, entry)
        /\ slots' = Place(slots, <<index, generation>>, deadline)
        /\ timer_id' = [timer_id EXCEPT ![w] = <<index, generation>>]
        /\ asked' = [asked EXCEPT ![w] = [delay |-> delay, deadline |-> deadline, fired |-> 0]]
  /\ active_count' = active_count + 1
  /\ state' = [state EXCEPT ![w] = "Pending"]
  /\ UNCHANGED <<now, current_slot, todo, ready>>

\* cancel() and release(): nothing for an id that is not live.  Stale ids stay in their slots.
Release(id) ==
  IF Live(slotmap, id)
  THEN /\ slotmap' = [slotmap EXCEPT ![id[1]].active = FALSE]
       /\ free_indices' = Append(free_indices, id[1])
       /\ active_count' = active_count - 1
  ELSE UNCHANGED tableVars

\* The stop callback: Pending to Cancelled, cancel() the timer, wake() or notify().
CancelWait(w) ==
  /\ state[w] = "Pending"
  /\ state' = [state EXCEPT ![w] = "Cancelled"]
  /\ Release(timer_id[w])
  /\ ready' = Append(ready, w)
  /\ UNCHANGED <<now, slots, current_slot, todo, timer_id, asked>>

\* The reactor wins: the timer is still in the wheel until await_resume() cancels it.
ReactorFires(w) ==
  /\ state[w] = "Pending"
  /\ state' = [state EXCEPT ![w] = "Ready"]
  /\ ready' = Append(ready, w)
  /\ UNCHANGED <<now, slots, current_slot, todo, tableVars, timer_id, asked>>

\* The loop resumes the wait: drain_ready_into(), then await_resume() of the first.
ResumeWait ==
  /\ ready # <<>>
  /\ ready' = Tail(ready)
  /\ Release(timer_id[Head(ready)])
  /\ state' = [state EXCEPT ![Head(ready)] = "resumed"]
  /\ UNCHANGED <<now, slots, current_slot, todo, timer_id, asked>>
-----------------------------------------------------------------------------
\* std::exchange of the current slot of level l with an empty one.
Take(l) ==
  LET here == <<l, current_slot[l]>>
  IN /\ slots' = [slots EXCEPT ![InHand] = slots[here], ![here] = <<>>]
     /\ todo' = l + 1

\* A level is left: its current slot is the next one.
Advance(l) == current_slot' = [current_slot EXCEPT ![l] = (@ + 1) % LevelSize(l)]

(***************************************************************************)
(* tick(): the clock, and the first slot taken out.  cascade(l) comes      *)
(* before the slot of level l - 1 when that level is at slot 0, so the     *)
(* first level is the lowest that is not at slot 0, or the last one.       *)
(***************************************************************************)
Tick ==
  /\ now < MaxTicks * Units
  /\ now' = now + Units
  /\ \E l \in Levels :
       /\ \A m \in 0 .. l - 1 : current_slot[m] = 0
       /\ l = kNumLevels - 1 \/ current_slot[l] # 0
       /\ Take(l)
  /\ UNCHANGED <<current_slot, tableVars, timedVars>>

\* The loop of cascade(): a live id is placed again, by the time that is left.
CascadeId ==
  /\ todo > 1
  /\ slots[InHand] # <<>>
  /\ LET id == Head(slots[InHand])
         rest == [slots EXCEPT ![InHand] = Tail(@)]
     IN slots' = IF Live(slotmap, id) THEN Place(rest, id, slotmap[id[1]].deadline) ELSE rest
  /\ UNCHANGED <<now, current_slot, todo, tableVars, timedVars>>

\* The end of cascade(), and the slot of the level below taken out.
CascadeEnd ==
  /\ todo > 1
  /\ slots[InHand] = <<>>
  /\ Advance(todo - 1)
  /\ Take(todo - 2)
  /\ UNCHANGED <<now, tableVars, timedVars>>

(***************************************************************************)
(* The loop of process_current_slot(): a live id whose WaitState is still  *)
(* Pending fires and is released; one whose WaitState has moved on is only *)
(* released.                                                               *)
(***************************************************************************)
FireId ==
  /\ todo = 1
  /\ slots[InHand] # <<>>
  /\ LET id == Head(slots[InHand])
         w == slotmap[id[1]].wait
     IN /\ slots' = [slots EXCEPT ![InHand] = Tail(@)]
        /\ Release(id)
        /\ IF Live(slotmap, id) /\ state[w] = "Pending"
           THEN /\ state' = [state EXCEPT ![w] = "TimedOut"]
                /\ ready' = Append(ready, w)
                /\ asked' = [asked EXCEPT ![w].fired = now \div Units]
           ELSE UNCHANGED <<state, ready, asked>>
  /\ UNCHANGED <<now, current_slot, todo, timer_id>>

TickEnd ==
  /\ todo = 1
  /\ slots[InHand] = <<>>
  /\ Advance(0)
  /\ todo' = 0
  /\ UNCHANGED <<now, slots, tableVars, timedVars>>
-----------------------------------------------------------------------------
\* The calls between two ticks; all of tick() runs without another one.
Call ==
  \/ Tick
  \/ ResumeWait
  \/ \E w \in Waits : CancelWait(w) \/ ReactorFires(w) \/ \E d \in Delays : Schedule(w, d)

WheelNext ==
  \/ todo = 0 /\ Call
  \/ CascadeId
  \/ CascadeEnd
  \/ FireId
  \/ TickEnd

WheelSpec == WheelInit /\ [][WheelNext]_wheelVars
-----------------------------------------------------------------------------
LiveIds(p) == {id \in Range(slots[p]) : Live(slotmap, id)}

\* The slot of level l where the scan of next_deadline() stops.
FirstSlot(l) ==
  LET At(i) == <<l, (current_slot[l] + i) % LevelSize(l)>>
  IN At(Min({i \in 0 .. LevelSize(l) - 1 : LiveIds(At(i)) # {}}))

\* next_deadline(), 0 for nullopt.  Level 0 gives the first live id it meets, an upper
\* level the earliest of its first slot that holds one.
NextDeadline ==
  LET found == {l \in Levels : \E k \in 0 .. LevelSize(l) - 1 : LiveIds(<<l, k>>) # {}}
      p == FirstSlot(Min(found))
      first == Min({j \in DOMAIN slots[p] : Live(slotmap, slots[p][j])})
  IN IF active_count = 0 \/ found = {} THEN 0
     ELSE IF Min(found) = 0 THEN slotmap[slots[p][first][1]].deadline
     ELSE Min({slotmap[id[1]].deadline : id \in LiveIds(p)})
-----------------------------------------------------------------------------
WheelTypeOK ==
  /\ now \in Nat
  /\ slots \in [Places -> Seq(TimerIds)]
  /\ current_slot \in [Levels -> Nat]
  /\ todo \in 0 .. kNumLevels
  /\ slotmap \in Seq([generation : Nat, active : BOOLEAN, deadline : Nat, wait : Waits])
  /\ free_indices \in Seq(Nat)
  /\ active_count \in Nat
  /\ ready \in Seq(Waits)
  /\ state \in [Waits -> {"idle", "Pending", "Ready", "TimedOut", "Cancelled", "resumed"}]
  /\ timer_id \in [Waits -> TimerIds]
  /\ asked \in [Waits -> [delay : Nat, deadline : Nat, fired : Nat]]

ActiveIndices == {i \in DOMAIN slotmap : slotmap[i].active}

\* The id under which the entry of index i was scheduled.
IdAt(i) == <<i, slotmap[i].generation>>

Ticks(units) == units \div Units

(***************************************************************************)
(* The slot map: free_indices_ holds each inactive index exactly once and  *)
(* no active one, active_count_ is the number of active entries, and the   *)
(* id of each active entry is in exactly one place of the wheel, so that   *)
(* it is not visited twice and next_deadline() finds one if there is any.  *)
(* An active entry belongs to a wait whose coroutine is still suspended:   *)
(* process_current_slot() writes through its WaitState pointer, which      *)
(* points into that coroutine's frame.  A pending wait has such an entry.  *)
(***************************************************************************)
SlotMapConsistent ==
  /\ IsInjective(free_indices)
  /\ Range(free_indices) = DOMAIN slotmap \ ActiveIndices
  /\ active_count = Cardinality(ActiveIndices)
  /\ \A p, q \in Places : \A i \in DOMAIN slots[p], j \in DOMAIN slots[q] :
       slots[p][i] = slots[q][j] => p = q /\ i = j
  /\ \A i \in ActiveIndices : \E p \in Places : IdAt(i) \in Range(slots[p])
  /\ todo = 0 => (NextDeadline = 0 <=> ActiveIndices = {})
  /\ \A i \in ActiveIndices :
       /\ state[slotmap[i].wait] \in {"Pending", "Ready"}
       /\ timer_id[slotmap[i].wait] = IdAt(i)
  /\ \A w \in Waits : state[w] = "Pending" => Live(slotmap, timer_id[w])

(***************************************************************************)
(* No timer is a lap late (the comment above place()): between ticks a     *)
(* pending one is not past the tick after that of its deadline, no timer   *)
(* fires later than in that tick, and a delay that place() puts below      *)
(* level 2 is kept to the tick.                                            *)
(***************************************************************************)
FiresOnTime ==
  \A w \in Waits :
    LET last == Ticks(asked[w].deadline) + 1
    IN /\ todo = 0 /\ state[w] = "Pending" => Ticks(now) < last
       /\ asked[w].fired <= last
       /\ asked[w].fired # 0 /\ asked[w].delay < Span(2) * Units => asked[w].fired = last

(***************************************************************************)
(* What timer_test.cpp and property_test.cpp check on samples: a timer     *)
(* fires at its deadline or later.                                         *)
(***************************************************************************)
NeverEarly ==
  \A w \in Waits : asked[w].fired # 0 => asked[w].fired * Units >= asked[w].deadline
=============================================================================
