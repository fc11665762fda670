---------------------------- MODULE BoundedFifo ----------------------------
(***************************************************************************)
(* What sync::Channel promises: a first-in first-out queue of bounded      *)
(* size whose operations are atomic, and which can be shut.  A shut queue  *)
(* accepts nothing, still hands out what it holds, and stays shut.         *)
(***************************************************************************)
EXTENDS Naturals, Sequences

CONSTANTS
  Threads,    \* who enqueues; an item is the thread that sent it
  Capacity    \* 0 means unbounded

VARIABLES items, shut

fifoVars == <<items, shut>>

Init == items = <<>> /\ shut = FALSE

Enqueue(t) ==
  /\ ~shut
  /\ Capacity = 0 \/ Len(items) < Capacity
  /\ items' = Append(items, t)
  /\ UNCHANGED shut

Dequeue ==
  /\ items # <<>>
  /\ items' = Tail(items)
  /\ UNCHANGED shut

Shut ==
  /\ shut' = TRUE
  /\ UNCHANGED items

Next == (\E t \in Threads : Enqueue(t)) \/ Dequeue \/ Shut

Spec == Init /\ [][Next]_fifoVars
=============================================================================
