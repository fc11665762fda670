---------------------------- MODULE MCTimerWheel ----------------------------
(***************************************************************************)
(* TimerWheel for TLC.                                                     *)
(***************************************************************************)
EXTENDS TimerWheel, TLC

WaitSymmetry == Permutations(Waits)

\* Every delay up to a lap of the whole wheel and a little more.
AllDelays == 1 .. (Span(3) * LevelNSize + Level0Size) * Units
=============================================================================
