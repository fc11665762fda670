----------------------------- MODULE MCChannel -----------------------------
(***************************************************************************)
(* Channel for TLC.                                                        *)
(***************************************************************************)
EXTENDS Channel, TLC

\* The threads are interchangeable: they differ in no definition and no invariant.
ThreadSymmetry == Permutations(Threads)
=============================================================================
