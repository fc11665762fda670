---------------------------- MODULE MCThreadPool ----------------------------
(***************************************************************************)
(* ThreadPool for TLC.                                                     *)
(***************************************************************************)
EXTENDS ThreadPool

\* An empty pool cannot finish a job; the model checked has workers and clients.
ASSUME PoolHasWorkers == Workers # {} /\ Clients # {}
=============================================================================
