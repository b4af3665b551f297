----------------------------- MODULE MCUserStore -----------------------------
(***************************************************************************)
(* An instance of UserStore.  Threads and Globus IDs are interchangeable,  *)
(* and only safety is checked.                                             *)
(***************************************************************************)
EXTENDS UserStore, TLC

Symmetry == Permutations(Threads) \cup Permutations(GlobusIDs)
=============================================================================
