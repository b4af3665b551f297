---------------------------- MODULE MCGroupRecords ----------------------------
(***************************************************************************)
(* An instance of GroupRecords.  Threads and names are interchangeable, and*)
(* only safety is checked.                                                 *)
(***************************************************************************)
EXTENDS GroupRecords, TLC

Symmetry == Permutations(Threads) \cup Permutations(Names)
=============================================================================
