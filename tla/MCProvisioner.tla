---------------------------- MODULE MCProvisioner ----------------------------
(***************************************************************************)
(* An instance of Provisioner.  Processes are interchangeable: nothing     *)
(* distinguishes their PIDs, and only safety is checked.                   *)
(***************************************************************************)
EXTENDS Provisioner, TLC

Symmetry == Permutations(Instances)
=============================================================================
