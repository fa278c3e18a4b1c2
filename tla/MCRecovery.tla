---------------------------- MODULE MCRecovery ------------------------------
(* Recovery with a few VMs of a few sessions.                                *)
EXTENDS Recovery, TLC

RecoverySymmetry == Permutations(Vms) \cup Permutations(SessionIds)
=============================================================================
