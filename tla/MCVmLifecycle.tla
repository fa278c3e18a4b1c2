--------------------------- MODULE MCVmLifecycle ----------------------------
(* VmLifecycle with a few VMs and fewer slots.                               *)
EXTENDS VmLifecycle, TLC

VmSymmetry == Permutations(Vms)
=============================================================================
