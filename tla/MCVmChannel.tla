---------------------------- MODULE MCVmChannel -----------------------------
(* VmChannel with a few requests and as many connections.                    *)
EXTENDS VmChannel, TLC

ChannelSymmetry == Permutations(Requests) \cup Permutations(Connections)
=============================================================================
