----------------------------- MODULE VmService ------------------------------
(*****************************************************************************)
(* What a microVM promises to the code that uses it: the contract between    *)
(* createVm and cleanupVm on one side and the session table on the other.    *)
(* A creation ends once, in a VM that is up or in nothing; a VM may die at   *)
(* any time; it is torn down at most once, and stays torn down.              *)
(*                                                                           *)
(* VmLifecycle, which makes the VMs, and SessionGateway, which uses them,    *)
(* both implement it: the one's Restored is Succeed to the other's Attach    *)
(* and Discard.                                                              *)
(*****************************************************************************)
CONSTANT Vms

VARIABLES
    state,    \* "none", "creating", then "failed", or "ready" until "dead"
    cleanup   \* "no", "running" or "done"

vars == <<state, cleanup>>

Init ==
    /\ state = [v \in Vms |-> "none"]
    /\ cleanup = [v \in Vms |-> "no"]

Becomes(v, s, c) ==
    /\ state' = [state EXCEPT ![v] = s]
    /\ cleanup' = [cleanup EXCEPT ![v] = c]

\* createVm is called.
Create(v) == state[v] = "none" /\ Becomes(v, "creating", "no")

\* createVm resolves; what awaits it may begin to tear the VM down at once.
Succeed(v) ==
    /\ state[v] = "creating"
    /\ \E c \in {"no", "running"} : Becomes(v, "ready", c)

\* createVm rejects.
Fail(v) == state[v] = "creating" /\ Becomes(v, "failed", "no")

\* The Firecracker process exits.
Exit(v) == state[v] = "ready" /\ Becomes(v, "dead", cleanup[v])

\* cleanupVm begins, and ends.
BeginCleanup(v) ==
    /\ state[v] \in {"ready", "dead"}
    /\ cleanup[v] = "no"
    /\ Becomes(v, state[v], "running")

EndCleanup(v) == cleanup[v] = "running" /\ Becomes(v, state[v], "done")

Next ==
    \E v \in Vms :
        \/ Create(v) \/ Succeed(v) \/ Fail(v) \/ Exit(v)
        \/ BeginCleanup(v) \/ EndCleanup(v)

Spec == Init /\ [][Next]_vars
=============================================================================
