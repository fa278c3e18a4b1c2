----------------------------- MODULE VmLifecycle ----------------------------
(*****************************************************************************)
(* One microVM from createVm to cleanupVm, step by step, and many of them    *)
(* at once: the slot pool, the network namespace with its veth pair, DNS     *)
(* filter and rules, the jail, the Firecracker process, and the undoing of   *)
(* all this when a step fails (vm-manager.ts, networking.ts, jailer.ts,      *)
(* cleanup.ts).                                                              *)
(*                                                                           *)
(* One action is what runs between two awaits of one VM's functions; those   *)
(* of several VMs interleave.  A shell command that sets something up may    *)
(* always fail, having done part of its work; one that takes something down  *)
(* may fail with its target still there if MayFail names it.                 *)
(*                                                                           *)
(* Simplifications.  VM ids are fresh, so the pre-clean of networking.ts:    *)
(* 405-409 finds nothing.  The commands that only change the inside of the   *)
(* namespace (addresses, sysctls, chains) share a step where no outside      *)
(* state lies between them.  Cleanup is called with the Vm object createVm   *)
(* returned, hence only for a VM that came up.                               *)
(*****************************************************************************)
EXTENDS Integers, FiniteSets

CONSTANTS
    Vms,       \* instance ids
    MaxSlots,  \* VM_MAX_SLOTS
    MayFail    \* commands that may fail to remove what is there

ASSUME LifecycleConstants ==
    /\ MaxSlots \in Nat
    /\ MayFail \subseteq {"removeJail", "stopDns", "deleteNs", "deleteLink"}

Slots == 1 .. MaxSlots

VARIABLES
    pc,         \* the next step of the VM's createVm or cleanupVm
    undoing,    \* whose failure or call the teardown under way belongs to
    slot,       \* info.slot, 0 before one is allocated
    usedSlots,  \* networking.ts `usedSlots'
    host,       \* what exists on the host for the VM
    state,      \* vm.state, "none" before the Vm object exists
    cleanup,    \* "no", "running" (cleanupPromise) or "done" (cleaned)
    gauge       \* metrics.ts vmCount, by its label `state'

vars == <<pc, undoing, slot, usedSlots, host, state, cleanup, gauge>>

SetupPCs    == {"addNs", "addVeth", "configure", "dns", "rules"}
BootPCs     == {"wait", "restore"}
TeardownPCs == {"stopDns", "deleteNs", "deleteLink"}
PCs == {"idle", "refused", "ready", "failed", "cleaned"}
           \cup SetupPCs \cup BootPCs \cup TeardownPCs

\* veth: the pair is on the host, or its other end is in the namespace.
\* process: spawned, told to stop, gone.
HostRecords ==
    [netns : BOOLEAN, veth : {"none", "host", "moved"}, dns : BOOLEAN,
     rules : BOOLEAN, jail : BOOLEAN, cgroup : BOOLEAN,
     process : {"none", "running", "killed", "dead"}]

Nothing == [netns |-> FALSE, veth |-> "none", dns |-> FALSE, rules |-> FALSE,
            jail |-> FALSE, cgroup |-> FALSE, process |-> "none"]

\* Every variable has its type.
TypeOK ==
    /\ pc \in [Vms -> PCs]
    /\ undoing \in [Vms -> {"nothing", "setup", "create", "cleanup"}]
    /\ slot \in [Vms -> Slots \cup {0}]
    /\ usedSlots \in SUBSET Slots
    /\ host \in [Vms -> HostRecords]
    /\ state \in [Vms -> {"none", "ready", "dead"}]
    /\ cleanup \in [Vms -> {"no", "running", "done"}]
    /\ gauge \in [{"creating", "ready", "dead"} -> Int]

Init ==
    /\ pc = [v \in Vms |-> "idle"]
    /\ undoing = [v \in Vms |-> "nothing"]
    /\ slot = [v \in Vms |-> 0]
    /\ usedSlots = {}
    /\ host = [v \in Vms |-> Nothing]
    /\ state = [v \in Vms |-> "none"]
    /\ cleanup = [v \in Vms |-> "no"]
    /\ gauge = [s \in {"creating", "ready", "dead"} |-> 0]

-----------------------------------------------------------------------------
(* Helpers.                                                                  *)

\* Mutation of FreeSlots: one slot too many.
FreeSlotsInclusive == (1 .. MaxSlots + 1) \ usedSlots

\* What allocateSlot looks through, from the lowest.
FreeSlots == Slots \ usedSlots

Count(label, d) == [gauge EXCEPT ![label] = @ + d]

\* Mutation of Killed: the signal is not sent.
Unkilled(h) == h

\* Firecracker is sent SIGTERM; it exits later.
Killed(h) ==
    [h EXCEPT !.process = IF @ = "running" THEN "killed" ELSE @]

\* What is left of h after a command that takes down `part', which may fail.
AfterRemoval(h, part, command, gone) ==
    {[h EXCEPT ![part] = gone]} \cup (IF command \in MayFail THEN {h} ELSE {})

\* A step succeeds: it leaves h on the host, and `at' is next.
Goes(v, at, h) ==
    /\ pc' = [pc EXCEPT ![v] = at]
    /\ host' = [host EXCEPT ![v] = h]
    /\ UNCHANGED <<undoing, slot, usedSlots, state, cleanup, gauge>>

\* A step fails, or cleanup is called: teardownVmNetwork is next.
Undoes(v, whose, h) ==
    /\ pc' = [pc EXCEPT ![v] = "stopDns"]
    /\ undoing' = [undoing EXCEPT ![v] = whose]
    /\ host' = [host EXCEPT ![v] = h]

-----------------------------------------------------------------------------
(* createVm: the network.                                                    *)

\* createVm up to its first await: the gauge, and a slot.
Create(v) ==
    /\ pc[v] = "idle"
    /\ \E n \in FreeSlots :
           /\ \A m \in FreeSlots : n <= m
           /\ slot' = [slot EXCEPT ![v] = n]
           /\ usedSlots' = usedSlots \cup {n}
    /\ pc' = [pc EXCEPT ![v] = "addNs"]
    /\ gauge' = Count("creating", 1)
    /\ UNCHANGED <<undoing, host, state, cleanup>>

\* allocateSlot throws.
CreateRefused(v) ==
    /\ pc[v] = "idle"
    /\ FreeSlots = {}
    /\ pc' = [pc EXCEPT ![v] = "refused"]
    /\ gauge' = Count("creating", 1)
    /\ UNCHANGED <<undoing, slot, usedSlots, host, state, cleanup>>

\* Mutation of RefusalEnds: the gauge is not counted down.
RefusalUncounted(v) ==
    /\ pc[v] = "refused"
    /\ pc' = [pc EXCEPT ![v] = "failed"]
    /\ UNCHANGED <<undoing, slot, usedSlots, host, state, cleanup, gauge>>

\* createVm's catch block: there is no networkInfo, and nothing to undo.
RefusalEnds(v) ==
    /\ pc[v] = "refused"
    /\ pc' = [pc EXCEPT ![v] = "failed"]
    /\ gauge' = Count("creating", -1)
    /\ UNCHANGED <<undoing, slot, usedSlots, host, state, cleanup>>

\* A setup step of setupVmNetwork: on failure, its catch block tears down.
SetupStep(v, at, next, done, partial) ==
    /\ pc[v] = at
    /\ \/ \E h \in done : Goes(v, next, h)
       \/ /\ \E h \in partial : Undoes(v, "setup", h)
          /\ UNCHANGED <<slot, usedSlots, state, cleanup, gauge>>

\* ip netns add
AddNs(v) ==
    SetupStep(v, "addNs", "addVeth",
              {[host[v] EXCEPT !.netns = TRUE]}, {host[v]})

\* ip link add && ip link set ... netns && ...: any prefix may have run.
AddVeth(v) ==
    SetupStep(v, "addVeth", "configure",
              {[host[v] EXCEPT !.veth = "moved"]},
              {[host[v] EXCEPT !.veth = w] : w \in {"none", "host", "moved"}})

\* Interfaces, sysctls and the egress chain, inside the namespace.
Configure(v) ==
    SetupStep(v, "configure", "dns", {host[v]}, {host[v]})

\* setupDnsFiltering, or nothing when the policy's DNS mode is "none".
SetupDns(v) ==
    SetupStep(v, "dns", "rules",
              {host[v], [host[v] EXCEPT !.dns = TRUE]},
              {host[v], [host[v] EXCEPT !.dns = TRUE]})

-----------------------------------------------------------------------------
(* createVm: jail, process and restore.                                      *)

\* The last rules fail.
RulesFail(v) ==
    /\ pc[v] = "rules"
    /\ Undoes(v, "setup", host[v])
    /\ UNCHANGED <<slot, usedSlots, state, cleanup, gauge>>

\* Mutation of JailFails: without a jail the catch block leaves the network.
JailFailsOnly(v) ==
    /\ pc[v] = "rules"
    /\ pc' = [pc EXCEPT ![v] = "failed"]
    /\ host' = [host EXCEPT ![v].rules = TRUE]
    /\ gauge' = Count("creating", -1)
    /\ UNCHANGED <<undoing, slot, usedSlots, state, cleanup>>

\* The rules are in place and prepareJail throws: `jail' is still undefined,
\* so what it had made of the directory stays.
JailFails(v) ==
    /\ pc[v] = "rules"
    /\ \E j \in BOOLEAN :
           Undoes(v, "create", [host[v] EXCEPT !.rules = TRUE, !.jail = j])
    /\ UNCHANGED <<slot, usedSlots, state, cleanup, gauge>>

\* The rules are in place, the jail is made and the jailer spawned: it makes
\* the cgroup and becomes Firecracker, unless the spawn itself fails.
Launch(v) ==
    /\ pc[v] = "rules"
    /\ \/ Goes(v, "wait", [host[v] EXCEPT !.rules = TRUE, !.jail = TRUE,
                               !.cgroup = TRUE, !.process = "running"])
       \/ Goes(v, "wait", [host[v] EXCEPT !.rules = TRUE, !.jail = TRUE])

\* The API socket answers.
SocketAnswers(v) ==
    /\ pc[v] = "wait"
    /\ host[v].process = "running"
    /\ Goes(v, "restore", host[v])

\* The snapshot is loaded: the Vm object exists, its exit handler is set.
\* A process that exits behind its answer, before that, goes unnoticed.
Restored(v) ==
    /\ pc[v] = "restore"
    /\ pc' = [pc EXCEPT ![v] = "ready"]
    /\ state' = [state EXCEPT ![v] = "ready"]
    /\ gauge' = [gauge EXCEPT !["creating"] = @ - 1, !["ready"] = @ + 1]
    /\ UNCHANGED <<undoing, slot, usedSlots, host, cleanup>>

\* Mutation of BootFails: no timeout, so only a refused load ends the boot.
BootFailsUntimed(v) ==
    /\ pc[v] = "restore"
    /\ \E h \in AfterRemoval(Killed(host[v]), "jail", "removeJail", FALSE) :
           Undoes(v, "create", h)
    /\ UNCHANGED <<slot, usedSlots, state, cleanup, gauge>>

\* No socket in time, or the load is refused: createVm's catch block kills
\* the process and removes the jail before it tears the network down.
BootFails(v) ==
    /\ pc[v] \in BootPCs
    /\ \E h \in AfterRemoval(Killed(host[v]), "jail", "removeJail", FALSE) :
           Undoes(v, "create", h)
    /\ UNCHANGED <<slot, usedSlots, state, cleanup, gauge>>

-----------------------------------------------------------------------------
(* Teardown.                                                                 *)

\* Mutation of Cleanup: vm.cleaned is not tested.
CleanupAgain(v) ==
    /\ pc[v] \in {"ready", "cleaned"}
    /\ cleanup' = [cleanup EXCEPT ![v] = "running"]
    /\ \E h \in AfterRemoval(Killed(host[v]), "jail", "removeJail", FALSE) :
           Undoes(v, "cleanup", h)
    /\ UNCHANGED <<slot, usedSlots, state, gauge>>

\* cleanupVm, the first call for this VM, up to its first await.
Cleanup(v) ==
    /\ pc[v] = "ready"
    /\ cleanup' = [cleanup EXCEPT ![v] = "running"]
    /\ \E h \in AfterRemoval(Killed(host[v]), "jail", "removeJail", FALSE) :
           Undoes(v, "cleanup", h)
    /\ UNCHANGED <<slot, usedSlots, state, gauge>>

\* teardownDnsFiltering; its error is swallowed.
StopDns(v) ==
    /\ pc[v] = "stopDns"
    /\ \E h \in AfterRemoval(host[v], "dns", "stopDns", FALSE) :
           Goes(v, "deleteNs", h)

\* Mutation of DeleteNs: the slot goes back before the veth is gone.
DeleteNsAndRelease(v) ==
    /\ pc[v] = "deleteNs"
    /\ pc' = [pc EXCEPT ![v] = "deleteLink"]
    /\ \E h \in AfterRemoval(host[v], "netns", "deleteNs", FALSE) :
           host' = [host EXCEPT ![v] = h]
    /\ usedSlots' = usedSlots \ {slot[v]}
    /\ UNCHANGED <<undoing, slot, state, cleanup, gauge>>

\* ip netns delete; its error is swallowed.
DeleteNs(v) ==
    /\ pc[v] = "deleteNs"
    /\ \E h \in AfterRemoval(host[v], "netns", "deleteNs", FALSE) :
           Goes(v, "deleteLink", h)

\* Mutation of Released: the slot is not given back.
Unreleased(v) == usedSlots

\* releaseSlot
Released(v) == usedSlots \ {slot[v]}

\* ip link delete, its error swallowed; the slot goes back; and the function
\* that was tearing down ends: createVm rejects, or cleanupVm is done.
DeleteLink(v) ==
    /\ pc[v] = "deleteLink"
    /\ \E h \in AfterRemoval(host[v], "veth", "deleteLink", "none") :
           host' = [host EXCEPT ![v] = h]
    /\ usedSlots' = Released(v)
    /\ IF undoing[v] = "cleanup"
       THEN /\ pc' = [pc EXCEPT ![v] = "cleaned"]
            /\ cleanup' = [cleanup EXCEPT ![v] = "done"]
            /\ gauge' = Count(state[v], -1)
       ELSE /\ pc' = [pc EXCEPT ![v] = "failed"]
            /\ gauge' = Count("creating", -1)
            /\ UNCHANGED cleanup
    /\ UNCHANGED <<undoing, slot, state>>

-----------------------------------------------------------------------------
(* The host.                                                                 *)

\* The process exits; the exit handler is there once the VM is up.
ProcessExits(v) ==
    /\ host[v].process \in {"running", "killed"}
    /\ host' = [host EXCEPT ![v].process = "dead"]
    /\ state' = [state EXCEPT ![v] = IF @ = "ready" THEN "dead" ELSE @]
    /\ UNCHANGED <<pc, undoing, slot, usedSlots, cleanup, gauge>>

\* The kernel frees a namespace that has no name and no process any more,
\* and the veth pair of which one end was in it.
KernelFreesNs(v) ==
    /\ pc[v] # "idle"
    /\ ~host[v].netns /\ ~host[v].dns
    /\ host[v].process \in {"none", "dead"}
    /\ host[v].veth = "moved"
    /\ host' = [host EXCEPT ![v].veth = "none"]
    /\ UNCHANGED <<pc, undoing, slot, usedSlots, state, cleanup, gauge>>

-----------------------------------------------------------------------------

Setup(v) ==
    \/ RefusalEnds(v)
    \/ AddNs(v) \/ AddVeth(v) \/ Configure(v) \/ SetupDns(v)
    \/ RulesFail(v) \/ JailFails(v) \/ Launch(v)

Boot(v) == SocketAnswers(v) \/ Restored(v) \/ BootFails(v)

Teardown(v) == StopDns(v) \/ DeleteNs(v) \/ DeleteLink(v)

Next ==
    \E v \in Vms :
        \/ Create(v) \/ CreateRefused(v)
        \/ Setup(v) \/ Boot(v) \/ Cleanup(v) \/ Teardown(v)
        \/ ProcessExits(v) \/ KernelFreesNs(v)

Spec == Init /\ [][Next]_vars

(* Fairness.  Every command ends, waiting for the socket has a timeout, the  *)
(* load is answered or refused, and a killed process exits.  Nobody has to   *)
(* ask for a VM, or for its cleanup.                                         *)
Fairness ==
    \A v \in Vms :
        /\ WF_vars(Setup(v))
        /\ WF_vars(Boot(v))
        /\ WF_vars(Teardown(v))
        /\ WF_vars(ProcessExits(v) /\ host[v].process = "killed")

FairSpec == Spec /\ Fairness

-----------------------------------------------------------------------------
(* Safety.                                                                   *)

\* Between allocateSlot and releaseSlot a VM holds its slot.
Holds(v) == slot[v] # 0 /\ pc[v] \notin {"idle", "failed", "cleaned"}

\* The pool is exact, whatever fails and however creations and teardowns
\* interleave: a slot is taken iff some VM holds it, and no two VMs hold the
\* same one (networking.ts:26-40, 386, 517).
SlotsExact ==
    /\ usedSlots = {slot[v] : v \in {w \in Vms : Holds(w)}}
    /\ \A v, w \in Vms : Holds(v) /\ Holds(w) /\ slot[v] = slot[w] => v = w

\* Two host-side veths never carry the same address 10.0.<slot>.2: the slot
\* is given back only when the pair is gone (networking.ts:506-517).
AddressesDistinct ==
    \A v, w \in Vms :
        /\ host[v].veth # "none" /\ host[w].veth # "none"
        /\ slot[v] = slot[w]
        => v = w

\* No guest runs, unless told to stop, outside a namespace with its veth,
\* its filter rules and a slot of its own; a failure on the way up, or the
\* teardown, never strips a running guest (vm-manager.ts:79-87, 129-146).
GuestConfined ==
    \A v \in Vms :
        host[v].process = "running" =>
            /\ host[v].netns /\ host[v].veth = "moved" /\ host[v].rules
            /\ slot[v] \in usedSlots

\* When createVm has rejected, or cleanupVm is done, the VM's process is not
\* left running and its veth is gone, and so are its DNS filter and namespace
\* but for a command that could not remove them, whichever step failed
\* (vm-manager.ts:129-146, networking.ts:483-491).
NetworkUndone ==
    \A v \in Vms :
        pc[v] \in {"failed", "cleaned"} =>
            /\ host[v].process # "running"
            /\ host[v].veth = "none"
            /\ host[v].dns => "stopDns" \in MayFail
            /\ host[v].netns => "deleteNs" \in MayFail

\* The gauge counts every VM that is being created or exists, once: its sum
\* is right, though not each label (cleanup.ts:64 decrements the label the
\* state has then).
GaugeTotal ==
    gauge["creating"] + gauge["ready"] + gauge["dead"] =
        Cardinality({v \in Vms : pc[v] \notin {"idle", "failed", "cleaned"}})

-----------------------------------------------------------------------------
(* Refinement: the VM as its users see it.                                   *)

SeenState ==
    [v \in Vms |->
        IF state[v] # "none" THEN state[v]
        ELSE IF pc[v] = "idle" THEN "none"
        ELSE IF pc[v] = "failed" THEN "failed"
        ELSE "creating"]

Service == INSTANCE VmService WITH state <- SeenState

\* createVm and cleanupVm keep the contract of VmService.
ServiceSpec == Service!Spec

-----------------------------------------------------------------------------
(* Liveness.                                                                 *)

\* A creation that began ends, and a cleanup that began gives the slot back
\* and leaves no process: the pool is never drained by VMs that hang on
\* their way up or down (vm-manager.ts:46-163, cleanup.ts:9-73).
EveryVmSettles ==
    \A v \in Vms :
        /\ pc[v] \in {"addNs", "refused"} ~> pc[v] \in {"ready", "failed", "cleaned"}
        /\ cleanup[v] = "running" ~>
               ~Holds(v) /\ host[v].process \in {"none", "dead"}
=============================================================================
