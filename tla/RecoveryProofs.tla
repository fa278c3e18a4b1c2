--------------------------- MODULE RecoveryProofs ---------------------------
(* What Recovery guarantees for any number of VMs, sessions and slots.       *)
EXTENDS Recovery, TLAPS

\* The start up to the clearing of the manifest, and what comes after.
BeforeClear == {"down", "kill", "jails", "nets", "cgroups", "clear"}

\* No Firecracker of the VM that was not killed, and no jail.
Dead(v) == process[v] # "running" /\ v \notin jails

-----------------------------------------------------------------------------
(* The inductive invariant, by subject.                                      *)

\* A server that is not working has no VM and no session.
Idle ==
    server \notin Working =>
        live = {} /\ \A v \in Vms : stage[v] \notin Busy

\* What a VM may have on the host, by its stage.
HostShape ==
    \A v \in Vms :
        /\ stage[v] \in {"new", "addNs"} => v \notin netns /\ v \notin veths
        /\ stage[v] \in {"new", "addNs", "addVeth", "jail"} => process[v] = "none"
        /\ stage[v] \in {"addVeth", "jail", "boot", "up"} => v \in netns
        /\ stage[v] \in Undoing \cup {"gone"} => process[v] # "running"
        /\ stage[v] \in {"deleteLink", "gone"} => v \notin netns /\ v \notin dns
        /\ stage[v] = "gone" => v \notin veths
        /\ v \in veths => v \in netns \/ Vanishing(v)

\* A session has one VM under way, which it knows unless it is being reset.
\* One that is doomed waits for its VM.
SessionShape ==
    /\ \A v \in Vms :
           /\ stage[v] \in Busy => session[v] \in SessionIds
           /\ stage[v] \in Busy /\ v \notin resetting => session[v] \in live
           /\ v \in resetting => stage[v] \in Undoing /\ Dead(v)
    /\ \A v, w \in Vms :
           stage[v] \in Busy /\ stage[w] \in Busy /\ session[v] = session[w] => v = w
    /\ \A s \in doomed : \E v \in Vms :
           session[v] = s /\ stage[v] \in Busy /\ v \notin resetting

\* The pool: the second part needs the first, the third begins at the start.
PoolShape ==
    /\ \A v \in Vms : stage[v] \in Busy \cup {"orphan"} => slot[v] \in Slots
    /\ \A v, w \in Vms :
           stage[v] \in Busy /\ stage[w] \in Busy /\ slot[v] = slot[w] => v = w
    /\ server \in Working =>
           \A v \in Vms : stage[v] \in Busy => slot[v] \in usedSlots
    /\ Started \/ server = "checks" =>
           \A n \in usedSlots : \E v \in Vms :
               /\ slot[v] = n
               /\ Orphan(v) => ~Listed(v)
               /\ stage[v] \in Busy \cup {"orphan"}

\* The manifest, in memory and on disk.
ManifestShape ==
    /\ server # "down" => entries = file
    /\ server \in {"slots", "checks", "barren"} => entries = {}
    /\ server \in BeforeClear \ {"down"} => listed = file
    /\ \A v \in Vms : stage[v] = "new" => v \notin file /\ v \notin served
    /\ server \in Working =>
           /\ \A v \in Vms : stage[v] = "up" => v \in entries
           /\ \A v \in entries : session[v] \in live

\* What the sweep has reached is gone.
SweepShape ==
    /\ \A v \in Vms : Orphan(v) /\ Listed(v) =>
           /\ server \notin {"down", "kill"} => process[v] # "running"
           /\ server \notin {"down", "kill", "jails"} => v \notin jails
           /\ server \notin {"down", "kill", "jails", "nets"} => v \notin netns
    /\ Started => \A v \in Vms : Orphan(v) => v \notin netns

\* A VM that served is listed until nothing of it is left that matters.
ServedShape ==
    \A v \in served :
        /\ stage[v] \in {"up", "gone", "orphan"} \cup Undoing
        /\ stage[v] \in Busy /\ v \notin resetting => v \in entries
        /\ stage[v] \in Undoing \cup {"gone"} => v \notin jails
        /\ Orphan(v) => Dead(v) \/ (server \in BeforeClear /\ v \in file)

\* Shutdown waits for the VMs it found, through their sessions.
DrainShape ==
    server = "draining" =>
        \A v \in drained :
            \/ stage[v] = "gone"
            \/ /\ stage[v] \in Busy /\ v \notin resetting
               /\ session[v] \in doomed

Inv == /\ TypeOK /\ Idle /\ HostShape /\ SessionShape /\ PoolShape
       /\ ManifestShape /\ SweepShape /\ ServedShape /\ DrainShape
       /\ AddressesDistinct

-----------------------------------------------------------------------------
(* Each step keeps the invariant.                                            *)

\* Reading the manifest: there are only orphans.
LEMMA StartInv ==
    ASSUME Inv, Start
    PROVE  Inv'
<1>1. TypeOK'
  BY DEF Inv, TypeOK, Start, Starting, StartStep, onHost, history
<1>2. Idle'
  BY DEF Inv, Idle, Start, Working, StartStep
<1>3. HostShape'
  BY DEF Inv, HostShape, Start, onHost, Vanishing, Ending
<1>4. SessionShape'
  BY DEF Inv, SessionShape, Idle, Start, Busy, Working, StartStep
<1>5. PoolShape'
  BY DEF Inv, PoolShape, Start, Working, Started, StartStep
<1>6. ManifestShape'
  BY DEF Inv, ManifestShape, Start, Working, StartStep, history
<1>7. SweepShape'
  BY DEF SweepShape, Start, Started, Working, StartStep
<1>8. ServedShape'
  BY DEF Inv, TypeOK, ServedShape, BeforeClear, Idle, Start, Orphan, Dead,
     Working, StartStep, onHost, history
<1>9. DrainShape'
  BY DEF DrainShape, Start, StartStep
<1>10. AddressesDistinct'
  BY DEF Inv, AddressesDistinct, Vanishing, Ending, Start, Orphan, onHost
<1>. QED
  BY <1>1, <1>2, <1>3, <1>4, <1>5, <1>6, <1>7, <1>8, <1>9, <1>10 DEF Inv

\* KillOrphans keeps the invariant.
LEMMA KillOrphansInv ==
    ASSUME Inv, KillOrphans
    PROVE  Inv'
<1>1. TypeOK'
  BY DEF Inv, TypeOK, KillOrphans, Starting, StartStep, Signalled, memory,
     network, history
<1>2. Idle'
  BY DEF Inv, Idle, KillOrphans, Working, StartStep, memory
<1>3. HostShape'
  BY DEF Inv, HostShape, KillOrphans, Signalled, network, Vanishing, Ending
<1>4. SessionShape'
  BY DEF Inv, SessionShape, Idle, KillOrphans, Busy, Working, StartStep,
     memory
<1>5. PoolShape'
  BY DEF Inv, PoolShape, KillOrphans, Working, Started, StartStep
<1>6. ManifestShape'
  BY DEF Inv, ManifestShape, BeforeClear, KillOrphans, Working, StartStep,
     memory, history
<1>7. SweepShape'
  BY DEF SweepShape, KillOrphans, Listed, Started, Working, StartStep,
     Signalled, Selected, memory
<1>8. ServedShape'
  BY DEF Inv, TypeOK, ServedShape, BeforeClear, Idle, KillOrphans, Orphan,
     Dead, Working, StartStep, Signalled, history
<1>9. DrainShape'
  BY DEF DrainShape, KillOrphans, StartStep
<1>10. AddressesDistinct'
  BY DEF Inv, TypeOK, AddressesDistinct, Vanishing, Ending, KillOrphans,
     Orphan, Signalled, network
<1>. QED
  BY <1>1, <1>2, <1>3, <1>4, <1>5, <1>6, <1>7, <1>8, <1>9, <1>10 DEF Inv

\* SweepJails keeps the invariant.
LEMMA SweepJailsInv ==
    ASSUME Inv, SweepJails
    PROVE  Inv'
<1>1. TypeOK'
  BY DEF Inv, TypeOK, SweepJails, Starting, StartStep, memory, network,
     history
<1>2. Idle'
  BY DEF Inv, Idle, SweepJails, Working, StartStep, memory
<1>3. HostShape'
  BY DEF Inv, HostShape, SweepJails, network, Vanishing, Ending
<1>4. SessionShape'
  BY DEF Inv, SessionShape, SweepJails, Dead, memory
<1>5. PoolShape'
  BY DEF Inv, PoolShape, SweepJails, Working, Started, StartStep
<1>6. ManifestShape'
  BY DEF Inv, ManifestShape, BeforeClear, SweepJails, Working, StartStep,
     memory, history
<1>7. SweepShape'
  BY DEF Inv, SweepShape, SweepJails, Orphan, Listed, Started, Working,
     StartStep, Selected, memory
<1>8. ServedShape'
  BY DEF Inv, TypeOK, ServedShape, BeforeClear, Idle, SweepJails, Orphan,
     Dead, Working, StartStep, history
<1>9. DrainShape'
  BY DEF DrainShape, SweepJails, StartStep
<1>10. AddressesDistinct'
  BY DEF Inv, AddressesDistinct, Vanishing, Ending, SweepJails, Orphan, network
<1>. QED
  BY <1>1, <1>2, <1>3, <1>4, <1>5, <1>6, <1>7, <1>8, <1>9, <1>10 DEF Inv

\* SweepSelectedNetworks keeps the invariant.
LEMMA SweepSelectedNetworksInv ==
    ASSUME Inv, SweepSelectedNetworks
    PROVE  Inv'
<1>1. TypeOK'
  BY DEF Inv, TypeOK, SweepSelectedNetworks, Starting, StartStep,
     SweepNetworks, memory, history
<1>2. Idle'
  BY DEF Inv, Idle, SweepSelectedNetworks, Working, StartStep, memory
<1>3. HostShape'
  BY DEF Inv, TypeOK, HostShape, Idle, SweepSelectedNetworks, Working,
     StartStep, SweepNetworks, Vanishing, Ending
<1>4. SessionShape'
  BY DEF Inv, SessionShape, SweepSelectedNetworks, Dead, memory
<1>5. PoolShape'
  BY DEF Inv, PoolShape, SweepSelectedNetworks, Working, Started, StartStep
<1>6. ManifestShape'
  BY DEF Inv, ManifestShape, BeforeClear, SweepSelectedNetworks, Working,
     StartStep, memory, history
<1>7. SweepShape'
  BY DEF Inv, SweepShape, SweepSelectedNetworks, Orphan, Listed, Started,
     Working, StartStep, SweepNetworks, Selected, memory
<1>8. ServedShape'
  BY DEF Inv, TypeOK, ServedShape, BeforeClear, Idle, SweepSelectedNetworks,
     Orphan, Dead, Working, StartStep, history
<1>9. DrainShape'
  BY DEF DrainShape, SweepSelectedNetworks, StartStep
<1>10. AddressesDistinct'
  BY DEF Inv, AddressesDistinct, Vanishing, Ending, SweepSelectedNetworks,
     Orphan, SweepNetworks
<1>. QED
  BY <1>1, <1>2, <1>3, <1>4, <1>5, <1>6, <1>7, <1>8, <1>9, <1>10 DEF Inv

\* SweepCgroups keeps the invariant.
LEMMA SweepCgroupsInv ==
    ASSUME Inv, SweepCgroups
    PROVE  Inv'
<1>1. TypeOK'
  BY DEF Inv, TypeOK, SweepCgroups, Starting, StartStep, memory, network,
     history
<1>2. Idle'
  BY DEF Inv, Idle, SweepCgroups, Working, StartStep, memory
<1>3. HostShape'
  BY DEF Inv, HostShape, SweepCgroups, network, Vanishing, Ending
<1>4. SessionShape'
  BY DEF Inv, SessionShape, SweepCgroups, Dead, memory
<1>5. PoolShape'
  BY DEF Inv, PoolShape, SweepCgroups, Working, Started, StartStep
<1>6. ManifestShape'
  BY DEF Inv, ManifestShape, BeforeClear, SweepCgroups, Working, StartStep,
     memory, history
<1>7. SweepShape'
  BY DEF Inv, SweepShape, SweepCgroups, Orphan, Listed, Started, Working,
     StartStep, memory, network
<1>8. ServedShape'
  BY DEF Inv, TypeOK, ServedShape, BeforeClear, Idle, SweepCgroups, Orphan,
     Dead, Working, StartStep, history
<1>9. DrainShape'
  BY DEF DrainShape, SweepCgroups, StartStep
<1>10. AddressesDistinct'
  BY DEF Inv, AddressesDistinct, Vanishing, Ending, SweepCgroups, Orphan,
     network
<1>. QED
  BY <1>1, <1>2, <1>3, <1>4, <1>5, <1>6, <1>7, <1>8, <1>9, <1>10 DEF Inv

\* ClearManifest keeps the invariant.
LEMMA ClearManifestInv ==
    ASSUME Inv, ClearManifest
    PROVE  Inv'
<1>1. TypeOK'
  BY DEF Inv, TypeOK, ClearManifest, Starting, StartStep, Saved, onHost,
     history
<1>2. Idle'
  BY DEF Inv, Idle, ClearManifest, Working, StartStep
<1>3. HostShape'
  BY DEF Inv, HostShape, ClearManifest, onHost, Vanishing, Ending
<1>4. SessionShape'
  BY DEF Inv, SessionShape, Idle, ClearManifest, Busy, Working, StartStep
<1>5. PoolShape'
  BY DEF Inv, PoolShape, ClearManifest, Working, Started, StartStep
<1>6. ManifestShape'
  BY DEF Inv, ManifestShape, BeforeClear, ClearManifest, Working, StartStep,
     Saved, history
<1>7. SweepShape'
  BY DEF Inv, SweepShape, ClearManifest, Orphan, Listed, Started, Working,
     StartStep, onHost
<1>8. ServedShape'
  BY DEF Inv, TypeOK, ServedShape, Idle, ManifestShape, SweepShape,
     ClearManifest, Orphan, Dead, Working, Listed, StartStep, onHost, history
<1>9. DrainShape'
  BY DEF DrainShape, ClearManifest, StartStep
<1>10. AddressesDistinct'
  BY DEF Inv, AddressesDistinct, Vanishing, Ending, ClearManifest, Orphan,
     onHost
<1>. QED
  BY <1>1, <1>2, <1>3, <1>4, <1>5, <1>6, <1>7, <1>8, <1>9, <1>10 DEF Inv

\* A slot is recovered from a namespace the sweep did not reach.
LEMMA RecoverUsedSlotsInv ==
    ASSUME Inv, RecoverUsedSlots
    PROVE  Inv'
<1>1. TypeOK'
  <2>1. \A v \in netns \cap veths : slot[v] \in Slots
    BY DEF Inv, TypeOK, HostShape, PoolShape, Vanishing, Ending
  <2>. QED
    BY <2>1 DEF Inv, TypeOK, RecoverUsedSlots, StartStep, Starting, onHost,
       history
<1>2. Idle'
  BY DEF Inv, Idle, RecoverUsedSlots, Working, StartStep
<1>3. HostShape'
  BY DEF Inv, HostShape, RecoverUsedSlots, onHost, Vanishing, Ending
<1>4. SessionShape'
  BY DEF Inv, SessionShape, Idle, RecoverUsedSlots, Busy, Working, StartStep
<1>5. PoolShape'
  BY DEF Inv, TypeOK, PoolShape, HostShape, SweepShape, RecoverUsedSlots,
     Working, Orphan, Listed, StartStep, Vanishing, Ending
<1>6. ManifestShape'
  BY DEF Inv, TypeOK, ManifestShape, BeforeClear, Idle, RecoverUsedSlots,
     StartStep, history
<1>7. SweepShape'
  BY DEF Inv, SweepShape, RecoverUsedSlots, Orphan, Listed, Started, Working,
     StartStep, onHost
<1>8. ServedShape'
  BY DEF Inv, ServedShape, BeforeClear, RecoverUsedSlots, Orphan, Dead,
     StartStep, onHost, history
<1>9. DrainShape'
  BY DEF DrainShape, RecoverUsedSlots, StartStep
<1>10. AddressesDistinct'
  BY DEF Inv, AddressesDistinct, Vanishing, Ending, RecoverUsedSlots, Orphan,
     onHost
<1>. QED
  BY <1>1, <1>2, <1>3, <1>4, <1>5, <1>6, <1>7, <1>8, <1>9, <1>10 DEF Inv

\* No namespace is left; a veth outside one had no running process.
LEMMA EnsureHostNetworkInv ==
    ASSUME Inv, EnsureHostNetwork
    PROVE  Inv'
<1>1. TypeOK'
  BY DEF Inv, TypeOK, EnsureHostNetwork, Working, SweepNetworks, memory,
     history
<1>2. Idle'
  BY DEF Inv, Idle, EnsureHostNetwork, Working, memory
<1>3. HostShape'
  BY DEF Inv, TypeOK, HostShape, Idle, EnsureHostNetwork, Working,
     SweepNetworks, Vanishing, Ending
<1>4. SessionShape'
  BY DEF Inv, SessionShape, EnsureHostNetwork, Dead, memory
<1>5. PoolShape'
  BY DEF Inv, PoolShape, Idle, EnsureHostNetwork, Orphan, Listed, memory
<1>6. ManifestShape'
  BY DEF Inv, TypeOK, ManifestShape, BeforeClear, Idle, EnsureHostNetwork,
     memory, history
<1>7. SweepShape'
  BY DEF Inv, SweepShape, EnsureHostNetwork, Orphan, Listed, SweepNetworks,
     memory
<1>8. ServedShape'
  BY DEF Inv, TypeOK, ServedShape, BeforeClear, Idle, EnsureHostNetwork,
     Orphan, Dead, Working, history
<1>9. DrainShape'
  BY DEF DrainShape, EnsureHostNetwork
<1>10. AddressesDistinct'
  BY DEF Inv, AddressesDistinct, Vanishing, Ending, EnsureHostNetwork, Orphan,
     SweepNetworks
<1>. QED
  BY <1>1, <1>2, <1>3, <1>4, <1>5, <1>6, <1>7, <1>8, <1>9, <1>10 DEF Inv

\* A VM is new, its slot was free and its session had none.
LEMMA CreateInv ==
    ASSUME Inv, NEW v \in Vms, NEW s \in SessionIds, Create(v, s)
    PROVE  Inv'
<1>1. TypeOK'
  BY DEF Inv, TypeOK, Create, Busy, FreeSlots, onHost, history, Creating
<1>2. Idle'
  BY DEF Idle, Create
<1>3. HostShape'
  BY DEF Inv, HostShape, Create, onHost, Vanishing, Ending
<1>4. SessionShape'
  BY DEF Inv, TypeOK, SessionShape, Create, Busy, Undoing, Dead, onHost,
     Creating
<1>5. PoolShape'
  BY DEF Inv, TypeOK, PoolShape, Create, Busy, Started, Orphan, Listed,
     Undoing, FreeSlots, Creating
<1>6. ManifestShape'
  BY DEF Inv, ManifestShape, Create, history
<1>7. SweepShape'
  BY DEF Inv, SweepShape, Create, Orphan, Listed, Started, onHost
<1>8. ServedShape'
  BY DEF Inv, ServedShape, ManifestShape, Create, Orphan, Dead, onHost,
     history
<1>9. DrainShape'
  BY DEF Inv, DrainShape, Create, Busy, Undoing, history, Creating
<1>10. AddressesDistinct'
  BY DEF Inv, AddressesDistinct, HostShape, Vanishing, Ending, Create, Orphan,
     onHost
<1>. QED
  BY <1>1, <1>2, <1>3, <1>4, <1>5, <1>6, <1>7, <1>8, <1>9, <1>10 DEF Inv

\* AddNs keeps the invariant.
LEMMA AddNsInv ==
    ASSUME Inv, NEW v \in Vms, AddNs(v)
    PROVE  Inv'
<1>1. TypeOK'
  BY DEF Inv, TypeOK, AddNs, Busy, VmStep, StageStep, history, Creating
<1>2. Idle'
  BY DEF Idle, AddNs, VmStep, StageStep
<1>3. HostShape'
  BY DEF Inv, TypeOK, HostShape, AddNs, VmStep, StageStep, Vanishing, Ending
<1>4. SessionShape'
  BY DEF Inv, SessionShape, AddNs, Busy, Undoing, Dead, VmStep, StageStep,
     Creating
<1>5. PoolShape'
  BY DEF Inv, PoolShape, AddNs, Busy, Started, Orphan, Listed, VmStep,
     StageStep, Creating
<1>6. ManifestShape'
  BY DEF Inv, ManifestShape, AddNs, VmStep, StageStep, history
<1>7. SweepShape'
  BY DEF Inv, SweepShape, AddNs, Orphan, Listed, Started, VmStep, StageStep
<1>8. ServedShape'
  BY DEF Inv, ServedShape, AddNs, Undoing, Orphan, Dead, VmStep, StageStep,
     history
<1>9. DrainShape'
  BY DEF Inv, DrainShape, AddNs, Busy, VmStep, StageStep, history, Creating
<1>10. AddressesDistinct'
  BY DEF Inv, AddressesDistinct, Vanishing, Ending, AddNs, Orphan, VmStep,
     StageStep
<1>. QED
  BY <1>1, <1>2, <1>3, <1>4, <1>5, <1>6, <1>7, <1>8, <1>9, <1>10 DEF Inv

\* AddVeth keeps the invariant.
LEMMA AddVethInv ==
    ASSUME Inv, NEW v \in Vms, AddVeth(v)
    PROVE  Inv'
<1>1. TypeOK'
  BY DEF Inv, TypeOK, AddVeth, Busy, VmStep, StageStep, history, Creating
<1>2. Idle'
  BY DEF Idle, AddVeth, VmStep, StageStep
<1>3. HostShape'
  BY DEF Inv, HostShape, AddVeth, VmStep, StageStep, Vanishing, Ending
<1>4. SessionShape'
  BY DEF Inv, SessionShape, AddVeth, Busy, Undoing, Dead, VmStep, StageStep,
     Creating
<1>5. PoolShape'
  BY DEF Inv, PoolShape, AddVeth, Busy, Started, Orphan, Listed, VmStep,
     StageStep, Creating
<1>6. ManifestShape'
  BY DEF Inv, ManifestShape, AddVeth, VmStep, StageStep, history
<1>7. SweepShape'
  BY DEF Inv, SweepShape, AddVeth, Orphan, Listed, Started, VmStep, StageStep
<1>8. ServedShape'
  BY DEF Inv, ServedShape, AddVeth, Undoing, Orphan, Dead, VmStep, StageStep,
     history
<1>9. DrainShape'
  BY DEF Inv, DrainShape, AddVeth, Busy, VmStep, StageStep, history, Creating
<1>10. AddressesDistinct'
  BY DEF Inv, TypeOK, AddressesDistinct, HostShape, PoolShape, SweepShape,
     Vanishing, Ending, AddVeth, Orphan, Started, VmStep, StageStep
<1>. QED
  BY <1>1, <1>2, <1>3, <1>4, <1>5, <1>6, <1>7, <1>8, <1>9, <1>10 DEF Inv

\* The one step after which a process runs: in its namespace.
LEMMA LaunchInv ==
    ASSUME Inv, NEW v \in Vms, Launch(v)
    PROVE  Inv'
<1>1. TypeOK'
  BY DEF Inv, TypeOK, Launch, Busy, VmStep, StageStep, network, history,
     Creating
<1>2. Idle'
  BY DEF Idle, Launch, VmStep, StageStep
<1>3. HostShape'
  BY DEF Inv, TypeOK, HostShape, Launch, Undoing, VmStep, StageStep, network,
     Vanishing, Ending
<1>4. SessionShape'
  BY DEF Inv, SessionShape, Launch, Busy, Undoing, Dead, VmStep, StageStep,
     Creating
<1>5. PoolShape'
  BY DEF Inv, PoolShape, Launch, Busy, Started, Orphan, Listed, VmStep,
     StageStep, Creating
<1>6. ManifestShape'
  BY DEF Inv, ManifestShape, Launch, VmStep, StageStep, history
<1>7. SweepShape'
  BY DEF Inv, SweepShape, Launch, Orphan, Listed, Started, VmStep, StageStep,
     network
<1>8. ServedShape'
  BY DEF Inv, ServedShape, Launch, Undoing, Orphan, Dead, VmStep, StageStep,
     history
<1>9. DrainShape'
  BY DEF Inv, DrainShape, Launch, Busy, VmStep, StageStep, history, Creating
<1>10. AddressesDistinct'
  BY DEF Inv, AddressesDistinct, Vanishing, Ending, Launch, Orphan, VmStep,
     StageStep, network
<1>. QED
  BY <1>1, <1>2, <1>3, <1>4, <1>5, <1>6, <1>7, <1>8, <1>9, <1>10 DEF Inv

\* The VM is listed when it starts to serve.
LEMMA AttachInv ==
    ASSUME Inv, NEW v \in Vms, Attach(v)
    PROVE  Inv'
<1>1. TypeOK'
  BY DEF Inv, TypeOK, Attach, Busy, VmStep, StageStep, Saved, onHost
<1>2. Idle'
  BY DEF Idle, Attach, VmStep, StageStep
<1>3. HostShape'
  BY DEF Inv, HostShape, Attach, Undoing, VmStep, StageStep, onHost, Vanishing,
     Ending
<1>4. SessionShape'
  BY DEF Inv, TypeOK, SessionShape, Attach, Undoing, Dead, VmStep, StageStep,
     onHost
<1>5. PoolShape'
  BY DEF Inv, TypeOK, PoolShape, Attach, Busy, Started, Orphan, Listed,
     VmStep, StageStep
<1>6. ManifestShape'
  BY DEF Inv, TypeOK, ManifestShape, BeforeClear, SessionShape, Attach,
     Working, Undoing, VmStep, StageStep, Saved
<1>7. SweepShape'
  BY DEF Inv, SweepShape, Attach, Orphan, Listed, Started, VmStep, StageStep,
     onHost
<1>8. ServedShape'
  BY DEF Inv, TypeOK, ServedShape, BeforeClear, Attach, Undoing, Orphan,
     Dead, Working, VmStep, StageStep, Saved, onHost
<1>9. DrainShape'
  BY DEF Inv, DrainShape, Attach, VmStep, StageStep
<1>10. AddressesDistinct'
  BY DEF Inv, AddressesDistinct, Vanishing, Ending, Attach, Orphan, VmStep,
     StageStep, onHost
<1>. QED
  BY <1>1, <1>2, <1>3, <1>4, <1>5, <1>6, <1>7, <1>8, <1>9, <1>10 DEF Inv

\* Fails keeps the invariant.
LEMMA FailsInv ==
    ASSUME Inv, NEW v \in Vms, Fails(v)
    PROVE  Inv'
<1>1. TypeOK'
  BY DEF Inv, TypeOK, Fails, Busy, VmStep, StageStep, Signalled, network,
     history, Undoing
<1>2. Idle'
  BY DEF Idle, Fails, VmStep, StageStep
<1>3. HostShape'
  BY DEF Inv, HostShape, Fails, VmStep, StageStep, Signalled, network,
     Vanishing, Ending
<1>4. SessionShape'
  BY DEF Inv, SessionShape, Fails, Busy, Undoing, Dead, VmStep, StageStep,
     Signalled
<1>5. PoolShape'
  BY DEF Inv, PoolShape, Fails, Busy, Started, Orphan, Listed, Undoing,
     VmStep, StageStep
<1>6. ManifestShape'
  BY DEF Inv, ManifestShape, Fails, VmStep, StageStep, history
<1>7. SweepShape'
  BY DEF Inv, SweepShape, Fails, Orphan, Listed, Started, VmStep, StageStep,
     Signalled, network
<1>8. ServedShape'
  BY DEF Inv, TypeOK, ServedShape, Fails, Undoing, Busy, Orphan, Dead,
     VmStep, StageStep, Signalled, history
<1>9. DrainShape'
  BY DEF Inv, DrainShape, Fails, Busy, Undoing, Creating, VmStep, StageStep,
     history
<1>10. AddressesDistinct'
  BY DEF Inv, TypeOK, AddressesDistinct, HostShape, PoolShape, Vanishing,
     Ending, Fails, Orphan, Busy, VmStep, StageStep, Signalled, network
<1>. QED
  BY <1>1, <1>2, <1>3, <1>4, <1>5, <1>6, <1>7, <1>8, <1>9, <1>10 DEF Inv

\* Reset keeps the invariant.
LEMMA ResetInv ==
    ASSUME Inv, NEW v \in Vms, Reset(v)
    PROVE  Inv'
<1>1. TypeOK'
  BY DEF Inv, TypeOK, Reset, Busy, VmStep, StageStep, network, history, Undoing
<1>2. Idle'
  BY DEF Idle, Reset, VmStep, StageStep
<1>3. HostShape'
  BY DEF Inv, HostShape, Reset, VmStep, StageStep, network, Vanishing, Ending
<1>4. SessionShape'
  BY DEF Inv, TypeOK, SessionShape, Reset, Undoing, Dead, VmStep, StageStep
<1>5. PoolShape'
  BY DEF Inv, PoolShape, Reset, Busy, Started, Orphan, Listed, Undoing,
     VmStep, StageStep
<1>6. ManifestShape'
  BY DEF Inv, ManifestShape, Reset, VmStep, StageStep, history
<1>7. SweepShape'
  BY DEF Inv, SweepShape, Reset, Orphan, Listed, Started, VmStep, StageStep,
     network
<1>8. ServedShape'
  BY DEF Inv, ServedShape, Reset, Undoing, Orphan, Dead, VmStep, StageStep,
     history
<1>9. DrainShape'
  BY DEF Inv, DrainShape, Reset, VmStep, StageStep, history
<1>10. AddressesDistinct'
  BY DEF Inv, AddressesDistinct, Vanishing, Ending, Reset, Orphan, VmStep,
     StageStep, network
<1>. QED
  BY <1>1, <1>2, <1>3, <1>4, <1>5, <1>6, <1>7, <1>8, <1>9, <1>10 DEF Inv

\* DeleteNs keeps the invariant.
LEMMA DeleteNsInv ==
    ASSUME Inv, NEW v \in Vms, DeleteNs(v)
    PROVE  Inv'
<1>1. TypeOK'
  BY DEF Inv, TypeOK, DeleteNs, Busy, VmStep, StageStep, history, Undoing
<1>2. Idle'
  BY DEF Idle, DeleteNs, VmStep, StageStep
<1>3. HostShape'
  BY DEF Inv, HostShape, DeleteNs, Undoing, VmStep, StageStep, Vanishing,
     Ending
<1>4. SessionShape'
  BY DEF Inv, SessionShape, DeleteNs, Busy, Undoing, Dead, VmStep, StageStep
<1>5. PoolShape'
  BY DEF Inv, PoolShape, DeleteNs, Busy, Started, Orphan, Listed, Undoing,
     VmStep, StageStep
<1>6. ManifestShape'
  BY DEF Inv, ManifestShape, DeleteNs, VmStep, StageStep, history
<1>7. SweepShape'
  BY DEF Inv, SweepShape, DeleteNs, Orphan, Listed, Started, VmStep, StageStep
<1>8. ServedShape'
  BY DEF Inv, TypeOK, ServedShape, DeleteNs, Undoing, Orphan, Dead, VmStep,
     StageStep, history
<1>9. DrainShape'
  BY DEF Inv, DrainShape, DeleteNs, Busy, Undoing, VmStep, StageStep, history
<1>10. AddressesDistinct'
  BY DEF Inv, AddressesDistinct, Vanishing, Ending, DeleteNs, Orphan, VmStep,
     StageStep
<1>. QED
  BY <1>1, <1>2, <1>3, <1>4, <1>5, <1>6, <1>7, <1>8, <1>9, <1>10 DEF Inv

\* The session goes, and its entries, only when no VM of it is left.
LEMMA DeleteLinkInv ==
    ASSUME Inv, NEW v \in Vms, DeleteLink(v)
    PROVE  Inv'
<1>1. TypeOK'
  BY DEF Inv, TypeOK, DeleteLink, VmStep, StageStep, Ends, history, Saved,
     Without
<1>2. Idle'
  BY DEF Idle, DeleteLink, VmStep, StageStep
<1>3. HostShape'
  BY DEF Inv, HostShape, DeleteLink, Undoing, VmStep, StageStep, Vanishing,
     Ending
<1>4. SessionShape'
  BY DEF Inv, TypeOK, SessionShape, DeleteLink, Busy, Undoing, Dead, VmStep,
     StageStep, Ends, Creating
<1>5. PoolShape'
  BY DEF Inv, TypeOK, PoolShape, DeleteLink, Busy, Started, Orphan, Listed,
     Undoing, VmStep, StageStep, Creating
<1>6. ManifestShape'
  <2>1. \A w \in Vms : stage'[w] \in {"up", "new"} => stage[w] = stage'[w]
    BY DEF DeleteLink, VmStep, StageStep
  <2>2. CASE v \notin resetting /\ session[v] \in doomed
    <3>1. \A w \in Vms : stage[w] = "up" => session[w] # session[v]
      BY DEF Inv, SessionShape, DeleteLink, VmStep, StageStep, Busy, Undoing
    <3>. QED
      BY <2>1, <2>2, <3>1 DEF Inv, ManifestShape, DeleteLink, VmStep,
         StageStep, Ends, Saved, Without, BeforeClear, Working, history
  <2>3. CASE ~(v \notin resetting /\ session[v] \in doomed)
    BY <2>1, <2>3 DEF Inv, TypeOK, ManifestShape, Working, DeleteLink, VmStep, StageStep, Ends,
       history
  <2>. QED
    BY <2>2, <2>3
<1>7. SweepShape'
  BY DEF Inv, SweepShape, DeleteLink, Orphan, Listed, Started, VmStep,
     StageStep
<1>8. ServedShape'
  <2>1. CASE v \notin resetting /\ session[v] \in doomed
    BY <2>1 DEF Inv, TypeOK, ServedShape, SessionShape, DeleteLink, VmStep,
       StageStep, Ends, Saved, Without, BeforeClear, Working, Busy, Undoing,
       Creating, Orphan, Dead, history
  <2>2. CASE ~(v \notin resetting /\ session[v] \in doomed)
    BY <2>2 DEF Inv, TypeOK, ServedShape, DeleteLink, VmStep, StageStep, Ends,
       Busy, Undoing, Creating, Orphan, Dead, history
  <2>. QED
    BY <2>1, <2>2
<1>9. DrainShape'
  BY DEF Inv, TypeOK, DrainShape, SessionShape, DeleteLink, VmStep, StageStep,
     Ends, history
<1>10. AddressesDistinct'
  BY DEF Inv, AddressesDistinct, Vanishing, Ending, DeleteLink, Orphan, VmStep,
     StageStep
<1>. QED
  BY <1>1, <1>2, <1>3, <1>4, <1>5, <1>6, <1>7, <1>8, <1>9, <1>10 DEF Inv

\* Destroy keeps the invariant.
LEMMA DestroyInv ==
    ASSUME Inv, NEW s \in SessionIds, Destroy(s)
    PROVE  Inv'
<1>1. TypeOK'
  BY DEF Inv, TypeOK, Destroy, Busy, Destroys, Undoing, Saved, Signalled,
     network
<1>2. Idle'
  BY DEF Inv, Idle, Destroy
<1>3. HostShape'
  BY DEF Inv, HostShape, Destroy, Destroys, Signalled, network, Vanishing,
     Ending
<1>4. SessionShape'
  BY DEF Inv, SessionShape, Destroy, Busy, Undoing, Dead, Destroys, Known,
     Signalled
<1>5. PoolShape'
  BY DEF Inv, PoolShape, Destroy, Busy, Started, Orphan, Listed, Undoing,
     Destroys
<1>6. ManifestShape'
  BY DEF Inv, ManifestShape, BeforeClear, Destroy, Destroys, Saved
<1>7. SweepShape'
  BY DEF Inv, SweepShape, Destroy, Orphan, Listed, Started, Destroys,
     Signalled, network
<1>8. ServedShape'
  BY DEF Inv, TypeOK, ServedShape, BeforeClear, Destroy, Undoing, Orphan,
     Dead, Destroys, Known, Saved, Signalled
<1>9. DrainShape'
  BY DEF DrainShape, Destroy
<1>10. AddressesDistinct'
  BY DEF Inv, TypeOK, AddressesDistinct, Vanishing, Ending, Destroy, Orphan,
     Destroys, Signalled, network
<1>. QED
  BY <1>1, <1>2, <1>3, <1>4, <1>5, <1>6, <1>7, <1>8, <1>9, <1>10 DEF Inv

\* Stop keeps the invariant.
LEMMA StopInv ==
    ASSUME Inv, Stop
    PROVE  Inv'
<1>1. TypeOK'
  <2>1. drained' \subseteq Vms
    BY DEF Stop, Known
  <2>2. doomed' \subseteq live'
    BY DEF Inv, SessionShape, Stop, Destroys, Known
  <2>3. stage' \in [Vms -> Busy \cup {"new", "gone", "orphan"}]
    BY DEF Inv, TypeOK, Stop, Destroys, Busy, Undoing
  <2>4. process' \in [Vms -> {"none", "running", "ending"}]
    BY DEF Inv, TypeOK, Stop, Destroys, Signalled
  <2>5. live' \subseteq SessionIds /\ entries' \subseteq Vms /\ file' \subseteq Vms
    BY DEF Inv, TypeOK, Stop, Destroys, Saved
  <2>6. jails' \subseteq Vms /\ server' \in Working
    BY DEF Inv, TypeOK, Stop, Destroys, Working
  <2>. QED
    BY <2>1, <2>2, <2>3, <2>4, <2>5, <2>6 DEF Inv, TypeOK, Stop, Destroys,
       network
<1>2. Idle'
  BY DEF Idle, Stop, Working
<1>3. HostShape'
  BY DEF Inv, HostShape, Stop, Destroys, Signalled, network, Vanishing, Ending
<1>4. SessionShape'
  BY DEF Inv, SessionShape, Stop, Busy, Undoing, Dead, Destroys, Known,
     Signalled
<1>5. PoolShape'
  BY DEF Inv, PoolShape, Stop, Busy, Working, Started, Orphan, Listed,
     Undoing, Destroys
<1>6. ManifestShape'
  BY DEF Inv, ManifestShape, BeforeClear, Stop, Working, Destroys, Saved
<1>7. SweepShape'
  BY DEF Inv, SweepShape, Stop, Orphan, Listed, Started, Working, Destroys,
     Signalled, network
<1>8. ServedShape'
  BY DEF Inv, TypeOK, ServedShape, BeforeClear, Stop, Undoing, Orphan, Dead,
     Destroys, Known, Saved, Signalled
<1>9. DrainShape'
  BY DEF DrainShape, Stop, Busy, Undoing, Destroys, Known
<1>10. AddressesDistinct'
  BY DEF Inv, TypeOK, AddressesDistinct, Vanishing, Ending, Stop, Orphan,
     Destroys, Signalled, network
<1>. QED
  BY <1>1, <1>2, <1>3, <1>4, <1>5, <1>6, <1>7, <1>8, <1>9, <1>10 DEF Inv

\* The server's memory goes: what it had on the host is orphaned.
LEMMA DiesInv ==
    ASSUME Inv, Dies
    PROVE  Inv'
<1>1. TypeOK'
  BY DEF Inv, TypeOK, Dies, onHost
<1>2. Idle'
  BY DEF Idle, Dies, Busy, Creating, Undoing
<1>3. HostShape'
  BY DEF Inv, HostShape, Dies, Undoing, onHost, Vanishing, Ending
<1>4. SessionShape'
  BY DEF SessionShape, Dies, Busy, Undoing, Creating
<1>5. PoolShape'
  BY DEF Inv, PoolShape, Dies, Working
<1>6. ManifestShape'
  BY DEF Inv, TypeOK, ManifestShape, Dies
<1>7. SweepShape'
  BY DEF SweepShape, Dies, Started, Working
<1>8. ServedShape'
  BY DEF Inv, TypeOK, ServedShape, BeforeClear, Idle, HostShape,
     ManifestShape, Dies, Undoing, Busy, Orphan, Dead, Working, onHost,
     Creating, Vanishing, Ending
<1>9. DrainShape'
  BY DEF DrainShape, Dies
<1>10. AddressesDistinct'
  BY DEF Inv, TypeOK, AddressesDistinct, Vanishing, Ending, Dies, Orphan,
     onHost
<1>. QED
  BY <1>1, <1>2, <1>3, <1>4, <1>5, <1>6, <1>7, <1>8, <1>9, <1>10 DEF Inv

\* ProcessEnds keeps the invariant.
LEMMA ProcessEndsInv ==
    ASSUME Inv, NEW v \in Vms, ProcessEnds(v)
    PROVE  Inv'
<1>1. TypeOK'
  BY DEF Inv, TypeOK, ProcessEnds, memory, network, history
<1>2. Idle'
  BY DEF Inv, Idle, ProcessEnds, memory
<1>3. HostShape'
  BY DEF Inv, HostShape, ProcessEnds, network, Vanishing, Ending
<1>4. SessionShape'
  BY DEF Inv, SessionShape, ProcessEnds, Dead, memory
<1>5. PoolShape'
  BY DEF Inv, PoolShape, ProcessEnds, Started, Orphan, Listed, memory
<1>6. ManifestShape'
  BY DEF Inv, ManifestShape, ProcessEnds, memory, history
<1>7. SweepShape'
  BY DEF Inv, SweepShape, ProcessEnds, Orphan, Listed, Started, memory,
     network
<1>8. ServedShape'
  BY DEF Inv, ServedShape, ProcessEnds, Orphan, Dead, memory, history
<1>9. DrainShape'
  BY DEF Inv, DrainShape, ProcessEnds, memory, history
<1>10. AddressesDistinct'
  BY DEF Inv, AddressesDistinct, Vanishing, Ending, ProcessEnds, Orphan,
     network
<1>. QED
  BY <1>1, <1>2, <1>3, <1>4, <1>5, <1>6, <1>7, <1>8, <1>9, <1>10 DEF Inv

\* KernelFreesNs keeps the invariant.
LEMMA KernelFreesNsInv ==
    ASSUME Inv, NEW v \in Vms, KernelFreesNs(v)
    PROVE  Inv'
<1>1. TypeOK'
  BY DEF Inv, TypeOK, KernelFreesNs, memory, history
<1>2. Idle'
  BY DEF Inv, Idle, KernelFreesNs, memory
<1>3. HostShape'
  BY DEF Inv, HostShape, KernelFreesNs, Vanishing, Ending
<1>4. SessionShape'
  BY DEF Inv, SessionShape, KernelFreesNs, Dead, memory
<1>5. PoolShape'
  BY DEF Inv, PoolShape, KernelFreesNs, Started, Orphan, Listed, memory
<1>6. ManifestShape'
  BY DEF Inv, ManifestShape, KernelFreesNs, memory, history
<1>7. SweepShape'
  BY DEF Inv, SweepShape, KernelFreesNs, Orphan, Listed, Started, memory
<1>8. ServedShape'
  BY DEF Inv, ServedShape, KernelFreesNs, Orphan, Dead, memory, history
<1>9. DrainShape'
  BY DEF Inv, DrainShape, KernelFreesNs, memory, history
<1>10. AddressesDistinct'
  BY DEF Inv, AddressesDistinct, Vanishing, Ending, KernelFreesNs, Orphan
<1>. QED
  BY <1>1, <1>2, <1>3, <1>4, <1>5, <1>6, <1>7, <1>8, <1>9, <1>10 DEF Inv

\* Only a step that changes a variable can break the invariant.
LEMMA StutterInv ==
    ASSUME Inv, UNCHANGED vars
    PROVE  Inv'
<1>1. TypeOK' /\ Idle' /\ HostShape' /\ SessionShape' /\ DrainShape'
  BY DEF Inv, TypeOK, Idle, HostShape, SessionShape, DrainShape, Dead, vars,
     memory, onHost, history, Vanishing, Ending
<1>2. PoolShape' /\ AddressesDistinct'
  BY DEF Inv, PoolShape, AddressesDistinct, Orphan, Listed, Vanishing, Ending,
     Started, vars, memory, onHost
<1>3. ManifestShape' /\ SweepShape' /\ ServedShape'
  BY DEF Inv, ManifestShape, SweepShape, ServedShape, Orphan, Listed, Dead,
     Started, vars, memory, onHost, history
<1>. QED
  BY <1>1, <1>2, <1>3 DEF Inv

\* Every step of the specification keeps the invariant.
LEMMA StepInv ==
    ASSUME Inv, [Next]_vars
    PROVE  Inv'
<1>1. CASE Startup
  BY <1>1, StartInv, KillOrphansInv, SweepJailsInv, SweepSelectedNetworksInv,
     SweepCgroupsInv, ClearManifestInv, RecoverUsedSlotsInv,
     EnsureHostNetworkInv DEF Startup
<1>2. CASE Exit \/ Crash
  BY <1>2, DiesInv DEF Exit, Crash
<1>3. ASSUME NEW v \in Vms, VmSteps(v) PROVE Inv'
  BY <1>3, AddNsInv, AddVethInv, LaunchInv, AttachInv, FailsInv, ResetInv,
     DeleteNsInv, DeleteLinkInv DEF VmSteps
<1>. QED
  BY <1>1, <1>2, <1>3, StopInv, DestroyInv, CreateInv, ProcessEndsInv,
     KernelFreesNsInv, StutterInv DEF Next

\* There is nothing on the host at first.
LEMMA InitInv == Init => Inv
  BY DEF Init, Inv, TypeOK, Idle, HostShape, SessionShape, PoolShape,
     ManifestShape, SweepShape, ServedShape, DrainShape, AddressesDistinct,
     Busy, Creating, Undoing, Vanishing, Ending

\* The invariant holds in every state.
LEMMA Invariance == Spec => []Inv
  BY InitInv, StepInv, PTL DEF Spec

-----------------------------------------------------------------------------
(* What follows from it.                                                     *)

\* Every variable has its type, whatever the number of crashes.
THEOREM TypeCorrect == Spec => []TypeOK
<1>1. Inv => TypeOK
  BY DEF Inv
<1>. QED
  BY <1>1, Invariance, PTL

\* Of what the sweep of a start is for, no Firecracker that was not killed, no
\* jail, no name of a namespace and no veth but what goes with an ending process
\* is left when the server listens; a dnsmasq stays (orphan-sweep.ts:20-45,
\* networking.ts:545-566).
THEOREM SweepIsComplete == Spec => []SweepComplete
<1>1. Inv => SweepComplete
  BY DEF Inv, HostShape, SweepShape, SweepComplete, Started, Working,
     Vanishing, Ending
<1>. QED
  BY <1>1, Invariance, PTL

\* No Firecracker and no jail of a VM that served a session goes on beside a
\* later server, wherever the crash came (gateway.ts:92, session.ts:60-63, orphan-sweep.ts:20-45).
THEOREM ServedVmsAreSwept == Spec => []NoServedVmSurvives
<1>1. Inv => NoServedVmSurvives
  BY DEF Inv, TypeOK, ServedShape, SweepShape, NoServedVmSurvives, Started,
     Working, BeforeClear, Dead, Vanishing, Ending, Orphan
<1>. QED
  BY <1>1, Invariance, PTL

\* Of the networks of earlier servers no name is left when the server listens,
\* and no veth but what goes with an ending process.  A namespace may stay, with
\* neither name nor veth, as long as its dnsmasq runs (networking.ts:545-566, 583).
THEOREM VethsAreSwept == Spec => []OldVethsGone
<1>1. Inv => OldVethsGone
  BY DEF Inv, HostShape, SweepShape, OldVethsGone, Vanishing, Ending
<1>. QED
  BY <1>1, Invariance, PTL

\* No address is in use twice, whatever was recovered (networking.ts:42-73).
THEOREM NoAddressTwice == Spec => []AddressesDistinct
<1>1. Inv => AddressesDistinct
  BY DEF Inv
<1>. QED
  BY <1>1, Invariance, PTL

\* The slots that are taken are those of VMs under way and those lost at the
\* start to namespaces the manifest did not list (networking.ts:58-73, 583).
THEOREM EverySlotAccounted == Spec => []SlotsAccounted
<1>1. Inv => SlotsAccounted
  <2>. SUFFICES ASSUME Inv, Started PROVE SlotsAccounted
    BY DEF SlotsAccounted
  <2>1. {slot[v] : v \in {w \in Vms : stage[w] \in Busy}} \subseteq usedSlots
    BY DEF Inv, PoolShape, Idle
  <2>. QED
    BY <2>1 DEF Inv, PoolShape, SlotsAccounted
<1>. QED
  BY <1>1, Invariance, PTL

\* The manifest on disk is that in memory, lists every VM in service, and
\* nothing of a session that is over (gateway.ts:92, manifest.ts:53-64).
THEOREM ManifestIsCurrent == Spec => []ManifestFollows
<1>1. Inv => ManifestFollows
  BY DEF Inv, ManifestShape, ManifestFollows, Working
<1>. QED
  BY <1>1, Invariance, PTL

\* When shutdown is over, the VMs its sessions knew are torn down: no process
\* and no network of them is left (shutdown.ts:23-45).
THEOREM ShutdownIsComplete == Spec => []GracefulExit
<1>1. Inv => GracefulExit
  BY DEF Inv, TypeOK, DrainShape, HostShape, ServedShape, GracefulExit,
     Vanishing, Ending
<1>. QED
  BY <1>1, Invariance, PTL

-----------------------------------------------------------------------------
(* Refinement: the file keeps what ManifestService promises.                 *)

\* A VM that is up has its jail; one in the file has a session.
RecordShape ==
    \A v \in Vms :
        /\ stage[v] \in {"boot", "up"} => v \in jails
        /\ v \in file => session[v] \in SessionIds

\* A served VM with a jail is up, or was left by an earlier server and is to
\* be swept; while the server works, a session knows every VM that is held.
LEMMA HeldStages ==
    ASSUME Inv, NEW v \in Vms, Held(v)
    PROVE  /\ v \in served /\ stage[v] # "new"
           /\ stage[v] \in {"up", "orphan"} \cup Undoing
           /\ server \notin BeforeClear =>
                  stage[v] \in Busy /\ v \notin resetting
<1>1. v \in served /\ stage[v] \in {"up", "gone", "orphan"} \cup Undoing
  BY DEF Held, Inv, ServedShape
<1>2. v \in jails => stage[v] \in {"up", "orphan"}
  BY <1>1 DEF Inv, ServedShape
<1>3. stage[v] = "orphan" => v \in jails
  BY DEF Held, Undoing
<1>4. server \notin BeforeClear => stage[v] # "orphan"
  BY <1>1, <1>3 DEF Inv, ServedShape, Dead, Orphan
<1>5. stage[v] = "up" => v \notin resetting
  BY DEF Inv, SessionShape, Undoing
<1>. QED
  BY <1>1, <1>2, <1>3, <1>4, <1>5 DEF Held, Busy, Undoing

\* A served VM with a jail is listed, whether its server is there or not.
LEMMA HeldListed ==
    ASSUME Inv, NEW v \in Vms, Held(v), v \in jails
    PROVE  v \in file
<1>1. v \in served /\ stage[v] \in {"up", "orphan"}
  BY HeldStages DEF Inv, ServedShape
<1>2. CASE stage[v] = "up"
  BY <1>1, <1>2 DEF Inv, ServedShape, SessionShape, ManifestShape, Idle, Busy,
     Undoing, Working
<1>3. CASE stage[v] = "orphan"
  BY <1>1, <1>3 DEF Inv, ServedShape, Dead, Orphan
<1>. QED
  BY <1>1, <1>2, <1>3

\* What a step that hands out no VM must show.
LEMMA Retires ==
    ASSUME Inv, NEW gone \in SUBSET SessionIds,
           \A v \in Vms : Held(v)' \/ v \in file' => session'[v] = session[v],
           \A v \in Vms : Held(v)' => Held(v) /\ session[v] \notin gone,
           file' = {v \in file : session[v] \notin gone}
    PROVE  Record!Next
<1>. DEFINE held   == {Entry(v) : v \in {w \in Vms : Held(w)}}
            record == {Entry(v) : v \in file}
<1>1. \A v \in Vms : Held(v)' => Entry(v)' = Entry(v)
  BY DEF Entry
<1>2. \A v \in file' : Entry(v)' = Entry(v)
  BY DEF Entry, Inv, TypeOK
<1>3. \A v \in Vms : Entry(v).session = session[v]
  BY DEF Entry
<1>4. held' \subseteq held /\ \A e \in held' : e.session \notin gone
  BY <1>1, <1>3
<1>5. record' = {e \in record : e.session \notin gone}
  BY <1>2, <1>3 DEF Inv, TypeOK
<1>6. held' \in SUBSET {e \in held : e.session \notin gone}
  BY <1>4
<1>7. Record!Retire(gone)
  BY <1>5, <1>6 DEF Record!Retire
<1>. QED
  BY <1>7 DEF Record!Next

\* ... and one that strikes nothing.
LEMMA Keeps ==
    ASSUME Inv,
           \A v \in Vms : Held(v)' \/ v \in file' => session'[v] = session[v],
           \A v \in Vms : Held(v)' => Held(v),
           UNCHANGED file
    PROVE  Record!Next
<1>1. file' = {v \in file : session[v] \notin {}} /\ {} \in SUBSET SessionIds
  OBVIOUS
<1>2. \A v \in Vms : Held(v)' => Held(v) /\ session[v] \notin {}
  OBVIOUS
<1>. QED
  BY <1>1, <1>2, Retires

LEMMA AttachServes ==
    ASSUME Inv, RecordShape, NEW v \in Vms, Attach(v)
    PROVE  Record!Next
<1>. DEFINE held   == {Entry(w) : w \in {x \in Vms : Held(x)}}
            record == {Entry(w) : w \in file}
<1>1. /\ stage[v] = "boot" /\ v \in jails /\ session[v] \in SessionIds
      /\ entries = file
  BY DEF Attach, VmStep, StageStep, RecordShape, Inv, ManifestShape, Working,
     SessionShape, Busy, Creating
<1>2. /\ \A w \in Vms \ {v} : stage'[w] = stage[w]
      /\ stage'[v] = "up" /\ session' = session
      /\ served' = served \cup {v} /\ file' = file \cup {v}
      /\ UNCHANGED <<jails, resetting>>
  BY <1>1 DEF Attach, VmStep, StageStep, Saved, onHost, Inv, TypeOK
<1>3. \A w \in Vms : Held(w)' <=> Held(w) \/ w = v
  BY <1>1, <1>2 DEF Held, Undoing
<1>4. \A w \in Vms : Entry(w)' = Entry(w)
  BY <1>2 DEF Entry
<1>5. held' = held \cup {Entry(v)}
  BY <1>3, <1>4
<1>6. record' = record \cup {Entry(v)}
  BY <1>2, <1>4 DEF Inv, TypeOK
<1>7. PICK e \in Record!Entries : e = Entry(v)
  BY <1>1 DEF Entry, Record!Entries
<1>8. Record!Serve(e)
  BY <1>5, <1>6, <1>7 DEF Record!Serve
<1>. QED
  BY <1>7, <1>8 DEF Record!Next

LEMMA StartupKeeps ==
    ASSUME Inv, RecordShape, Startup
    PROVE  Record!Next
<1>1. /\ UNCHANGED <<served, stage, session, resetting>>
      /\ jails' \subseteq jails
  BY DEF Startup, Start, KillOrphans, SweepJails, SweepSelectedNetworks,
     SweepCgroups, ClearManifest, RecoverUsedSlots, EnsureHostNetwork,
     memory, onHost, network, history
<1>2. \A v \in Vms : Held(v)' => Held(v)
  BY <1>1 DEF Held
<1>3. CASE UNCHANGED file
  BY <1>1, <1>2, <1>3, Keeps
<1>4. CASE ClearManifest /\ listed # {}
  <2>1. /\ server = "clear" /\ file' = {} /\ jails' = jails /\ listed = file
    BY <1>4 DEF ClearManifest, StartStep, Saved, onHost, Inv, ManifestShape,
       BeforeClear
  <2>2. \A v \in Vms : ~Held(v)
    <3>. SUFFICES ASSUME NEW v \in Vms, Held(v) PROVE FALSE
      OBVIOUS
    <3>1. v \in served /\ stage[v] \in {"up", "orphan"} \cup Undoing
      BY HeldStages
    <3>2. stage[v] = "orphan" /\ v \in jails
      BY <2>1, <3>1 DEF Inv, Idle, Working, Busy, Undoing, Held
    <3>3. v \in file
      BY <3>1, <3>2 DEF Inv, ServedShape, Orphan, Dead
    <3>. QED
      BY <2>1, <3>2, <3>3 DEF Inv, SweepShape, Orphan, Listed
  <2>3. \A v \in file : session[v] \in SessionIds
    BY DEF Inv, TypeOK, ManifestShape, RecordShape
  <2>4. file' = {v \in file : session[v] \notin SessionIds}
    BY <2>1, <2>3
  <2>. QED
    BY <1>1, <1>2, <2>2, <2>4, Retires
<1>. QED
  BY <1>3, <1>4 DEF Startup, Start, KillOrphans, SweepJails,
     SweepSelectedNetworks, SweepCgroups, ClearManifest, RecoverUsedSlots,
     EnsureHostNetwork

\* A VM is made for a session: it was not in the record.
LEMMA CreateKeeps ==
    ASSUME Inv, NEW v \in Vms, NEW s \in SessionIds, Create(v, s)
    PROVE  Record!Next
<1>1. v \notin served /\ v \notin file
  BY DEF Create, Inv, ManifestShape
<1>2. \A w \in served \cup file : session'[w] = session[w]
  BY <1>1 DEF Create, Inv, TypeOK
<1>3. \A w \in Vms : Held(w)' => Held(w) /\ w \in served
  BY <1>1 DEF Create, Inv, TypeOK, Held, onHost, history
<1>4. UNCHANGED file
  BY DEF Create
<1>. QED
  BY <1>2, <1>3, <1>4, Keeps

\* The steps of createVm, and of a teardown but the last.
LEMMA VmStepsKeep ==
    ASSUME Inv, NEW v \in Vms,
           \/ AddNs(v) \/ AddVeth(v) \/ Launch(v) \/ Fails(v)
           \/ Reset(v) \/ DeleteNs(v)
    PROVE  Record!Next
<1>1. UNCHANGED <<session, file, served>>
  BY DEF AddNs, AddVeth, Launch, Fails, Reset, DeleteNs, VmStep, StageStep,
     history
<1>2. stage \in [Vms -> Busy \cup {"new", "gone", "orphan"}]
  BY DEF Inv, TypeOK
<1>3. CASE AddNs(v) \/ AddVeth(v) \/ Launch(v) \/ Fails(v)
  <2>1. v \notin served
    BY <1>3 DEF Inv, ServedShape, AddNs, AddVeth, Launch, Fails, VmStep,
       StageStep, Creating, Undoing
  <2>2. /\ \A w \in Vms \ {v} : stage'[w] = stage[w]
        /\ \A w \in Vms \ {v} : w \in jails' => w \in jails
        /\ UNCHANGED resetting
    BY <1>2, <1>3 DEF AddNs, AddVeth, Launch, Fails, VmStep, StageStep
  <2>3. \A w \in Vms : Held(w)' => Held(w)
    BY <1>1, <2>1, <2>2 DEF Held
  <2>. QED
    BY <1>1, <2>3, Keeps
<1>4. CASE Reset(v) \/ DeleteNs(v)
  <2>1. /\ \A w \in Vms \ {v} : stage'[w] = stage[w]
        /\ jails' \subseteq jails /\ resetting \subseteq resetting'
        /\ stage[v] \in Undoing \/ v \in resetting' \ jails'
    BY <1>2, <1>4 DEF Reset, DeleteNs, VmStep, StageStep, Undoing, Inv, TypeOK
  <2>2. \A w \in Vms : Held(w)' => Held(w)
    BY <1>1, <2>1 DEF Held
  <2>. QED
    BY <1>1, <2>2, Keeps
<1>. QED
  BY <1>3, <1>4

\* The end of a teardown, and of the destruction that waited for it.
LEMMA DeleteLinkRetires ==
    ASSUME Inv, NEW v \in Vms, DeleteLink(v)
    PROVE  Record!Next
<1>1. /\ stage[v] = "deleteLink" /\ server \in Working
      /\ stage' = [stage EXCEPT ![v] = "gone"]
      /\ resetting' = resetting \ {v}
      /\ UNCHANGED <<jails, served>>
      /\ \A w \in Vms : w # v \/ w \in file' => session'[w] = session[w]
  BY DEF DeleteLink, StageStep, history, Inv, TypeOK
<1>2. v \in served => v \notin jails
  BY <1>1 DEF Inv, ServedShape, Undoing
<1>3. \A w \in Vms : Held(w)' => Held(w) /\ w # v
  BY <1>1, <1>2 DEF Inv, TypeOK, Held, Undoing
<1>4. CASE v \notin resetting /\ session[v] \in doomed
  <2>1. /\ file' = {w \in file : session[w] \notin {session[v]}}
        /\ session[v] \in SessionIds
    BY <1>1, <1>4 DEF DeleteLink, Ends, Saved, Without, Inv, TypeOK,
       ManifestShape, Working
  <2>2. \A w \in Vms : Held(w)' => session[w] \notin {session[v]}
    BY <1>1, <1>3, HeldStages DEF Inv, SessionShape, Working, BeforeClear,
       Busy, Undoing
  <2>. QED
    BY <1>1, <1>3, <2>1, <2>2, Retires
<1>5. CASE ~(v \notin resetting /\ session[v] \in doomed)
  <2>1. file' = file
    BY <1>5 DEF DeleteLink, Ends
  <2>. QED
    BY <1>1, <1>3, <2>1, Keeps
<1>. QED
  BY <1>4, <1>5

\* Destructions: a session whose VM is held waits for its teardown.
LEMMA DestroysRetires ==
    ASSUME Inv, RecordShape, NEW S \in SUBSET SessionIds, Destroys(S),
           server \in Working
    PROVE  Record!Next
<1>. DEFINE waits == {s \in S : Known(s) # {}}
<1>1. /\ UNCHANGED <<session, resetting, served>> /\ jails' \subseteq jails
      /\ \A v \in Vms : \/ stage'[v] = stage[v]
                        \/ stage[v] = "up"
      /\ file' = {v \in file : session[v] \notin S \ waits}
  BY DEF Destroys, Saved, Inv, ManifestShape, Working
<1>2. \A v \in Vms : Held(v)' => Held(v)
  BY <1>1 DEF Held, RecordShape
<1>3. \A v \in Vms : Held(v) => session[v] \notin S \ waits
  <2>. SUFFICES ASSUME NEW v \in Vms, Held(v), session[v] \in S
                PROVE  Known(session[v]) # {}
    OBVIOUS
  <2>1. stage[v] \in Busy /\ v \notin resetting
    BY HeldStages DEF Working, BeforeClear
  <2>. QED
    BY <2>1 DEF Known
<1>. QED
  BY <1>1, <1>2, <1>3, Retires

\* A crash takes nothing from the disk; what was being torn down, and had lost
\* its jail, need not be listed any more.
LEMMA DiesKeeps ==
    ASSUME Inv, Dies
    PROVE  Record!Next
<1>1. /\ UNCHANGED <<file, served, jails>> /\ resetting' = {}
      /\ \A v \in Vms : stage'[v] \notin Undoing
      /\ \A v \in file : session'[v] = session[v]
  BY DEF Dies, onHost, Busy, Undoing, Inv, TypeOK
<1>2. \A v \in Vms : Held(v)' => Held(v) /\ v \in jails /\ v \in served
  BY <1>1 DEF Held
<1>3. \A v \in Vms : Held(v) /\ v \in jails => v \in file
  BY HeldListed
<1>. QED
  BY <1>1, <1>2, <1>3, Keeps

LEMMA StepRecords ==
    ASSUME Inv, RecordShape, [Next]_vars
    PROVE  Record!Next
<1>1. CASE Exit \/ Crash
  BY <1>1, DiesKeeps DEF Exit, Crash
<1>2. ASSUME NEW s \in SessionIds, Destroy(s) PROVE Record!Next
  <2>1. server \in Working /\ Destroys({s})
    BY <1>2 DEF Destroy, Working
  <2>. QED
    BY <2>1, DestroysRetires
<1>3. CASE Stop
  <2>1. server \in Working /\ Destroys(live) /\ live \in SUBSET SessionIds
    BY <1>3 DEF Stop, Working, Inv, TypeOK
  <2>. QED
    BY <2>1, DestroysRetires
<1>4. ASSUME NEW v \in Vms, VmSteps(v) PROVE Record!Next
  BY <1>4, AttachServes, VmStepsKeep, DeleteLinkRetires DEF VmSteps
<1>5. CASE UNCHANGED vars \/ \E v \in Vms : ProcessEnds(v) \/ KernelFreesNs(v)
  <2>1. UNCHANGED <<session, file, served, jails, stage, resetting>>
    BY <1>5 DEF ProcessEnds, KernelFreesNs, vars, memory, onHost, network,
       history
  <2>2. \A v \in Vms : Held(v)' => Held(v)
    BY <2>1 DEF Held
  <2>. QED
    BY <2>1, <2>2, Keeps
<1>. QED
  BY <1>1, <1>2, <1>3, <1>4, <1>5, StartupKeeps, CreateKeeps DEF Next

LEMMA RecordShapeNext ==
    ASSUME Inv, RecordShape, [Next]_vars
    PROVE  RecordShape'
<1>1. /\ stage \in [Vms -> Busy \cup {"new", "gone", "orphan"}]
      /\ session \in [Vms -> SessionIds \cup {None}]
      /\ file \subseteq Vms
      /\ server \in Working => entries = file
  BY DEF Inv, TypeOK, ManifestShape, Working
<1>2. CASE Startup
  <2>1. /\ UNCHANGED <<stage, session>> /\ jails' \subseteq jails
        /\ file' \subseteq file /\ server \notin Working
    BY <1>2 DEF Startup, Start, KillOrphans, SweepJails, SweepSelectedNetworks,
       SweepCgroups, ClearManifest, RecoverUsedSlots, EnsureHostNetwork,
       StartStep, Working, memory, onHost, network, history, Saved
  <2>2. \A v \in Vms : stage[v] \notin {"boot", "up"}
    BY <2>1 DEF Inv, Idle, Busy, Creating
  <2>. QED
    BY <2>1, <2>2 DEF RecordShape
<1>3. CASE Dies
  BY <1>1, <1>3 DEF Dies, RecordShape, Busy, Creating, Undoing, onHost
<1>4. ASSUME NEW S, Destroys(S), server \in Working PROVE RecordShape'
  <2>1. /\ UNCHANGED session /\ file' \subseteq file
        /\ \A v \in Vms : stage'[v] \in {"boot", "up"} =>
               stage[v] = stage'[v] /\ (v \in jails => v \in jails')
    BY <1>1, <1>4 DEF Destroys, Saved
  <2>. QED
    BY <2>1 DEF RecordShape
<1>5. ASSUME NEW v \in Vms, NEW s \in SessionIds, Create(v, s) PROVE RecordShape'
  BY <1>1, <1>5 DEF Create, RecordShape, onHost
<1>6. ASSUME NEW v \in Vms, AddNs(v) \/ AddVeth(v) \/ Launch(v)
      PROVE  RecordShape'
  BY <1>1, <1>6 DEF AddNs, AddVeth, Launch, VmStep, StageStep, RecordShape,
     onHost
<1>7. ASSUME NEW v \in Vms, Attach(v)
      PROVE  RecordShape'
  <2>1. /\ session[v] \in SessionIds /\ v \in jails /\ file' = file \cup {v}
        /\ UNCHANGED <<session, jails>>
        /\ \A w \in Vms \ {v} : stage'[w] = stage[w]
    BY <1>1, <1>7 DEF Attach, VmStep, StageStep, Saved, RecordShape, Inv,
       SessionShape, Busy, Creating, onHost
  <2>. QED
    BY <2>1 DEF RecordShape
<1>8. ASSUME NEW v \in Vms, Fails(v) \/ Reset(v) \/ DeleteNs(v)
      PROVE  RecordShape'
  BY <1>1, <1>8 DEF Fails, Reset, DeleteNs, VmStep, StageStep, RecordShape,
     Creating
<1>9. ASSUME NEW v \in Vms, DeleteLink(v)
      PROVE  RecordShape'
  <2>1. /\ file' \subseteq file /\ UNCHANGED jails
        /\ \A w \in file' : session'[w] = session[w]
        /\ \A w \in Vms : stage'[w] = stage[w] \/ stage'[w] = "gone"
    BY <1>1, <1>9 DEF DeleteLink, StageStep, Ends, Saved, Without
  <2>. QED
    BY <1>1, <2>1 DEF RecordShape
<1>10. CASE UNCHANGED vars \/ \E v \in Vms : ProcessEnds(v) \/ KernelFreesNs(v)
  BY <1>10 DEF ProcessEnds, KernelFreesNs, vars, memory, onHost, RecordShape
<1>11. CASE Stop \/ \E s \in SessionIds : Destroy(s)
  BY <1>4, <1>11 DEF Stop, Destroy, Working
<1>. QED
  BY <1>2, <1>3, <1>5, <1>6, <1>7, <1>8, <1>9, <1>10, <1>11
     DEF Next, Exit, Crash, VmSteps

\* Whatever crashes, and whenever: the file lists every VM that a session was
\* handed until that VM is torn down, by its own server or by a sweep, or was
\* found dead and replaced (gateway.ts:92, session.ts:60-63,
\* orphan-sweep.ts:20-45).
THEOREM FileKept == Spec => KeepsManifest
<1>1. Init => RecordShape /\ Record!Init
  BY DEF Init, RecordShape, Record!Init, Held
<1>2. Inv /\ RecordShape /\ [Next]_vars => RecordShape' /\ [Record!Next]_(Record!vars)
  BY RecordShapeNext, StepRecords
<1>. QED
  BY <1>1, <1>2, InitInv, StepInv, PTL DEF Spec, KeepsManifest, Record!Spec

=============================================================================
