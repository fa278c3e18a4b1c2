------------------------------ MODULE Recovery ------------------------------
(*****************************************************************************)
(* What outlives the server process, and what the next one does about it:    *)
(* the session manifest, the VMs' processes, jails, cgroups and networks, a  *)
(* crash at any moment, the start (server.ts, orphan-sweep.ts, manifest.ts,  *)
(* networking.ts) and the graceful stop (shutdown.ts).                       *)
(*                                                                           *)
(* The server's own work on a VM is that of VmLifecycle with fewer steps:    *)
(* those a crash can separate in a way the next start can see.  Its sessions *)
(* are those of SessionGateway with one request at a time each.              *)
(*                                                                           *)
(* Simplifications.  The manifest file can be read and written; `ip', `kill' *)
(* and `pgrep' work, and so does the removal of directories.  A shell        *)
(* command under way at a crash ends, or does nothing, before the next       *)
(* start; a dnsmasq that is told to end counts as ended, and after a crash   *)
(* between that and the next command its VM is one without filtering.  A     *)
(* session that ends while its dead VM is being reset has its next VM made   *)
(* and discarded (Doomed in SessionGateway): a creation of any session that  *)
(* fails stands for it.                                                      *)
(*****************************************************************************)
EXTENDS Integers, FiniteSets

CONSTANTS
    Vms,        \* instance ids, each used once (vm-manager.ts:53)
    SessionIds,
    None,       \* no session
    Filtered,   \* the VMs whose egress policy has a DNS mode other than none
    MaxSlots    \* VM_MAX_SLOTS

ASSUME RecoveryConstants ==
    None \notin SessionIds /\ Filtered \subseteq Vms /\ MaxSlots \in Nat

Slots == 1 .. MaxSlots

VARIABLES
    server,    \* where the server process is
    stage,     \* what the server does with a VM next; "orphan": its server died
    session,   \* the session of a VM under way, or of one in the file
    slot,      \* the slot in a VM's addresses, 0 before and after it has one
    usedSlots, \* networking.ts `usedSlots'
    live,      \* the ids in session.ts `sessions'
    doomed,    \* of these, the ones whose destruction waits for a VM
    resetting, \* dead VMs torn down to be replaced: no session knows them
    entries,   \* manifest.ts `entries', by their vmId
    file,      \* the entries in the manifest file
    listed,    \* orphan-sweep.ts `staleEntries', of this server's start
    netns,     \* VMs with a named network namespace
    veths,     \* VMs with a veth pair
    dns,       \* VMs in whose namespace a dnsmasq runs
    jails,     \* VMs with a jail directory
    cgroups,   \* VMs with a cgroup
    process,   \* a VM's Firecracker: none, running, or signalled to end
    served,    \* history: VMs that were handed to a session
    drained    \* history: VMs that shutdown's sessions knew

memory  == <<usedSlots, live, doomed, resetting, entries, listed>>
history == <<served, drained>>
network == <<netns, veths, dns>>
onHost  == <<netns, veths, dns, jails, cgroups, process>>
vars == <<server, stage, session, slot, memory, file, onHost, history>>

Starting == {"kill", "jails", "nets", "cgroups", "clear", "slots", "checks"}
Working  == {"serving", "draining"}
Started  == server \in Working \cup {"barren"}

Creating == {"addNs", "addVeth", "jail", "boot"}
Undoing  == {"deleteNs", "deleteLink"}
Busy     == Creating \cup Undoing \cup {"up"}

\* Every variable has its type.
TypeOK ==
    /\ server \in {"down", "barren"} \cup Starting \cup Working
    /\ stage \in [Vms -> Busy \cup {"new", "gone", "orphan"}]
    /\ session \in [Vms -> SessionIds \cup {None}]
    /\ slot \in [Vms -> Slots \cup {0}]
    /\ usedSlots \subseteq Slots
    /\ live \subseteq SessionIds /\ doomed \subseteq live
    /\ resetting \subseteq Vms /\ entries \subseteq Vms
    /\ file \subseteq Vms /\ listed \subseteq Vms
    /\ netns \subseteq Vms /\ veths \subseteq Vms /\ dns \subseteq Vms
    /\ jails \subseteq Vms /\ cgroups \subseteq Vms
    /\ process \in [Vms -> {"none", "running", "ending"}]
    /\ served \subseteq Vms /\ drained \subseteq Vms

Init ==
    /\ server = "down"
    /\ stage = [v \in Vms |-> "new"]
    /\ session = [v \in Vms |-> None]
    /\ slot = [v \in Vms |-> 0]
    /\ usedSlots = {} /\ live = {} /\ doomed = {} /\ resetting = {}
    /\ entries = {} /\ file = {} /\ listed = {}
    /\ netns = {} /\ veths = {} /\ dns = {} /\ jails = {} /\ cgroups = {}
    /\ process = [v \in Vms |-> "none"]
    /\ served = {} /\ drained = {}

-----------------------------------------------------------------------------
(* Helpers.                                                                  *)

FreeSlots == Slots \ usedSlots

\* The VMs a session object, or its creation promise, refers to.
Known(s) == {v \in Vms : session[v] = s /\ stage[v] \in Busy} \ resetting

\* Mutation of Without: only the entry of the VM in service goes.
WithoutOne(s) == {v \in entries : session[v] # s \/ stage[v] = "gone"}

\* removeEntry: what is left of the entries without those of s.
Without(s) == {v \in entries : session[v] # s}

\* addEntry, removeEntry and clearManifest: the entries, and the file.
Saved(e) == entries' = e /\ file' = e

\* The processes of the VMs S are told to end.
Signalled(S) ==
    [v \in Vms |->
        IF v \in S /\ process[v] = "running" THEN "ending" ELSE process[v]]

\* The server goes, with what it had in memory; what is on the host or in the
\* file stays.
Dies ==
    /\ server' = "down"
    /\ stage' = [v \in Vms |-> IF stage[v] \in Busy THEN "orphan" ELSE stage[v]]
    /\ usedSlots' = {} /\ live' = {} /\ doomed' = {} /\ resetting' = {}
    /\ entries' = {} /\ listed' = {} /\ drained' = {}
    /\ session' = [v \in Vms |-> IF v \in file THEN session[v] ELSE None]
    /\ UNCHANGED <<slot, file, onHost, served>>

-----------------------------------------------------------------------------
(* Start: server.ts:13-21, all of it synchronous.                            *)

StartStep(at, next) == server = at /\ server' = next

\* sweepOrphanedResources reads the manifest.
Start ==
    /\ StartStep("down", "kill")
    /\ entries' = file
    /\ listed' = file
    /\ UNCHANGED <<stage, session, slot, usedSlots, live, doomed, resetting,
                   file, onHost, history>>

\* Mutation of Selected: nothing is swept but what is listed.
SelectedListed == listed

\* What the sweep is for: the listed VMs, or all if the manifest lists none.
Selected == IF listed = {} THEN Vms ELSE listed

\* killOrphanedProcesses, by process id; SIGKILL takes effect later.
KillOrphans ==
    /\ StartStep("kill", "jails")
    /\ process' = Signalled(Selected)
    /\ UNCHANGED <<stage, session, slot, memory, file, network, jails, cgroups,
                   history>>

\* sweepJailDirectories
SweepJails ==
    /\ StartStep("jails", "nets")
    /\ jails' = jails \ Selected
    /\ UNCHANGED <<stage, session, slot, memory, file, network, cgroups,
                   process, history>>

\* cleanupStaleNetworkResources(S): it goes by the names of namespaces.  Of a
\* dnsmasq it removes the directory with its pid file; the process goes on.
SweepNetworks(S) ==
    /\ netns' = netns \ S
    /\ veths' = veths \ (netns \cap S)
    /\ UNCHANGED dns

\* Mutation of SweepSelectedNetworks: left to ensureHostNetworkSetup.
SweepNetworksLater ==
    /\ StartStep("nets", "cgroups")
    /\ UNCHANGED <<stage, session, slot, memory, file, onHost, history>>

\* The networks of the selected VMs.
SweepSelectedNetworks ==
    /\ StartStep("nets", "cgroups")
    /\ SweepNetworks(Selected)
    /\ UNCHANGED <<stage, session, slot, memory, file, jails, cgroups, process,
                   history>>

\* sweepCgroupDirectories: rmdir fails while there is a process in it.
SweepCgroups ==
    /\ StartStep("cgroups", "clear")
    /\ cgroups' = cgroups \ {v \in Selected : process[v] = "none"}
    /\ UNCHANGED <<stage, session, slot, memory, file, network, jails, process,
                   history>>

\* clearManifest, if there was anything in it.
ClearManifest ==
    /\ StartStep("clear", "slots")
    /\ IF listed = {} THEN UNCHANGED <<entries, file>> ELSE Saved({})
    /\ UNCHANGED <<stage, session, slot, usedSlots, live, doomed, resetting,
                   listed, onHost, history>>

\* recoverUsedSlots: the slot in the address of each namespace's veth.
RecoverUsedSlots ==
    /\ StartStep("slots", "checks")
    /\ usedSlots' = {slot[v] : v \in netns \cap veths}
    /\ UNCHANGED <<stage, session, slot, live, doomed, resetting, entries,
                   listed, file, onHost, history>>

\* Mutation of EnsureHostNetwork: the networks of before stay.
EnsureHostNetworkOnly ==
    /\ server = "checks"
    /\ server' \in {"serving", "barren"}
    /\ UNCHANGED <<stage, session, slot, memory, file, onHost, history>>

\* ensureHostNetworkSetup removes every namespace there is; if a check after
\* that throws, loadTemplateRegistry is skipped, and no VM can be made.
EnsureHostNetwork ==
    /\ server = "checks"
    /\ server' \in {"serving", "barren"}
    /\ SweepNetworks(Vms)
    /\ UNCHANGED <<stage, session, slot, memory, file, jails, cgroups, process,
                   history>>

Startup ==
    \/ Start \/ KillOrphans \/ SweepJails \/ SweepSelectedNetworks
    \/ SweepCgroups \/ ClearManifest \/ RecoverUsedSlots \/ EnsureHostNetwork

-----------------------------------------------------------------------------
(* A VM of this server.                                                      *)

\* createVm takes the lowest free slot; a session is made if there is none.
Create(v, s) ==
    /\ server \in Working
    /\ stage[v] = "new"
    /\ s \notin doomed
    /\ \A w \in Vms : session[w] = s => stage[w] \notin Busy
    /\ \E n \in FreeSlots :
           /\ \A k \in FreeSlots : n <= k
           /\ slot' = [slot EXCEPT ![v] = n]
           /\ usedSlots' = usedSlots \cup {n}
    /\ stage' = [stage EXCEPT ![v] = "addNs"]
    /\ session' = [session EXCEPT ![v] = s]
    /\ live' = live \cup {s}
    /\ UNCHANGED <<server, doomed, resetting, entries, listed, file, onHost,
                   history>>

\* A VM of this server goes from one stage to the next.
StageStep(v, at, next) ==
    /\ server \in Working
    /\ stage[v] = at
    /\ stage' = [stage EXCEPT ![v] = next]
    /\ UNCHANGED <<server, listed>>

\* ... and keeps its session and its addresses.
VmStep(v, at, next) == StageStep(v, at, next) /\ UNCHANGED <<session, slot>>

\* ip netns add
AddNs(v) ==
    /\ VmStep(v, "addNs", "addVeth")
    /\ netns' = netns \cup {v}
    /\ UNCHANGED <<usedSlots, live, doomed, resetting, entries, file, veths,
                   dns, jails, cgroups, process, history>>

\* ip link add && ..., up to the end of setupVmNetwork: a dnsmasq is started if
\* the policy says so.
AddVeth(v) ==
    /\ VmStep(v, "addVeth", "jail")
    /\ veths' = veths \cup {v}
    /\ dns' = dns \cup ({v} \cap Filtered)
    /\ UNCHANGED <<usedSlots, live, doomed, resetting, entries, file, netns,
                   jails, cgroups, process, history>>

\* prepareJail and spawn: the jailer makes the cgroup, becomes Firecracker.
Launch(v) ==
    /\ VmStep(v, "jail", "boot")
    /\ jails' = jails \cup {v}
    /\ cgroups' = cgroups \cup {v}
    /\ process' = [process EXCEPT ![v] = "running"]
    /\ UNCHANGED <<usedSlots, live, doomed, resetting, entries, file, network,
                   history>>

\* Mutation of Attach: the entry is not saved.
AttachUnsaved(v) ==
    /\ VmStep(v, "boot", "up")
    /\ session[v] \notin doomed
    /\ entries' = entries \cup {v}
    /\ served' = served \cup {v}
    /\ UNCHANGED <<usedSlots, live, doomed, resetting, file, onHost, drained>>

\* The VM is handed to its session, and entered in the manifest.
Attach(v) ==
    /\ VmStep(v, "boot", "up")
    /\ session[v] \notin doomed
    /\ Saved(entries \cup {v})
    /\ served' = served \cup {v}
    /\ UNCHANGED <<usedSlots, live, doomed, resetting, onHost, drained>>

\* A step of createVm fails, or its session is doomed when the VM is up: the
\* process is told to end, the jail removed, and the network is next.  What
\* prepareJail had made when it threw stays.
Fails(v) ==
    /\ \E at \in Creating : VmStep(v, at, "deleteNs")
    /\ process' = Signalled({v})
    /\ \/ stage[v] = "jail" /\ jails' = jails \cup {v}
       \/ jails' = jails \ {v}
    /\ UNCHANGED <<usedSlots, live, doomed, resetting, entries, file, network,
                   cgroups, history>>

\* ensureSession finds the VM dead: cleanupVm, while the session has no VM.
Reset(v) ==
    /\ VmStep(v, "up", "deleteNs")
    /\ process[v] = "none"
    /\ session[v] \notin doomed
    /\ resetting' = resetting \cup {v}
    /\ jails' = jails \ {v}
    /\ UNCHANGED <<usedSlots, live, doomed, entries, file, network, cgroups,
                   process, history>>

\* Mutation of DeleteNs: the slot goes back before the veth is gone.
DeleteNsAndRelease(v) ==
    /\ VmStep(v, "deleteNs", "deleteLink")
    /\ netns' = netns \ {v}
    /\ dns' = dns \ {v}
    /\ usedSlots' = usedSlots \ {slot[v]}
    /\ UNCHANGED <<live, doomed, resetting, entries, file, veths, jails,
                   cgroups, process, history>>

\* teardownDnsFiltering, and ip netns delete
DeleteNs(v) ==
    /\ VmStep(v, "deleteNs", "deleteLink")
    /\ netns' = netns \ {v}
    /\ dns' = dns \ {v}
    /\ UNCHANGED <<usedSlots, live, doomed, resetting, entries, file, veths,
                   jails, cgroups, process, history>>

\* A destroySession that waited for v goes on: the session and its entries go.
Ends(v) ==
    LET s == session[v] IN
    IF v \notin resetting /\ s \in doomed
    THEN /\ live' = live \ {s}
         /\ doomed' = doomed \ {s}
         /\ Saved(Without(s))
    ELSE UNCHANGED <<live, doomed, entries, file>>

\* ip link delete, and the slot goes back; the teardown is over, and of the VM's
\* session nothing is left but the entry there may be.
DeleteLink(v) ==
    /\ StageStep(v, "deleteLink", "gone")
    /\ slot' = [slot EXCEPT ![v] = 0]
    /\ veths' = veths \ {v}
    /\ usedSlots' = usedSlots \ {slot[v]}
    /\ resetting' = resetting \ {v}
    /\ Ends(v)
    /\ session' = [session EXCEPT ![v] = IF v \in file' THEN @ ELSE None]
    /\ UNCHANGED <<netns, dns, jails, cgroups, process, history>>

VmSteps(v) ==
    \/ AddNs(v) \/ AddVeth(v) \/ Launch(v) \/ Attach(v) \/ Fails(v) \/ Reset(v)
    \/ DeleteNs(v) \/ DeleteLink(v)

-----------------------------------------------------------------------------
(* The end of sessions.                                                      *)

\* Mutation of Destroys: the entries go before the VM does.
DestroysUnlisted(S) ==
    LET waits  == {s \in S : Known(s) # {}}
        killed == {v \in Vms : stage[v] = "up" /\ session[v] \in S}
    IN  /\ doomed' = doomed \cup waits
        /\ live' = live \ (S \ waits)
        /\ Saved({v \in entries : session[v] \notin S})
        /\ stage' = [v \in Vms |-> IF v \in killed THEN "deleteNs" ELSE stage[v]]
        /\ process' = Signalled(killed)
        /\ jails' = jails \ killed
        /\ UNCHANGED <<session, slot, usedSlots, resetting, listed, network,
                       cgroups, served>>

\* destroySession of the sessions S, up to where each waits: for a VM that is
\* being made or undone, or for the teardown of the one in service.  One that
\* knows no VM ends at once.
Destroys(S) ==
    LET waits  == {s \in S : Known(s) # {}}
        killed == {v \in Vms : stage[v] = "up" /\ session[v] \in S}
    IN  /\ doomed' = doomed \cup waits
        /\ live' = live \ (S \ waits)
        /\ Saved({v \in entries : session[v] \notin S \ waits})
        /\ stage' = [v \in Vms |-> IF v \in killed THEN "deleteNs" ELSE stage[v]]
        /\ process' = Signalled(killed)
        /\ jails' = jails \ killed
        /\ UNCHANGED <<session, slot, usedSlots, resetting, listed, network,
                       cgroups, served>>

\* A client, or the reaper.
Destroy(s) ==
    /\ server = "serving"
    /\ s \in live \ doomed
    /\ Destroys({s})
    /\ UNCHANGED <<server, drained>>

\* Mutation of Stop: only the sessions with a VM in service are destroyed.
StopActive ==
    /\ server = "serving"
    /\ server' = "draining"
    /\ Destroys({s \in live : \E v \in Known(s) : stage[v] = "up"})
    /\ drained' = UNION {Known(s) : s \in live}

\* SIGTERM or SIGINT: the sessions of this moment are destroyed.  Requests
\* already accepted go on, and may make sessions.
Stop ==
    /\ server = "serving"
    /\ server' = "draining"
    /\ Destroys(live)
    /\ drained' = UNION {Known(s) : s \in live}

\* All destructions are over: process.exit(0).  Without templates there is
\* nothing to wait for.
Exit ==
    /\ server \in {"draining", "barren"}
    /\ doomed = {}
    /\ Dies

\* The process ends otherwise: killed, an uncaught exception, or the 30 s of
\* the shutdown's timer.
Crash ==
    /\ server # "down"
    /\ Dies

-----------------------------------------------------------------------------
(* The host.                                                                 *)

\* A process ends, signalled or not.
ProcessEnds(v) ==
    /\ process[v] # "none"
    /\ process' = [process EXCEPT ![v] = "none"]
    /\ UNCHANGED <<server, stage, session, slot, memory, file, network, jails,
                   cgroups, history>>

\* A namespace with neither name nor process goes, and the veth pair with it.
KernelFreesNs(v) ==
    /\ v \in veths \ (netns \cup dns)
    /\ process[v] = "none"
    /\ veths' = veths \ {v}
    /\ UNCHANGED <<server, stage, session, slot, memory, file, netns, dns,
                   jails, cgroups, process, history>>

-----------------------------------------------------------------------------

Next ==
    \/ Startup \/ Stop \/ Exit \/ Crash
    \/ \E s \in SessionIds : Destroy(s)
    \/ \E v \in Vms, s \in SessionIds : Create(v, s)
    \/ \E v \in Vms : VmSteps(v) \/ ProcessEnds(v) \/ KernelFreesNs(v)

Spec == Init /\ [][Next]_vars

-----------------------------------------------------------------------------
(* Safety.                                                                   *)

Orphan(v) == stage[v] = "orphan"

\* The manifest of the start named it, or nothing and so everything.
Listed(v) == listed = {} \/ v \in listed

\* Its namespace has no name, and no Firecracker that was not killed.
Ending(v) == v \notin netns /\ process[v] # "running"

\* ... nor a dnsmasq: it goes as soon as Firecracker has ended.
Vanishing(v) == Ending(v) /\ v \notin dns

\* Of what the sweep is for there is, when the server listens and after, no
\* Firecracker that was not killed, no jail, no name of a namespace, and no
\* veth but what goes with an ending process (orphan-sweep.ts:20-45).  A dnsmasq
\* stays, and with it the namespace it runs in, now without a name.
SweepComplete ==
    Started =>
        \A v \in Vms :
            Orphan(v) /\ Listed(v) =>
                v \notin jails /\ Ending(v) /\ (v \in veths => Vanishing(v))

\* No VM that ever served a session outlives its server into the next one's
\* service, wherever the crash came: the manifest listed it, from its entry
\* to the end of its teardown, or it had died (gateway.ts:92, session.ts:60-63).
NoServedVmSurvives ==
    Started =>
        \A v \in served :
            Orphan(v) => v \notin jails /\ Ending(v)

\* No address of an earlier server is in use, listed or not: of its networks
\* no name is left, and no veth but of a namespace that goes with an ending
\* process, in which no dnsmasq is left (networking.ts:500-514, 545-566, 583).
OldVethsGone ==
    Started =>
        \A v \in Vms :
            Orphan(v) => v \notin netns /\ (v \in veths => Vanishing(v))

\* Two veths have one address only if one is of an earlier server and about
\* to vanish: neither a crash between two steps of a teardown nor the recovery
\* of slots gives an address in use to another VM (networking.ts:42-73, 506-517).
AddressesDistinct ==
    \A v, w \in veths :
        slot[v] = slot[w] => v = w \/ \E x \in {v, w} : Orphan(x) /\ Vanishing(x)

\* Every VM under way has a slot of its own, which is taken.  Another slot is
\* taken only if the start found it in a namespace the manifest did not list:
\* that one is lost until the next start (networking.ts:58-60, 583).
SlotsAccounted ==
    Started =>
        /\ \A v, w \in Vms :
               stage[v] \in Busy /\ stage[w] \in Busy /\ slot[v] = slot[w] => v = w
        /\ {slot[v] : v \in {w \in Vms : stage[w] \in Busy}} \subseteq usedSlots
        /\ \A n \in usedSlots : \E v \in Vms :
               /\ slot[v] = n
               /\ Orphan(v) => ~Listed(v)
               /\ stage[v] \in Busy \cup {"orphan"}

\* The manifest lists each VM in service, in memory and on disk; the entries
\* of VMs that were replaced go with their session (gateway.ts:74, 92,
\* manifest.ts:60-64).
ManifestFollows ==
    server \in Working =>
        /\ file = entries
        /\ \A v \in Vms : stage[v] = "up" => v \in entries
        /\ \A v \in entries : session[v] \in live

\* A graceful exit leaves no process and no network of the sessions of the
\* signal's moment, also of those whose VM was being made: their VMs are torn
\* down to the end.  Not so for a dead VM being replaced, which no session
\* knows; and cgroups stay, and the jail a failed prepareJail has begun
\* (shutdown.ts:23-45).
GracefulExit ==
    server = "draining" /\ doomed = {} =>
        \A v \in drained :
            /\ stage[v] = "gone" /\ v \notin veths /\ Vanishing(v)
            /\ v \in served => v \notin jails

-----------------------------------------------------------------------------
(* What a crash must find in the file.                                       *)

\* A VM that served, and has its jail still, also when its server is gone, or
\* is being torn down; but not one that died and is being replaced.
Held(v) ==
    /\ v \in served
    /\ v \in jails \/ (stage[v] \in Undoing /\ v \notin resetting)

Entry(v) == [session |-> session[v], vm |-> v]

Record == INSTANCE ManifestService WITH
    held     <- {Entry(v) : v \in {w \in Vms : Held(w)}},
    manifest <- {Entry(v) : v \in file}

\* The file keeps an entry until its VM is torn down, by its own server or by
\* the sweep of a later start, wherever crashes come (gateway.ts:92,
\* session.ts:60-63, orphan-sweep.ts:20-45).
KeepsManifest == Record!Spec
=============================================================================
