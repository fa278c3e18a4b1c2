# Agent Sandbox: specifications, model checking, proofs

This directory specifies the server of this repository in TLA+: a Node.js
process that gives every session a Firecracker microVM with its own network
namespace, and runs commands in it for REST, SDK and MCP clients. The
specifications are translated from the source, and the lines each definition
stands for are in `PROJECT.json` under `map`.

## 1. Inventory of the system

Paths are relative to `src/src/` unless they say otherwise.

| component | state it keeps | operations | interacts with |
|---|---|---|---|
| Session gateway (`session/gateway.ts`, `session/session.ts`, `auth/ownership.ts`) | `sessions`: id -> Session (owner, state, vm, creation promise, last activity); `sessionLocks`: id -> promise; gauge `exec_sessions_active` | `sendSessionMessage` (`ensureSession` and its lock), `destroySession`, `touchSession`, the reaper's interval | calls `createVm`, `cleanupVm`; writes manifest entries; called by REST routes, MCP tools, shutdown |
| VM lifecycle (`vm/vm-manager.ts`, `vm/cleanup.ts`) | the Vm object (`state`, `cleaned`, `cleanupPromise`, `socket`); gauge `active_vm_count` | `createVm`, `waitForFirecrackerApiSocket`, `restoreVm`, the process's exit handler, `cleanupVm` | networking, jailer, the Firecracker process |
| Networking (`vm/networking.ts`) | `usedSlots`; on the host: namespaces, veth pairs, iptables rules, dnsmasq | `allocateSlot`, `releaseSlot`, `recoverUsedSlots`, `setupVmNetwork`, `teardownVmNetwork`, `cleanupStaleNetworkResources`, `ensureHostNetworkSetup` | shell commands that may fail |
| Jailer (`vm/jailer.ts`) | jail directories on disk | `prepareJail`, `jailerArgs`, `removeJail` | the jailer makes the cgroup and becomes Firecracker |
| Manifest (`session/manifest.ts`) | `entries`, and the file they are saved to | `addEntry`, `removeEntry`, `loadManifest`, `clearManifest` | written by the gateway, read by the sweep |
| Orphan sweep and start-up (`vm/orphan-sweep.ts`, `server.ts`) | none of its own | read the manifest, kill processes, remove jails and namespaces, recover slots | everything that survives a crash |
| VM channel (`vm/transport.ts`, `vm/protocol.ts`) | `vmLocks`, `vm.socket`, `vm.connectingSocket`, the buffer and timer of a pending response | `acquireVmLock`, `getVmSocket`, `connectVsock`, `readVsockResponse` | the guest runtime |
| Guest runtime (`src/minimal-rootfs/runtime/runtime.js`) | child processes and their timers | execute, read and write files | the channel |
| API keys (`auth/key-store.ts`, `auth/cli.ts`, `auth/middleware.ts`) | `keys` in memory of two processes, one file, a delayed save | create, verify, touch, revoke, rotate, delete, flush | middleware; the command-line tool shares the file |
| Rate limiter (`auth/rate-limiter.ts`) | window and count per key | `checkRateLimit`, sweep | middleware |
| Shutdown (`shutdown.ts`) | a flag | destroy all sessions, flush keys, exit | gateway |
| Templates (`vm/templates.ts`) | the registry read at start | resolve, list | `createVm` |
| Egress policy (`vm/egress-policy.ts`) | none | parse the environment | networking |
| REST routes, MCP server and transports | the SSE transports by request id | validate and forward | gateway, key store |
| Snapshot builder, metrics, logger, SDK, benchmarks | - | - | - |

What is hard, by kind:

- *Interleaving.* One thread, but every `await` is a point where others run:
  requests of one session, the reaper, a destruction, a creation's end, a VM's
  death. State read before an `await` may be stale after it: the session under
  the lock, the VM handed out, the id that is deleted.
- *Order of continuations.* Which of two waiters runs first decides what the
  second finds; promises settle their continuations in order.
- *Partial failure.* A creation is a dozen shell commands, a jail, a process
  and an HTTP call; each may fail half way and must be undone, while the undoing
  may fail too.
- *Limits.* The slot pool (254 by default) is finite and shared.
- *Crashes.* The manifest, jails, processes and namespaces outlive the server.
- *Timeouts.* Waiting for the API socket, for the vsock connection, for a
  response, each racing a late answer.

What makes each component correct: the gateway has one VM per session, gives
none to another owner, forgets none, and answers every request; the lifecycle
gives every slot back, never shares an address, never runs a guest outside its
network rules, and undoes what failed; the channel gives a response to the
request it answers, serves one request at a time and ends each; a start leaves
no Firecracker, jail or network name of what the manifest named, no Firecracker
that ever served a session, and no address in use that it would give to another; a graceful stop tears down every
VM its sessions knew; the key store never revives a key that the file had as
revoked, and rotates in one step; the limiter admits less than twice the limit
within the length of a window, and always admits who has waited. `PROJECT.json`
lists the hazards with the lines where they bite.

## 2. Modules

### `SessionGateway`

The session table, as requests, the reaper and dying VMs drive it.

*State.* `sessions` and `sessionLocks` are the two Maps. `obj` holds the Session
objects and `vm` the Vm objects with the creation promise each belongs to; both
are named by the request that made them, because a continuation keeps a
reference to an object that the table may have dropped. `waiters` and `micro`
are JavaScript's promise reactions and microtask queue. `proc` says where each
request (and each reaping) stands, with the locals that survive an `await`.
`manifest` and `sessionsActive` are the entries and the gauge.

*Steps.* The code is cut at its `await`s. An event (request, timer, process
exit, end of `createVm` or of a teardown) needs `Quiet`, an empty microtask
queue; every other step is the head of the queue. `Settle` appends the waiters
of a promise in the order they came; `Await` registers one. That order is kept
because properties depend on it: a destruction that awaits a creation runs
right after the requests that joined it, before any new event.

*Correspondence.* `SendForbidden`, `SendReuse`, `SendJoin`, `SendLock` and
`SendWait` are the ways `ensureSession` runs up to its first `await`;
`TakeLock` and `WaitAgain` are the loop of `acquireSessionLock`; the `Locked...`
actions are the ways on under the lock, the last of them `GiveUp`, its release by
a request that throws; `Recreate` continues after a dead VM's teardown; `Joined` after the creation. `Attach`, `Discard`, `Discarded` and
`CreateFails` are the handler on `createVm`'s promise; `CleanupDone` and
`ProcessExits` the VM's end. `BeginDestroy`, `DestroyVm` and `DestroyEnds` are
`destroySession`, run by a request or by the reaper (`Reap`).

*A creation that is refused at once.* `createVm` may reject before any event:
its template is unknown (`Known`, `templates.ts:44-52`), the default is not
there, or no slot is free (`networking.ts:34`). `LockedRefused` and
`RecreateRefused` are that case, for any reason, in one step: the session is
left without VM or creation and the lock released. Between the recording of the
creation and its removal only microtasks run, so all that can have seen it are
the requests that take the lock next; they join it and fail with it, and in the
model are refused themselves. `CreateFails` is the rejection after an event.

*Left out.* The exchange with the guest after the VM was handed out, which is
`VmChannel`; argument validation; everything that happens to a VM inside `createVm` and `cleanupVm`,
which `VmLifecycle` has. Time is one bit per session, and set for active
sessions only (`GoIdle`): the reaper asks it of no other, and it may be set in
the moment a session becomes active, so no reaping is lost. The registry of
templates is a constant.

*Two branches that never run.* `LockedReuse` (`gateway.ts:77-79`) and the first
half of `Recreate` (`gateway.ts:81` after a reset) are in the model because they
are in the code; TLC never takes them, since nobody can attach a VM, or start a
creation, between the test on the fast path and the lock.

*Contracts.* `Service` reads the Vm objects as `VmService`'s variables, `Held`
the VMs a session has been handed and not torn down as `ManifestService`'s;
`KeepsVmService` and `KeepsManifest` say that every step of the gateway is one
of theirs, or none. `NobodyStranded` is the safety half of `EveryCallReturns`:
at rest, whoever has not returned awaits work that is under way, or a lock
whose holder does (`AwaitsWork`), so that one event is always enough to go on.

### `VmService` and `VmLifecycle`

`VmService` is the contract between the code that makes VMs and the code that
uses them: a creation ends once, in a VM or in nothing; a VM may die; it is torn
down at most once. Both sides implement it. `VmLifecycle` shows that the inside
of `createVm` and `cleanupVm` keeps it; `SessionGateway` takes a VM's life from
it and shows that its overlapping handlers, resets and destructions ask for
nothing else: no teardown before the creation has ended, none twice.

`VmLifecycle` is what happens inside, for many VMs at once: `pc` is the next
step of a VM's `createVm` or `cleanupVm`, `host` what exists outside for it
(namespace, veth, dnsmasq, rules, jail, cgroup, process), `slot` and `usedSlots`
the pool, `state` and `cleanup` the fields of the Vm object, `gauge` the three
series of `active_vm_count`.

| code | actions |
|---|---|
| `createVm` up to `allocateSlot` | `Create`, `CreateRefused`, `RefusalEnds` |
| `setupVmNetwork` | `AddNs`, `AddVeth`, `Configure`, `SetupDns`, `RulesFail`, each with its failure |
| `prepareJail`, `spawn` | `JailFails`, `Launch` |
| waiting for the API socket, `restoreVm` | `SocketAnswers`, `Restored`, `BootFails` |
| `cleanupVm` up to its `await` | `Cleanup` |
| `teardownVmNetwork` | `StopDns`, `DeleteNs`, `DeleteLink` |
| the process, the kernel | `ProcessExits`, `KernelFreesNs` |

A failure of a setup command may leave any part of its work behind. A failure
of a removal is swallowed by the code; the constant `MayFail` says which
removals may leave their target there. A process that exits after the load was
answered and before the exit handler is attached is missed by the handler
(`Restored` has that outcome).

Refinement: `SeenState` reads from `pc` and `state` what a user sees, and
`ServiceSpec` says that with it `VmLifecycle` implements `VmService`.

### `VmChannel`

What `sendSessionMessage` does with a VM: many requests, one lock, one shared
socket, and the guest runtime at the other end.

*State.* `pc` is where a request is; `holder` and `awaits` are the entry of
`vmLocks` and the promise each waiter awaits; `socket` and `dialing` are
`vm.socket` (a destroyed one counts as none) and `vm.connectingSocket`; `conn`
is what became of each call of `connectVsock` and its sockets, `young` says
whether its timeout has passed; `listening` is the socket that has a request's
handlers; `wire` is what the guest wrote and the host has not read; `on` the
connection the guest has a request from, `guest` what it does about it; `heard`
whose messages a request took.

*Correspondence.*

| code | actions |
|---|---|
| `acquireVmLock`, its release in `finally` | `AcquireVmLock`, `Return` |
| `getVmSocket` | `GetVmSocket`, `SetVmSocket` |
| `connectVsock` | `Connect`, `SocketError`, `Retry`, `GrowOld` |
| `readVsockResponse` | `Send`, `Data`, `TooLarge`, `Timeout`, `PeerEnds`, `SocketError` |
| Node's sockets | `AutoDestroy`; writing to an ended socket (`Send`) |
| `runtime.js` | `StreamChunk`, `Answer`, `AnswerAgain`, `HandlerThrows` |

A chunk of data may hold several lines; what follows the response in it is
dropped, as in the code (`Looked`). The guest answers twice when a process
cannot be spawned, and without an id when a handler throws. The error handler
that `connectVsock` installs stays on a socket that has connected
(`transport.ts:29`): an error on a young connection starts another attempt.

*Left out.* What commands do; the guest's own time limits (it may answer at any
time or never); `cancel`, which the host never sends and which would have to
wait for the lock of the request it cancels. A VM that dies takes the guest
along; the host's sockets end later.

*Seen in the model.* When the guest has ended the connection, the socket is not
destroyed at once; the next request may be given it and fails although a new
connection would work (`Send` on an ended one). Likewise a request handed a VM
whose teardown has begun (the fast path, `gateway.ts:49`, tests neither
`cleanupPromise` nor the session's state) fails within the connect timeout. No
document promises otherwise, and `EveryRequestReturns` holds.

### `ManifestService`

What the session manifest promises to the start after a crash: it lists every
VM that a session was handed, until that VM is torn down or was found dead and
taken off its session; it is struck by session (`removeEntry` filters by id),
and no session is struck that has such a VM. `SessionGateway` implements it with
many requests of a session at once, `Recovery` with the file, across crashes.
After a crash the next start takes the VMs out of the promise as it removes
what they left (`Retire`, with no session struck).

### `Recovery`

What outlives the server process and what the next one does about it: the
composition of manifest, slot pool, sessions and VMs under crashes.

*State.* `server` is where the process is: down, at a step of its start,
serving, draining, or without templates (`barren`). `stage` is what a VM's
`createVm` or teardown does next, `"orphan"` once its server has died;
`session`, `slot` are what it was given,
forgotten when nothing refers to them. `live`, `doomed` and `resetting` stand
for the sessions, those whose destruction waits, and the dead VMs that are torn
down to be replaced and that no session refers to meanwhile. `entries` is the
manifest in memory, `file` the one on disk. `netns`, `veths`, `dns` (a dnsmasq
runs in the namespace), `jails`, `cgroups`, `process` are what the host has.
`Filtered` are the VMs whose egress policy asks for a dnsmasq: their number and
choice are open in the proofs, and all of them in the run. `served` and `drained` are history.

| code | actions |
|---|---|
| `server.ts:13-21`, `sweepOrphanedResources` | `Start`, `KillOrphans`, `SweepJails`, `SweepSelectedNetworks`, `SweepCgroups`, `ClearManifest` |
| `recoverUsedSlots`, `ensureHostNetworkSetup`, `loadTemplateRegistry` | `RecoverUsedSlots`, `EnsureHostNetwork` |
| `createVm` | `Create`, `AddNs`, `AddVeth` (with the rest of `setupVmNetwork`, the dnsmasq too), `Launch`, `Fails` |
| the gateway's handler on it, `addEntry` | `Attach` |
| the reset of a dead VM | `Reset` |
| `teardownVmNetwork`, `releaseSlot`, the end of `destroySession` | `DeleteNs` (with `teardownDnsFiltering`), `DeleteLink` |
| `destroySession` up to its `await`s, `removeEntry` | `Destroy` |
| `shutdown` | `Stop`, `Exit` |
| the 30 s timer, SIGKILL, an uncaught exception | `Crash` |
| processes, the kernel | `ProcessEnds`, `KernelFreesNs` |

A crash may come at any step, also within a start. The start is synchronous, so
its steps are interleaved with crashes and the host only. The steps of a VM are
those of `VmLifecycle` that a crash can separate in a way the next start sees,
and the sessions are those of `SessionGateway` with one request at a time; the
two are separate specifications because a crash between two of a dozen steps of
several VMs of several requests is beyond enumeration.

*What a start leaves.* `cleanupStaleNetworkResources` deletes a namespace's link
and name, and the directory with the pid file of its dnsmasq; it does not end
the dnsmasq (`networking.ts:545-566`), nor does anything else in the code. So
after a crash the dnsmasq of a VM goes on, with no pid file to find it by, and
holds the namespace it runs in, which has no name any more and, its veth pair
being deleted, no link to the host. `KernelFreesNs` frees such a namespace only
when it has neither name, Firecracker nor dnsmasq. The properties say what is
true nevertheless: no Firecracker that was not killed and no jail of what is
swept (`SweepComplete`, `NoServedVmSurvives`), no name, and no veth but one that
goes with an ending process, in whose namespace there is no dnsmasq
(`OldVethsGone`), so no address in use is given out again (`AddressesDistinct`).
The veth is safe because the sweep deletes it itself before the name, and a
teardown ends the dnsmasq before it deletes the name.

*Assumed.* The manifest file can be read and written, and `ip`, `kill`, `pgrep`
and removing a directory work (their failures are in `VmLifecycle`). A command
under way at a crash ends, or does nothing, before the next start. A dnsmasq
ends when it is told to, and not otherwise. If the `kill` of a teardown failed
and the server crashed between the deletions of the name and of the link, the
veth of that VM would stay with its dnsmasq, found by no start: where that
`kill` may fail, `OldVethsGone` does not hold, nor does `GracefulExit` say more
than that Firecracker has ended.

### `ApiKey`, `KeyStore`, `RateLimiter`, `Auth`

`ApiKey` has the part of a key's record that never changes. `KeyStore` has the
file and the two kinds of process that keep a copy of it: `keys` and `loaded`
are the variables of `key-store.ts`, `saving` and `after` where a process is in
`saveKeys` and what it does afterwards, `saveTimer` and `used` the delayed save
of `lastUsedAt`. A save writes a temporary file and renames it; either may fail,
and the process may be killed before. A read may fail too, or what it reads not parse:
`loadKeys` then leaves no key in memory and does not try again
(`key-store.ts:43-48`). `Readings` are its outcomes, `Copies` what an operation
that begins with it may work on, and `behind` says that the server's copy is one
of a failed read, or of changes whose save failed. `CliBeside` says whether the
command line is used while the server runs, `ReadsFail` whether reads may fail. `RateLimiter` has the windows. `Auth` composes
them: a request passes `verifyKey`, the scope, the limit and `touchKey` in that
order, the routes of `/admin` change the store, the server is started, stopped
and killed.

| code | definitions |
|---|---|
| `createKey`, `revokeKey`, `deleteKey`, `rotateKey`, `touchKey` | `Create`, `Revoke`, `Delete`, `Rotate`, `Touch` |
| `loadKeys` at the head of each; `verifyKey`, `listKeys` | `Readings`, `Copies`; `Look`, `Accepts` |
| `saveKeys`; the timer; `flushKeys` | `Save`, `SaveFails`, `Killed`; `DelayedSave`; `FlushKeys` |
| `checkRateLimit`, the interval | `Count`, `Within`, `Sweep` |
| `authMiddleware` | `Refused`, `RateLimited`, `Passes` |
| `routes/admin.ts`, `auth/cli.ts` | `AdminCreates`, ...; `CliCreates`, ... |

`admitted`, the history of what the limiter let through, begins anew with each
server, as the windows do: a restart forgives what was used, and `BurstBound` is
a statement about one run of the server.

### `HostRules`

The four rules of the host's FORWARD chain. `ensureHostNetworkSetup` looks for
each rule's text in one listing of the chain and starts `iptables -I` for those
it does not find, without awaiting them. `TakenFor` is that search as the code
does it: the text of the return rule, `-d 10.0.0.0/16`, is also a part of the
isolating rule, so a return rule whose command failed is never added again once
the isolating rule is there.

### The `MC` modules and the proofs

`MCSessionGateway`, `MCVmLifecycle`, `MCVmChannel` and `MCRecovery` add symmetry
sets; `MCAuth` gives three keys their rights. `HostRules` is checked as it is.
`SessionGatewayProofs`, `SessionOrderProofs` (which builds on it),
`SessionWaitProofs` and `SessionContractProofs` (which build on both),
`VmLifecycleProofs`, `VmChannelProofs`, `RecoveryProofs` and `AuthProofs` hold
the theorems.

## 3. Runs

| run | instance | shows |
|---|---|---|
| `gateway` | 5 requests, 1 session, 2 owners, 246,867 states | lock, one VM per session, no orphan, manifest, destruction by id, no revival, isolation of owners, sessions never counted that are not there, nobody stranded, refinement of `VmService` and of `ManifestService` |
| `gateway_live` | 3 requests, 2 sessions, one template, which is unknown, fairness | every request returns |
| `lifecycle` | 3 VMs, 2 slots, stopping dnsmasq and deleting a namespace may fail, 1.3 million states | pool, addresses, confinement, undoing, gauge total, refinement of `VmService` |
| `lifecycle_live` | 2 VMs, 1 slot, fairness | creations and cleanups end |
| `channel` | 3 requests, 3 connections, 2 messages on a wire, 315,857 states | one at a time, no waiter forgotten, own messages, nothing of another request on the connection, silence after the end |
| `channel_live` | 2 requests, 2 connections, fairness | every request is answered or fails |
| `recovery` | 3 VMs, each with a dnsmasq, 2 sessions, 2 slots, any number of crashes, 887,964 states | what a start and a graceful stop leave behind, addresses and slots across crashes, the manifest and its contract |
| `auth` | 3 keys, failing reads and saves, a limit of 2, windows of 2, times 0 to 3, 520,152 states | no revival, rotation, delayed saves, bursts and waiting |
| `single_connection`, `revoked_by_cli`, `keys_erased`, `rules_in_order` | small | each refutes one statement of a document or comment (section 6) |

The types of the variables are proved (`TypeCorrect` in each module of proofs);
only `lifecycle` checks them too, where `TypeOK` bounds the slots.

Every property of a passing run has a mutant: a definition of the model changed
the way a bug in that code would, defined just before it, with which TLC finds
the property violated.

*Bounds.* A session is affected by requests of the same session only, so one
session is enough for safety; the model never lets two sessions share anything
but the microtask queue, which `gateway_live` exercises with two. Five requests
are what it takes to have one session replaced by another owner's while two
requests of the first owner are on their way (the mutant of `Isolation` needs
all five); three VMs on two slots are the least with a refusal, a reuse of a
slot and two VMs in service at a time. Three requests are the least with one
that takes the VM lock before the one that was woken for it; a request starts at
most one call of `connectVsock`, so as many connections never run out; two
messages are the least that make a chunk with something after the response.
In `recovery` two slots are what it takes for a VM of an earlier server to keep
a slot while the next one works, and three VMs for one orphan that is listed, one
that is not, and a third VM that could be given the address of either; two
sessions, for a drain that must wait for one and not for the other. VMs are used
once, which bounds a history to three creations with any number of crashes
among them. In `auth` two keys with the same rights are the least that can
rotate; they are the administrators too, so a key may end itself. A limit of 2,
windows of 2 and four moments put a burst on both sides of a window's end, and
the third key expires within them. Every request of `gateway` may be made at most once,
which bounds the state; the reaper may come any number of times. The symmetry
sets permute requests, owners, VMs, sessions and the two administrators' keys, of which the safety properties
distinguish none; the liveness runs have none.

*Deadlock* is not checked: a server without requests may stop.

## 4. Fairness

`SessionGateway!Fairness`: the microtask queue is drained (the event loop does
nothing else first); `createVm` and a teardown that have begun end, one way or
the other; the reaper's interval fires. Nothing is assumed of clients, of the
passing of time, or of processes exiting. That `createVm` and a teardown end is
what `EveryVmSettles` shows of `VmLifecycle`, under its own fairness: every
shell command ends, waiting for the socket times out (`vm-manager.ts:201`), the
load request is answered or refused, and a process that was sent SIGTERM exits.
`VmChannel!Fairness`: continuations run, timers fire (the response timeout, the
100 ms between tries, the connect timeout), a connection attempt ends in connect
or error, and a write to an ended socket in its error event. The guest may be
silent for ever.

`Recovery`, `Auth` and `HostRules` state no fairness: they are about what may
never be, wherever the crash comes.

The code sets no time limit on shell commands or on the load request: that they
end is an assumption on the host and on Firecracker, and liveness holds only
with it.

## 5. Proofs

Checked with TLAPS for all values of the constants that meet the assumptions
`GatewayConstants`, `LifecycleConstants`, `ChannelConstants`,
`RecoveryConstants`, `ApiKeyConstants`, `StoreConstants` and `LimiterConstants`.

`SessionGatewayProofs`: `TypeCorrect`, `LockIsHeld`, `OwnersIsolated`, `OneVm`.
The invariant `Inv` strengthens the properties by: where references point
(`ProcRefs`, `TableRefs`, `VmRefs`, `ObjRefs`: a request that waits for a
creation waits for one of an object of its own session, and so on); that a
creation under way is recorded in its session object, and a live VM too
(`CreationHeld`, `VmHeld`), which is why `LockedCreate` cannot start a second
one; that a request's own name is unused until it uses it (`Fresh`); and that a
session whose VM is being reset has neither VM nor creation while the lock is
held (`Reset`), which is why `Recreate` cannot either. Ownership survives the
wait for the lock because it is asserted again, on the object found there.

`SessionOrderProofs`: `RemovesItsOwn`, `StaysMarked`, `NoOrphans`,
`ManifestTracks`, `GaugeBounded` (for finitely many session ids). These hold
because of the order in which continuations run, so their invariant, `OrderInv`,
speaks of the queues. `Singly` and `Pending`: a continuation is in one place of
one queue, and a destruction's is in some. `CreationQueues`, `CleanupQueues`,
`LockQueues`: who waits for what, and what a waiting destruction knows of its
session. `MicroQueue`: in the microtask queue, and in the queue of a teardown,
no destruction comes behind a request that would renew the session (`Ordered`),
and a destruction that is about to run still has its session, marked, in the
table, or nothing is there (`GoesOn`). The two dangerous meetings are these. A
destruction and the reset of a dead VM wait for one teardown: the destruction
came first, as the reset takes the VM off the session. A destruction awaits a
creation: the request that wants a new VM finds the creation and joins it, so
nobody renews before the destruction has run. From this follow that
`destroySession` deletes its own session (`session.ts:62`), that no VM comes
into service for one marked, and, with what a step does to the table
(`TableChanges`), that table, manifest and VMs in service agree.

`SessionWaitProofs`: `NobodyIsStranded`. The invariant, `WaitInv`, has nothing
to do with rest: whoever is under way has its continuation in a queue
(`Everybody`), the recorded holder of a lock is a request inside the critical
section, and a lock is awaited only while it has a holder (`Holders`), a
creation only while it is unsettled, and it is unsettled only while `createVm`
runs or the handler that discards its VM is in a queue itself (`Creations`).
Each step is shown to drop no continuation from the queues but the one that
runs (`Carried`), and what ends a promise moves all of its waiters. At rest the
microtask queue is empty, so a continuation waits for one of the three kinds of
promise; a holder of a lock awaits a teardown only, never a lock, so there is no
circle.

`SessionContractProofs`: `VmsServed` and `ManifestKept`, the two contracts. With
`Inv` and `OrderInv` they need only that a VM nobody asked for has neither
teardown nor creation promise, and one whose creation promise its handler has
reached is up or dead (`VmShape`), and that a session object whose VM is not
torn down is in the table, and the VM in the manifest (`HeldListed`). The order
of continuations decides here too: `DestroyEnds` strikes the entries of an id,
and that none of them is of a VM still held is `RemovesItsOwn` once more, seen
from the manifest.

`VmLifecycleProofs`: `TypeCorrect`, `PoolExact`, `AddressesApart`, `Confined`,
`Undone`, `GaugeRight`, `Implements`. The invariant says, by the step a VM has
reached, what it may have on the host and in its Vm object (`SlotShape`,
`HostShape`, `LifeShape`); the pool's exactness is inductive beside it. A step
moves one VM, so each action's lemma shows the shape of that VM and cites
`OneMoves` for the others; a failing step is always `FailureInv`. Addresses are
distinct because a veth exists only while its VM holds its slot; that, and
`Undone`, assume that deleting an existing link does not fail ("deleteLink" is
not in `MayFail`), which the code takes for granted when it releases the slot
after swallowing the error. `GaugeRight` assumes finitely many VMs.
`Implements` shows each action to be an action of `VmService` or a stutter.

`VmChannelProofs`: `TypeCorrect`, `LockExact`, `NobodyLeftWaiting`,
`HearsItsOwn`, `GuestAlone`, `SilentOnceSettled`. The lock is inductive by
itself (`LockInv`): whoever is inside is the holder, whoever waits waits for the
holder's promise. What else is needed is who listens to which socket in what
state (`Attached`, `Listening`), that the guest works over an open connection
only for the request that reads from it (`Working`), and that a request's last
message is on the wire only when its work is done (`Answers`), by which reading
it ends that work.

`RecoveryProofs`: `TypeCorrect` and every invariant of the `recovery` run, for
any number of VMs, sessions and slots. The invariant has a part for each thing
that must survive a crash. `Idle`: what a server has in memory before it works.
`HostShape`: what a VM of each stage has on the host, of a dead server only what
its last stage left. `PoolShape`: the taken slots are those of the VMs under way
and of the namespaces found at the start. `ManifestShape`: an entry's VM is in
service, was replaced, or is being torn down for a session that still is there.
`SweepShape`: what each step of the start has removed, relative to what is
`Selected`. `ServedShape`: a VM that served is in the file until it is torn
down or has died, hence listed at the next start or without a process.
`DrainShape`: a VM that a session knew at the signal is torn down or its session
is still waited for. `AddressesDistinct` is inductive beside them: the pool recovered from the
names of namespaces is safe although `ensureHostNetworkSetup` removes names
after it, because a veth without a name belongs to a namespace that goes with an
ending process: no dnsmasq is in it, as a teardown ends that before it deletes
the name, and a start deletes the veth before the name.
`FileKept` is the refinement of `ManifestService`: a step keeps the records of
the VMs held, adds the one it attaches (`Serve`), or strikes sessions of which
it leaves none held (`Retire`). `ServedShape` already has a served VM in the
file until its teardown, in memory or not; `RecordShape` adds that a VM that is
up has its jail, which is how the file's reader finds it, and one in the file a
session.

`AuthProofs`: `TypeCorrect`, `FileIsMemory`, `RevokedStaysRevoked`,
`RotationIsAtomic`, `EveryUseSaved`, `BurstIsBounded`, `WaitingIsEnough`, for
any number of keys, any limits, scopes and lengths of the window. `FileIsMemory`
and `RevokedStaysRevoked` assume `CliBeside = FALSE`: a command line that writes
the file behind the server's copy makes both false (`revoked_by_cli`). The
others hold whoever works on the file: two processes overwrite each other's
changes, but each saves a whole copy, and a key made in one copy is in no other
before it is saved (`Origin`), so no order of their saves leaves half a rotation
in the file (a save is one renaming in the model; see section 6 for two at the
same moment).

The key store's invariant says when a process has nothing in memory
(`ProcessShape`), that every key in a copy was made once (`Origin`), that the two
halves of a rotation are together in every copy (`Rotation`), that what is off
was ended or replaced (`OffShape`), and, of a server that has the file for
itself, that a key retired from the file is on in no copy (`Retirement`). The
limiter's says that the requests admitted come in order, those of one window are
at most the limit and stand together, and a window opens only when the one
before is over (`EntryShape`, `WindowShape`). Of `2 * Limit` requests in a row
the first either opened its window, and the next window, in which the last lies
at the earliest, opens a length later; or an earlier request opened it, and then
the last lies at the earliest in the window after the next, which opens a length
after one that the first precedes.

Only model-checked: the three liveness properties, as liveness and ENABLED are
out of the prover's reach; `NobodyIsStranded` and `NobodyLeftWaiting` are the
part of two of them that is a matter of safety. Every invariant and every
refinement of a passing run is proved.

## 6. Where code and documents disagree

Shown by a run that is expected to find a violation:

- `single_connection`: requests are said to share "a single vsock connection"
  (`transport.ts:71`); an error on it within the connect timeout leaves a second
  open one that nobody knows, until the VM dies.
- `revoked_by_cli`: the command line reports a key as revoked (`cli.ts:94`); a
  server that runs beside it goes on accepting it, and its next save writes the
  key back as enabled. A revocation through `/admin` has no such gap
  (`RevokedStaysRevoked`, proved).
- `keys_erased`: "Persistent storage path for API keys" (`src/README.md:494`); a
  server that stops before any request has presented a key, or that runs with
  `AUTH_ENABLED=false`, flushes the empty list it never loaded over the file.
- `rules_in_order`: the host's FORWARD rules are listed with the two DROPs
  before the ACCEPT (`src/README.md:111-113`); the commands that insert them are
  not awaited, so the order they end up in is that of a race, and a command that fails leaves a rule
  out.

Known from reading, without a run:

- `session.ts:62-64` runs once per destruction, so two destructions that overlap
  decrement "Active sessions" (`metrics.ts:71`) twice. (It is never too high:
  `SessionsNotOverstated`.)
- `cleanup.ts:64` decrements the label the state has after the kill, so the
  series `ready` of `active_vm_count` only grows and `dead` goes below zero.
  (Their total is right: `GaugeTotal`, proved.)
- The template is "used on first call for a session" (`mcp/server.ts:61`), but a
  session's second VM is made from that of the call that found the first dead.
- "Inactive sessions are automatically reaped" (`src/README.md:91`), but not
  those whose creation failed. The same line has teardown remove "cgroup
  slices": only the sweep of a later start does.
- `server.ts:20` warns that custom templates may be missing; when the host check
  throws, the default is missing too, and no VM can be made (`barren`).
- `README.md:300-310` offers MCP over stdio; that entry point never loads the
  registry of templates.

Consequences of the design that the models make visible, and no document denies:

- A slot that the start recovers from a namespace the manifest did not list is
  taken until the next start, though the namespace is removed in the step after
  (`SlotsAccounted` says so, and that no other slot is).
- The process and the jail of a VM that was being made at a crash survive every
  start whose manifest is not empty (`SweepComplete` is about listed VMs).
- A dnsmasq, and the nameless namespace it runs in, survive every crash and every
  start: the sweep removes the pid file and never ends the process
  (`networking.ts:561-566`). No address is affected (`OldVethsGone`).
- A key file that cannot be read once counts as empty until the server ends, and
  any save of that server then erases it, as in `keys_erased`
  (`key-store.ts:43-48`; `FileFollowsMemory` excepts that server's memory).
- If deleting a veth failed, its slot would be released all the same
  (`networking.ts:512-517`) and the next VM of the slot get an address in use:
  every run and theorem assumes that it works ("deleteLink" is in no run's
  `MayFail`; with it, TLC finds two VMs with one address in ten states).
- Shutdown knows the sessions of one moment: a request accepted before may make
  another, and a dead VM being replaced is nobody's; both are left to the next
  start (`GracefulExit` is about the VMs sessions knew).
- Rotating a revoked key yields an enabled one; the new key has a new id, so it
  does not own the sessions of the old one. `expiresAt: 0` means never.
- Two processes that save at the same moment use one temporary file name.

## 7. Not modelled

- *Validation, parsing, paths, permissions, resource numbers, log lines, counters
  and histograms*: data that no property depends on. That includes
  `egress-policy.ts`, which turns the environment into a list of rules, and the
  schemas of `routes/exec.ts` and `mcp/server.ts`.
- *How results are streamed* (`routes/exec.ts`, NDJSON and progress
  notifications): one writer, one reader, in the order of `VmChannel`'s messages.
- *MCP transports*: the table of open SSE transports by request id; the tools
  are wrappers of the gateway.
- *Templates*: how the registry is read, once, at start. Which names it has is a
  constant of `SessionGateway`, that it may not be there a state of `Recovery`;
  `exec`, another name of the default, is in the definition and in no run.
- *Host rules of NAT and INPUT*: single commands of the kind `HostRules` has.
- *Snapshot builder*: run by hand, alone. *SDK and benchmarks*: clients.

## 8. What is left

1. Shutdown as an actor of `SessionGateway`, where sessions have several
   requests at a time (`Recovery` has it with one).
2. The SSE transports by request id.

## 9. Running

    tlc -workers 2 -config MCSessionGateway.cfg MCSessionGateway.tla
    tlc -workers 2 -config MCVmLifecycle.cfg MCVmLifecycle.tla
    tlc -workers 2 -config MCVmChannel.cfg MCVmChannel.tla
    tlc -workers 2 -config MCRecovery.cfg MCRecovery.tla
    tlc -workers 2 -config MCAuth.cfg MCAuth.tla
    tlc -workers 2 -config HostRules.cfg HostRules.tla
    tlapm VmChannelProofs.tla
    tlapm SessionGatewayProofs.tla
    tlapm SessionOrderProofs.tla
    tlapm SessionWaitProofs.tla
    tlapm SessionContractProofs.tla
    tlapm VmLifecycleProofs.tla
    tlapm RecoveryProofs.tla
    tlapm AuthProofs.tla

The other configurations (`...Live.cfg`, `MCVmChannelSingle.cfg`,
`MCAuthBeside.cfg`, `MCAuthErased.cfg`) are run the same way.
