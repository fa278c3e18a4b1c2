--------------------------- MODULE SessionGateway ---------------------------
(*****************************************************************************)
(* The session table of the sandbox server: ensureSession (gateway.ts),      *)
(* destroySession and the idle reaper (session.ts), the manifest entries     *)
(* they write and the gauge of active sessions.                              *)
(*                                                                           *)
(* The server is one JavaScript thread.  An event (an HTTP request, the      *)
(* reaper's timer, a Firecracker process answering or exiting, the end of a  *)
(* teardown) runs only when no microtask is left; a settled promise appends  *)
(* the continuations that await it to the microtask queue in the order in    *)
(* which they were registered, and each continuation runs to its next        *)
(* await.  The specification keeps exactly that: events are guarded by       *)
(* Quiet, and every other step takes the head of `micro'.                    *)
(*                                                                           *)
(* Simplifications.  createVm and cleanupVm are seen from outside: an        *)
(* asynchronous call that ends (VmLifecycle has their steps).  A Session     *)
(* object and a Vm object are named by the request that creates them, of     *)
(* which a request makes at most one each.  Time is a flag: `idle' says      *)
(* that the TTL has passed since the session was last touched.               *)
(*****************************************************************************)
EXTENDS Integers, Sequences, FiniteSets

CONSTANTS
    Calls,            \* requests: sendSessionMessage or destroySession
    SessionIds,       \* session names; each also names the reaper's own
                      \* destroySession of that session
    Callers,          \* what a request carries as its owner: an API key id,
                      \* or None when authentication is off
    Templates,        \* template names a caller may pass
    DefaultTemplate,  \* what resolveTemplateName(undefined) returns
    Alias,            \* "exec", another name of the default template
    Registry,         \* templates.ts `templates': the names that are known
    None              \* undefined

ASSUME GatewayConstants ==
    /\ Calls \cap SessionIds = {}
    /\ None \notin Calls \cup SessionIds \cup Templates
    /\ DefaultTemplate # None

VARIABLES
    sessions,      \* session.ts `sessions': id -> Session object or None
    obj,           \* the Session objects
    vm,            \* the Vm objects, with the promises that belong to them
    sessionLocks,  \* gateway.ts `sessionLocks': id -> the holder or None
    waiters,       \* promise -> continuations awaiting it, in order
    micro,         \* the microtask queue
    proc,          \* where each request and each reaping stands
    manifest,      \* manifest.ts `entries'
    sessionsActive \* metrics.ts execSessionsActive

vars == <<sessions, obj, vm, sessionLocks, waiters, micro, proc, manifest,
          sessionsActive>>

Procs == Calls \cup SessionIds

\* A continuation is a request's (or a reaping's), or the handler attached
\* to createVm's promise, resumed after it cleaned up an unwanted VM.
Jobs     == [kind : {"call", "create"}, who : Procs]
Call(p)  == [kind |-> "call", who |-> p]
Handler(v) == [kind |-> "create", who |-> v]

\* The promises that something awaits.
LockOf(s)     == <<"lock", s>>
CreationOf(v) == <<"creation", v>>
CleanupOf(v)  == <<"cleanup", v>>
Promises == ({"lock"} \X SessionIds) \cup ({"creation", "cleanup"} \X Calls)

NoSession == [sid |-> None, owner |-> None, template |-> None,
              state |-> "creating", vm |-> None, creation |-> None,
              idle |-> FALSE]
NoVm == [state |-> "none", cleanup |-> "no", promise |-> "none",
         session |-> None, template |-> None]
NewCall == [pc |-> "new", sid |-> None, owner |-> None, template |-> None,
            obj |-> None, vm |-> None]

PCs == {"new", "lockWait", "locked", "resetting", "joining",
        "awaitCreation", "awaitCleanup",
        "granted", "removed", "failed"}

\* A request ends with a VM, with the session removed, or with neither: 403,
\* a creation that failed, nothing to destroy.
Finished == {"granted", "removed", "failed"}

SessionRecords ==
    [sid : SessionIds \cup {None}, owner : Callers \cup {None},
     template : Templates \cup {None},
     state : {"creating", "active", "destroying"},
     vm : Calls \cup {None}, creation : Calls \cup {None}, idle : BOOLEAN]
VmRecords ==
    [state : {"none", "creating", "ready", "dead", "failed"},
     cleanup : {"no", "running", "done"},
     promise : {"none", "pending", "discarding", "fulfilled", "rejected"},
     session : Calls \cup {None},
     template : Templates \cup {None, DefaultTemplate}]
ProcRecords ==
    [pc : PCs, sid : SessionIds \cup {None}, owner : Callers \cup {None},
     template : Templates \cup {None},
     obj : Calls \cup {None}, vm : Calls \cup {None}]

\* Every variable has its type; the manifest holds pairs of a session and
\* the VM recorded for it (gateway.ts:92-103).
TypeOK ==
    /\ sessions \in [SessionIds -> Calls \cup {None}]
    /\ obj \in [Calls -> SessionRecords]
    /\ vm \in [Calls -> VmRecords]
    /\ sessionLocks \in [SessionIds -> Calls \cup {None}]
    /\ waiters \in [Promises -> Seq(Jobs)]
    /\ micro \in Seq(Jobs)
    /\ proc \in [Procs -> ProcRecords]
    /\ manifest \in SUBSET [session : SessionIds, vm : Calls]
    /\ sessionsActive \in Int

Init ==
    /\ sessions = [s \in SessionIds |-> None]
    /\ obj = [c \in Calls |-> NoSession]
    /\ vm = [c \in Calls |-> NoVm]
    /\ sessionLocks = [s \in SessionIds |-> None]
    /\ waiters = [p \in Promises |-> <<>>]
    /\ micro = <<>>
    /\ proc = [p \in Procs |-> NewCall]
    /\ manifest = {}
    /\ sessionsActive = 0

-----------------------------------------------------------------------------
(* The event loop.                                                           *)

\* Node takes the next event only when the microtask queue is empty.
Quiet == micro = <<>>

\* The continuation that runs now is p's, and it stands at `at'.
Resumes(p, at) ==
    /\ micro # <<>>
    /\ Head(micro) = Call(p)
    /\ proc[p].pc = at

\* The queue without the continuation that is running.
Rest == IF Quiet THEN <<>> ELSE Tail(micro)

\* `await promise': the running step ends, job is registered.
Await(job, promise) ==
    /\ waiters' = [waiters EXCEPT ![promise] = Append(@, job)]
    /\ micro' = Rest

\* The promise settles: whatever awaited it becomes runnable.
Settle(promise) ==
    /\ waiters' = [waiters EXCEPT ![promise] = <<>>]
    /\ micro' = Rest \o waiters[promise]

\* `await cleanupVm(_, v)': a cleaned VM answers at once, one that is being
\* cleaned shares its promise, and the first caller starts the teardown.
AwaitCleanup(job, v) ==
    /\ vm' = [vm EXCEPT ![v].cleanup = IF @ = "no" THEN "running" ELSE @]
    /\ IF vm[v].cleanup = "done"
       THEN micro' = Append(Rest, job) /\ UNCHANGED waiters
       ELSE Await(job, CleanupOf(v))

-----------------------------------------------------------------------------
(* Helpers of the handlers.                                                  *)

\* assertOwnership: an owner is refused another owner's session; a session
\* or a caller without an owner (authentication off, the reaper) passes.
MayUse(o, owner) ==
    \/ obj[o].owner = None
    \/ owner = None
    \/ obj[o].owner = owner

\* The test both paths of ensureSession make of session.vm.
Usable(v) == v # None /\ vm[v].state # "dead" /\ vm[v].cleanup # "done"

\* resolveTemplateName
ResolveTemplate(t) == IF t \in {None, Alias} THEN DefaultTemplate ELSE t

\* It throws for a name it does not know, and so does createVm when the
\* default itself is not there.
Known(t) == ResolveTemplate(t) \in Registry

\* Mutation of RemoveEntry: nothing is dropped.
KeepEntry(s) == manifest

\* removeEntry drops every entry of the session.
RemoveEntry(s) == {e \in manifest : e.session # s}

\* Mutations of Doomed: without the identity test, without the state test.
DoomedIfDestroying(v) == obj[vm[v].session].state = "destroying"
DoomedIfReplaced(v) ==
    LET o == vm[v].session IN sessions[obj[o].sid] # o

\* The promise handler of createVm gives the VM up: the session was removed,
\* or is being destroyed.
Doomed(v) ==
    LET o == vm[v].session
    IN  sessions[obj[o].sid] # o \/ obj[o].state = "destroying"

\* touchSession, on the sessions of id s.
Touched(s, objects) ==
    IF sessions[s] = None THEN objects
    ELSE [objects EXCEPT ![sessions[s]].idle = FALSE]

\* p's next await is at `at'.
Goes(p, at) == proc' = [proc EXCEPT ![p].pc = at]

\* The request p ends in `how'; only who got which VM is of interest later.
Returns(p, how) == proc' = [proc EXCEPT ![p] = [NewCall EXCEPT !.pc = how]]

\* sendSessionMessage goes on with VM v: it touches the session again.
Grant(p, v) ==
    /\ proc' = [proc EXCEPT ![p] =
           [NewCall EXCEPT !.pc = "granted", !.owner = proc[p].owner, !.vm = v]]
    /\ obj' = Touched(proc[p].sid, obj)

-----------------------------------------------------------------------------
(* ensureSession, up to the session lock.                                    *)

\* A new request; `touchSession' is the first thing it does.
Arrives(c, s, owner, t) ==
    /\ Quiet
    /\ proc[c].pc = "new"
    /\ obj' = Touched(s, obj)

NewSend(c, s, owner, t, pc, v) ==
    proc' = [proc EXCEPT ![c] =
        [pc |-> pc, sid |-> s, owner |-> owner, template |-> t,
         obj |-> None, vm |-> v]]

SendForbidden(c, s, owner, t) ==
    /\ Arrives(c, s, owner, t)
    /\ sessions[s] # None
    /\ ~MayUse(sessions[s], owner)
    /\ Returns(c, "failed")
    /\ UNCHANGED <<sessions, vm, sessionLocks, waiters, micro, manifest,
                   sessionsActive>>

\* Fast path: the session has a VM.
SendReuse(c, s, owner, t) ==
    /\ Arrives(c, s, owner, t)
    /\ sessions[s] # None
    /\ MayUse(sessions[s], owner)
    /\ Usable(obj[sessions[s]].vm)
    /\ proc' = [proc EXCEPT ![c] =
           [NewCall EXCEPT !.pc = "granted", !.owner = owner,
                           !.vm = obj[sessions[s]].vm]]
    /\ UNCHANGED <<sessions, vm, sessionLocks, waiters, micro, manifest,
                   sessionsActive>>

\* Fast path: the session's VM is being created.
SendJoin(c, s, owner, t) ==
    /\ Arrives(c, s, owner, t)
    /\ sessions[s] # None
    /\ MayUse(sessions[s], owner)
    /\ ~Usable(obj[sessions[s]].vm)
    /\ obj[sessions[s]].creation # None
    /\ NewSend(c, s, owner, t, "joining", obj[sessions[s]].creation)
    /\ Await(Call(c), CreationOf(obj[sessions[s]].creation))
    /\ UNCHANGED <<sessions, vm, sessionLocks, manifest, sessionsActive>>

\* No fast path: acquireSessionLock.
NeedsLock(s, owner) ==
    sessions[s] # None =>
        /\ MayUse(sessions[s], owner)
        /\ ~Usable(obj[sessions[s]].vm)
        /\ obj[sessions[s]].creation = None

SendLock(c, s, owner, t) ==
    /\ Arrives(c, s, owner, t)
    /\ NeedsLock(s, owner)
    /\ sessionLocks[s] = None
    /\ sessionLocks' = [sessionLocks EXCEPT ![s] = c]
    /\ NewSend(c, s, owner, t, "locked", None)
    /\ micro' = Append(Rest, Call(c))
    /\ UNCHANGED <<sessions, vm, waiters, manifest, sessionsActive>>

SendWait(c, s, owner, t) ==
    /\ Arrives(c, s, owner, t)
    /\ NeedsLock(s, owner)
    /\ sessionLocks[s] # None
    /\ NewSend(c, s, owner, t, "lockWait", None)
    /\ Await(Call(c), LockOf(s))
    /\ UNCHANGED <<sessions, vm, sessionLocks, manifest, sessionsActive>>

\* Mutation of TakeLock: an `if' where the code has a `while'.
TakeLockUntested(c) ==
    /\ Resumes(c, "lockWait")
    /\ sessionLocks' = [sessionLocks EXCEPT ![proc[c].sid] = c]
    /\ Goes(c, "locked")
    /\ micro' = Append(Rest, Call(c))
    /\ UNCHANGED <<sessions, obj, vm, waiters, manifest, sessionsActive>>

\* The while loop of acquireSessionLock runs its test again.
TakeLock(c) ==
    /\ Resumes(c, "lockWait")
    /\ sessionLocks[proc[c].sid] = None
    /\ sessionLocks' = [sessionLocks EXCEPT ![proc[c].sid] = c]
    /\ Goes(c, "locked")
    /\ micro' = Append(Rest, Call(c))
    /\ UNCHANGED <<sessions, obj, vm, waiters, manifest, sessionsActive>>

WaitAgain(c) ==
    /\ Resumes(c, "lockWait")
    /\ sessionLocks[proc[c].sid] # None
    /\ Await(Call(c), LockOf(proc[c].sid))
    /\ UNCHANGED <<sessions, obj, vm, sessionLocks, proc, manifest,
                   sessionsActive>>

-----------------------------------------------------------------------------
(* ensureSession, holding the lock.                                          *)

\* release(): the lock promise settles, so its waiters follow the queue.
Unlock(s) == sessionLocks' = [sessionLocks EXCEPT ![s] = None]

\* The holder of the lock throws: the `finally' releases the lock.
GiveUp(c) ==
    /\ Unlock(proc[c].sid)
    /\ Settle(LockOf(proc[c].sid))
    /\ Returns(c, "failed")

LockedForbidden(c) ==
    LET o == sessions[proc[c].sid] IN
    /\ Resumes(c, "locked")
    /\ o # None
    /\ ~MayUse(o, proc[c].owner)
    /\ GiveUp(c)
    /\ UNCHANGED <<sessions, obj, vm, manifest, sessionsActive>>

\* gateway.ts:77-79.  No run ever takes it: whoever reaches the lock found no
\* usable VM an instant before, and a VM is attached only by a later event.
LockedReuse(c) ==
    LET s == proc[c].sid
        o == sessions[s] IN
    /\ Resumes(c, "locked")
    /\ o # None
    /\ MayUse(o, proc[c].owner)
    /\ Usable(obj[o].vm)
    /\ Grant(c, obj[o].vm)
    /\ Unlock(s)
    /\ Settle(LockOf(s))
    /\ UNCHANGED <<sessions, vm, manifest, sessionsActive>>

\* Mutation of LockedReset: the lock is released before the teardown.
LockedResetUnlocked(c) ==
    LET s == proc[c].sid
        o == sessions[s] IN
    /\ Resumes(c, "locked")
    /\ o # None
    /\ MayUse(o, proc[c].owner)
    /\ obj[o].vm # None
    /\ ~Usable(obj[o].vm)
    /\ obj' = [obj EXCEPT ![o] =
           [@ EXCEPT !.vm = None, !.state = "creating"]]
    /\ AwaitCleanup(Call(c), obj[o].vm)
    /\ Unlock(s)
    /\ proc' = [proc EXCEPT ![c].pc = "resetting", ![c].obj = o]
    /\ UNCHANGED <<sessions, manifest, sessionsActive>>

\* The VM is dead or cleaned: it is taken off the session and torn down, and
\* the lock is kept meanwhile.
LockedReset(c) ==
    LET o == sessions[proc[c].sid] IN
    /\ Resumes(c, "locked")
    /\ o # None
    /\ MayUse(o, proc[c].owner)
    /\ obj[o].vm # None
    /\ ~Usable(obj[o].vm)
    /\ obj' = [obj EXCEPT ![o] =
           [@ EXCEPT !.vm = None, !.state = "creating"]]
    /\ AwaitCleanup(Call(c), obj[o].vm)
    /\ proc' = [proc EXCEPT ![c].pc = "resetting", ![c].obj = o]
    /\ UNCHANGED <<sessions, sessionLocks, manifest, sessionsActive>>

\* Mutation of JoinAndUnlock: the lock is deleted, its promise not resolved.
JoinAndDelete(c, v) ==
    /\ proc' = [proc EXCEPT ![c].pc = "joining", ![c].vm = v]
    /\ Unlock(proc[c].sid)
    /\ Await(Call(c), CreationOf(v))

\* `return session.creation': the lock is released, the creation awaited.
JoinAndUnlock(c, v) ==
    LET s == proc[c].sid
        released == [waiters EXCEPT ![LockOf(s)] = <<>>]
    IN  /\ proc' = [proc EXCEPT ![c].pc = "joining", ![c].vm = v]
        /\ Unlock(s)
        /\ waiters' = [released EXCEPT ![CreationOf(v)] = Append(@, Call(c))]
        /\ micro' = Rest \o waiters[LockOf(s)]

\* Mutation of LockedJoin: ownership is not asserted again under the lock.
LockedJoinUnchecked(c) ==
    LET o == sessions[proc[c].sid] IN
    /\ Resumes(c, "locked")
    /\ o # None
    /\ obj[o].vm = None
    /\ obj[o].creation # None
    /\ JoinAndUnlock(c, obj[o].creation)
    /\ UNCHANGED <<sessions, obj, vm, manifest, sessionsActive>>

LockedJoin(c) ==
    LET o == sessions[proc[c].sid] IN
    /\ Resumes(c, "locked")
    /\ o # None
    /\ MayUse(o, proc[c].owner)
    /\ obj[o].vm = None
    /\ obj[o].creation # None
    /\ JoinAndUnlock(c, obj[o].creation)
    /\ UNCHANGED <<sessions, obj, vm, manifest, sessionsActive>>

\* Mutation of StartCreation: the creation is not recorded in the session.
StartUnrecorded(c, o, objects) ==
    /\ Known(proc[c].template)
    /\ obj' = objects
    /\ vm' = [vm EXCEPT ![c] =
           [state |-> "creating", cleanup |-> "no", promise |-> "pending",
            session |-> o, template |-> ResolveTemplate(proc[c].template)]]
    /\ JoinAndUnlock(c, c)

\* createVm for session object o of `objects', by request c.
StartCreation(c, o, objects) ==
    /\ Known(proc[c].template)
    /\ obj' = [objects EXCEPT ![o].creation = c]
    /\ vm' = [vm EXCEPT ![c] =
           [state |-> "creating", cleanup |-> "no", promise |-> "pending",
            session |-> o, template |-> ResolveTemplate(proc[c].template)]]
    /\ JoinAndUnlock(c, c)

\* createSession
NewSession(c) ==
    [sid |-> proc[c].sid, owner |-> proc[c].owner,
     template |-> proc[c].template, state |-> "creating", vm |-> None,
     creation |-> None, idle |-> FALSE]

LockedCreate(c) ==
    LET s == proc[c].sid IN
    /\ Resumes(c, "locked")
    /\ \/ /\ sessions[s] = None
          /\ sessions' = [sessions EXCEPT ![s] = c]
          /\ sessionsActive' = sessionsActive + 1
          /\ StartCreation(c, c, [obj EXCEPT ![c] = NewSession(c)])
       \/ /\ sessions[s] # None
          /\ MayUse(sessions[s], proc[c].owner)
          /\ obj[sessions[s]].vm = None
          /\ obj[sessions[s]].creation = None
          /\ StartCreation(c, sessions[s], obj)
          /\ UNCHANGED <<sessions, sessionsActive>>
    /\ UNCHANGED manifest

\* createVm rejects at once: resolveTemplateName threw, the template is not
\* there, or no network slot is free.  The session's creation is recorded and
\* taken back before any event, and all that may have seen it meanwhile are
\* those that take the lock next: they fail with c, which is a refusal of their
\* own here.  What is left is a session without a VM.
LockedRefused(c) ==
    LET s == proc[c].sid IN
    /\ Resumes(c, "locked")
    /\ \/ /\ sessions[s] = None
          /\ sessions' = [sessions EXCEPT ![s] = c]
          /\ sessionsActive' = sessionsActive + 1
          /\ obj' = [obj EXCEPT ![c] = NewSession(c)]
       \/ /\ sessions[s] # None
          /\ MayUse(sessions[s], proc[c].owner)
          /\ obj[sessions[s]].vm = None
          /\ obj[sessions[s]].creation = None
          /\ UNCHANGED <<sessions, obj, sessionsActive>>
    /\ GiveUp(c)
    /\ UNCHANGED <<vm, manifest>>

\* After the dead VM's teardown: the session object is the one found under
\* the lock, whatever happened to the table meanwhile.  (The lock was kept,
\* so no run finds a creation there: gateway.ts:81 always falls through.)
Recreate(c) ==
    LET o == proc[c].obj IN
    /\ Resumes(c, "resetting")
    /\ \/ /\ obj[o].creation # None
          /\ JoinAndUnlock(c, obj[o].creation)
          /\ UNCHANGED <<obj, vm>>
       \/ /\ obj[o].creation = None
          /\ StartCreation(c, o, obj)
    /\ UNCHANGED <<sessions, manifest, sessionsActive>>

RecreateRefused(c) ==
    /\ Resumes(c, "resetting")
    /\ obj[proc[c].obj].creation = None
    /\ GiveUp(c)
    /\ UNCHANGED <<sessions, obj, vm, manifest, sessionsActive>>

\* The awaited creation settled.
Joined(c) ==
    LET v == proc[c].vm IN
    /\ Resumes(c, "joining")
    /\ \/ vm[v].promise = "fulfilled" /\ Grant(c, v)
       \/ vm[v].promise = "rejected" /\ Returns(c, "failed") /\ UNCHANGED obj
    /\ micro' = Rest
    /\ UNCHANGED <<sessions, vm, sessionLocks, waiters, manifest,
                   sessionsActive>>

-----------------------------------------------------------------------------
(* createVm's promise, and the life of a VM as the server sees it.           *)

\* createVm delivered its VM and the session still wants it.
Attach(v) ==
    LET o == vm[v].session IN
    /\ Quiet
    /\ vm[v].state = "creating"
    /\ ~Doomed(v)
    /\ obj' = [obj EXCEPT ![o] =
           [@ EXCEPT !.vm = v, !.state = "active", !.creation = None]]
    /\ vm' = [vm EXCEPT ![v] =
           [@ EXCEPT !.state = "ready", !.promise = "fulfilled"]]
    /\ manifest' = manifest \cup {[session |-> obj[o].sid, vm |-> v]}
    /\ Settle(CreationOf(v))
    /\ UNCHANGED <<sessions, sessionLocks, proc, sessionsActive>>

\* createVm delivered a VM nobody wants: it is torn down first.
Discard(v) ==
    /\ Quiet
    /\ vm[v].state = "creating"
    /\ Doomed(v)
    /\ vm' = [vm EXCEPT ![v] =
           [@ EXCEPT !.state = "ready", !.cleanup = "running",
                     !.promise = "discarding"]]
    /\ Await(Handler(v), CleanupOf(v))
    /\ UNCHANGED <<sessions, obj, sessionLocks, proc, manifest,
                   sessionsActive>>

\* ... and then the creation promise rejects.
Discarded(v) ==
    /\ micro # <<>>
    /\ Head(micro) = Handler(v)
    /\ vm[v].promise = "discarding"
    /\ vm' = [vm EXCEPT ![v].promise = "rejected"]
    /\ obj' = [obj EXCEPT ![vm[v].session].creation = None]
    /\ Settle(CreationOf(v))
    /\ UNCHANGED <<sessions, sessionLocks, proc, manifest, sessionsActive>>

\* createVm rejects at an event (it has already undone its own steps).
CreateFails(v) ==
    /\ Quiet
    /\ vm[v].state = "creating"
    /\ vm' = [vm EXCEPT ![v] =
           [@ EXCEPT !.state = "failed", !.promise = "rejected"]]
    /\ obj' = [obj EXCEPT ![vm[v].session].creation = None]
    /\ Settle(CreationOf(v))
    /\ UNCHANGED <<sessions, sessionLocks, proc, manifest, sessionsActive>>

\* Mutation of CleanupDone: that the VM is cleaned is not remembered.
CleanupForgotten(v) ==
    /\ Quiet
    /\ vm[v].cleanup = "running"
    /\ vm' = [vm EXCEPT ![v].cleanup = "no"]
    /\ Settle(CleanupOf(v))
    /\ UNCHANGED <<sessions, obj, sessionLocks, proc, manifest,
                   sessionsActive>>

\* The teardown started by cleanupVm ends; it never rejects.
CleanupDone(v) ==
    /\ Quiet
    /\ vm[v].cleanup = "running"
    /\ vm' = [vm EXCEPT ![v].cleanup = "done"]
    /\ Settle(CleanupOf(v))
    /\ UNCHANGED <<sessions, obj, sessionLocks, proc, manifest,
                   sessionsActive>>

\* The Firecracker process exits, by itself or because cleanupVm killed it.
ProcessExits(v) ==
    /\ Quiet
    /\ vm[v].state = "ready"
    /\ vm' = [vm EXCEPT ![v].state = "dead"]
    /\ UNCHANGED <<sessions, obj, sessionLocks, waiters, micro, proc,
                   manifest, sessionsActive>>

-----------------------------------------------------------------------------
(* destroySession and the reaper.                                            *)

\* destroySession(s, owner) up to its first await, run by process p.
BeginDestroy(p, s, owner) ==
    LET o == sessions[s] IN
    /\ o # None
    /\ MayUse(o, owner)
    /\ obj' = [obj EXCEPT ![o].state = "destroying"]
    /\ proc' = [proc EXCEPT ![p] =
           [pc |-> "awaitCreation", sid |-> s, owner |-> owner,
            template |-> None, obj |-> o, vm |-> None]]
    /\ IF obj[o].creation # None
       THEN Await(Call(p), CreationOf(obj[o].creation))
       ELSE micro' = Append(Rest, Call(p)) /\ UNCHANGED waiters
    /\ UNCHANGED <<sessions, vm, sessionLocks, manifest, sessionsActive>>

Destroy(c, s, owner) ==
    /\ Quiet
    /\ proc[c].pc = "new"
    /\ BeginDestroy(c, s, owner)

\* destroySession returns at once: no such session, or not the owner's.
DestroyRefused(c, s, owner) ==
    /\ Quiet
    /\ proc[c].pc = "new"
    /\ sessions[s] # None => ~MayUse(sessions[s], owner)
    /\ Returns(c, "failed")
    /\ UNCHANGED <<sessions, obj, vm, sessionLocks, waiters, micro, manifest,
                   sessionsActive>>

\* Mutation of DestroyVm: the entries go before the VM does.
DestroyVmUnlisted(p) ==
    LET o == proc[p].obj IN
    /\ Resumes(p, "awaitCreation")
    /\ obj[o].vm # None
    /\ AwaitCleanup(Call(p), obj[o].vm)
    /\ Goes(p, "awaitCleanup")
    /\ manifest' = RemoveEntry(proc[p].sid)
    /\ UNCHANGED <<sessions, obj, sessionLocks, sessionsActive>>

\* The creation it awaited is settled: now the VM, if there is one.
DestroyVm(p) ==
    LET o == proc[p].obj IN
    /\ Resumes(p, "awaitCreation")
    /\ obj[o].vm # None
    /\ AwaitCleanup(Call(p), obj[o].vm)
    /\ Goes(p, "awaitCleanup")
    /\ UNCHANGED <<sessions, obj, sessionLocks, manifest, sessionsActive>>

\* Mutation of DestroyEnds: the session is not counted down.
DestroyEndsUncounted(p) ==
    /\ \/ Resumes(p, "awaitCreation") /\ obj[proc[p].obj].vm = None
       \/ Resumes(p, "awaitCleanup")
    /\ sessions' = [sessions EXCEPT ![proc[p].sid] = None]
    /\ manifest' = RemoveEntry(proc[p].sid)
    /\ IF p \in SessionIds THEN Returns(p, "new") ELSE Returns(p, "removed")
    /\ micro' = Rest
    /\ UNCHANGED <<obj, vm, sessionLocks, waiters, sessionsActive>>

\* The end of destroySession.  A request keeps its result; the reaper's
\* process is ready for the session's next reaping.
DestroyEnds(p) ==
    LET s == proc[p].sid
        o == proc[p].obj IN
    /\ \/ Resumes(p, "awaitCreation") /\ obj[o].vm = None
       \/ Resumes(p, "awaitCleanup")
    /\ sessions' = [sessions EXCEPT ![s] = None]
    /\ manifest' = RemoveEntry(s)
    /\ sessionsActive' = sessionsActive - 1
    /\ IF p \in SessionIds THEN Returns(p, "new") ELSE Returns(p, "removed")
    /\ micro' = Rest
    /\ UNCHANGED <<obj, vm, sessionLocks, waiters>>

\* The TTL passes without a touch.  It is told of active sessions only: the
\* reaper takes no other, and one that becomes active later may be told idle
\* at once.
GoIdle(s) ==
    /\ Quiet
    /\ sessions[s] # None
    /\ obj[sessions[s]].state = "active"
    /\ ~obj[sessions[s]].idle
    /\ obj' = [obj EXCEPT ![sessions[s]].idle = TRUE]
    /\ UNCHANGED <<sessions, vm, sessionLocks, waiters, micro, proc,
                   manifest, sessionsActive>>

\* startSessionReaper's condition.
Reapable(o) == obj[o].idle /\ obj[o].state = "active"

Reap(s) ==
    /\ Quiet
    /\ proc[s].pc = "new"
    /\ sessions[s] # None
    /\ Reapable(sessions[s])
    /\ BeginDestroy(s, s, None)

-----------------------------------------------------------------------------

Send(c, s, owner, t) ==
    \/ SendForbidden(c, s, owner, t)
    \/ SendReuse(c, s, owner, t)
    \/ SendJoin(c, s, owner, t)
    \/ SendLock(c, s, owner, t)
    \/ SendWait(c, s, owner, t)

\* A continuation of process p.
Step(p) ==
    \/ /\ p \in Calls
       /\ \/ TakeLock(p) \/ WaitAgain(p)
          \/ LockedForbidden(p) \/ LockedReuse(p) \/ LockedReset(p)
          \/ LockedJoin(p) \/ LockedCreate(p) \/ LockedRefused(p)
          \/ Recreate(p) \/ RecreateRefused(p) \/ Joined(p)
    \/ DestroyVm(p)
    \/ DestroyEnds(p)

Next ==
    \/ \E c \in Calls, s \in SessionIds, owner \in Callers :
           \/ \E t \in Templates \cup {None} : Send(c, s, owner, t)
           \/ Destroy(c, s, owner)
           \/ DestroyRefused(c, s, owner)
    \/ \E p \in Procs : Step(p)
    \/ \E v \in Calls :
           \/ Attach(v) \/ Discard(v) \/ Discarded(v) \/ CreateFails(v)
           \/ CleanupDone(v) \/ ProcessExits(v)
    \/ \E s \in SessionIds : GoIdle(s) \/ Reap(s)

Spec == Init /\ [][Next]_vars

(* Fairness.  The microtask queue is drained; a createVm and a teardown      *)
(* that have begun end; the reaper's timer fires.  Nothing is assumed of     *)
(* clients, of time, or of a Firecracker process exiting.                    *)
Fairness ==
    /\ \A p \in Procs : WF_vars(Step(p))
    /\ \A v \in Calls :
           /\ WF_vars(Attach(v) \/ Discard(v) \/ CreateFails(v))
           /\ WF_vars(Discarded(v))
           /\ WF_vars(CleanupDone(v))
    /\ \A s \in SessionIds : WF_vars(Reap(s))

FairSpec == Spec /\ Fairness

-----------------------------------------------------------------------------
(* Safety.                                                                   *)

Destroying(p) == proc[p].pc \in {"awaitCreation", "awaitCleanup"}

\* A VM that runs, or will, and that nobody has begun to tear down.
Live(v) ==
    vm[v].state \in {"creating", "ready", "dead"} /\ vm[v].cleanup = "no"

\* The session lock (gateway.ts:21-36) is a lock: whoever is between its
\* acquisition and its release is the recorded holder, so two requests are
\* never both inside ensureSession's critical section for one session.
LockHeld ==
    \A c \in Calls :
        proc[c].pc \in {"locked", "resetting"} => sessionLocks[proc[c].sid] = c

\* However many requests of one session arrive together, and whichever VM
\* died meanwhile, the session never has two VMs that are created or run
\* (gateway.ts:45-81).
OneVmPerSession ==
    \A v, w \in Calls :
        Live(v) /\ Live(w) /\ vm[v].session = vm[w].session => v = w

\* A Firecracker VM that is up and not being torn down is the one VM of a
\* session in the table: no order of creation, destruction, reset and reaping
\* leaves a VM that nothing will ever clean up (gateway.ts:74-89,
\* session.ts:53-62).
NoOrphanVm ==
    \A v \in Calls :
        vm[v].state \in {"ready", "dead"} /\ vm[v].cleanup = "no" =>
            LET o == vm[v].session
            IN  obj[o].vm = v /\ sessions[obj[o].sid] = o

\* The manifest on which the next start's sweep relies names every VM in
\* service, and names no session that is gone (gateway.ts:92, session.ts:63).
ManifestTracksSessions ==
    /\ \A v \in Calls :
           vm[v].state \in {"ready", "dead"} /\ vm[v].cleanup = "no" =>
               [session |-> obj[vm[v].session].sid, vm |-> v] \in manifest
    /\ \A e \in manifest : sessions[e.session] # None

\* destroySession deletes by id (session.ts:62), not by object.  It never
\* removes another session than the one it marked: while it is under way, no
\* other object takes the id.
DestroysItsOwnSession ==
    \A p \in Procs :
        Destroying(p) => sessions[proc[p].sid] \in {proc[p].obj, None}

\* A session under destruction never becomes active again, so the reaper does
\* not take it a second time (gateway.ts:85, session.ts:53 and 78).  A request
\* may still be handed its VM: the fast path (gateway.ts:49) asks whether the
\* VM can be used, not whether the session is being destroyed.
NoRevival ==
    \A p \in Procs : Destroying(p) => obj[proc[p].obj].state # "active"

\* Tenants are isolated: whoever got a VM, waits for one, or destroys a
\* session, may use the session object it acts on, even when the session of
\* that id was replaced while it waited for the lock (gateway.ts:48 and 62,
\* session.ts:51).
Isolation ==
    \A p \in Procs :
        /\ proc[p].pc \in {"joining", "granted"} =>
               MayUse(vm[proc[p].vm].session, proc[p].owner)
        /\ Destroying(p) \/ proc[p].pc = "resetting" =>
               MayUse(proc[p].obj, proc[p].owner)

\* The continuation of p is registered with promise.
Awaits(p, promise) ==
    \E i \in 1 .. Len(waiters[promise]) : waiters[promise][i] = Call(p)

\* p awaits a createVm, the teardown after an unwanted one, or a teardown,
\* and that is under way: an event will come that settles what p awaits.
AwaitsWork(p) ==
    \E v \in Calls :
        \/ /\ Awaits(p, CreationOf(v))
           /\ \/ vm[v].state = "creating"
              \/ vm[v].promise = "discarding" /\ vm[v].cleanup = "running"
        \/ Awaits(p, CleanupOf(v)) /\ vm[v].cleanup = "running"

\* Nobody is stranded: at rest, every request and every reaping that is not
\* over awaits work that is under way, or the lock of one that does.  No
\* promise was settled without its waiters, none is awaited after it settled,
\* and nobody waits in a circle (gateway.ts:21-36, 46-103, session.ts:54-61).
NobodyStranded ==
    Quiet =>
        \A p \in Procs :
            proc[p].pc \notin Finished \cup {"new"} =>
                \/ AwaitsWork(p)
                \/ \E s \in SessionIds :
                       /\ Awaits(p, LockOf(s))
                       /\ sessionLocks[s] # None
                       /\ AwaitsWork(sessionLocks[s])

\* The gauge of active sessions (metrics.ts:71) never counts a session that is
\* gone, however often it is destroyed; it may count too few (session.ts:64).
SessionsNotOverstated ==
    sessionsActive <= Cardinality({s \in SessionIds : sessions[s] # None})

-----------------------------------------------------------------------------
(* What the session table relies on, and what it promises to the next start. *)

Service == INSTANCE VmService WITH
    Vms     <- Calls,
    state   <- [v \in Calls |-> vm[v].state],
    cleanup <- [v \in Calls |-> vm[v].cleanup]

\* The table meets its VMs as createVm and cleanupVm promise them: each is
\* made once and torn down at most once, by whichever of a reset, a
\* destruction or an unwanted creation came first (cleanup.ts:14-20).
KeepsVmService == Service!Spec

\* A VM that its session refers to, and whose teardown is not over.
Held(v) ==
    \E o \in Calls : obj[o].vm = v /\ vm[v].cleanup # "done"

Record == INSTANCE ManifestService WITH
    Vms      <- Calls,
    held     <- {[session |-> obj[vm[v].session].sid, vm |-> v] :
                    v \in {w \in Calls : Held(w)}},
    manifest <- manifest

\* The table keeps the manifest as the next start needs it: an entry comes
\* with the VM and, unless the VM was dead and is replaced, stays until its
\* teardown is over (gateway.ts:74, 92, session.ts:60-63).
KeepsManifest == Record!Spec

-----------------------------------------------------------------------------
(* Liveness.                                                                 *)

\* Every request ends, in a VM, an error or a removal: no lock, creation or
\* teardown is waited for in a circle, and no promise is left unsettled.
EveryCallReturns ==
    \A c \in Calls :
        proc[c].pc # "new" ~> proc[c].pc \in Finished
=============================================================================
