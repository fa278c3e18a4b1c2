----------------------- MODULE SessionContractProofs ------------------------
(*****************************************************************************)
(* SessionGateway implements two abstract specifications, for every set of   *)
(* requests and sessions: VmService, as the VMs are to their users, and      *)
(* ManifestService, as the manifest is to the next start.  ContractInv is    *)
(* what the two need beside Inv and OrderInv.                                *)
(*****************************************************************************)
EXTENDS SessionOrderProofs

\* A VM that was not asked for is as it was, and one that was delivered is up.
VmShape ==
    \A v \in Calls :
        /\ vm[v].state = "none" => vm[v].cleanup = "no" /\ vm[v].promise = "none"
        /\ vm[v].promise \in {"fulfilled", "discarding"} => vm[v].state \in {"ready", "dead"}

\* A session object whose VM is not torn down is in the table, and the VM in
\* the manifest.
Listed(o) ==
    /\ obj[o].sid \in SessionIds
    /\ sessions[obj[o].sid] = o
    /\ [session |-> obj[o].sid, vm |-> obj[o].vm] \in manifest

HeldListed ==
    \A o \in Calls :
        obj[o].vm # None /\ vm[obj[o].vm].cleanup # "done" => Listed(o)

ContractInv == VmShape /\ HeldListed

-----------------------------------------------------------------------------
(* What a step does to the VMs.                                              *)

\* createVm begins, or a teardown does; no other VM changes.
Begins(v) ==
    /\ vm[v].state = "none" /\ vm[v].session = None
    /\ vm'[v].state = "creating" /\ vm'[v].cleanup = "no" /\ vm'[v].promise = "pending"
    /\ \A w \in Calls \ {v} : vm'[w] = vm[w]

TeardownBegins(v) ==
    /\ vm[v].state \in {"ready", "dead"} /\ vm[v].cleanup = "no"
    /\ vm' = [vm EXCEPT ![v].cleanup = "running"]

LEMMA StartBegins ==
    ASSUME Inv, VmShape, NEW c \in Calls, NEW o, NEW objects,
           proc[c].pc \in {"locked", "resetting"}, StartCreation(c, o, objects)
    PROVE  Begins(c)
  <1>1. vm[c].state = "none" /\ vm[c].session = None
    BY DEF Inv, Fresh
  <1>2. vm' = [vm EXCEPT ![c] =
           [state |-> "creating", cleanup |-> "no", promise |-> "pending",
            session |-> o, template |-> ResolveTemplate(proc[c].template)]]
    BY DEF StartCreation
  <1> QED
    BY <1>1, <1>2 DEF Begins, Inv, TypeOK

LEMMA CleanupBegins ==
    ASSUME Inv, OrderInv, VmShape, NEW job, NEW o \in Calls, obj[o].vm # None,
           AwaitCleanup(job, obj[o].vm)
    PROVE  vm' = vm \/ TeardownBegins(obj[o].vm)
  <1> DEFINE v == obj[o].vm
  <1>1. v \in Calls /\ vm[v].state \in {"ready", "dead"}
    BY DEF Inv, TypeOK, SessionRecords, OrderInv, Delivered, VmShape
  <1>2. vm' = [vm EXCEPT ![v].cleanup = IF @ = "no" THEN "running" ELSE @]
    BY DEF AwaitCleanup
  <1>3. vm \in [Calls -> VmRecords]
    BY DEF Inv, TypeOK
  <1> HIDE DEF v
  <1>4. CASE vm[v].cleanup = "no"
    BY <1>1, <1>2, <1>4 DEF TeardownBegins, v
  <1>5. CASE vm[v].cleanup # "no"
    <2>1. vm' = [vm EXCEPT ![v].cleanup = @]
      BY <1>2, <1>5
    <2>2. vm' = vm
      BY <1>1, <1>3, <2>1 DEF VmRecords
    <2> QED
      BY <2>2
  <1> QED
    BY <1>4, <1>5

VmEvent(v) ==
    \/ Attach(v) \/ Discard(v) \/ Discarded(v) \/ CreateFails(v)
    \/ CleanupDone(v) \/ ProcessExits(v)

LEMMA VmChanges ==
    ASSUME Inv, OrderInv, VmShape, [Next]_vars
    PROVE  \/ vm' = vm
           \/ \E v \in Calls : Begins(v) \/ TeardownBegins(v) \/ VmEvent(v)
  <1>1. CASE UNCHANGED vars
    BY <1>1 DEF vars
  <1>2. ASSUME NEW c \in Calls, NEW s \in SessionIds, NEW owner \in Callers,
               \/ \E t \in Templates \cup {None} : Send(c, s, owner, t)
               \/ Destroy(c, s, owner) \/ DestroyRefused(c, s, owner)
        PROVE  vm' = vm
    BY <1>2 DEF Send, SendForbidden, SendReuse, SendJoin, SendLock, SendWait,
       Destroy, DestroyRefused, BeginDestroy
  <1>3. ASSUME NEW c \in Calls, LockedCreate(c)
        PROVE  Begins(c)
    <2>1. proc[c].pc = "locked" /\ \E o, objects : StartCreation(c, o, objects)
      BY <1>3 DEF LockedCreate, Resumes
    <2> QED
      BY <2>1, StartBegins
  <1>4. ASSUME NEW c \in Calls, Recreate(c)
        PROVE  vm' = vm \/ Begins(c)
    <2>1. proc[c].pc = "resetting" /\ (vm' = vm \/ StartCreation(c, proc[c].obj, obj))
      BY <1>4 DEF Recreate, Resumes
    <2> QED
      BY <2>1, StartBegins
  <1>5. ASSUME NEW c \in Calls, LockedReset(c)
        PROVE  vm' = vm \/ \E v \in Calls : TeardownBegins(v)
    <2> DEFINE o == sessions[proc[c].sid]
    <2>1. /\ obj[o].vm # None /\ AwaitCleanup(Call(c), obj[o].vm)
          /\ o # None /\ proc[c].sid \in SessionIds
      BY <1>5 DEF LockedReset, Resumes, Inv, ProcRefs, Underway, Procs
    <2>2. o \in Calls
      BY <2>1 DEF Inv, TypeOK
    <2>3. obj[o].vm \in Calls
      BY <2>1, <2>2 DEF Inv, TypeOK, SessionRecords
    <2> QED
      BY <2>1, <2>2, <2>3, CleanupBegins
  <1>6. ASSUME NEW p \in Procs, DestroyVm(p)
        PROVE  vm' = vm \/ \E v \in Calls : TeardownBegins(v)
    <2> DEFINE o == proc[p].obj
    <2>1. obj[o].vm # None /\ AwaitCleanup(Call(p), obj[o].vm) /\ o \in Calls
      BY <1>6 DEF DestroyVm, Resumes, Inv, ProcRefs
    <2>2. obj[o].vm \in Calls
      BY <2>1 DEF Inv, TypeOK, SessionRecords
    <2> QED
      BY <2>1, <2>2, CleanupBegins
  <1>7. ASSUME NEW c \in Calls,
               \/ TakeLock(c) \/ WaitAgain(c) \/ LockedForbidden(c)
               \/ LockedReuse(c) \/ LockedJoin(c) \/ LockedRefused(c)
               \/ RecreateRefused(c) \/ Joined(c)
        PROVE  vm' = vm
    BY <1>7 DEF TakeLock, WaitAgain, LockedForbidden, LockedReuse, LockedJoin,
       LockedRefused, RecreateRefused, Joined
  <1>8. ASSUME NEW p \in Procs, DestroyEnds(p)
        PROVE  vm' = vm
    BY <1>8 DEF DestroyEnds
  <1>9. ASSUME NEW s \in SessionIds, GoIdle(s) \/ Reap(s)
        PROVE  vm' = vm
    BY <1>9 DEF GoIdle, Reap, BeginDestroy
  <1> QED
    BY <1>1, <1>2, <1>3, <1>4, <1>5, <1>6, <1>7, <1>8, <1>9
       DEF Next, Step, VmEvent

\* VmShape needs only Inv and the delivery of a session's VM.
LEMMA ShapeNext ==
    ASSUME Inv, OrderInv, VmShape, [Next]_vars
    PROVE  VmShape'
  <1>1. vm \in [Calls -> VmRecords]
    BY DEF Inv, TypeOK
  <1>2. \A w \in Calls : vm[w].state = "creating" => vm[w].promise = "pending" /\ vm[w].cleanup = "no"
    BY DEF Inv, CreationHeld
  <1>3. ASSUME NEW v \in Calls, Begins(v) \/ TeardownBegins(v) \/ VmEvent(v)
        PROVE  /\ \A w \in Calls \ {v} : vm'[w] = vm[w]
               /\ vm'[v].state = "none" => vm'[v].cleanup = "no" /\ vm'[v].promise = "none"
               /\ vm'[v].promise \in {"fulfilled", "discarding"} => vm'[v].state \in {"ready", "dead"}
    <2>1. /\ vm[v].state = "none" => vm[v].cleanup = "no" /\ vm[v].promise = "none"
          /\ vm[v].promise \in {"fulfilled", "discarding"} => vm[v].state \in {"ready", "dead"}
          /\ vm[v] \in VmRecords
      BY <1>1 DEF VmShape
    <2>2. CASE Begins(v)
      BY <2>2 DEF Begins
    <2>3. CASE TeardownBegins(v)
      BY <1>1, <2>1, <2>3 DEF TeardownBegins, VmRecords
    <2>4. CASE Attach(v)
      <3>1. vm' = [vm EXCEPT ![v] = [@ EXCEPT !.state = "ready", !.promise = "fulfilled"]]
        BY <2>4 DEF Attach
      <3> QED
        BY <1>1, <2>1, <3>1 DEF VmRecords
    <2>5. CASE Discard(v)
      <3>1. vm' = [vm EXCEPT ![v] =
                [@ EXCEPT !.state = "ready", !.cleanup = "running", !.promise = "discarding"]]
        BY <2>5 DEF Discard
      <3> QED
        BY <1>1, <2>1, <3>1 DEF VmRecords
    <2>6. CASE Discarded(v)
      <3>1. vm[v].promise = "discarding" /\ vm' = [vm EXCEPT ![v].promise = "rejected"]
        BY <2>6 DEF Discarded
      <3> QED
        BY <1>1, <2>1, <3>1 DEF VmRecords
    <2>7. CASE CreateFails(v)
      <3>1. vm' = [vm EXCEPT ![v] = [@ EXCEPT !.state = "failed", !.promise = "rejected"]]
        BY <2>7 DEF CreateFails
      <3> QED
        BY <1>1, <2>1, <3>1 DEF VmRecords
    <2>8. CASE CleanupDone(v)
      <3>1. vm[v].cleanup = "running" /\ vm' = [vm EXCEPT ![v].cleanup = "done"]
        BY <2>8 DEF CleanupDone
      <3> QED
        BY <1>1, <2>1, <3>1 DEF VmRecords
    <2>9. CASE ProcessExits(v)
      <3>1. vm[v].state = "ready" /\ vm' = [vm EXCEPT ![v].state = "dead"]
        BY <2>9 DEF ProcessExits
      <3> QED
        BY <1>1, <2>1, <3>1 DEF VmRecords
    <2> QED
      BY <1>3, <2>2, <2>3, <2>4, <2>5, <2>6, <2>7, <2>8, <2>9 DEF VmEvent
  <1>4. CASE vm' = vm
    BY <1>4 DEF VmShape
  <1>5. CASE \E v \in Calls : Begins(v) \/ TeardownBegins(v) \/ VmEvent(v)
    BY <1>3, <1>5 DEF VmShape
  <1> QED
    BY <1>4, <1>5, VmChanges

-----------------------------------------------------------------------------
(* The contract of the VMs.                                                  *)

\* The VM v moves, and no other.
LEMMA Moves ==
    ASSUME NEW v \in Calls, NEW s, NEW c,
           vm'[v].state = s, vm'[v].cleanup = c,
           \A w \in Calls \ {v} : vm'[w] = vm[w]
    PROVE  Service!Becomes(v, s, c)
  BY DEF Service!Becomes

LEMMA EventServes ==
    ASSUME Inv, VmShape, NEW v \in Calls, VmEvent(v)
    PROVE  Service!Next \/ UNCHANGED Service!vars
  <1>1. vm \in [Calls -> VmRecords] /\ vm[v] \in VmRecords
    BY DEF Inv, TypeOK
  <1>2. vm[v].state = "creating" => vm[v].cleanup = "no"
    BY DEF Inv, CreationHeld
  <1>3. CASE Attach(v)
    <2>1. vm[v].state = "creating" /\
          vm' = [vm EXCEPT ![v] = [@ EXCEPT !.state = "ready", !.promise = "fulfilled"]]
      BY <1>3 DEF Attach
    <2>2. /\ vm'[v].state = "ready" /\ vm'[v].cleanup = "no"
          /\ \A w \in Calls \ {v} : vm'[w] = vm[w]
      BY <1>1, <1>2, <2>1 DEF VmRecords
    <2>3. Service!Becomes(v, "ready", "no")
      BY <2>2, Moves
    <2> QED
      BY <2>1, <2>3 DEF Service!Next, Service!Succeed
  <1>4. CASE Discard(v)
    <2>1. vm[v].state = "creating" /\
          vm' = [vm EXCEPT ![v] =
              [@ EXCEPT !.state = "ready", !.cleanup = "running", !.promise = "discarding"]]
      BY <1>4 DEF Discard
    <2>2. /\ vm'[v].state = "ready" /\ vm'[v].cleanup = "running"
          /\ \A w \in Calls \ {v} : vm'[w] = vm[w]
      BY <1>1, <2>1 DEF VmRecords
    <2>3. Service!Becomes(v, "ready", "running")
      BY <2>2, Moves
    <2> QED
      BY <2>1, <2>3 DEF Service!Next, Service!Succeed
  <1>5. CASE Discarded(v)
    <2>1. vm' = [vm EXCEPT ![v].promise = "rejected"]
      BY <1>5 DEF Discarded
    <2>2. \A w \in Calls : vm'[w].state = vm[w].state /\ vm'[w].cleanup = vm[w].cleanup
      BY <1>1, <2>1 DEF VmRecords
    <2> QED
      BY <2>2 DEF Service!vars
  <1>6. CASE CreateFails(v)
    <2>1. vm[v].state = "creating" /\
          vm' = [vm EXCEPT ![v] = [@ EXCEPT !.state = "failed", !.promise = "rejected"]]
      BY <1>6 DEF CreateFails
    <2>2. /\ vm'[v].state = "failed" /\ vm'[v].cleanup = "no"
          /\ \A w \in Calls \ {v} : vm'[w] = vm[w]
      BY <1>1, <1>2, <2>1 DEF VmRecords
    <2>3. Service!Becomes(v, "failed", "no")
      BY <2>2, Moves
    <2> QED
      BY <2>1, <2>3 DEF Service!Next, Service!Fail
  <1>7. CASE CleanupDone(v)
    <2>1. vm[v].cleanup = "running" /\ vm' = [vm EXCEPT ![v].cleanup = "done"]
      BY <1>7 DEF CleanupDone
    <2>2. /\ vm'[v].state = vm[v].state /\ vm'[v].cleanup = "done"
          /\ \A w \in Calls \ {v} : vm'[w] = vm[w]
      BY <1>1, <2>1 DEF VmRecords
    <2>3. Service!Becomes(v, vm[v].state, "done")
      BY <2>2, Moves
    <2> QED
      BY <2>1, <2>3 DEF Service!Next, Service!EndCleanup
  <1>8. CASE ProcessExits(v)
    <2>1. vm[v].state = "ready" /\ vm' = [vm EXCEPT ![v].state = "dead"]
      BY <1>8 DEF ProcessExits
    <2>2. /\ vm'[v].state = "dead" /\ vm'[v].cleanup = vm[v].cleanup
          /\ \A w \in Calls \ {v} : vm'[w] = vm[w]
      BY <1>1, <2>1 DEF VmRecords
    <2>3. [w \in Calls |-> vm'[w].state] = [[w \in Calls |-> vm[w].state] EXCEPT ![v] = "dead"]
      BY <2>2
    <2>4. [w \in Calls |-> vm'[w].cleanup] =
          [[w \in Calls |-> vm[w].cleanup] EXCEPT ![v] = [w \in Calls |-> vm[w].cleanup][v]]
      BY <2>2
    <2>5. Service!Exit(v)
      BY <2>1, <2>3, <2>4 DEF Service!Exit, Service!Becomes
    <2> QED
      BY <2>5 DEF Service!Next
  <1> QED
    BY <1>3, <1>4, <1>5, <1>6, <1>7, <1>8 DEF VmEvent

LEMMA StepServes ==
    ASSUME Inv, OrderInv, VmShape, [Next]_vars
    PROVE  Service!Next \/ UNCHANGED Service!vars
  <1>1. CASE vm' = vm
    BY <1>1 DEF Service!vars
  <1>2. ASSUME NEW v \in Calls, Begins(v)
        PROVE  Service!Next
    <2>1. /\ vm[v].state = "none" /\ vm'[v].state = "creating" /\ vm'[v].cleanup = "no"
          /\ \A w \in Calls \ {v} : vm'[w] = vm[w]
      BY <1>2 DEF Begins
    <2>2. Service!Becomes(v, "creating", "no")
      BY <2>1, Moves
    <2> QED
      BY <2>1, <2>2 DEF Service!Next, Service!Create
  <1>3. ASSUME NEW v \in Calls, TeardownBegins(v)
        PROVE  Service!Next
    <2>1. /\ vm[v].state \in {"ready", "dead"} /\ vm[v].cleanup = "no"
          /\ vm'[v].state = vm[v].state /\ vm'[v].cleanup = "running"
          /\ \A w \in Calls \ {v} : vm'[w] = vm[w]
      BY <1>3 DEF TeardownBegins, Inv, TypeOK, VmRecords
    <2>2. Service!Becomes(v, vm[v].state, "running")
      BY <2>1, Moves
    <2> QED
      BY <2>1, <2>2 DEF Service!Next, Service!BeginCleanup
  <1> QED
    BY <1>1, <1>2, <1>3, EventServes, VmChanges

-----------------------------------------------------------------------------
(* The contract of the manifest.                                             *)

\* References to VMs are only dropped, VMs keep their sessions, and what is
\* torn down stays so; the Session objects keep their names.
HeldKept ==
    /\ \A o \in Calls : obj'[o].vm \in {obj[o].vm, None}
    /\ \A o \in Calls : obj[o].vm # None =>
           /\ vm'[obj[o].vm].session = vm[obj[o].vm].session
           /\ vm[obj[o].vm].cleanup = "done" => vm'[obj[o].vm].cleanup = "done"
    /\ \A o \in Calls : obj[o].sid \in SessionIds => obj'[o].sid = obj[o].sid

\* A VM that a session object refers to.
LEMMA HeldRefs ==
    ASSUME Inv, OrderInv, VmShape, NEW o \in Calls, obj[o].vm # None
    PROVE  /\ obj[o].vm \in Calls /\ vm[obj[o].vm].session = o
           /\ vm[obj[o].vm].state \in {"ready", "dead"}
           /\ obj[o].sid \in SessionIds
  <1>1. obj[o].vm \in Calls /\ vm[obj[o].vm].session = o
    BY DEF Inv, TypeOK, SessionRecords, ObjRefs
  <1>2. vm[obj[o].vm].state \in {"ready", "dead"}
    BY <1>1 DEF OrderInv, Delivered, VmShape
  <1> QED
    BY <1>1, <1>2 DEF Inv, VmRefs

\* How the session objects change, but for the arrival of a VM.
ObjectForms ==
    \/ obj' = obj
    \/ \E s : obj' = Touched(s, obj)
    \/ \E o : obj' = [obj EXCEPT ![o] = [@ EXCEPT !.vm = None, !.state = "creating"]]
    \/ \E o, c : obj' = [obj EXCEPT ![o].creation = c]
    \/ \E o : obj' = [obj EXCEPT ![o].state = "destroying"]
    \/ \E o : obj' = [obj EXCEPT ![o].idle = TRUE]
    \/ \E c \in Calls : obj' = [obj EXCEPT ![c] = NewSession(c)]
    \/ \E c \in Calls : \E o, x :
           obj' = [[obj EXCEPT ![c] = NewSession(c)] EXCEPT ![o].creation = x]

LEMMA FormsKeep ==
    ASSUME obj \in [Calls -> SessionRecords], ObjectForms
    PROVE  \A o \in Calls : obj'[o].vm \in {obj[o].vm, None}
  <1>1. ASSUME NEW s, obj' = Touched(s, obj)
        PROVE  \A o \in Calls : obj'[o].vm = obj[o].vm
    BY <1>1 DEF Touched, SessionRecords
  <1>2. ASSUME NEW x,
               obj' = [obj EXCEPT ![x] = [@ EXCEPT !.vm = None, !.state = "creating"]]
        PROVE  \A o \in Calls : obj'[o].vm \in {obj[o].vm, None}
    BY <1>2 DEF SessionRecords
  <1>3. ASSUME NEW x, NEW c, obj' = [obj EXCEPT ![x].creation = c]
        PROVE  \A o \in Calls : obj'[o].vm = obj[o].vm
    BY <1>3 DEF SessionRecords
  <1>4. ASSUME NEW x, obj' = [obj EXCEPT ![x].state = "destroying"]
        PROVE  \A o \in Calls : obj'[o].vm = obj[o].vm
    BY <1>4 DEF SessionRecords
  <1>5. ASSUME NEW x, obj' = [obj EXCEPT ![x].idle = TRUE]
        PROVE  \A o \in Calls : obj'[o].vm = obj[o].vm
    BY <1>5 DEF SessionRecords
  <1>6. ASSUME NEW c \in Calls, NEW x, NEW y,
               obj' = [[obj EXCEPT ![c] = NewSession(c)] EXCEPT ![x].creation = y]
        PROVE  \A o \in Calls : obj'[o].vm \in {obj[o].vm, None}
    BY <1>6 DEF SessionRecords, NewSession
  <1>7. ASSUME NEW c \in Calls, obj' = [obj EXCEPT ![c] = NewSession(c)]
        PROVE  \A o \in Calls : obj'[o].vm \in {obj[o].vm, None}
    BY <1>7 DEF NewSession
  <1> QED
    BY <1>1, <1>2, <1>3, <1>4, <1>5, <1>6, <1>7 DEF ObjectForms

LEMMA ReferencesKept ==
    ASSUME Inv, [Next]_vars, \A v \in Calls : ~Attach(v)
    PROVE  \A o \in Calls : obj'[o].vm \in {obj[o].vm, None}
  <1>1. obj \in [Calls -> SessionRecords]
    BY DEF Inv, TypeOK
  <1>3. ASSUME UNCHANGED vars PROVE ObjectForms
    BY <1>3 DEF vars, ObjectForms
  <1>4. ASSUME NEW c \in Calls, NEW s \in SessionIds, NEW owner \in Callers,
               \E t \in Templates \cup {None} : Send(c, s, owner, t)
        PROVE  obj' = Touched(s, obj)
    BY <1>4 DEF Send, SendForbidden, SendReuse, SendJoin, SendLock, SendWait, Arrives
  <1>5. ASSUME NEW p \in Procs, NEW s \in SessionIds, NEW owner,
               BeginDestroy(p, s, owner)
        PROVE  \E o : obj' = [obj EXCEPT ![o].state = "destroying"]
    BY <1>5 DEF BeginDestroy
  <1>6. ASSUME NEW c \in Calls, LockedCreate(c)
        PROVE  \/ \E o, x : obj' = [obj EXCEPT ![o].creation = x]
               \/ \E o, x : obj' = [[obj EXCEPT ![c] = NewSession(c)] EXCEPT ![o].creation = x]
    BY <1>6 DEF LockedCreate, StartCreation
  <1>7. ASSUME NEW c \in Calls, Recreate(c)
        PROVE  obj' = obj \/ \E o, x : obj' = [obj EXCEPT ![o].creation = x]
    BY <1>7 DEF Recreate, StartCreation
  <1>8. ASSUME NEW c \in Calls, LockedReset(c)
        PROVE  \E o : obj' = [obj EXCEPT ![o] = [@ EXCEPT !.vm = None, !.state = "creating"]]
    BY <1>8 DEF LockedReset
  <1>9. ASSUME NEW c \in Calls, LockedReuse(c) \/ Joined(c)
        PROVE  obj' = obj \/ \E s : obj' = Touched(s, obj)
    BY <1>9 DEF LockedReuse, Joined, Grant
  <1>10. ASSUME NEW p \in Procs,
                \/ /\ p \in Calls
                   /\ \/ TakeLock(p) \/ WaitAgain(p) \/ LockedForbidden(p)
                      \/ LockedJoin(p) \/ RecreateRefused(p)
                \/ DestroyVm(p) \/ DestroyEnds(p)
         PROVE  obj' = obj
    BY <1>10 DEF TakeLock, WaitAgain, LockedForbidden, LockedJoin, RecreateRefused,
       DestroyVm, DestroyEnds
  <1>11. ASSUME NEW v \in Calls, Discarded(v) \/ CreateFails(v)
         PROVE  \E o, x : obj' = [obj EXCEPT ![o].creation = x]
    BY <1>11 DEF Discarded, CreateFails
  <1>12. ASSUME NEW v \in Calls, Discard(v) \/ CleanupDone(v) \/ ProcessExits(v)
         PROVE  obj' = obj
    BY <1>12 DEF Discard, CleanupDone, ProcessExits
  <1>13. ASSUME NEW s \in SessionIds, GoIdle(s)
         PROVE  \E o : obj' = [obj EXCEPT ![o].idle = TRUE]
    BY <1>13 DEF GoIdle
  <1>14. ASSUME NEW c \in Calls, NEW s \in SessionIds, NEW owner \in Callers,
                DestroyRefused(c, s, owner)
         PROVE  obj' = obj
    BY <1>14 DEF DestroyRefused
  <1>15. ASSUME NEW c \in Calls, NEW s \in SessionIds, NEW owner \in Callers,
                \/ \E t \in Templates \cup {None} : Send(c, s, owner, t)
                \/ Destroy(c, s, owner) \/ DestroyRefused(c, s, owner)
         PROVE  ObjectForms
    BY <1>4, <1>5, <1>14, <1>15 DEF Destroy, Procs, ObjectForms
  <1>16. ASSUME NEW p \in Procs, Step(p)
         PROVE  ObjectForms
    <2>1. CASE p \in Calls /\ LockedRefused(p)
      BY <2>1 DEF LockedRefused, ObjectForms
    <2> QED
      BY <1>6, <1>7, <1>8, <1>9, <1>10, <1>16, <2>1 DEF Step, ObjectForms
  <1>18. ASSUME NEW s \in SessionIds, GoIdle(s) \/ Reap(s)
         PROVE  ObjectForms
    BY <1>5, <1>13, <1>18 DEF Reap, Procs, ObjectForms
  <1>19. ObjectForms
    <2>1. \A v \in Calls : VmEvent(v) => ObjectForms
      BY <1>11, <1>12 DEF VmEvent, ObjectForms
    <2> QED
      BY <1>3, <1>15, <1>16, <1>18, <2>1 DEF Next, VmEvent
  <1> QED
    BY <1>1, <1>19, FormsKeep

LEMMA VmsKept ==
    ASSUME Inv, OrderInv, VmShape, [Next]_vars,
           NEW v \in Calls, vm[v].state \in {"ready", "dead"}
    PROVE  /\ vm'[v].session = vm[v].session
           /\ vm[v].cleanup = "done" => vm'[v].cleanup = "done"
  <1>1. vm \in [Calls -> VmRecords]
    BY DEF Inv, TypeOK
  <1>2. CASE vm' = vm
    BY <1>2
  <1>3. ASSUME NEW w \in Calls, Begins(w)
        PROVE  vm'[v] = vm[v]
    BY <1>3 DEF Begins
  <1>4. ASSUME NEW w \in Calls, TeardownBegins(w)
        PROVE  vm'[v].session = vm[v].session
               /\ (vm[v].cleanup = "done" => vm'[v].cleanup = "done")
    BY <1>1, <1>4 DEF TeardownBegins, VmRecords
  <1>5. ASSUME NEW w \in Calls, Attach(w) \/ Discard(w) \/ CreateFails(w)
        PROVE  vm'[v] = vm[v]
    BY <1>1, <1>5 DEF Attach, Discard, CreateFails
  <1>6. ASSUME NEW w \in Calls, Discarded(w) \/ CleanupDone(w) \/ ProcessExits(w)
        PROVE  vm'[v].session = vm[v].session
               /\ (vm[v].cleanup = "done" => vm'[v].cleanup = "done")
    <2>1. \/ vm' = [vm EXCEPT ![w].promise = "rejected"]
          \/ vm' = [vm EXCEPT ![w].cleanup = "done"]
          \/ vm' = [vm EXCEPT ![w].state = "dead"]
      BY <1>6 DEF Discarded, CleanupDone, ProcessExits
    <2> QED
      BY <1>1, <2>1 DEF VmRecords
  <1> QED
    BY <1>2, <1>3, <1>4, <1>5, <1>6, VmChanges DEF VmEvent

LEMMA NothingHeldAnew ==
    ASSUME Inv, OrderInv, VmShape, [Next]_vars, \A v \in Calls : ~Attach(v)
    PROVE  HeldKept
  <1>1. \A o \in Calls : obj'[o].vm \in {obj[o].vm, None}
    BY ReferencesKept
  <1>2. \A o \in Calls : obj[o].vm # None =>
           /\ vm'[obj[o].vm].session = vm[obj[o].vm].session
           /\ vm[obj[o].vm].cleanup = "done" => vm'[obj[o].vm].cleanup = "done"
    BY HeldRefs, VmsKept
  <1>3. \A o \in Calls : obj[o].sid \in SessionIds => obj'[o].sid = obj[o].sid
    <2>1. ServiceKept \/ \E p \in Procs : DestroyEnds(p)
      BY TableChanges
    <2> QED
      BY <2>1 DEF ServiceKept, DestroyEnds
  <1> QED
    BY <1>1, <1>2, <1>3 DEF HeldKept

\* The end of a destruction: what it strikes has no VM left.
LEMMA RemovedHeldNothing ==
    ASSUME Inv, OrderInv, HeldListed, NEW p \in Procs, DestroyEnds(p),
           NEW o \in Calls, obj[o].vm # None, vm[obj[o].vm].cleanup # "done"
    PROVE  obj[o].sid # proc[p].sid
  <1> DEFINE mine == proc[p].obj
             s == proc[p].sid
  <1>1. Destroying(p) /\ mine \in Calls /\ s \in SessionIds /\ None \notin Calls
    BY GatewayConstants DEF DestroyEnds, Resumes, Destroying, Inv, ProcRefs, Underway
  <1>2. obj[mine].vm = None \/ vm[obj[mine].vm].cleanup = "done"
    <2>1. PICK at \in {"awaitCreation", "awaitCleanup"} :
              Resumes(p, at) /\ (at = "awaitCreation" => obj[mine].vm = None)
      BY DEF DestroyEnds
    <2>2. Call(p) \in Elems(micro) /\ Removes(Call(p), proc) /\ MicroQueue
          /\ Call(p).who = p /\ proc[p].pc = at
      BY <2>1, Running DEF Removes
    <2>3. GoesOn(p)
      BY <2>2 DEF MicroQueue
    <2> QED
      BY <2>1, <2>2, <2>3 DEF GoesOn
  <1>3. sessions[s] \in {mine, None}
    BY <1>1, DestroyingMarked
  <1>4. sessions[obj[o].sid] = o
    BY DEF HeldListed, Listed
  <1> QED
    BY <1>1, <1>2, <1>3, <1>4

LEMMA ListedNext ==
    ASSUME Inv, OrderInv, VmShape, HeldListed, [Next]_vars
    PROVE  HeldListed'
  <1>1. /\ obj \in [Calls -> SessionRecords] /\ vm \in [Calls -> VmRecords]
        /\ sessions \in [SessionIds -> Calls \cup {None}]
        /\ None \notin Calls
    BY GatewayConstants DEF Inv, TypeOK
  <1>2. ASSUME HeldKept, NEW o \in Calls, obj'[o].vm # None, vm'[obj'[o].vm].cleanup # "done"
        PROVE  /\ Listed(o) /\ obj'[o].sid = obj[o].sid /\ obj'[o].vm = obj[o].vm
               /\ obj[o].vm # None /\ vm[obj[o].vm].cleanup # "done"
    <2>1. obj'[o].vm = obj[o].vm /\ vm[obj[o].vm].cleanup # "done"
      BY <1>2 DEF HeldKept
    <2>2. Listed(o)
      BY <1>2, <2>1 DEF HeldListed
    <2> QED
      BY <1>2, <2>1, <2>2 DEF HeldKept, Listed
  <1>3. ASSUME HeldKept, UNCHANGED manifest,
               \A s \in SessionIds : sessions[s] # None => sessions'[s] = sessions[s]
        PROVE  HeldListed'
    <2> SUFFICES ASSUME NEW o \in Calls, obj'[o].vm # None, vm'[obj'[o].vm].cleanup # "done"
                 PROVE  Listed(o)'
      BY DEF HeldListed
    <2>1. Listed(o) /\ obj'[o].sid = obj[o].sid /\ obj'[o].vm = obj[o].vm
      BY <1>2, <1>3
    <2> QED
      BY <1>1, <1>3, <2>1 DEF Listed
  <1>4. ASSUME NEW p \in Procs, DestroyEnds(p), HeldKept
        PROVE  HeldListed'
    <2>1. /\ sessions' = [sessions EXCEPT ![proc[p].sid] = None]
          /\ manifest' = {e \in manifest : e.session # proc[p].sid}
      BY <1>4 DEF DestroyEnds, RemoveEntry
    <2> SUFFICES ASSUME NEW o \in Calls, obj'[o].vm # None, vm'[obj'[o].vm].cleanup # "done"
                 PROVE  Listed(o)'
      BY DEF HeldListed
    <2>2. /\ Listed(o) /\ obj'[o].sid = obj[o].sid /\ obj'[o].vm = obj[o].vm
          /\ obj[o].vm # None /\ vm[obj[o].vm].cleanup # "done"
      BY <1>2, <1>4
    <2>3. obj[o].sid # proc[p].sid
      BY <1>4, <2>2, RemovedHeldNothing
    <2> QED
      BY <1>1, <2>1, <2>2, <2>3 DEF Listed
  <1>5. ASSUME NEW v \in Calls, Attach(v)
        PROVE  HeldListed'
    <2> DEFINE o == vm[v].session
    <2>1. o \in Calls /\ obj[o].sid \in SessionIds /\ sessions[obj[o].sid] = o
      BY <1>5 DEF Attach, Doomed, Inv, VmRefs
    <2>2. /\ sessions' = sessions
          /\ manifest' = manifest \cup {[session |-> obj[o].sid, vm |-> v]}
          /\ obj' = [obj EXCEPT ![o] =
                        [@ EXCEPT !.vm = v, !.state = "active", !.creation = None]]
          /\ vm' = [vm EXCEPT ![v] = [@ EXCEPT !.state = "ready", !.promise = "fulfilled"]]
      BY <1>5 DEF Attach
    <2>3. obj'[o].vm = v /\ obj'[o].sid = obj[o].sid
      BY <1>1, <2>1, <2>2 DEF SessionRecords
    <2>4. \A x \in Calls \ {o} : obj'[x] = obj[x]
      BY <1>1, <2>2
    <2>5. \A w \in Calls : vm'[w].cleanup = vm[w].cleanup
      BY <1>1, <2>2 DEF VmRecords
    <2>6. ASSUME NEW x \in Calls, obj'[x].vm # None, vm'[obj'[x].vm].cleanup # "done"
          PROVE  Listed(x)'
      <3>1. CASE x = o
        BY <2>1, <2>2, <2>3, <3>1 DEF Listed
      <3>2. CASE x # o
        <4>1. obj'[x] = obj[x] /\ obj[x].vm \in Calls
          BY <1>1, <2>4, <2>6, <3>2 DEF SessionRecords
        <4>2. Listed(x)
          BY <2>5, <2>6, <4>1 DEF HeldListed
        <4> QED
          BY <2>2, <4>1, <4>2 DEF Listed
      <3> QED
        BY <3>1, <3>2
    <2> QED
      BY <2>6 DEF HeldListed
  <1>6. CASE \A v \in Calls : ~Attach(v)
    <2>1. HeldKept
      BY <1>6, NothingHeldAnew
    <2>2. CASE ServiceKept /\ UNCHANGED sessions
      BY <1>3, <2>1, <2>2 DEF ServiceKept
    <2>3. CASE ServiceKept /\ \E c \in Calls, s \in SessionIds :
                   sessions[s] = None /\ sessions' = [sessions EXCEPT ![s] = c]
      <3>1. \A s \in SessionIds : sessions[s] # None => sessions'[s] = sessions[s]
        BY <1>1, <2>3
      <3> QED
        BY <1>3, <2>1, <2>3, <3>1 DEF ServiceKept
    <2> QED
      BY <1>4, <1>6, <2>1, <2>2, <2>3, TableChanges
  <1> QED
    BY <1>5, <1>6

\* The VMs the table holds, as ManifestService sees them.
HeldEntries ==
    {[session |-> obj[vm[v].session].sid, vm |-> v] : v \in {w \in Calls : Held(w)}}

LEMMA HeldEntry ==
    ASSUME Inv, OrderInv, VmShape, NEW v \in Calls, Held(v)
    PROVE  /\ vm[v].session \in Calls /\ obj[vm[v].session].vm = v
           /\ vm[v].cleanup # "done"
           /\ obj[vm[v].session].sid \in SessionIds
  <1>1. PICK o \in Calls : obj[o].vm = v /\ vm[v].cleanup # "done"
    BY DEF Held
  <1>2. obj[o].vm # None
    BY <1>1, GatewayConstants
  <1> QED
    BY <1>1, <1>2, HeldRefs

\* Nothing is held anew, so that what remains is a part.
LEMMA HeldFalls ==
    ASSUME Inv, OrderInv, VmShape, HeldKept
    PROVE  HeldEntries' \subseteq HeldEntries
  <1> SUFFICES ASSUME NEW v \in Calls, Held(v)'
               PROVE  /\ Held(v)
                      /\ obj'[vm'[v].session].sid = obj[vm[v].session].sid
    BY DEF HeldEntries
  <1>1. PICK o \in Calls : obj'[o].vm = v /\ vm'[v].cleanup # "done"
    BY DEF Held
  <1>2. obj[o].vm = v /\ v # None
    BY <1>1, GatewayConstants DEF HeldKept
  <1>3. vm[v].session = o /\ obj[o].sid \in SessionIds
    BY <1>2, HeldRefs
  <1>4. vm'[v].session = o /\ obj'[o].sid = obj[o].sid /\ vm[v].cleanup # "done"
    BY <1>1, <1>2, <1>3 DEF HeldKept
  <1> QED
    BY <1>2, <1>3, <1>4 DEF Held

\* Attach is Serve.
LEMMA AttachServes ==
    ASSUME Inv, OrderInv, VmShape, NEW v \in Calls, Attach(v)
    PROVE  Record!Next
  <1> DEFINE o == vm[v].session
             s == obj[o].sid
             e == [session |-> s, vm |-> v]
  <1>1. /\ obj \in [Calls -> SessionRecords] /\ vm \in [Calls -> VmRecords]
        /\ None \notin Calls
    BY GatewayConstants DEF Inv, TypeOK
  <1>2. /\ o \in Calls /\ s \in SessionIds /\ vm[v].cleanup = "no"
        /\ obj[o].vm = None
    <2>1. vm[v].state = "creating" /\ vm[v].promise = "pending" /\ vm[v].cleanup = "no"
      BY DEF Attach, Inv, CreationHeld
    <2>2. o \in Calls /\ s \in SessionIds /\ obj[o].creation = v
      BY <2>1 DEF Inv, VmRefs, CreationHeld
    <2> QED
      BY <1>1, <2>1, <2>2 DEF Inv, ObjRefs
  <1>3. /\ manifest' = manifest \cup {e}
        /\ obj' = [obj EXCEPT ![o] =
                      [@ EXCEPT !.vm = v, !.state = "active", !.creation = None]]
        /\ vm' = [vm EXCEPT ![v] = [@ EXCEPT !.state = "ready", !.promise = "fulfilled"]]
    BY DEF Attach
  <1>4. /\ obj'[o].vm = v /\ \A x \in Calls : obj'[x].sid = obj[x].sid
        /\ \A x \in Calls \ {o} : obj'[x].vm = obj[x].vm
    BY <1>1, <1>2, <1>3 DEF SessionRecords
  <1>5. \A w \in Calls : vm'[w].cleanup = vm[w].cleanup /\ vm'[w].session = vm[w].session
    BY <1>1, <1>3 DEF VmRecords
  <1>6. \A w \in Calls : Held(w)' <=> Held(w) \/ w = v
    <2> SUFFICES ASSUME NEW w \in Calls
                 PROVE  Held(w)' <=> Held(w) \/ w = v
      OBVIOUS
    <2>1. Held(w)' => Held(w) \/ w = v
      BY <1>4, <1>5 DEF Held
    <2>2. Held(w) => Held(w)'
      BY <1>1, <1>2, <1>4, <1>5 DEF Held
    <2>3. w = v => Held(w)'
      BY <1>2, <1>4, <1>5 DEF Held
    <2> QED
      BY <2>1, <2>2, <2>3
  <1>7. \A w \in Calls : Held(w) => vm[w].session \in Calls
    BY HeldEntry
  <1>8. HeldEntries' = HeldEntries \cup {e}
    <2>1. \A w \in Calls : Held(w)' =>
              [session |-> obj'[vm'[w].session].sid, vm |-> w]
              = [session |-> obj[vm[w].session].sid, vm |-> w]
      BY <1>2, <1>4, <1>5, <1>6, <1>7
    <2> QED
      BY <1>6, <2>1 DEF HeldEntries
  <1>9. e \in Record!Entries
    BY <1>2 DEF Record!Entries
  <1>10. PICK x \in Record!Entries :
            HeldEntries' = HeldEntries \cup {x} /\ manifest' = manifest \cup {x}
    BY <1>3, <1>8, <1>9
  <1>11. Record!Serve(x)
    BY <1>10 DEF Record!Serve, HeldEntries
  <1> QED
    BY <1>10, <1>11 DEF Record!Next

\* Every other step is Retire: of no session, or of the session destroyed.
LEMMA StepRecords ==
    ASSUME Inv, OrderInv, VmShape, HeldListed, [Next]_vars
    PROVE  Record!Next
  <1>1. SUFFICES ASSUME \A v \in Calls : ~Attach(v)
                 PROVE  \E gone \in SUBSET SessionIds :
                            /\ \A e \in HeldEntries' : e.session \notin gone
                            /\ manifest' = {e \in manifest : e.session \notin gone}
    <2>1. CASE \E v \in Calls : Attach(v)
      BY <2>1, AttachServes
    <2>2. CASE \A v \in Calls : ~Attach(v)
      <3>1. PICK gone \in SUBSET SessionIds :
                            /\ \A e \in HeldEntries' : e.session \notin gone
                            /\ manifest' = {e \in manifest : e.session \notin gone}
        BY <1>1, <2>2
      <3>2. HeldEntries' \in SUBSET {e \in HeldEntries : e.session \notin gone}
        BY <2>2, <3>1, NothingHeldAnew, HeldFalls
      <3>3. Record!Retire(gone)
        BY <3>1, <3>2 DEF Record!Retire, HeldEntries
      <3> QED
        BY <3>3 DEF Record!Next
    <2> QED
      BY <2>1, <2>2
  <1>2. HeldKept
    BY <1>1, NothingHeldAnew
  <1>3. HeldEntries' \subseteq HeldEntries
    BY <1>2, HeldFalls
  <1>4. CASE manifest' = manifest
    <2>1. manifest' = {e \in manifest : e.session \notin {}}
      BY <1>4
    <2>2. {} \in SUBSET SessionIds /\ \A e \in HeldEntries' : e.session \notin {}
      OBVIOUS
    <2> QED
      BY <1>3, <2>1, <2>2
  <1>5. ASSUME NEW p \in Procs, DestroyEnds(p)
        PROVE  /\ {proc[p].sid} \in SUBSET SessionIds
               /\ \A e \in HeldEntries' : e.session \notin {proc[p].sid}
               /\ manifest' = {e \in manifest : e.session \notin {proc[p].sid}}
    <2>1. proc[p].sid \in SessionIds
      BY <1>5 DEF DestroyEnds, Resumes, Inv, ProcRefs, Underway
    <2>2. manifest' = {e \in manifest : e.session # proc[p].sid}
      BY <1>5 DEF DestroyEnds, RemoveEntry
    <2>3. ASSUME NEW v \in Calls, Held(v)
          PROVE  obj[vm[v].session].sid # proc[p].sid
      <3>1. /\ vm[v].session \in Calls /\ obj[vm[v].session].vm = v
            /\ vm[v].cleanup # "done" /\ v # None
        BY <2>3, HeldEntry, GatewayConstants
      <3> QED
        BY <1>5, <3>1, RemovedHeldNothing
    <2>4. \A e \in HeldEntries : e.session # proc[p].sid
      BY <2>3 DEF HeldEntries
    <2> QED
      BY <1>3, <2>1, <2>2, <2>4
  <1> QED
    BY <1>1, <1>3, <1>4, <1>5, TableChanges DEF ServiceKept

-----------------------------------------------------------------------------
(* The theorems.                                                             *)

LEMMA ContractInvariance == Spec => [](Inv /\ OrderInv /\ ContractInv)
  <1>1. Init => ContractInv
    <2>1. Init => VmShape
      BY DEF Init, NoVm, VmShape
    <2>2. Init => HeldListed
      BY DEF Init, NoSession, HeldListed
    <2> QED
      BY <2>1, <2>2 DEF ContractInv
  <1>2. Inv /\ OrderInv /\ ContractInv /\ [Next]_vars => ContractInv'
    BY ShapeNext, ListedNext DEF ContractInv
  <1> QED
    BY <1>1, <1>2, InitInv, NextInv, InitOrder, NextOrder, PTL DEF Spec

\* The table meets its VMs as createVm and cleanupVm promise them: each is
\* made once and torn down at most once, by whichever of a reset, a
\* destruction or an unwanted creation came first (cleanup.ts:14-20).
THEOREM VmsServed == Spec => KeepsVmService
  <1>1. Init => Service!Init
    <2> SUFFICES ASSUME Init
                 PROVE  Service!Init
      OBVIOUS
    <2>1. \A v \in Calls : vm[v].state = "none" /\ vm[v].cleanup = "no"
      BY DEF Init, NoVm
    <2> QED
      BY <2>1 DEF Service!Init
  <1>2. Inv /\ OrderInv /\ ContractInv /\ [Next]_vars => [Service!Next]_(Service!vars)
    BY StepServes DEF ContractInv
  <1> QED
    BY <1>1, <1>2, ContractInvariance, PTL DEF Spec, KeepsVmService, Service!Spec

\* The table keeps the manifest as the next start needs it: an entry comes
\* with the VM and, unless the VM was dead and is replaced, stays until its
\* teardown is over (gateway.ts:74, 92, session.ts:60-63).
THEOREM ManifestKept == Spec => KeepsManifest
  <1>1. Init => Record!Init
    <2> SUFFICES ASSUME Init
                 PROVE  Record!Init
      OBVIOUS
    <2>1. \A v \in Calls : ~Held(v)
      BY GatewayConstants DEF Init, NoSession, Held
    <2> QED
      BY <2>1 DEF Init, Record!Init
  <1>2. Inv /\ OrderInv /\ ContractInv /\ [Next]_vars => [Record!Next]_(Record!vars)
    BY StepRecords DEF ContractInv
  <1> QED
    BY <1>1, <1>2, ContractInvariance, PTL DEF Spec, KeepsManifest, Record!Spec
=============================================================================
