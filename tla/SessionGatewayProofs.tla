------------------------ MODULE SessionGatewayProofs ------------------------
(*****************************************************************************)
(* Theorems about SessionGateway, for every set of requests and sessions.    *)
(*                                                                           *)
(* Inv is the inductive invariant: the types, what the references between    *)
(* processes, Session objects and Vm objects point at, the session lock,     *)
(* and which object a live VM hangs from.  It says nothing of the order of   *)
(* continuations in the microtask queue, which these theorems do not need.   *)
(*****************************************************************************)
EXTENDS SessionGateway, TLAPS

Underway == {"lockWait", "locked", "resetting", "joining", "awaitCreation",
             "awaitCleanup"}

\* A process that waits has a session id; what it refers to exists.
ProcRefs ==
    \A p \in Procs :
        /\ proc[p].pc \in Underway => proc[p].sid \in SessionIds
        /\ proc[p].pc \in {"joining", "granted"} =>
               /\ proc[p].vm \in Calls
               /\ vm[proc[p].vm].session \in Calls
        /\ proc[p].pc \in {"resetting", "awaitCreation", "awaitCleanup"} =>
               /\ proc[p].obj \in Calls
               /\ obj[proc[p].obj].sid = proc[p].sid

\* A Session object in the table has the id it is under.
TableRefs ==
    \A s \in SessionIds : sessions[s] # None => obj[sessions[s]].sid = s

\* A Vm object belongs to a Session object that exists.
VmRefs ==
    \A v \in Calls :
        vm[v].state # "none" \/ vm[v].session # None =>
            /\ vm[v].session \in Calls
            /\ obj[vm[v].session].sid \in SessionIds

\* A Session object's VM, and its creation, are its own.
ObjRefs ==
    \A o \in Calls :
        /\ obj[o].vm # None =>
               vm[obj[o].vm].session = o /\ vm[obj[o].vm].state # "creating"
        /\ obj[o].creation # None => vm[obj[o].creation].session = o
        /\ obj[o].vm = None \/ obj[o].creation = None

\* A creation that has not settled is recorded in its Session object.
CreationHeld ==
    \A v \in Calls :
        /\ vm[v].state = "creating" =>
               vm[v].promise = "pending" /\ vm[v].cleanup = "no"
        /\ vm[v].promise \in {"pending", "discarding"} =>
               /\ vm[v].state # "none"
               /\ obj[vm[v].session].creation = v

\* A VM that is up and not being torn down is its Session object's VM.
VmHeld ==
    \A v \in Calls :
        vm[v].state \in {"ready", "dead"} /\ vm[v].cleanup = "no" =>
            obj[vm[v].session].vm = v

\* Until request c creates an object, the object named c is unused.
Fresh ==
    \A c \in Calls :
        /\ proc[c].pc \in {"new", "lockWait", "locked"} =>
               obj[c].sid = None
        /\ proc[c].pc \in {"new", "lockWait", "locked", "resetting"} =>
               vm[c].state = "none" /\ vm[c].session = None

\* A request that waits for a dead VM's teardown has its object to itself.
Reset ==
    \A c \in Calls :
        proc[c].pc = "resetting" =>
            obj[proc[c].obj].vm = None /\ obj[proc[c].obj].creation = None

Inv ==
    /\ TypeOK
    /\ ProcRefs
    /\ TableRefs
    /\ VmRefs
    /\ ObjRefs
    /\ CreationHeld
    /\ VmHeld
    /\ Fresh
    /\ Reset
    /\ LockHeld
    /\ Isolation

-----------------------------------------------------------------------------
(* The queues keep their types.                                              *)

LEMMA QueueTypes ==
    ASSUME TypeOK, NEW job \in Jobs, NEW q \in Promises
    PROVE  /\ Rest \in Seq(Jobs)
           /\ Append(Rest, job) \in Seq(Jobs)
           /\ Rest \o waiters[q] \in Seq(Jobs)
           /\ Append(waiters[q], job) \in Seq(Jobs)
  <1>1. micro \in Seq(Jobs) /\ waiters[q] \in Seq(Jobs)
    BY DEF TypeOK
  <1>2. Rest \in Seq(Jobs)
    BY <1>1 DEF Rest, Quiet
  <1> QED
    BY <1>1, <1>2

LEMMA AwaitTypes ==
    ASSUME TypeOK, NEW job \in Jobs, NEW q \in Promises, Await(job, q)
    PROVE  waiters' \in [Promises -> Seq(Jobs)] /\ micro' \in Seq(Jobs)
  BY QueueTypes DEF Await, TypeOK

LEMMA SettleTypes ==
    ASSUME TypeOK, NEW q \in Promises, Settle(q)
    PROVE  waiters' \in [Promises -> Seq(Jobs)] /\ micro' \in Seq(Jobs)
  <1>1. Rest \in Seq(Jobs)
    BY DEF TypeOK, Rest, Quiet
  <1>2. Rest \o waiters[q] \in Seq(Jobs)
    BY <1>1 DEF TypeOK
  <1> QED
    BY <1>2 DEF Settle, TypeOK

-----------------------------------------------------------------------------
(* Frames: what a step leaves alone, and the parts of Inv that follow.       *)

\* The Session objects keep all but their state and idleness.
ObjectsKept ==
    \A o \in Calls :
        /\ obj'[o].sid = obj[o].sid
        /\ obj'[o].owner = obj[o].owner
        /\ obj'[o].vm = obj[o].vm
        /\ obj'[o].creation = obj[o].creation

LEMMA TouchedKeeps ==
    ASSUME TypeOK, NEW s \in SessionIds, obj' = Touched(s, obj)
    PROVE  obj' \in [Calls -> SessionRecords] /\ ObjectsKept
  <1>1. CASE sessions[s] = None
    BY <1>1 DEF TypeOK, Touched, ObjectsKept
  <1>2. CASE sessions[s] # None
    <2>1. /\ obj \in [Calls -> SessionRecords] /\ sessions[s] \in Calls
          /\ obj' = [obj EXCEPT ![sessions[s]].idle = FALSE]
      BY <1>2 DEF TypeOK, Touched
    <2>2. [obj[sessions[s]] EXCEPT !.idle = FALSE] \in SessionRecords
      BY <2>1, ZenonT(60) DEF SessionRecords
    <2> QED
      BY <2>1, <2>2 DEF ObjectsKept, SessionRecords
  <1> QED
    BY <1>1, <1>2

LEMMA VmFrame ==
    ASSUME Inv, ObjectsKept, UNCHANGED vm
    PROVE  VmRefs' /\ ObjRefs' /\ CreationHeld' /\ VmHeld'
  <1> USE DEF Inv, ObjectsKept, TypeOK, VmRecords, SessionRecords
  <1>1. VmRefs'
    BY DEF VmRefs
  <1>2. ObjRefs'
    BY DEF ObjRefs
  <1>3. CreationHeld' /\ VmHeld'
    BY DEF CreationHeld, VmHeld, VmRefs
  <1> QED
    BY <1>1, <1>2, <1>3

\* Request c moves on without creating or destroying anything: it may take
\* the lock if it is free, or give back the lock it holds.
LEMMA Advance ==
    ASSUME Inv, NEW c \in Calls, NEW r \in ProcRecords, NEW s \in SessionIds,
           proc[c].pc \in {"new", "lockWait", "locked", "resetting", "joining"},
           proc' = [proc EXCEPT ![c] = r],
           r.pc \in {"lockWait", "locked", "joining", "granted", "failed"},
           r.pc \in {"lockWait", "locked"} => proc[c].pc \in {"new", "lockWait"},
           r.pc \in Underway => r.sid = s,
           r.pc \in {"joining", "granted"} =>
               /\ r.vm \in Calls
               /\ vm[r.vm].session \in Calls
               /\ MayUse(vm[r.vm].session, r.owner),
           \/ UNCHANGED sessionLocks /\ r.pc # "locked"
           \/ /\ sessionLocks[s] = None
              /\ sessionLocks' = [sessionLocks EXCEPT ![s] = c]
           \/ /\ sessionLocks[s] = c
              /\ sessionLocks' = [sessionLocks EXCEPT ![s] = None]
              /\ r.pc # "locked",
           obj' \in [Calls -> SessionRecords], ObjectsKept,
           waiters' \in [Promises -> Seq(Jobs)], micro' \in Seq(Jobs),
           UNCHANGED <<sessions, vm, manifest, sessionsActive>>
    PROVE  Inv'
  <1> USE GatewayConstants DEF Inv, Procs, Underway
  <1>1. TypeOK'
    BY DEF TypeOK
  <1>2. VmRefs' /\ ObjRefs' /\ CreationHeld' /\ VmHeld'
    BY VmFrame
  <1>3. ProcRefs'
    BY DEF ProcRefs, TypeOK, ObjectsKept
  <1>4. TableRefs'
    BY DEF TableRefs, TypeOK, ObjectsKept
  <1>5. Fresh'
    BY DEF Fresh, TypeOK, ObjectsKept
  <1>6. Reset'
    <2> SUFFICES ASSUME NEW d \in Calls, proc'[d].pc = "resetting"
                 PROVE  /\ obj'[proc'[d].obj].vm = None
                        /\ obj'[proc'[d].obj].creation = None
      BY DEF Reset
    <2>1. proc'[d] = proc[d]
      BY DEF TypeOK
    <2>2. proc[d].obj \in Calls
      BY <2>1 DEF ProcRefs
    <2> QED
      BY <2>1, <2>2 DEF Reset, ObjectsKept
  <1>7. LockHeld'
    BY DEF LockHeld, TypeOK, ProcRefs
  <1>8. Isolation'
    <2> USE DEF Isolation, MayUse, Destroying, TypeOK, ObjectsKept, ProcRefs
    <2> SUFFICES ASSUME NEW p \in Procs
                 PROVE  (/\ proc[p].pc \in {"joining", "granted"} =>
                                MayUse(vm[proc[p].vm].session, proc[p].owner)
                         /\ Destroying(p) \/ proc[p].pc = "resetting" =>
                                MayUse(proc[p].obj, proc[p].owner))'
      OBVIOUS
    <2>1. CASE p = c
      BY <2>1
    <2>2. CASE p # c
      <3>1. proc'[p] = proc[p] /\ vm' = vm
        BY <2>2
      <3>2. \A x \in Calls : obj'[x].owner = obj[x].owner
        OBVIOUS
      <3>3. ProcRefs /\ Isolation
        OBVIOUS
      <3> QED
        BY ONLY <3>1, <3>2, <3>3 DEF Isolation, MayUse, Destroying, ProcRefs
    <2> QED
      BY <2>1, <2>2
  <1> QED
    BY <1>1, <1>2, <1>3, <1>4, <1>5, <1>6, <1>7, <1>8

LEMMA Names ==
    /\ \A p \in Procs : Call(p) \in Jobs
    /\ \A v \in Calls : Handler(v) \in Jobs
    /\ \A s \in SessionIds : LockOf(s) \in Promises
    /\ \A v \in Calls : CreationOf(v) \in Promises /\ CleanupOf(v) \in Promises
  BY DEF Procs, Jobs, Call, Handler, Promises, LockOf, CreationOf, CleanupOf

-----------------------------------------------------------------------------
(* ensureSession up to the creation of a VM.                                 *)

\* What a request of session s finds in the table can be used as a reference.
LEMMA TableObject ==
    ASSUME Inv, NEW s \in SessionIds, sessions[s] # None
    PROVE  /\ sessions[s] \in Calls
           /\ obj[sessions[s]].vm # None =>
                  /\ obj[sessions[s]].vm \in Calls
                  /\ vm[obj[sessions[s]].vm].session = sessions[s]
           /\ obj[sessions[s]].creation # None =>
                  /\ obj[sessions[s]].creation \in Calls
                  /\ vm[obj[sessions[s]].creation].session = sessions[s]
  BY DEF Inv, TypeOK, SessionRecords, ObjRefs

LEMMA SendSteps ==
    ASSUME Inv, NEW c \in Calls, NEW s \in SessionIds, NEW owner \in Callers,
           NEW t \in Templates \cup {None}, Send(c, s, owner, t)
    PROVE  Inv'
  <1> USE DEF Inv, Arrives
  <1>0. /\ proc[c].pc = "new" /\ c \in Procs
        /\ Call(c) \in Jobs /\ LockOf(s) \in Promises
        /\ Append(Rest, Call(c)) \in Seq(Jobs)
        /\ waiters \in [Promises -> Seq(Jobs)] /\ micro \in Seq(Jobs)
    BY Names, QueueTypes DEF TypeOK, Procs, Send, SendForbidden, SendReuse,
       SendJoin, SendLock, SendWait
  <1>1. obj' \in [Calls -> SessionRecords] /\ ObjectsKept
    BY TouchedKeeps DEF Send, SendForbidden, SendReuse, SendJoin, SendLock,
       SendWait
  <1>2. CASE SendForbidden(c, s, owner, t)
    <2> DEFINE r == [NewCall EXCEPT !.pc = "failed"]
    <2>1. r \in ProcRecords /\ r.pc = "failed"
      BY DEF NewCall, ProcRecords, PCs
    <2>2. proc' = [proc EXCEPT ![c] = r]
      BY <1>2 DEF SendForbidden, Returns
    <2> HIDE DEF r
    <2> QED
      BY <1>0, <1>1, <1>2, <2>1, <2>2, Advance DEF SendForbidden, Underway
  <1>3. CASE SendReuse(c, s, owner, t)
    <2> DEFINE v == obj[sessions[s]].vm
               r == [NewCall EXCEPT !.pc = "granted", !.owner = owner, !.vm = v]
    <2>1. v \in Calls /\ vm[v].session = sessions[s] /\ sessions[s] \in Calls
      BY <1>3, TableObject DEF SendReuse, Usable
    <2>2. /\ r \in ProcRecords /\ r.pc = "granted" /\ r.vm = v
          /\ r.owner = owner
      BY <2>1 DEF NewCall, ProcRecords, PCs
    <2>3. proc' = [proc EXCEPT ![c] = r]
      BY <1>3 DEF SendReuse
    <2>4. MayUse(vm[v].session, owner)
      BY <1>3, <2>1 DEF SendReuse
    <2> HIDE DEF r, v
    <2> QED
      BY <1>0, <1>1, <1>3, <2>1, <2>2, <2>3, <2>4, Advance
         DEF SendReuse, Underway
  <1>4. CASE SendJoin(c, s, owner, t)
    <2> DEFINE v == obj[sessions[s]].creation
               r == [pc |-> "joining", sid |-> s, owner |-> owner,
                     template |-> t, obj |-> None, vm |-> v]
    <2>1. v \in Calls /\ vm[v].session = sessions[s] /\ sessions[s] \in Calls
      BY <1>4, TableObject DEF SendJoin
    <2>2. /\ r \in ProcRecords /\ r.pc = "joining" /\ r.vm = v /\ r.sid = s
          /\ r.owner = owner
      BY <2>1 DEF ProcRecords, PCs
    <2>3. proc' = [proc EXCEPT ![c] = r]
      BY <1>4 DEF SendJoin, NewSend
    <2>4. MayUse(vm[v].session, owner)
      BY <1>4, <2>1 DEF SendJoin
    <2>5. waiters' \in [Promises -> Seq(Jobs)] /\ micro' \in Seq(Jobs)
      BY <1>0, <1>4, <2>1, Names, AwaitTypes DEF SendJoin
    <2> HIDE DEF r, v
    <2> QED
      BY <1>0, <1>1, <1>4, <2>1, <2>2, <2>3, <2>4, <2>5, Advance
         DEF SendJoin, Underway
  <1>5. CASE SendLock(c, s, owner, t)
    <2> DEFINE r == [pc |-> "locked", sid |-> s, owner |-> owner,
                     template |-> t, obj |-> None, vm |-> None]
    <2>1. r \in ProcRecords /\ r.pc = "locked" /\ r.sid = s
      BY DEF ProcRecords, PCs
    <2>2. proc' = [proc EXCEPT ![c] = r]
      BY <1>5 DEF SendLock, NewSend
    <2> HIDE DEF r
    <2> QED
      BY <1>0, <1>1, <1>5, <2>1, <2>2, Advance DEF SendLock, Underway
  <1>6. CASE SendWait(c, s, owner, t)
    <2> DEFINE r == [pc |-> "lockWait", sid |-> s, owner |-> owner,
                     template |-> t, obj |-> None, vm |-> None]
    <2>1. r \in ProcRecords /\ r.pc = "lockWait" /\ r.sid = s
      BY DEF ProcRecords, PCs
    <2>2. proc' = [proc EXCEPT ![c] = r]
      BY <1>6 DEF SendWait, NewSend
    <2>3. waiters' \in [Promises -> Seq(Jobs)] /\ micro' \in Seq(Jobs)
      BY <1>0, <1>6, AwaitTypes DEF SendWait
    <2> HIDE DEF r
    <2> QED
      BY <1>0, <1>1, <1>6, <2>1, <2>2, <2>3, Advance DEF SendWait, Underway
  <1> QED
    BY <1>2, <1>3, <1>4, <1>5, <1>6 DEF Send

LEMMA LockSteps ==
    ASSUME Inv, NEW c \in Calls, TakeLock(c) \/ WaitAgain(c)
    PROVE  Inv'
  <1> DEFINE s == proc[c].sid
             r == [proc[c] EXCEPT !.pc = "locked"]
  <1>1. /\ proc[c].pc = "lockWait" /\ c \in Procs /\ s \in SessionIds
        /\ micro # <<>>
        /\ Call(c) \in Jobs /\ LockOf(s) \in Promises
        /\ Append(Rest, Call(c)) \in Seq(Jobs)
        /\ waiters \in [Promises -> Seq(Jobs)]
        /\ proc \in [Procs -> ProcRecords]
        /\ obj \in [Calls -> SessionRecords] /\ ObjectsKept
    BY Names, QueueTypes DEF Inv, TypeOK, Procs, TakeLock, WaitAgain, Resumes,
       ProcRefs, Underway, ObjectsKept
  <1>2. CASE TakeLock(c)
    <2>1. r \in ProcRecords /\ r.pc = "locked" /\ r.sid = s
      BY <1>1 DEF ProcRecords, PCs
    <2>2. proc' = [proc EXCEPT ![c] = r]
      BY <1>1, <1>2 DEF TakeLock, Goes
    <2> HIDE DEF r
    <2> QED
      BY <1>1, <1>2, <2>1, <2>2, Advance DEF TakeLock, Underway
  <1>3. CASE WaitAgain(c)
    <2>1. waiters' \in [Promises -> Seq(Jobs)] /\ micro' \in Seq(Jobs)
      BY <1>1, <1>3, AwaitTypes DEF WaitAgain, Inv
    <2>2. proc' = [proc EXCEPT ![c] = proc[c]]
      BY <1>1, <1>3 DEF WaitAgain
    <2>3. proc[c] \in ProcRecords
      BY <1>1
    <2> HIDE DEF r
    <2> QED
      BY <1>1, <1>3, <2>1, <2>2, <2>3, Advance DEF WaitAgain, Underway
  <1> QED
    BY <1>2, <1>3

\* What holds of a request that runs with the lock of its session.
LEMMA Locked ==
    ASSUME Inv, NEW c \in Calls, proc[c].pc \in {"locked", "resetting"}
    PROVE  /\ c \in Procs
           /\ proc[c].sid \in SessionIds
           /\ sessionLocks[proc[c].sid] = c
           /\ LockOf(proc[c].sid) \in Promises
           /\ proc \in [Procs -> ProcRecords]
           /\ proc[c] \in ProcRecords
           /\ obj \in [Calls -> SessionRecords]
           /\ vm \in [Calls -> VmRecords]
  BY Names DEF Inv, TypeOK, Procs, ProcRefs, Underway, LockHeld

\* The queues after `return session.creation'.
LEMMA JoinTypes ==
    ASSUME TypeOK, NEW c \in Calls, NEW v \in Calls,
           proc[c].sid \in SessionIds, JoinAndUnlock(c, v)
    PROVE  waiters' \in [Promises -> Seq(Jobs)] /\ micro' \in Seq(Jobs)
  <1> DEFINE l == LockOf(proc[c].sid)
             q == CreationOf(v)
             w == [waiters EXCEPT ![l] = <<>>]
  <1>1. l \in Promises /\ q \in Promises /\ Call(c) \in Jobs
    BY Names DEF Procs
  <1>2. Rest \o waiters[l] \in Seq(Jobs)
    BY <1>1, QueueTypes
  <1>3. waiters \in [Promises -> Seq(Jobs)] /\ <<>> \in Seq(Jobs)
    BY DEF TypeOK
  <1>4. w \in [Promises -> Seq(Jobs)]
    BY <1>3
  <1>5. waiters' = [w EXCEPT ![q] = Append(w[q], Call(c))]
    BY <1>1, <1>3 DEF JoinAndUnlock
  <1>6. Append(w[q], Call(c)) \in Seq(Jobs)
    BY <1>1, <1>4
  <1> HIDE DEF w, l, q
  <1>7. waiters' \in [Promises -> Seq(Jobs)]
    BY <1>4, <1>5, <1>6
  <1>8. micro' = Rest \o waiters[l]
    BY DEF JoinAndUnlock, l
  <1> QED
    BY <1>2, <1>7, <1>8

\* The holder of the lock gives up, with nothing made.
LEMMA GiveUpStep ==
    ASSUME Inv, NEW c \in Calls, proc[c].pc \in {"locked", "resetting"},
           GiveUp(c), UNCHANGED <<sessions, obj, vm, manifest, sessionsActive>>
    PROVE  Inv'
  <1> DEFINE s == proc[c].sid
             r == [NewCall EXCEPT !.pc = "failed"]
  <1>1. TypeOK
    BY DEF Inv
  <1>2. r \in ProcRecords /\ r.pc = "failed"
    BY DEF NewCall, ProcRecords, PCs
  <1>3. proc' = [proc EXCEPT ![c] = r] /\ ObjectsKept
    BY DEF GiveUp, Returns, ObjectsKept
  <1>4. waiters' \in [Promises -> Seq(Jobs)] /\ micro' \in Seq(Jobs)
    BY <1>1, Locked, SettleTypes DEF GiveUp
  <1>5. sessionLocks' = [sessionLocks EXCEPT ![s] = None]
    BY DEF GiveUp, Unlock
  <1> HIDE DEF r
  <1> QED
    BY <1>1, <1>2, <1>3, <1>4, <1>5, Locked, Advance DEF Underway

LEMMA LockedForbiddenStep ==
    ASSUME Inv, NEW c \in Calls, LockedForbidden(c)
    PROVE  Inv'
  BY GiveUpStep DEF LockedForbidden, Resumes

LEMMA LockedReuseStep ==
    ASSUME Inv, NEW c \in Calls, LockedReuse(c)
    PROVE  Inv'
  <1> DEFINE s == proc[c].sid
             v == obj[sessions[s]].vm
             r == [NewCall EXCEPT !.pc = "granted", !.owner = proc[c].owner,
                                  !.vm = v]
  <1>1. proc[c].pc = "locked" /\ TypeOK /\ s \in SessionIds
    BY Locked DEF LockedReuse, Resumes, Inv
  <1>2. v \in Calls /\ vm[v].session = sessions[s] /\ sessions[s] \in Calls
    BY <1>1, TableObject DEF LockedReuse, Usable
  <1>3. /\ r \in ProcRecords /\ r.pc = "granted" /\ r.vm = v
        /\ r.owner = proc[c].owner
    BY <1>1, <1>2, Locked DEF NewCall, ProcRecords, PCs
  <1>4. proc' = [proc EXCEPT ![c] = r]
    BY DEF LockedReuse, Grant
  <1>5. obj' \in [Calls -> SessionRecords] /\ ObjectsKept
    BY <1>1, TouchedKeeps DEF LockedReuse, Grant
  <1>6. waiters' \in [Promises -> Seq(Jobs)] /\ micro' \in Seq(Jobs)
    BY <1>1, Locked, SettleTypes DEF LockedReuse
  <1>7. sessionLocks' = [sessionLocks EXCEPT ![s] = None]
    BY DEF LockedReuse, Unlock
  <1>8. MayUse(vm[v].session, r.owner)
    BY <1>2, <1>3 DEF LockedReuse
  <1> HIDE DEF r, v
  <1> QED
    BY <1>1, <1>2, <1>3, <1>4, <1>5, <1>6, <1>7, <1>8, Locked, Advance
       DEF LockedReuse, Underway

\* c, with the lock, awaits creation v of a session it may use.
LEMMA JoinStep ==
    ASSUME Inv, NEW c \in Calls, NEW v \in Calls,
           proc[c].pc \in {"locked", "resetting"},
           vm[v].session \in Calls, MayUse(vm[v].session, proc[c].owner),
           JoinAndUnlock(c, v),
           UNCHANGED <<sessions, obj, vm, manifest, sessionsActive>>
    PROVE  Inv'
  <1> DEFINE s == proc[c].sid
             r == [proc[c] EXCEPT !.pc = "joining", !.vm = v]
  <1>1. TypeOK /\ s \in SessionIds /\ proc[c] \in ProcRecords
    BY Locked DEF Inv
  <1>2. /\ r \in ProcRecords /\ r.pc = "joining" /\ r.vm = v /\ r.sid = s
        /\ r.owner = proc[c].owner
    BY <1>1 DEF ProcRecords, PCs
  <1>3. proc' = [proc EXCEPT ![c] = r]
    BY Locked DEF JoinAndUnlock
  <1>4. obj' \in [Calls -> SessionRecords] /\ ObjectsKept
    BY Locked DEF ObjectsKept
  <1>5. waiters' \in [Promises -> Seq(Jobs)] /\ micro' \in Seq(Jobs)
    BY <1>1, JoinTypes
  <1>6. sessionLocks' = [sessionLocks EXCEPT ![s] = None]
    BY DEF JoinAndUnlock, Unlock
  <1> HIDE DEF r
  <1> QED
    BY <1>1, <1>2, <1>3, <1>4, <1>5, <1>6, Locked, Advance DEF Underway

LEMMA LockedJoinStep ==
    ASSUME Inv, NEW c \in Calls, LockedJoin(c)
    PROVE  Inv'
  <1> DEFINE o == sessions[proc[c].sid]
  <1>1. proc[c].pc = "locked" /\ proc[c].sid \in SessionIds
    BY Locked DEF LockedJoin, Resumes
  <1>2. /\ o \in Calls /\ obj[o].creation \in Calls
        /\ vm[obj[o].creation].session = o
    BY <1>1, TableObject DEF LockedJoin
  <1> QED
    BY <1>1, <1>2, JoinStep DEF LockedJoin

LEMMA JoinedStep ==
    ASSUME Inv, NEW c \in Calls, Joined(c)
    PROVE  Inv'
  <1> DEFINE s == proc[c].sid
             v == proc[c].vm
             got == [NewCall EXCEPT !.pc = "granted", !.owner = proc[c].owner,
                                    !.vm = v]
             lost == [NewCall EXCEPT !.pc = "failed"]
  <1>1. /\ proc[c].pc = "joining" /\ c \in Procs /\ proc[c] \in ProcRecords
        /\ s \in SessionIds /\ v \in Calls /\ vm[v].session \in Calls
        /\ MayUse(vm[v].session, proc[c].owner)
        /\ TypeOK
    BY DEF Joined, Resumes, Inv, TypeOK, Procs, ProcRefs, Underway, Isolation
  <1>2. /\ got \in ProcRecords /\ got.pc = "granted" /\ got.vm = v
        /\ got.owner = proc[c].owner
        /\ lost \in ProcRecords /\ lost.pc = "failed"
    BY <1>1 DEF NewCall, ProcRecords, PCs
  <1>3. \/ proc' = [proc EXCEPT ![c] = got]
        \/ proc' = [proc EXCEPT ![c] = lost]
    BY DEF Joined, Grant, Returns
  <1>4. obj' \in [Calls -> SessionRecords] /\ ObjectsKept
    <2>1. CASE obj' = Touched(s, obj)
      BY <1>1, <2>1, TouchedKeeps
    <2>2. CASE obj' = obj
      BY <1>1, <2>2 DEF TypeOK, ObjectsKept
    <2> QED
      BY <2>1, <2>2 DEF Joined, Grant
  <1>5. waiters' \in [Promises -> Seq(Jobs)] /\ micro' \in Seq(Jobs)
    BY <1>1 DEF Joined, TypeOK, Rest, Quiet
  <1> HIDE DEF got, lost, v
  <1> QED
    BY <1>1, <1>2, <1>3, <1>4, <1>5, Advance DEF Joined, Underway

\* While c has the lock of session s, no other request is being reset there.
LEMMA LockExcludes ==
    ASSUME Inv, NEW c \in Calls, proc[c].pc \in {"locked", "resetting"},
           NEW d \in Calls, proc[d].pc \in {"locked", "resetting"},
           proc[d].sid = proc[c].sid
    PROVE  c = d
  BY DEF Inv, LockHeld

\* c creates a VM for the existing object o.
LEMMA ProvisionStep ==
    ASSUME Inv, NEW c \in Calls, NEW o \in Calls,
           proc[c].pc \in {"locked", "resetting"},
           obj[o].sid = proc[c].sid, MayUse(o, proc[c].owner),
           obj[o].vm = None, obj[o].creation = None,
           StartCreation(c, o, obj),
           UNCHANGED <<sessions, manifest, sessionsActive>>
    PROVE  Inv'
  <1> DEFINE s == proc[c].sid
             r == [state |-> "creating", cleanup |-> "no",
                   promise |-> "pending", session |-> o,
                   template |-> ResolveTemplate(proc[c].template)]
             q == [proc[c] EXCEPT !.pc = "joining", !.vm = c]
  <1>1. /\ s \in SessionIds /\ c \in Procs /\ sessionLocks[s] = c
        /\ proc \in [Procs -> ProcRecords] /\ TypeOK
        /\ obj \in [Calls -> SessionRecords] /\ vm \in [Calls -> VmRecords]
        /\ vm[c].state = "none" /\ vm[c].session = None
    BY Locked DEF Inv, Fresh
  <1>2. /\ r \in VmRecords /\ r.state = "creating" /\ r.cleanup = "no"
        /\ r.promise = "pending" /\ r.session = o
    BY <1>1 DEF VmRecords, ProcRecords, ResolveTemplate
  <1>3. /\ q \in ProcRecords /\ q.pc = "joining" /\ q.vm = c /\ q.sid = s
        /\ q.owner = proc[c].owner
    BY <1>1 DEF ProcRecords, PCs
  <1>4. /\ obj' = [obj EXCEPT ![o].creation = c]
        /\ vm' = [vm EXCEPT ![c] = r]
        /\ proc' = [proc EXCEPT ![c] = q]
        /\ sessionLocks' = [sessionLocks EXCEPT ![s] = None]
    BY <1>1 DEF StartCreation, JoinAndUnlock, Unlock
  <1>5. waiters' \in [Promises -> Seq(Jobs)] /\ micro' \in Seq(Jobs)
    BY <1>1, JoinTypes DEF StartCreation
  <1>6. /\ obj' \in [Calls -> SessionRecords]
        /\ \A x \in Calls :
               /\ obj'[x].sid = obj[x].sid /\ obj'[x].owner = obj[x].owner
               /\ obj'[x].vm = obj[x].vm
               /\ obj'[x].creation = IF x = o THEN c ELSE obj[x].creation
    BY <1>1, <1>4 DEF SessionRecords
  <1> HIDE DEF r, q
  <1> USE DEF Inv
  <1>11. TypeOK'
    BY <1>1, <1>2, <1>3, <1>4, <1>5, <1>6 DEF TypeOK
  <1>12. ProcRefs'
    BY <1>1, <1>2, <1>3, <1>4, <1>6 DEF ProcRefs, Underway, Procs
  <1>13. TableRefs'
    BY <1>6 DEF TableRefs, TypeOK
  <1>14. VmRefs'
    BY <1>1, <1>2, <1>4, <1>6 DEF VmRefs
  <1>15. ObjRefs'
    BY GatewayConstants, <1>1, <1>2, <1>4, <1>6 DEF ObjRefs, SessionRecords
  <1>16. CreationHeld'
    BY GatewayConstants, <1>1, <1>2, <1>4, <1>6 DEF CreationHeld, VmRefs
  <1>17. VmHeld'
    BY <1>1, <1>2, <1>4, <1>6 DEF VmHeld, VmRefs
  <1>18. Fresh'
    BY <1>1, <1>2, <1>3, <1>4, <1>6 DEF Fresh, Procs
  <1>19. Reset'
    BY <1>1, <1>3, <1>4, <1>6, LockExcludes DEF Reset, Procs, ProcRefs
  <1>20. LockHeld'
    BY <1>1, <1>3, <1>4, LockExcludes DEF LockHeld, Procs, ProcRefs, Underway, TypeOK
  <1>21. Isolation'
    <2> USE GatewayConstants DEF Isolation, MayUse, Destroying, ProcRefs
    <2> SUFFICES ASSUME NEW p \in Procs
                 PROVE  (/\ proc[p].pc \in {"joining", "granted"} =>
                                MayUse(vm[proc[p].vm].session, proc[p].owner)
                         /\ Destroying(p) \/ proc[p].pc = "resetting" =>
                                MayUse(proc[p].obj, proc[p].owner))'
      OBVIOUS
    <2>1. CASE p = c
      BY <1>1, <1>2, <1>3, <1>4, <1>6, <2>1
    <2>2. CASE p # c
      BY <1>1, <1>2, <1>3, <1>4, <1>6, <2>2
    <2> QED
      BY <2>1, <2>2
  <1> QED
    BY <1>11, <1>12, <1>13, <1>14, <1>15, <1>16, <1>17, <1>18, <1>19, <1>20,
       <1>21

\* c makes a new session and its first VM.
LEMMA NewSessionStep ==
    ASSUME Inv, NEW c \in Calls, proc[c].pc = "locked",
           sessions[proc[c].sid] = None,
           sessions' = [sessions EXCEPT ![proc[c].sid] = c],
           sessionsActive' = sessionsActive + 1,
           StartCreation(c, c, [obj EXCEPT ![c] = NewSession(c)]),
           UNCHANGED manifest
    PROVE  Inv'
  <1> DEFINE s == proc[c].sid
             n == [NewSession(c) EXCEPT !.creation = c]
             r == [state |-> "creating", cleanup |-> "no",
                   promise |-> "pending", session |-> c,
                   template |-> ResolveTemplate(proc[c].template)]
             q == [proc[c] EXCEPT !.pc = "joining", !.vm = c]
  <1>1. /\ s \in SessionIds /\ c \in Procs /\ sessionLocks[s] = c
        /\ proc \in [Procs -> ProcRecords] /\ TypeOK
        /\ obj \in [Calls -> SessionRecords] /\ vm \in [Calls -> VmRecords]
        /\ vm[c].state = "none" /\ vm[c].session = None /\ obj[c].sid = None
    BY Locked DEF Inv, Fresh
  <1>2. /\ r \in VmRecords /\ r.state = "creating" /\ r.cleanup = "no"
        /\ r.promise = "pending" /\ r.session = c
    BY <1>1 DEF VmRecords, ProcRecords, ResolveTemplate
  <1>3. /\ q \in ProcRecords /\ q.pc = "joining" /\ q.vm = c /\ q.sid = s
        /\ q.owner = proc[c].owner
    BY <1>1 DEF ProcRecords, PCs
  <1>4. /\ n \in SessionRecords /\ n.sid = s /\ n.owner = proc[c].owner
        /\ n.vm = None /\ n.creation = c
    BY <1>1 DEF NewSession, SessionRecords, ProcRecords
  <1>5. /\ obj' = [obj EXCEPT ![c] = n]
        /\ vm' = [vm EXCEPT ![c] = r]
        /\ proc' = [proc EXCEPT ![c] = q]
        /\ sessionLocks' = [sessionLocks EXCEPT ![s] = None]
    BY <1>1 DEF StartCreation, JoinAndUnlock, Unlock
  <1>6. waiters' \in [Promises -> Seq(Jobs)] /\ micro' \in Seq(Jobs)
    BY <1>1, JoinTypes DEF StartCreation
  <1> HIDE DEF n, r, q
  <1> USE <1>1, <1>2, <1>3, <1>4, <1>5, GatewayConstants DEF Inv
  <1>11. TypeOK'
    BY <1>6 DEF TypeOK
  <1>12. ProcRefs'
    BY DEF ProcRefs, Underway, Procs
  <1>13. TableRefs'
    BY DEF TableRefs, TypeOK
  <1>14. VmRefs'
    BY DEF VmRefs
  <1>15. ObjRefs'
    BY DEF ObjRefs, SessionRecords
  <1>16. CreationHeld'
    BY DEF CreationHeld, VmRefs
  <1>17. VmHeld'
    BY DEF VmHeld, VmRefs
  <1>18. Fresh'
    BY DEF Fresh, Procs
  <1>19. Reset'
    BY DEF Reset, Procs, ProcRefs, Underway
  <1>20. LockHeld'
    BY LockExcludes DEF LockHeld, Procs, ProcRefs, Underway, TypeOK
  <1>21. Isolation'
    <2> USE DEF Isolation, MayUse, Destroying, ProcRefs, VmRefs, Underway
    <2> SUFFICES ASSUME NEW p \in Procs
                 PROVE  (/\ proc[p].pc \in {"joining", "granted"} =>
                                MayUse(vm[proc[p].vm].session, proc[p].owner)
                         /\ Destroying(p) \/ proc[p].pc = "resetting" =>
                                MayUse(proc[p].obj, proc[p].owner))'
      OBVIOUS
    <2>1. CASE p = c
      BY <2>1
    <2>2. CASE p # c
      BY <2>2
    <2> QED
      BY <2>1, <2>2
  <1> QED
    BY <1>11, <1>12, <1>13, <1>14, <1>15, <1>16, <1>17, <1>18, <1>19, <1>20,
       <1>21

LEMMA LockedCreateStep ==
    ASSUME Inv, NEW c \in Calls, LockedCreate(c)
    PROVE  Inv'
  <1> DEFINE s == proc[c].sid
  <1>1. proc[c].pc = "locked" /\ s \in SessionIds
    BY Locked DEF LockedCreate, Resumes
  <1>2. CASE sessions[s] = None
    BY <1>1, <1>2, NewSessionStep DEF LockedCreate
  <1>3. CASE sessions[s] # None
    <2>1. sessions[s] \in Calls /\ obj[sessions[s]].sid = s
      BY <1>1, <1>3, TableObject DEF Inv, TableRefs
    <2> QED
      BY <1>1, <1>3, <2>1, ProvisionStep DEF LockedCreate
  <1> QED
    BY <1>2, <1>3

LEMMA RecreateStep ==
    ASSUME Inv, NEW c \in Calls, Recreate(c)
    PROVE  Inv'
  <1> DEFINE o == proc[c].obj
  <1>1. /\ proc[c].pc = "resetting"
        /\ o \in Calls /\ obj[o].sid = proc[c].sid
        /\ MayUse(o, proc[c].owner)
        /\ obj[o].vm = None /\ obj[o].creation = None
    BY DEF Recreate, Resumes, Inv, ProcRefs, Isolation, Reset, Procs
  <1> QED
    BY <1>1, ProvisionStep DEF Recreate

\* createVm rejects at once: c leaves a new session without a VM.
LEMMA EmptySessionStep ==
    ASSUME Inv, NEW c \in Calls, proc[c].pc = "locked",
           sessions[proc[c].sid] = None,
           sessions' = [sessions EXCEPT ![proc[c].sid] = c],
           sessionsActive' = sessionsActive + 1,
           obj' = [obj EXCEPT ![c] = NewSession(c)],
           GiveUp(c), UNCHANGED <<vm, manifest>>
    PROVE  Inv'
  <1> DEFINE s == proc[c].sid
             n == NewSession(c)
             q == [NewCall EXCEPT !.pc = "failed"]
  <1>1. /\ s \in SessionIds /\ c \in Procs /\ sessionLocks[s] = c
        /\ proc \in [Procs -> ProcRecords] /\ TypeOK
        /\ obj \in [Calls -> SessionRecords] /\ vm \in [Calls -> VmRecords]
        /\ vm[c].state = "none" /\ vm[c].session = None /\ obj[c].sid = None
    BY Locked DEF Inv, Fresh
  <1>2. UNCHANGED vm
    OBVIOUS
  <1>3. q \in ProcRecords /\ q.pc = "failed"
    BY DEF NewCall, ProcRecords, PCs
  <1>4. /\ n \in SessionRecords /\ n.sid = s /\ n.owner = proc[c].owner
        /\ n.vm = None /\ n.creation = None
    BY <1>1 DEF NewSession, SessionRecords, ProcRecords
  <1>5. /\ obj' = [obj EXCEPT ![c] = n]
        /\ proc' = [proc EXCEPT ![c] = q]
        /\ sessionLocks' = [sessionLocks EXCEPT ![s] = None]
    BY <1>1 DEF GiveUp, Returns, Unlock
  <1>6. waiters' \in [Promises -> Seq(Jobs)] /\ micro' \in Seq(Jobs)
    BY <1>1, Locked, SettleTypes DEF GiveUp
  <1> HIDE DEF n, q
  <1> USE <1>1, <1>2, <1>3, <1>4, <1>5, GatewayConstants DEF Inv
  <1>11. TypeOK'
    BY <1>6 DEF TypeOK
  <1>12. ProcRefs'
    BY DEF ProcRefs, Underway, Procs
  <1>13. TableRefs'
    BY DEF TableRefs, TypeOK
  <1>14. VmRefs'
    BY DEF VmRefs
  <1>15. ObjRefs'
    BY DEF ObjRefs, SessionRecords
  <1>16. CreationHeld'
    BY DEF CreationHeld, VmRefs
  <1>17. VmHeld'
    BY DEF VmHeld, VmRefs
  <1>18. Fresh'
    BY DEF Fresh, Procs
  <1>19. Reset'
    BY DEF Reset, Procs, ProcRefs, Underway
  <1>20. LockHeld'
    BY LockExcludes DEF LockHeld, Procs, ProcRefs, Underway, TypeOK
  <1>21. Isolation'
    <2> USE DEF Isolation, MayUse, Destroying, ProcRefs, VmRefs, Underway
    <2> SUFFICES ASSUME NEW p \in Procs
                 PROVE  (/\ proc[p].pc \in {"joining", "granted"} =>
                                MayUse(vm[proc[p].vm].session, proc[p].owner)
                         /\ Destroying(p) \/ proc[p].pc = "resetting" =>
                                MayUse(proc[p].obj, proc[p].owner))'
      OBVIOUS
    <2>1. CASE p = c
      BY <2>1
    <2>2. CASE p # c
      BY <2>2
    <2> QED
      BY <2>1, <2>2
  <1> QED
    BY <1>11, <1>12, <1>13, <1>14, <1>15, <1>16, <1>17, <1>18, <1>19, <1>20,
       <1>21

LEMMA RefusedSteps ==
    ASSUME Inv, NEW c \in Calls, LockedRefused(c) \/ RecreateRefused(c)
    PROVE  Inv'
  <1> DEFINE s == proc[c].sid
  <1>1. CASE LockedRefused(c) /\ sessions[s] = None
    BY <1>1, EmptySessionStep DEF LockedRefused, Resumes
  <1>2. CASE LockedRefused(c) /\ sessions[s] # None
    BY <1>2, GiveUpStep DEF LockedRefused, Resumes
  <1>3. CASE RecreateRefused(c)
    BY <1>3, GiveUpStep DEF RecreateRefused, Resumes
  <1> QED
    BY <1>1, <1>2, <1>3

LEMMA CleanupTypes ==
    ASSUME TypeOK, NEW job \in Jobs, NEW v \in Calls, AwaitCleanup(job, v)
    PROVE  /\ waiters' \in [Promises -> Seq(Jobs)] /\ micro' \in Seq(Jobs)
           /\ vm' \in [Calls -> VmRecords]
           /\ \A w \in Calls :
                  /\ vm'[w].state = vm[w].state
                  /\ vm'[w].promise = vm[w].promise
                  /\ vm'[w].session = vm[w].session
                  /\ vm'[w].cleanup = IF w = v /\ vm[w].cleanup = "no"
                                      THEN "running" ELSE vm[w].cleanup
  <1> DEFINE r == [vm[v] EXCEPT !.cleanup = IF @ = "no" THEN "running" ELSE @]
  <1>0. vm \in [Calls -> VmRecords] /\ vm[v] \in VmRecords
    BY DEF TypeOK
  <1>1. vm' \in [Calls -> VmRecords]
    <2>1. r \in VmRecords
      BY <1>0 DEF VmRecords
    <2>2. vm' = [vm EXCEPT ![v] = r]
      BY DEF AwaitCleanup
    <2> HIDE DEF r
    <2> QED
      BY <1>0, <2>1, <2>2
  <1>2. \A w \in Calls :
            /\ vm'[w].state = vm[w].state
            /\ vm'[w].promise = vm[w].promise
            /\ vm'[w].session = vm[w].session
            /\ vm'[w].cleanup = IF w = v /\ vm[w].cleanup = "no"
                                THEN "running" ELSE vm[w].cleanup
    BY DEF TypeOK, AwaitCleanup, VmRecords
  <1>3. waiters' \in [Promises -> Seq(Jobs)] /\ micro' \in Seq(Jobs)
    BY Names, QueueTypes, AwaitTypes DEF AwaitCleanup, TypeOK
  <1> QED
    BY <1>1, <1>2, <1>3

LEMMA LockedResetStep ==
    ASSUME Inv, NEW c \in Calls, LockedReset(c)
    PROVE  Inv'
  <1> DEFINE s == proc[c].sid
             o == sessions[s]
             v == obj[o].vm
             q == [proc[c] EXCEPT !.pc = "resetting", !.obj = o]
  <1>1. /\ s \in SessionIds /\ c \in Procs /\ proc[c].pc = "locked"
        /\ proc \in [Procs -> ProcRecords] /\ TypeOK
        /\ obj \in [Calls -> SessionRecords] /\ Call(c) \in Jobs
    BY Locked, Names DEF Inv, LockedReset, Resumes
  <1>2. /\ o \in Calls /\ v \in Calls /\ vm[v].session = o /\ obj[o].sid = s
        /\ obj[o].creation = None /\ vm[v].state # "creating"
        /\ MayUse(o, proc[c].owner)
    BY <1>1, TableObject DEF LockedReset, Inv, TableRefs, ObjRefs
  <1>3. /\ q \in ProcRecords /\ q.pc = "resetting" /\ q.obj = o /\ q.sid = s
        /\ q.owner = proc[c].owner
    BY <1>1, <1>2, ZenonT(60) DEF ProcRecords, PCs
  <1>4. /\ proc' = [proc EXCEPT ![c] = q]
        /\ UNCHANGED <<sessions, sessionLocks, manifest, sessionsActive>>
    BY <1>1 DEF LockedReset
  <1>5. /\ obj' \in [Calls -> SessionRecords]
        /\ \A x \in Calls :
               /\ obj'[x].sid = obj[x].sid /\ obj'[x].owner = obj[x].owner
               /\ obj'[x].creation = obj[x].creation
               /\ obj'[x].vm = IF x = o THEN None ELSE obj[x].vm
    <2> DEFINE n == [obj[o] EXCEPT !.vm = None, !.state = "creating"]
    <2>0. obj[o] \in SessionRecords
      BY <1>1, <1>2
    <2>1. /\ n \in SessionRecords /\ n.sid = obj[o].sid
          /\ n.owner = obj[o].owner /\ n.creation = obj[o].creation
          /\ n.vm = None
      BY <2>0 DEF SessionRecords
    <2>2. obj' = [obj EXCEPT ![o] = n]
      BY DEF LockedReset
    <2> HIDE DEF n, o
    <2> QED
      BY <1>1, <1>2, <2>1, <2>2
  <1>6. AwaitCleanup(Call(c), v)
    BY DEF LockedReset
  <1>7. /\ waiters' \in [Promises -> Seq(Jobs)] /\ micro' \in Seq(Jobs)
        /\ vm' \in [Calls -> VmRecords]
        /\ \A w \in Calls :
               /\ vm'[w].state = vm[w].state
               /\ vm'[w].promise = vm[w].promise
               /\ vm'[w].session = vm[w].session
               /\ vm'[w].cleanup = IF w = v /\ vm[w].cleanup = "no"
                                   THEN "running" ELSE vm[w].cleanup
    BY <1>1, <1>2, <1>6, CleanupTypes
  <1> HIDE DEF q, v, o
  <1> USE <1>1, <1>2, <1>3, <1>4, <1>5, <1>7, GatewayConstants DEF Inv
  <1>11. TypeOK'
    BY DEF TypeOK
  <1>12. ProcRefs'
    BY DEF ProcRefs, Underway, Procs
  <1>13. TableRefs'
    BY DEF TableRefs, TypeOK
  <1>14. VmRefs'
    BY DEF VmRefs
  <1>15. ObjRefs'
    <2> SUFFICES ASSUME NEW x \in Calls
                 PROVE  (/\ obj[x].vm # None =>
                                /\ vm[obj[x].vm].session = x
                                /\ vm[obj[x].vm].state # "creating"
                         /\ obj[x].creation # None =>
                                vm[obj[x].creation].session = x
                         /\ obj[x].vm = None \/ obj[x].creation = None)'
      BY DEF ObjRefs
    <2>1. /\ obj[x].vm \in Calls \cup {None}
          /\ obj[x].creation \in Calls \cup {None}
      BY DEF SessionRecords
    <2>2. CASE x = o
      BY <2>1, <2>2 DEF ObjRefs
    <2>3. CASE x # o
      <3>1. obj'[x].vm = obj[x].vm /\ obj'[x].creation = obj[x].creation
        BY <2>3
      <3>2. \A w \in Calls : vm'[w].state = vm[w].state
                             /\ vm'[w].session = vm[w].session
        OBVIOUS
      <3>3. ObjRefs
        OBVIOUS
      <3> QED
        BY ONLY <2>1, <3>1, <3>2, <3>3, GatewayConstants DEF ObjRefs
    <2> QED
      BY <2>2, <2>3
  <1>16. CreationHeld'
    BY DEF CreationHeld, VmRefs
  <1>17. VmHeld'
    <2> SUFFICES ASSUME NEW w \in Calls, vm'[w].state \in {"ready", "dead"},
                        vm'[w].cleanup = "no"
                 PROVE  obj'[vm'[w].session].vm = w
      BY DEF VmHeld
    <2>1. /\ vm'[w].session = vm[w].session /\ vm[w].state = vm'[w].state
          /\ vm[w].cleanup = "no" /\ w # v
      BY <1>7
    <2>2. vm[w].session \in Calls /\ obj[vm[w].session].vm = w
      BY <2>1 DEF VmHeld, VmRefs
    <2>3. vm[w].session # o
      BY <2>1, <2>2 DEF v
    <2> QED
      BY <1>5, <2>1, <2>2, <2>3
  <1>18. Fresh'
    BY DEF Fresh, Procs
  <1>19. Reset'
    BY DEF Reset, Procs, ProcRefs
  <1>20. LockHeld'
    BY DEF LockHeld, Procs
  <1>21. Isolation'
    <2> USE DEF Isolation, MayUse, Destroying, ProcRefs
    <2> SUFFICES ASSUME NEW p \in Procs
                 PROVE  (/\ proc[p].pc \in {"joining", "granted"} =>
                                MayUse(vm[proc[p].vm].session, proc[p].owner)
                         /\ Destroying(p) \/ proc[p].pc = "resetting" =>
                                MayUse(proc[p].obj, proc[p].owner))'
      OBVIOUS
    <2>1. CASE p = c
      BY <2>1
    <2>2. CASE p # c
      BY <2>2
    <2> QED
      BY <2>1, <2>2
  <1> QED
    BY <1>11, <1>12, <1>13, <1>14, <1>15, <1>16, <1>17, <1>18, <1>19, <1>20,
       <1>21

-----------------------------------------------------------------------------
(* The life of a VM.                                                         *)

\* Vm object v, which is in use, changes, and perhaps its Session object's
\* VM and creation: nothing that refers to either is disturbed.
LEMMA VmStepFrame ==
    ASSUME Inv, NEW v \in Calls, vm[v].state # "none",
           obj' \in [Calls -> SessionRecords], vm' \in [Calls -> VmRecords],
           \A x \in Calls :
               /\ obj'[x].sid = obj[x].sid /\ obj'[x].owner = obj[x].owner
               /\ vm'[x].session = vm[x].session
               /\ x # v => vm'[x].state = vm[x].state,
           waiters' \in [Promises -> Seq(Jobs)], micro' \in Seq(Jobs),
           manifest' \in SUBSET [session : SessionIds, vm : Calls],
           UNCHANGED <<sessions, sessionLocks, proc, sessionsActive>>
    PROVE  /\ TypeOK' /\ ProcRefs' /\ TableRefs' /\ VmRefs' /\ Fresh'
           /\ LockHeld' /\ Isolation'
  <1> USE GatewayConstants DEF Inv
  <1>1. TypeOK'
    BY DEF TypeOK
  <1>2. ProcRefs'
    BY DEF ProcRefs
  <1>3. TableRefs'
    BY DEF TableRefs, TypeOK
  <1>4. VmRefs'
    BY DEF VmRefs
  <1>5. Fresh'
    BY DEF Fresh
  <1>6. LockHeld'
    BY DEF LockHeld
  <1>7. Isolation'
    BY DEF Isolation, MayUse, Destroying, ProcRefs
  <1> QED
    BY <1>1, <1>2, <1>3, <1>4, <1>5, <1>6, <1>7

LEMMA AttachStep ==
    ASSUME Inv, NEW v \in Calls, Attach(v)
    PROVE  Inv'
  <1> DEFINE o == vm[v].session
             n == [obj[o] EXCEPT !.vm = v, !.state = "active",
                                 !.creation = None]
             r == [vm[v] EXCEPT !.state = "ready", !.promise = "fulfilled"]
  <1>1. /\ TypeOK /\ vm[v].state = "creating" /\ o \in Calls
        /\ obj[o].sid \in SessionIds
        /\ obj[o].creation = v /\ obj[o].vm = None
        /\ obj \in [Calls -> SessionRecords] /\ vm \in [Calls -> VmRecords]
        /\ obj[o] \in SessionRecords /\ vm[v] \in VmRecords
        /\ vm[v].session = o
    BY GatewayConstants
       DEF Attach, Inv, TypeOK, VmRefs, CreationHeld, ObjRefs
  <1>2. /\ n \in SessionRecords /\ n.sid = obj[o].sid /\ n.vm = v
        /\ n.owner = obj[o].owner /\ n.creation = None
    BY <1>1 DEF SessionRecords
  <1>3. /\ r \in VmRecords /\ r.state = "ready" /\ r.promise = "fulfilled"
        /\ r.session = o
    BY <1>1 DEF VmRecords
  <1>4. obj' = [obj EXCEPT ![o] = n] /\ vm' = [vm EXCEPT ![v] = r]
    BY DEF Attach
  <1>5. waiters' \in [Promises -> Seq(Jobs)] /\ micro' \in Seq(Jobs)
    BY <1>1, Names, SettleTypes DEF Attach
  <1>6. /\ manifest' \in SUBSET [session : SessionIds, vm : Calls]
        /\ UNCHANGED <<sessions, sessionLocks, proc, sessionsActive>>
    BY <1>1 DEF Attach, TypeOK
  <1> HIDE DEF n, r, o
  <1>7. /\ obj' \in [Calls -> SessionRecords] /\ vm' \in [Calls -> VmRecords]
        /\ \A x \in Calls :
               /\ obj'[x].sid = obj[x].sid /\ obj'[x].owner = obj[x].owner
               /\ obj'[x].vm = IF x = o THEN v ELSE obj[x].vm
               /\ obj'[x].creation = IF x = o THEN None ELSE obj[x].creation
               /\ vm'[x].session = vm[x].session
               /\ x # v => vm'[x] = vm[x]
    BY <1>1, <1>2, <1>3, <1>4 DEF o
  <1>8. /\ TypeOK' /\ ProcRefs' /\ TableRefs' /\ VmRefs' /\ Fresh'
        /\ LockHeld' /\ Isolation'
    BY <1>1, <1>5, <1>6, <1>7, VmStepFrame
  <1>9. Inv /\ vm'[v] = r
    BY <1>1, <1>4
  <1>10. ObjRefs'
    BY ONLY <1>1, <1>3, <1>7, <1>9, GatewayConstants
       DEF Inv, ObjRefs, SessionRecords
  <1>11. CreationHeld'
    <2> SUFFICES ASSUME NEW w \in Calls
                 PROVE  (/\ vm[w].state = "creating" =>
                                /\ vm[w].promise = "pending"
                                /\ vm[w].cleanup = "no"
                         /\ vm[w].promise \in {"pending", "discarding"} =>
                                /\ vm[w].state # "none"
                                /\ obj[vm[w].session].creation = w)'
      BY DEF CreationHeld
    <2>1. CASE w = v
      BY <1>3, <1>9, <2>1
    <2>2. CASE w # v
      BY ONLY <1>1, <1>7, <1>9, <2>2, GatewayConstants
         DEF Inv, CreationHeld, VmRefs
    <2> QED
      BY <2>1, <2>2
  <1>12. VmHeld'
    BY ONLY <1>1, <1>3, <1>7, <1>9, GatewayConstants
       DEF Inv, VmHeld, VmRefs
  <1>13. Reset'
    <2> SUFFICES ASSUME NEW c \in Calls, proc[c].pc = "resetting"
                 PROVE  /\ obj'[proc[c].obj].vm = None
                        /\ obj'[proc[c].obj].creation = None
      BY <1>6 DEF Reset
    <2>1. /\ proc[c].obj \in Calls /\ obj[proc[c].obj].vm = None
          /\ obj[proc[c].obj].creation = None
      BY DEF Inv, Reset, ProcRefs, Procs
    <2>2. proc[c].obj # o
      BY <1>1, <2>1, GatewayConstants
    <2> QED
      BY <1>7, <2>1, <2>2
  <1> QED
    BY <1>8, <1>10, <1>11, <1>12, <1>13 DEF Inv

LEMMA DiscardStep ==
    ASSUME Inv, NEW v \in Calls, Discard(v)
    PROVE  Inv'
  <1> DEFINE r == [vm[v] EXCEPT !.state = "ready", !.cleanup = "running",
                                !.promise = "discarding"]
  <1>1. /\ TypeOK /\ vm[v].state = "creating" /\ vm[v] \in VmRecords
        /\ vm \in [Calls -> VmRecords] /\ vm[v].promise = "pending"
        /\ obj[vm[v].session].creation = v
    BY DEF Discard, Inv, TypeOK, CreationHeld
  <1>2. /\ r \in VmRecords /\ r.state = "ready" /\ r.cleanup = "running"
        /\ r.promise = "discarding" /\ r.session = vm[v].session
    BY <1>1 DEF VmRecords
  <1>3. vm' = [vm EXCEPT ![v] = r]
    BY DEF Discard
  <1>4. waiters' \in [Promises -> Seq(Jobs)] /\ micro' \in Seq(Jobs)
    BY <1>1, Names, AwaitTypes DEF Discard
  <1>5. /\ UNCHANGED <<sessions, sessionLocks, proc, sessionsActive, obj,
                       manifest>>
        /\ obj \in [Calls -> SessionRecords]
        /\ manifest \in SUBSET [session : SessionIds, vm : Calls]
    BY <1>1 DEF Discard, TypeOK
  <1> HIDE DEF r
  <1>6. /\ vm' \in [Calls -> VmRecords] /\ vm'[v] = r
        /\ \A x \in Calls :
               /\ vm'[x].session = vm[x].session
               /\ x # v => vm'[x] = vm[x]
    BY <1>1, <1>2, <1>3
  <1>7. /\ TypeOK' /\ ProcRefs' /\ TableRefs' /\ VmRefs' /\ Fresh'
        /\ LockHeld' /\ Isolation'
    BY <1>1, <1>4, <1>5, <1>6, VmStepFrame
  <1>8. ObjRefs'
    <2>1. \A x \in Calls : obj[x].vm \in Calls \cup {None}
                          /\ obj[x].creation \in Calls \cup {None}
      BY <1>5 DEF SessionRecords
    <2>2. ObjRefs
      BY DEF Inv
    <2> QED
      BY ONLY <1>2, <1>5, <1>6, <2>1, <2>2, GatewayConstants DEF ObjRefs
  <1>9. Reset'
    BY <1>5 DEF Inv, Reset
  <1>10. CreationHeld' /\ VmHeld'
    BY <1>1, <1>2, <1>5, <1>6 DEF Inv, CreationHeld, VmHeld
  <1> QED
    BY <1>7, <1>8, <1>9, <1>10 DEF Inv

\* The creation of v settles without a VM to keep.
LEMMA RejectStep ==
    ASSUME Inv, NEW v \in Calls,
           vm[v].state # "none", obj[vm[v].session].creation = v,
           NEW r \in VmRecords, vm' = [vm EXCEPT ![v] = r],
           r.session = vm[v].session, r.promise = "rejected",
           \/ r.state = "failed"
           \/ r.state = vm[v].state /\ r.cleanup = vm[v].cleanup
              /\ r.state # "creating",
           obj' = [obj EXCEPT ![vm[v].session].creation = None],
           Settle(CreationOf(v)),
           UNCHANGED <<sessions, sessionLocks, proc, manifest, sessionsActive>>
    PROVE  Inv'
  <1> DEFINE o == vm[v].session
  <1>1. /\ TypeOK /\ o \in Calls
        /\ obj \in [Calls -> SessionRecords] /\ vm \in [Calls -> VmRecords]
        /\ manifest \in SUBSET [session : SessionIds, vm : Calls]
    BY DEF Inv, TypeOK, VmRefs
  <1>2. waiters' \in [Promises -> Seq(Jobs)] /\ micro' \in Seq(Jobs)
    BY <1>1, Names, SettleTypes
  <1>3. /\ obj' \in [Calls -> SessionRecords] /\ vm' \in [Calls -> VmRecords]
        /\ \A x \in Calls :
               /\ obj'[x].sid = obj[x].sid /\ obj'[x].owner = obj[x].owner
               /\ obj'[x].vm = obj[x].vm
               /\ obj'[x].creation = IF x = o THEN None ELSE obj[x].creation
               /\ vm'[x].session = vm[x].session
               /\ x # v => vm'[x] = vm[x]
        /\ vm'[v] = r
    BY <1>1 DEF SessionRecords
  <1>4. /\ TypeOK' /\ ProcRefs' /\ TableRefs' /\ VmRefs' /\ Fresh'
        /\ LockHeld' /\ Isolation'
    BY <1>1, <1>2, <1>3, VmStepFrame
  <1>5. ObjRefs'
    <2>1. \A x \in Calls : obj[x].vm \in Calls \cup {None}
                          /\ obj[x].creation \in Calls \cup {None}
      BY <1>1 DEF SessionRecords
    <2>2. ObjRefs /\ r.state # "creating" /\ r.session = vm[v].session
      BY DEF Inv
    <2> QED
      BY ONLY <1>1, <1>3, <2>1, <2>2, GatewayConstants DEF ObjRefs
  <1>6. CreationHeld' /\ VmHeld'
    BY <1>1, <1>3, GatewayConstants DEF Inv, CreationHeld, VmHeld, VmRefs
  <1>7. Reset'
    BY <1>1, <1>3, GatewayConstants DEF Inv, Reset, ProcRefs, Procs
  <1> QED
    BY <1>4, <1>5, <1>6, <1>7 DEF Inv

LEMMA RejectSteps ==
    ASSUME Inv, NEW v \in Calls, Discarded(v) \/ CreateFails(v)
    PROVE  Inv'
  <1>1. /\ vm[v] \in VmRecords /\ vm[v].state # "none"
        /\ obj[vm[v].session].creation = v
    BY DEF Inv, TypeOK, CreationHeld, Discarded, CreateFails
  <1>2. CASE Discarded(v)
    <2> DEFINE r == [vm[v] EXCEPT !.promise = "rejected"]
    <2>1. /\ r \in VmRecords /\ r.session = vm[v].session
          /\ r.promise = "rejected" /\ r.state = vm[v].state
          /\ r.cleanup = vm[v].cleanup
      BY <1>1 DEF VmRecords
    <2>2. vm' = [vm EXCEPT ![v] = r]
      BY <1>2 DEF Discarded
    <2>3. vm[v].state # "creating"
      BY <1>2 DEF Discarded, Inv, CreationHeld
    <2> HIDE DEF r
    <2> QED
      BY <1>1, <1>2, <2>1, <2>2, <2>3, RejectStep DEF Discarded
  <1>3. CASE CreateFails(v)
    <2> DEFINE r == [vm[v] EXCEPT !.state = "failed", !.promise = "rejected"]
    <2>1. /\ r \in VmRecords /\ r.session = vm[v].session
          /\ r.promise = "rejected" /\ r.state = "failed"
      BY <1>1 DEF VmRecords
    <2>2. vm' = [vm EXCEPT ![v] = r]
      BY <1>3 DEF CreateFails
    <2> HIDE DEF r
    <2> QED
      BY <1>1, <1>3, <2>1, <2>2, RejectStep DEF CreateFails
  <1> QED
    BY <1>2, <1>3

LEMMA CleanupDoneStep ==
    ASSUME Inv, NEW v \in Calls, CleanupDone(v)
    PROVE  Inv'
  <1> DEFINE r == [vm[v] EXCEPT !.cleanup = "done"]
  <1>1. /\ TypeOK /\ vm[v] \in VmRecords /\ vm[v].cleanup = "running"
        /\ vm \in [Calls -> VmRecords] /\ obj \in [Calls -> SessionRecords]
    BY DEF CleanupDone, Inv, TypeOK
  <1>2. /\ r \in VmRecords /\ r.state = vm[v].state /\ r.cleanup = "done"
        /\ r.promise = vm[v].promise /\ r.session = vm[v].session
    BY <1>1 DEF VmRecords
  <1>3. vm' = [vm EXCEPT ![v] = r]
    BY DEF CleanupDone
  <1>4. waiters' \in [Promises -> Seq(Jobs)] /\ micro' \in Seq(Jobs)
    BY <1>1, Names, SettleTypes DEF CleanupDone
  <1>5. UNCHANGED <<sessions, obj, sessionLocks, proc, manifest,
                    sessionsActive>>
    BY DEF CleanupDone
  <1> HIDE DEF r
  <1>6. /\ vm' \in [Calls -> VmRecords]
        /\ \A x \in Calls :
               /\ vm'[x].session = vm[x].session
               /\ vm'[x].state = vm[x].state
               /\ vm'[x].promise = vm[x].promise
               /\ vm'[x].cleanup = IF x = v THEN "done" ELSE vm[x].cleanup
    BY <1>1, <1>2, <1>3
  <1>7. TypeOK'
    BY <1>4, <1>5, <1>6 DEF Inv, TypeOK
  <1>8. ProcRefs' /\ TableRefs' /\ VmRefs' /\ Fresh' /\ Reset' /\ LockHeld'
    BY <1>5, <1>6
       DEF Inv, ProcRefs, TableRefs, VmRefs, Fresh, Reset, LockHeld
  <1>9. Isolation'
    BY <1>5, <1>6 DEF Inv, Isolation, MayUse, Destroying, ProcRefs
  <1>10. ObjRefs'
    <2>1. \A x \in Calls : obj[x].vm \in Calls \cup {None}
                          /\ obj[x].creation \in Calls \cup {None}
      BY <1>1 DEF SessionRecords
    <2>2. ObjRefs
      BY DEF Inv
    <2> QED
      BY ONLY <1>5, <1>6, <2>1, <2>2, GatewayConstants DEF ObjRefs
  <1>11. CreationHeld' /\ VmHeld'
    BY <1>1, <1>5, <1>6 DEF Inv, CreationHeld, VmHeld
  <1> QED
    BY <1>7, <1>8, <1>9, <1>10, <1>11 DEF Inv

LEMMA ProcessExitsStep ==
    ASSUME Inv, NEW v \in Calls, ProcessExits(v)
    PROVE  Inv'
  <1> DEFINE r == [vm[v] EXCEPT !.state = "dead"]
  <1>1. /\ TypeOK /\ vm[v] \in VmRecords /\ vm[v].state = "ready"
        /\ vm \in [Calls -> VmRecords] /\ obj \in [Calls -> SessionRecords]
    BY DEF ProcessExits, Inv, TypeOK
  <1>2. /\ r \in VmRecords /\ r.state = "dead" /\ r.cleanup = vm[v].cleanup
        /\ r.promise = vm[v].promise /\ r.session = vm[v].session
    BY <1>1 DEF VmRecords
  <1>3. vm' = [vm EXCEPT ![v] = r]
    BY DEF ProcessExits
  <1>4. UNCHANGED <<sessions, obj, sessionLocks, waiters, micro, proc,
                    manifest, sessionsActive>>
    BY DEF ProcessExits
  <1> HIDE DEF r
  <1>5. /\ vm' \in [Calls -> VmRecords]
        /\ \A x \in Calls :
               /\ vm'[x].session = vm[x].session
               /\ vm'[x].state = IF x = v THEN "dead" ELSE vm[x].state
               /\ vm'[x].promise = vm[x].promise
               /\ vm'[x].cleanup = vm[x].cleanup
    BY <1>1, <1>2, <1>3
  <1>6. /\ TypeOK' /\ ProcRefs' /\ TableRefs' /\ VmRefs' /\ Fresh'
        /\ LockHeld' /\ Isolation'
    BY <1>1, <1>4, <1>5, VmStepFrame DEF TypeOK
  <1>7. ObjRefs'
    <2>1. \A x \in Calls : obj[x].vm \in Calls \cup {None}
                          /\ obj[x].creation \in Calls \cup {None}
      BY <1>1 DEF SessionRecords
    <2>2. ObjRefs
      BY DEF Inv
    <2> QED
      BY ONLY <1>4, <1>5, <2>1, <2>2, GatewayConstants DEF ObjRefs
  <1>8. CreationHeld' /\ VmHeld' /\ Reset'
    BY <1>1, <1>4, <1>5 DEF Inv, CreationHeld, VmHeld, Reset
  <1> QED
    BY <1>6, <1>7, <1>8 DEF Inv

-----------------------------------------------------------------------------
(* destroySession and the reaper.                                            *)

\* Process p, not a request under the lock, moves on in a destruction.
LEMMA DestroyFrame ==
    ASSUME Inv, NEW p \in Procs, NEW r \in ProcRecords,
           proc' = [proc EXCEPT ![p] = r],
           \/ r.pc \in {"awaitCreation", "awaitCleanup"} /\ r.sid \in SessionIds
              /\ r.obj \in Calls /\ obj[r.obj].sid = r.sid
              /\ MayUse(r.obj, r.owner)
           \/ r.pc = "removed"
           \/ r.pc = "new" /\ p \notin Calls,
           sessions' \in [SessionIds -> Calls \cup {None}],
           \A s \in SessionIds : sessions'[s] \in {sessions[s], None},
           obj' \in [Calls -> SessionRecords], ObjectsKept,
           waiters' \in [Promises -> Seq(Jobs)], micro' \in Seq(Jobs),
           manifest' \in SUBSET [session : SessionIds, vm : Calls],
           sessionsActive' \in Int,
           vm' \in [Calls -> VmRecords],
           \A w \in Calls :
               /\ vm'[w].state = vm[w].state
               /\ vm'[w].promise = vm[w].promise
               /\ vm'[w].session = vm[w].session
               /\ \/ vm'[w].cleanup = vm[w].cleanup
                  \/ vm[w].state # "creating" /\ vm'[w].cleanup = "running",
           UNCHANGED sessionLocks
    PROVE  Inv'
  <1> USE GatewayConstants DEF Inv
  <1>1. TypeOK'
    BY DEF TypeOK
  <1>2. ProcRefs'
    BY DEF ProcRefs, TypeOK, ObjectsKept, Underway
  <1>3. TableRefs'
    <2> SUFFICES ASSUME NEW s \in SessionIds, sessions'[s] # None
                 PROVE  obj'[sessions'[s]].sid = s
      BY DEF TableRefs
    <2>1. sessions'[s] = sessions[s] /\ sessions[s] \in Calls
      BY DEF TypeOK
    <2>2. obj[sessions[s]].sid = s
      BY <2>1 DEF TableRefs
    <2> QED
      BY <2>1, <2>2 DEF ObjectsKept
  <1>4. VmRefs'
    BY DEF VmRefs, ObjectsKept
  <1>5. ObjRefs'
    <2>1. \A x \in Calls : obj[x].vm \in Calls \cup {None}
                          /\ obj[x].creation \in Calls \cup {None}
      BY DEF SessionRecords, TypeOK
    <2> QED
      BY <2>1 DEF ObjRefs, ObjectsKept
  <1>6. CreationHeld' /\ VmHeld'
    BY DEF CreationHeld, VmHeld, VmRefs, ObjectsKept
  <1>7. Fresh'
    BY DEF Fresh, ObjectsKept, TypeOK, Procs
  <1>8. Reset'
    <2> SUFFICES ASSUME NEW c \in Calls, proc'[c].pc = "resetting"
                 PROVE  /\ obj'[proc'[c].obj].vm = None
                        /\ obj'[proc'[c].obj].creation = None
      BY DEF Reset
    <2>1. c # p /\ proc'[c] = proc[c]
      BY DEF TypeOK, Procs
    <2>2. proc[c].obj \in Calls
      BY <2>1 DEF ProcRefs, Procs
    <2> QED
      BY <2>1, <2>2 DEF Reset, ObjectsKept
  <1>9. LockHeld'
    BY DEF LockHeld, Procs, TypeOK
  <1>10. Isolation'
    <2> USE DEF Isolation, MayUse, Destroying, TypeOK, ObjectsKept, ProcRefs
    <2> SUFFICES ASSUME NEW d \in Procs
                 PROVE  (/\ proc[d].pc \in {"joining", "granted"} =>
                                MayUse(vm[proc[d].vm].session, proc[d].owner)
                         /\ Destroying(d) \/ proc[d].pc = "resetting" =>
                                MayUse(proc[d].obj, proc[d].owner))'
      OBVIOUS
    <2>1. CASE d = p
      BY <2>1
    <2>2. CASE d # p
      <3>1. proc'[d] = proc[d]
        BY <2>2
      <3>2. proc[d].pc \in {"joining", "granted"} =>
                vm'[proc[d].vm].session = vm[proc[d].vm].session
        OBVIOUS
      <3>3. \A x \in Calls : obj'[x].owner = obj[x].owner
        OBVIOUS
      <3>4. ProcRefs /\ Isolation
        OBVIOUS
      <3> QED
        BY ONLY <3>1, <3>2, <3>3, <3>4
           DEF Isolation, MayUse, Destroying, ProcRefs
    <2> QED
      BY <2>1, <2>2
  <1> QED
    BY <1>1, <1>2, <1>3, <1>4, <1>5, <1>6, <1>7, <1>8, <1>9, <1>10

LEMMA BeginDestroyStep ==
    ASSUME Inv, NEW p \in Procs, NEW s \in SessionIds,
           NEW owner \in Callers \cup {None}, BeginDestroy(p, s, owner)
    PROVE  Inv'
  <1> DEFINE o == sessions[s]
             r == [pc |-> "awaitCreation", sid |-> s, owner |-> owner,
                   template |-> None, obj |-> o, vm |-> None]
             n == [obj[o] EXCEPT !.state = "destroying"]
  <1>1. /\ TypeOK /\ o \in Calls /\ obj[o].sid = s /\ MayUse(o, owner)
        /\ obj[o] \in SessionRecords /\ obj \in [Calls -> SessionRecords]
        /\ obj[o].creation # None => obj[o].creation \in Calls
    BY TableObject DEF BeginDestroy, Inv, TableRefs, TypeOK
  <1>2. /\ r \in ProcRecords /\ r.pc = "awaitCreation" /\ r.sid = s
        /\ r.obj = o /\ r.owner = owner
    BY <1>1 DEF ProcRecords, PCs
  <1>3. /\ n \in SessionRecords /\ n.sid = obj[o].sid /\ n.vm = obj[o].vm
        /\ n.owner = obj[o].owner /\ n.creation = obj[o].creation
    BY <1>1 DEF SessionRecords
  <1>4. proc' = [proc EXCEPT ![p] = r] /\ obj' = [obj EXCEPT ![o] = n]
    BY DEF BeginDestroy
  <1>5. waiters' \in [Promises -> Seq(Jobs)] /\ micro' \in Seq(Jobs)
    BY <1>1, Names, QueueTypes, AwaitTypes DEF BeginDestroy, TypeOK
  <1>6. UNCHANGED <<sessions, vm, sessionLocks, manifest, sessionsActive>>
    BY DEF BeginDestroy
  <1> HIDE DEF r, n
  <1>7. obj' \in [Calls -> SessionRecords] /\ ObjectsKept
    BY <1>1, <1>3, <1>4 DEF ObjectsKept
  <1> QED
    BY <1>1, <1>2, <1>4, <1>5, <1>6, <1>7, DestroyFrame DEF TypeOK

LEMMA DestroyRefusedStep ==
    ASSUME Inv, NEW c \in Calls, NEW s \in SessionIds, NEW owner \in Callers,
           DestroyRefused(c, s, owner)
    PROVE  Inv'
  <1> DEFINE r == [NewCall EXCEPT !.pc = "failed"]
  <1>1. r \in ProcRecords /\ r.pc = "failed"
    BY DEF NewCall, ProcRecords, PCs
  <1>2. proc' = [proc EXCEPT ![c] = r] /\ ObjectsKept
    BY DEF DestroyRefused, Returns, ObjectsKept
  <1> HIDE DEF r
  <1> QED
    BY <1>1, <1>2, Advance DEF DestroyRefused, Inv, TypeOK, Underway

LEMMA DestroyVmStep ==
    ASSUME Inv, NEW p \in Procs, DestroyVm(p)
    PROVE  Inv'
  <1> DEFINE o == proc[p].obj
             v == obj[o].vm
             r == [proc[p] EXCEPT !.pc = "awaitCleanup"]
  <1>1. /\ TypeOK /\ proc[p].pc = "awaitCreation" /\ proc[p] \in ProcRecords
        /\ o \in Calls /\ proc[p].sid \in SessionIds
        /\ obj[o].sid = proc[p].sid /\ MayUse(o, proc[p].owner)
        /\ v \in Calls /\ vm[v].state # "creating"
    BY DEF DestroyVm, Resumes, Inv, TypeOK, ProcRefs, Underway, ObjRefs,
       SessionRecords, Isolation, Destroying
  <1>2. /\ r \in ProcRecords /\ r.pc = "awaitCleanup"
        /\ r.sid = proc[p].sid /\ r.obj = o /\ r.owner = proc[p].owner
    BY <1>1 DEF ProcRecords, PCs
  <1>3. /\ proc' = [proc EXCEPT ![p] = r] /\ AwaitCleanup(Call(p), v)
        /\ UNCHANGED <<sessions, obj, sessionLocks, manifest, sessionsActive>>
    BY DEF DestroyVm, Goes
  <1>4. Call(p) \in Jobs
    BY Names
  <1> HIDE DEF r, v
  <1>5. /\ waiters' \in [Promises -> Seq(Jobs)] /\ micro' \in Seq(Jobs)
        /\ vm' \in [Calls -> VmRecords]
        /\ \A w \in Calls :
               /\ vm'[w].state = vm[w].state
               /\ vm'[w].promise = vm[w].promise
               /\ vm'[w].session = vm[w].session
               /\ vm'[w].cleanup = IF w = v /\ vm[w].cleanup = "no"
                                   THEN "running" ELSE vm[w].cleanup
    BY <1>1, <1>3, <1>4, CleanupTypes
  <1> QED
    BY <1>1, <1>2, <1>3, <1>5, DestroyFrame DEF TypeOK, ObjectsKept

LEMMA DestroyEndsStep ==
    ASSUME Inv, NEW p \in Procs, DestroyEnds(p)
    PROVE  Inv'
  <1> DEFINE removed == [NewCall EXCEPT !.pc = "removed"]
             again == [NewCall EXCEPT !.pc = "new"]
  <1>1. /\ removed \in ProcRecords /\ removed.pc = "removed"
        /\ again \in ProcRecords /\ again.pc = "new"
    BY DEF NewCall, ProcRecords, PCs
  <1>2. \/ p \in SessionIds /\ proc' = [proc EXCEPT ![p] = again]
        \/ proc' = [proc EXCEPT ![p] = removed]
    BY DEF DestroyEnds, Returns
  <1>3. p \in SessionIds => p \notin Calls
    BY GatewayConstants
  <1>4. /\ sessions' \in [SessionIds -> Calls \cup {None}]
        /\ \A s \in SessionIds : sessions'[s] \in {sessions[s], None}
    BY DEF DestroyEnds, Inv, TypeOK
  <1>5. /\ manifest' \in SUBSET [session : SessionIds, vm : Calls]
        /\ sessionsActive' \in Int
    BY DEF DestroyEnds, RemoveEntry, Inv, TypeOK
  <1>6. /\ waiters' \in [Promises -> Seq(Jobs)] /\ micro' \in Seq(Jobs)
        /\ UNCHANGED <<obj, vm, sessionLocks>>
    BY DEF DestroyEnds, Inv, TypeOK, Rest, Quiet
  <1> HIDE DEF removed, again
  <1> QED
    BY <1>1, <1>2, <1>3, <1>4, <1>5, <1>6, DestroyFrame
       DEF Inv, TypeOK, ObjectsKept

LEMMA GoIdleStep ==
    ASSUME Inv, NEW s \in SessionIds, GoIdle(s)
    PROVE  Inv'
  <1> DEFINE o == sessions[s]
             n == [obj[o] EXCEPT !.idle = TRUE]
  <1>1. /\ TypeOK /\ o \in Calls /\ obj[o] \in SessionRecords
        /\ obj \in [Calls -> SessionRecords]
    BY DEF GoIdle, Inv, TypeOK
  <1>2. /\ n \in SessionRecords /\ n.sid = obj[o].sid /\ n.vm = obj[o].vm
        /\ n.owner = obj[o].owner /\ n.creation = obj[o].creation
    BY <1>1 DEF SessionRecords
  <1>3. /\ obj' = [obj EXCEPT ![o] = n]
        /\ UNCHANGED <<sessions, vm, sessionLocks, waiters, micro, proc,
                       manifest, sessionsActive>>
    BY DEF GoIdle
  <1> HIDE DEF n, o
  <1>4. obj' \in [Calls -> SessionRecords] /\ ObjectsKept
    BY <1>1, <1>2, <1>3 DEF ObjectsKept
  <1>5. VmRefs' /\ ObjRefs' /\ CreationHeld' /\ VmHeld'
    BY <1>3, <1>4, VmFrame
  <1>6. TypeOK' /\ ProcRefs' /\ TableRefs' /\ Fresh' /\ Reset' /\ LockHeld'
    BY <1>3, <1>4 DEF Inv, TypeOK, ProcRefs, TableRefs, Fresh, Reset,
       LockHeld, ObjectsKept, Procs
  <1>7. Isolation'
    BY <1>3, <1>4 DEF Inv, Isolation, MayUse, Destroying, ProcRefs, ObjectsKept
  <1> QED
    BY <1>5, <1>6, <1>7 DEF Inv

-----------------------------------------------------------------------------
(* The theorems.                                                             *)

LEMMA InitInv == Init => Inv
  <1> SUFFICES ASSUME Init PROVE Inv
    OBVIOUS
  <1>1. /\ NoSession \in SessionRecords /\ NoVm \in VmRecords
        /\ NewCall \in ProcRecords
    BY DEF NoSession, NoVm, NewCall, SessionRecords, VmRecords, ProcRecords, PCs
  <1>2. TypeOK
    BY <1>1 DEF Init, TypeOK
  <1>3. \A p \in Procs : proc[p].pc = "new"
    BY DEF Init, NewCall
  <1>4. \A c \in Calls :
            /\ obj[c].sid = None /\ obj[c].vm = None /\ obj[c].creation = None
            /\ vm[c].state = "none" /\ vm[c].promise = "none"
            /\ vm[c].session = None
    BY DEF Init, NoSession, NoVm
  <1> QED
    BY <1>2, <1>3, <1>4
       DEF Init, Inv, ProcRefs, TableRefs, VmRefs, ObjRefs, CreationHeld,
           VmHeld, Fresh, Reset, LockHeld, Isolation, Destroying, Underway,
           Procs

LEMMA NextInv == Inv /\ [Next]_vars => Inv'
  <1> SUFFICES ASSUME Inv, [Next]_vars PROVE Inv'
    OBVIOUS
  <1>1. CASE \E c \in Calls, s \in SessionIds, owner \in Callers :
                 \E t \in Templates \cup {None} : Send(c, s, owner, t)
    BY <1>1, SendSteps
  <1>2. CASE \E c \in Calls, s \in SessionIds, owner \in Callers :
                 Destroy(c, s, owner) \/ DestroyRefused(c, s, owner)
    BY <1>2, BeginDestroyStep, DestroyRefusedStep DEF Destroy, Procs
  <1>3. CASE \E p \in Procs : Step(p)
    <2> PICK p \in Procs : Step(p)
      BY <1>3
    <2>1. CASE DestroyVm(p) \/ DestroyEnds(p)
      BY <2>1, DestroyVmStep, DestroyEndsStep
    <2>2. CASE p \in Calls /\ ~(DestroyVm(p) \/ DestroyEnds(p))
      BY <2>2, LockSteps, LockedForbiddenStep, LockedReuseStep,
         LockedResetStep, LockedJoinStep, LockedCreateStep, RecreateStep,
         RefusedSteps, JoinedStep DEF Step
    <2> QED
      BY <2>1, <2>2 DEF Step
  <1>4. CASE \E v \in Calls :
                 \/ Attach(v) \/ Discard(v) \/ Discarded(v) \/ CreateFails(v)
                 \/ CleanupDone(v) \/ ProcessExits(v)
    BY <1>4, AttachStep, DiscardStep, RejectSteps, CleanupDoneStep,
       ProcessExitsStep
  <1>5. CASE \E s \in SessionIds : GoIdle(s) \/ Reap(s)
    BY <1>5, GoIdleStep, BeginDestroyStep DEF Reap, Procs
  <1>6. CASE UNCHANGED vars
    <2>1. /\ UNCHANGED <<sessions, obj, vm, sessionLocks>>
          /\ UNCHANGED <<waiters, micro, proc, manifest, sessionsActive>>
      BY <1>6 DEF vars
    <2> QED
      BY <2>1 DEF Inv, TypeOK, ProcRefs, TableRefs, VmRefs, ObjRefs,
         CreationHeld, VmHeld, Fresh, Reset, LockHeld, Isolation, MayUse,
         Destroying
  <1> QED
    BY <1>1, <1>2, <1>3, <1>4, <1>5, <1>6 DEF Next

LEMMA Invariance == Spec => []Inv
  BY InitInv, NextInv, PTL DEF Spec

\* The variables keep their types.
THEOREM TypeCorrect == Spec => []TypeOK
  <1>1. Inv => TypeOK
    BY DEF Inv
  <1> QED
    BY <1>1, Invariance, PTL

\* The session lock excludes: two requests are never both between the
\* acquisition and the release of one session's lock (gateway.ts:21-36, 58,
\* 113), whatever the number of requests and the order they arrive in.
THEOREM LockIsHeld == Spec => []LockHeld
  <1>1. Inv => LockHeld
    BY DEF Inv
  <1> QED
    BY <1>1, Invariance, PTL

\* No request ever gets, awaits or destroys what belongs to another owner
\* (gateway.ts:48 and 62, session.ts:51, ownership.ts:4-13).
THEOREM OwnersIsolated == Spec => []Isolation
  <1>1. Inv => Isolation
    BY DEF Inv
  <1> QED
    BY <1>1, Invariance, PTL

\* A session never has two VMs being created or in service (gateway.ts:45-109).
THEOREM OneVm == Spec => []OneVmPerSession
  <1>1. Inv => OneVmPerSession
    <2> SUFFICES ASSUME Inv, NEW v \in Calls, NEW w \in Calls,
                        Live(v), Live(w), vm[v].session = vm[w].session
                 PROVE  v = w
      BY DEF OneVmPerSession
    <2> DEFINE o == vm[v].session
    <2>1. o \in Calls
      BY DEF Live, Inv, VmRefs
    <2>2. obj[o].creation = v \/ obj[o].vm = v
      BY DEF Live, Inv, CreationHeld, VmHeld
    <2>3. obj[o].creation = w \/ obj[o].vm = w
      BY DEF Live, Inv, CreationHeld, VmHeld
    <2>4. obj[o].vm = None \/ obj[o].creation = None
      BY <2>1 DEF Inv, ObjRefs
    <2> QED
      BY <2>2, <2>3, <2>4, GatewayConstants
  <1> QED
    BY <1>1, Invariance, PTL
=============================================================================
