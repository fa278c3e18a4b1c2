------------------------- MODULE SessionWaitProofs --------------------------
(*****************************************************************************)
(* The theorem that nobody is stranded in SessionGateway.  WaitInv says that *)
(* whoever is under way is in a queue, and that a promise is awaited only    *)
(* while it is unsettled.  It is inductive together with Inv and OrderInv.   *)
(*****************************************************************************)
EXTENDS SessionOrderProofs

-----------------------------------------------------------------------------
(* The inductive invariant.                                                  *)

\* A continuation is in a queue.
OnQueue(j) ==
    \/ j \in Elems(micro)
    \/ \E q \in Promises : j \in Elems(waiters[q])

\* The recorded holder of a lock has it, and it is awaited only while held.
Holders ==
    \A s \in SessionIds :
        /\ sessionLocks[s] # None =>
               /\ proc[sessionLocks[s]].pc \in {"locked", "resetting"}
               /\ proc[sessionLocks[s]].sid = s
        /\ Elems(waiters[LockOf(s)]) # {} => sessionLocks[s] # None

\* A creation that has not settled is under way, or its VM is being discarded
\* by a handler that is in a queue.  It is recorded, and awaited, only then.
Unsettled(v) == vm[v].promise \in {"pending", "discarding"}

Creations ==
    /\ \A v \in Calls :
           /\ vm[v].promise = "pending" => vm[v].state = "creating"
           /\ vm[v].promise = "discarding" => OnQueue(Handler(v))
           /\ Elems(waiters[CreationOf(v)]) # {} => Unsettled(v)
    /\ \A o \in Calls : obj[o].creation # None => Unsettled(obj[o].creation)

\* Whoever is under way is in a queue.
Everybody == \A p \in Procs : proc[p].pc \in Underway => OnQueue(Call(p))

WaitInv == Holders /\ Creations /\ Everybody

-----------------------------------------------------------------------------
(* No step drops a continuation but the one that runs.                       *)

\* Every continuation in a queue stays in one, but those in S.
Carried(S) ==
    /\ \A j \in Elems(micro) \ S : j \in Elems(micro')
    /\ \A q \in Promises : \A j \in Elems(waiters[q]) :
           j \in Elems(micro') \/ j \in Elems(waiters'[q])

LEMMA Carries ==
    ASSUME NEW S, Carried(S), NEW j, OnQueue(j), j \notin S
    PROVE  OnQueue(j)'
  BY DEF Carried, OnQueue

\* What runs is in S.
Runs(S) == Quiet \/ Head(micro) \in S

\* The microtask queue keeps what does not run.
LEMMA RestCarries ==
    ASSUME Inv, OrderInv, NEW S, Runs(S)
    PROVE  Elems(micro) \ S \subseteq Elems(Rest)
  <1>1. TypeOK /\ Singly
    BY DEF Inv, OrderInv
  <1> QED
    BY <1>1, RestElems DEF Runs

\* The running step ends, and nothing more.
LEMMA PopCarries ==
    ASSUME Inv, OrderInv, NEW S, Runs(S), micro' = Rest, UNCHANGED waiters
    PROVE  Carried(S)
  BY RestCarries DEF Carried

\* Nothing is queued, and nothing runs.
LEMMA StayCarries ==
    ASSUME UNCHANGED <<micro, waiters>>
    PROVE  Carried({})
  BY DEF Carried

\* The running step ends, and job is queued to run.
LEMMA RequeueCarries ==
    ASSUME Inv, OrderInv, NEW S, Runs(S), NEW job \in Jobs,
           micro' = Append(Rest, job), UNCHANGED waiters
    PROVE  Carried(S) /\ OnQueue(job)'
  <1>1. Rest \in Seq(Jobs)
    BY QueueTypes, Names DEF Inv, TypeOK, Rest, Quiet
  <1>2. Elems(micro') = Elems(Rest) \cup {job}
    BY <1>1, AppendElems
  <1> QED
    BY <1>2, RestCarries DEF Carried, OnQueue

\* The running step ends, and job is registered for q.
LEMMA AwaitCarries ==
    ASSUME Inv, OrderInv, NEW S, Runs(S), NEW job \in Jobs, NEW q \in Promises,
           Await(job, q)
    PROVE  /\ Carried(S) /\ OnQueue(job)'
           /\ \A r \in Promises \ {q} : waiters'[r] = waiters[r]
  <1>1. waiters \in [Promises -> Seq(Jobs)]
    BY DEF Inv, TypeOK
  <1>2. /\ micro' = Rest /\ waiters'[q] = Append(waiters[q], job)
        /\ \A r \in Promises \ {q} : waiters'[r] = waiters[r]
    BY <1>1 DEF Await
  <1>3. Elems(waiters'[q]) = Elems(waiters[q]) \cup {job}
    BY <1>1, <1>2, AppendElems
  <1> QED
    BY <1>2, <1>3, RestCarries DEF Carried, OnQueue

\* The running step ends, and q settles.
LEMMA SettleCarries ==
    ASSUME Inv, OrderInv, NEW S, Runs(S), NEW q \in Promises, Settle(q)
    PROVE  /\ Carried(S) /\ Elems(waiters'[q]) = {}
           /\ \A r \in Promises \ {q} : waiters'[r] = waiters[r]
  <1>1. waiters \in [Promises -> Seq(Jobs)] /\ Rest \in Seq(Jobs)
    BY DEF Inv, TypeOK, Rest, Quiet
  <1>2. /\ micro' = Rest \o waiters[q] /\ waiters'[q] = <<>>
        /\ \A r \in Promises \ {q} : waiters'[r] = waiters[r]
    BY <1>1 DEF Settle
  <1>3. Elems(micro') = Elems(Rest) \cup Elems(waiters[q])
    BY <1>1, <1>2, ConcatElems
  <1> QED
    BY <1>2, <1>3, RestCarries, EmptyElems DEF Carried

\* c gives back the lock and awaits the creation v.
LEMMA JoinCarries ==
    ASSUME Inv, OrderInv, NEW c \in Calls, NEW v \in Calls, Runs({Call(c)}),
           proc[c].sid \in SessionIds, JoinAndUnlock(c, v)
    PROVE  /\ Carried({Call(c)}) /\ OnQueue(Call(c))'
           /\ Elems(waiters'[LockOf(proc[c].sid)]) = {}
           /\ \A r \in Promises \ {LockOf(proc[c].sid), CreationOf(v)} :
                  waiters'[r] = waiters[r]
  <1> DEFINE l == LockOf(proc[c].sid)
             q == CreationOf(v)
             w == [waiters EXCEPT ![l] = <<>>]
  <1>1. /\ l \in Promises /\ q \in Promises /\ l # q /\ Call(c) \in Jobs
        /\ waiters \in [Promises -> Seq(Jobs)] /\ Rest \in Seq(Jobs)
    BY Names, PromiseNames DEF Inv, TypeOK, Procs, Rest, Quiet
  <1>2. micro' = Rest \o waiters[l] /\ waiters' = [w EXCEPT ![q] = Append(@, Call(c))]
    BY DEF JoinAndUnlock
  <1> HIDE DEF l, q
  <1>3. /\ waiters'[l] = <<>> /\ waiters'[q] = Append(waiters[q], Call(c))
        /\ \A r \in Promises \ {l, q} : waiters'[r] = waiters[r]
    BY <1>1, <1>2
  <1>4. /\ Elems(waiters'[q]) = Elems(waiters[q]) \cup {Call(c)}
        /\ Elems(waiters'[l]) = {}
        /\ Elems(micro') = Elems(Rest) \cup Elems(waiters[l])
    BY <1>1, <1>2, <1>3, AppendElems, EmptyElems, ConcatElems
  <1>5. Elems(micro) \ {Call(c)} \subseteq Elems(micro')
    BY <1>4, RestCarries
  <1>6. ASSUME NEW r \in Promises, NEW j \in Elems(waiters[r])
        PROVE  j \in Elems(micro') \/ j \in Elems(waiters'[r])
    BY <1>3, <1>4
  <1> QED
    BY <1>1, <1>3, <1>4, <1>5, <1>6 DEF Carried, OnQueue, l, q

\* The running step awaits the teardown of v.
LEMMA CleanupCarries ==
    ASSUME Inv, OrderInv, NEW S, Runs(S), NEW job \in Jobs, NEW v \in Calls,
           AwaitCleanup(job, v)
    PROVE  /\ Carried(S) /\ OnQueue(job)'
           /\ \A r \in Promises \ {CleanupOf(v)} : waiters'[r] = waiters[r]
  <1>1. CASE vm[v].cleanup = "done"
    BY <1>1, RequeueCarries DEF AwaitCleanup
  <1>2. CASE vm[v].cleanup # "done"
    BY <1>2, AwaitCarries, PromiseNames DEF AwaitCleanup
  <1> QED
    BY <1>1, <1>2

-----------------------------------------------------------------------------
(* Parts of WaitInv that most steps keep for the same reason.                *)

\* Only processes in P move.
Moves(P) == \A x \in Procs \ P : proc'[x] = proc[x]

JobsOf(P) == {Call(x) : x \in P}

\* Whoever is under way stays in a queue.
LEMMA StillEverybody ==
    ASSUME WaitInv, NEW P, Moves(P), Carried(JobsOf(P)),
           \A x \in P : proc'[x].pc \in Underway => OnQueue(Call(x))'
    PROVE  Everybody'
  <1> SUFFICES ASSUME NEW x \in Procs \ P, proc'[x].pc \in Underway
               PROVE  OnQueue(Call(x))'
    BY DEF Everybody
  <1>1. OnQueue(Call(x))
    BY DEF Moves, WaitInv, Everybody
  <1>2. Call(x) \notin JobsOf(P)
    BY DEF JobsOf, Call
  <1> QED
    BY <1>1, <1>2, Carries

\* The handlers of unwanted VMs stay in theirs.
LEMMA StillHandled ==
    ASSUME WaitInv, NEW P, Carried(JobsOf(P)), NEW v \in Calls,
           vm[v].promise = "discarding"
    PROVE  OnQueue(Handler(v))'
  <1>1. OnQueue(Handler(v))
    BY DEF WaitInv, Creations
  <1>2. Handler(v) \notin JobsOf(P)
    BY DEF JobsOf, Call, Handler
  <1> QED
    BY <1>1, <1>2, Carries

\* The creations stay as they were, but for who awaits them.
CreationsKept ==
    /\ \A v \in Calls :
           /\ vm'[v].promise = vm[v].promise
           /\ vm[v].state = "creating" => vm'[v].state = "creating"
    /\ \A o \in Calls : obj'[o].creation = obj[o].creation

LEMMA StillCreations ==
    ASSUME Inv, WaitInv, NEW P, Carried(JobsOf(P)), CreationsKept,
           \A v \in Calls :
               waiters'[CreationOf(v)] = waiters[CreationOf(v)] \/ Unsettled(v)
    PROVE  Creations'
  <1>1. ASSUME NEW v \in Calls
        PROVE  /\ vm'[v].promise = "pending" => vm'[v].state = "creating"
               /\ vm'[v].promise = "discarding" => OnQueue(Handler(v))'
               /\ Elems(waiters'[CreationOf(v)]) # {} => Unsettled(v)'
    BY StillHandled DEF CreationsKept, WaitInv, Creations, Unsettled
  <1>2. ASSUME NEW o \in Calls, obj'[o].creation # None
        PROVE  vm'[obj'[o].creation].promise \in {"pending", "discarding"}
    <2>1. obj[o].creation \in Calls /\ obj'[o].creation = obj[o].creation
      BY <1>2 DEF CreationsKept, Inv, TypeOK, SessionRecords
    <2> QED
      BY <1>2, <2>1 DEF CreationsKept, WaitInv, Creations, Unsettled
  <1> QED
    BY <1>1, <1>2 DEF Creations, Unsettled

\* No lock is taken or given back; who comes to await one finds it taken.
LEMMA StillHolders ==
    ASSUME Inv, WaitInv, UNCHANGED sessionLocks,
           \A x \in Procs : proc[x].pc \in {"locked", "resetting"} =>
               proc'[x].pc \in {"locked", "resetting"} /\ proc'[x].sid = proc[x].sid,
           \A s \in SessionIds :
               waiters'[LockOf(s)] = waiters[LockOf(s)] \/ sessionLocks[s] # None
    PROVE  Holders'
  <1> SUFFICES ASSUME NEW s \in SessionIds
               PROVE  /\ sessionLocks[s] # None =>
                             /\ proc'[sessionLocks[s]].pc \in {"locked", "resetting"}
                             /\ proc'[sessionLocks[s]].sid = s
                      /\ Elems(waiters'[LockOf(s)]) # {} => sessionLocks[s] # None
    BY DEF Holders
  <1>1. sessionLocks[s] # None =>
            /\ sessionLocks[s] \in Procs
            /\ proc[sessionLocks[s]].pc \in {"locked", "resetting"}
            /\ proc[sessionLocks[s]].sid = s
    BY DEF Inv, TypeOK, Procs, WaitInv, Holders
  <1>2. Elems(waiters[LockOf(s)]) # {} => sessionLocks[s] # None
    BY DEF WaitInv, Holders
  <1> QED
    BY <1>1, <1>2

\* c gives back its lock, and whoever awaited it is released.
LEMMA LockReturned ==
    ASSUME Inv, WaitInv, NEW c \in Calls, proc[c].pc \in {"locked", "resetting"},
           Unlock(proc[c].sid), Moves({c}),
           Elems(waiters'[LockOf(proc[c].sid)]) = {},
           \A s \in SessionIds \ {proc[c].sid} :
               waiters'[LockOf(s)] = waiters[LockOf(s)]
    PROVE  Holders'
  <1>1. /\ proc[c].sid \in SessionIds
        /\ sessionLocks \in [SessionIds -> Calls \cup {None}]
        /\ sessionLocks' = [sessionLocks EXCEPT ![proc[c].sid] = None]
    BY DEF Inv, TypeOK, ProcRefs, Underway, Procs, Unlock
  <1> SUFFICES ASSUME NEW s \in SessionIds
               PROVE  /\ sessionLocks'[s] # None =>
                             /\ proc'[sessionLocks'[s]].pc \in {"locked", "resetting"}
                             /\ proc'[sessionLocks'[s]].sid = s
                      /\ Elems(waiters'[LockOf(s)]) # {} => sessionLocks'[s] # None
    BY DEF Holders
  <1>2. CASE s = proc[c].sid
    BY <1>1, <1>2
  <1>3. CASE s # proc[c].sid
    <2>1. sessionLocks'[s] = sessionLocks[s] /\ waiters'[LockOf(s)] = waiters[LockOf(s)]
      BY <1>1, <1>3
    <2>2. sessionLocks[s] # None =>
              /\ sessionLocks[s] \in Procs \ {c}
              /\ proc[sessionLocks[s]].pc \in {"locked", "resetting"}
              /\ proc[sessionLocks[s]].sid = s
      BY <1>1, <1>3 DEF WaitInv, Holders, Procs
    <2> QED
      BY <2>1, <2>2 DEF Moves, WaitInv, Holders
  <1> QED
    BY <1>2, <1>3

\* c takes a free lock.
LEMMA LockTaken ==
    ASSUME Inv, WaitInv, NEW c \in Calls, NEW s \in SessionIds,
           sessionLocks[s] = None, sessionLocks' = [sessionLocks EXCEPT ![s] = c],
           proc[c].pc \in {"new", "lockWait"}, Moves({c}),
           proc'[c].pc = "locked", proc'[c].sid = s, UNCHANGED waiters
    PROVE  Holders'
  <1>1. sessionLocks \in [SessionIds -> Calls \cup {None}] /\ c # None
    BY GatewayConstants DEF Inv, TypeOK
  <1> SUFFICES ASSUME NEW t \in SessionIds
               PROVE  /\ sessionLocks'[t] # None =>
                             /\ proc'[sessionLocks'[t]].pc \in {"locked", "resetting"}
                             /\ proc'[sessionLocks'[t]].sid = t
                      /\ Elems(waiters'[LockOf(t)]) # {} => sessionLocks'[t] # None
    BY DEF Holders
  <1>2. CASE t = s
    BY <1>1, <1>2
  <1>3. CASE t # s
    <2>1. sessionLocks'[t] = sessionLocks[t]
      BY <1>1, <1>3
    <2>2. sessionLocks[t] # None =>
              /\ sessionLocks[t] \in Procs \ {c}
              /\ proc[sessionLocks[t]].pc \in {"locked", "resetting"}
              /\ proc[sessionLocks[t]].sid = t
      BY <1>1 DEF WaitInv, Holders, Procs
    <2> QED
      BY <2>1, <2>2 DEF Moves, WaitInv, Holders
  <1> QED
    BY <1>2, <1>3

-----------------------------------------------------------------------------
(* Requests that begin no VM.                                                *)

\* The three parts together.
LEMMA WaitStep ==
    ASSUME Inv, WaitInv, NEW P, Moves(P), Carried(JobsOf(P)),
           \A x \in P : proc'[x].pc \in Underway => OnQueue(Call(x))',
           CreationsKept,
           \A v \in Calls :
               waiters'[CreationOf(v)] = waiters[CreationOf(v)] \/ Unsettled(v),
           Holders'
    PROVE  WaitInv'
  BY StillEverybody, StillCreations DEF WaitInv

\* What p's continuation is called, and that it is all that moves.
LEMMA Mover ==
    ASSUME Inv, NEW p \in Procs
    PROVE  /\ Call(p) \in Jobs /\ JobsOf({p}) = {Call(p)}
           /\ Quiet \/ Head(micro) = Call(p) => Runs(JobsOf({p}))
           /\ proc \in [Procs -> ProcRecords]
  BY Names DEF JobsOf, Runs, Inv, TypeOK

\* A new request is answered, or awaits what is under way (gateway.ts:46-58).
LEMMA SendWaits ==
    ASSUME Inv, OrderInv, WaitInv, NEW c \in Calls, NEW s \in SessionIds,
           NEW owner \in Callers, NEW t \in Templates \cup {None},
           Send(c, s, owner, t)
    PROVE  WaitInv'
  <1>1. /\ c \in Procs /\ Quiet /\ proc[c].pc = "new" /\ UNCHANGED vm
        /\ obj' = Touched(s, obj)
    BY DEF Procs, Send, SendForbidden, SendReuse, SendJoin, SendLock, SendWait,
       Arrives
  <1>2. /\ Call(c) \in Jobs /\ JobsOf({c}) = {Call(c)} /\ Runs(JobsOf({c}))
        /\ proc \in [Procs -> ProcRecords]
    BY <1>1, Mover
  <1>3. CreationsKept
    <2>1. ObjectsKept
      BY <1>1, TouchedStates
    <2> QED
      BY <1>1, <2>1 DEF ObjectsKept, CreationsKept
  <1>4. CASE SendForbidden(c, s, owner, t) \/ SendReuse(c, s, owner, t)
    <2>1. /\ Moves({c}) /\ proc'[c].pc \in Finished
          /\ UNCHANGED <<sessionLocks, waiters, micro>>
      BY <1>1, <1>2, <1>4 DEF SendForbidden, SendReuse, Returns, NewCall, Finished, Moves
    <2>2. Carried(JobsOf({c}))
      BY <2>1, StayCarries DEF Carried
    <2>3. Holders'
      BY <1>1, <2>1, StillHolders DEF Moves
    <2> QED
      BY <1>3, <2>1, <2>2, <2>3, WaitStep DEF Finished, Underway
  <1>5. CASE SendJoin(c, s, owner, t)
    <2> DEFINE v == obj[sessions[s]].creation
    <2>1. /\ Moves({c}) /\ proc'[c].pc = "joining"
          /\ UNCHANGED sessionLocks /\ Await(Call(c), CreationOf(v))
      BY <1>1, <1>2, <1>5 DEF SendJoin, NewSend, Moves
    <2>2. v \in Calls /\ Unsettled(v)
      BY <1>5, TableObject DEF SendJoin, WaitInv, Creations
    <2> HIDE DEF v
    <2>3. /\ Carried(JobsOf({c})) /\ OnQueue(Call(c))'
          /\ \A r \in Promises \ {CreationOf(v)} : waiters'[r] = waiters[r]
      BY <1>2, <2>1, <2>2, PromiseNames, AwaitCarries
    <2>4. Holders'
      BY <1>1, <2>1, <2>2, <2>3, PromiseNames, StillHolders DEF Moves
    <2>5. \A w \in Calls : waiters'[CreationOf(w)] = waiters[CreationOf(w)] \/ Unsettled(w)
      BY <2>2, <2>3, PromiseNames
    <2> QED
      BY <1>3, <2>1, <2>3, <2>4, <2>5, WaitStep
  <1>6. CASE SendLock(c, s, owner, t)
    <2>1. /\ Moves({c}) /\ proc'[c].pc = "locked" /\ proc'[c].sid = s
          /\ sessionLocks[s] = None /\ sessionLocks' = [sessionLocks EXCEPT ![s] = c]
          /\ micro' = Append(Rest, Call(c)) /\ UNCHANGED waiters
      BY <1>1, <1>2, <1>6 DEF SendLock, NewSend, Moves
    <2>2. Carried(JobsOf({c})) /\ OnQueue(Call(c))'
      BY <1>2, <2>1, RequeueCarries
    <2>3. Holders'
      BY <1>1, <2>1, LockTaken
    <2> QED
      BY <1>3, <2>1, <2>2, <2>3, WaitStep
  <1>7. CASE SendWait(c, s, owner, t)
    <2>1. /\ Moves({c}) /\ proc'[c].pc = "lockWait" /\ sessionLocks[s] # None
          /\ UNCHANGED sessionLocks /\ Await(Call(c), LockOf(s))
      BY <1>1, <1>2, <1>7 DEF SendWait, NewSend, Moves
    <2>2. /\ Carried(JobsOf({c})) /\ OnQueue(Call(c))'
          /\ \A r \in Promises \ {LockOf(s)} : waiters'[r] = waiters[r]
      BY <1>2, <2>1, PromiseNames, AwaitCarries
    <2>3. Holders'
      BY <1>1, <2>1, <2>2, PromiseNames, StillHolders DEF Moves
    <2> QED
      BY <1>3, <2>1, <2>2, <2>3, PromiseNames, WaitStep
  <1> QED
    BY <1>4, <1>5, <1>6, <1>7 DEF Send

\* A destruction that is refused (session.ts:49-51).
LEMMA DestroyRefusedWaits ==
    ASSUME Inv, WaitInv, NEW c \in Calls, NEW s \in SessionIds,
           NEW owner \in Callers, DestroyRefused(c, s, owner)
    PROVE  WaitInv'
  <1>1. /\ c \in Procs /\ proc[c].pc = "new" /\ proc \in [Procs -> ProcRecords]
        /\ UNCHANGED <<sessionLocks, waiters, micro, obj, vm>>
    BY DEF Procs, DestroyRefused, Inv, TypeOK
  <1>2. Moves({c}) /\ proc'[c].pc \in Finished
    BY <1>1 DEF DestroyRefused, Returns, NewCall, Finished, Moves
  <1>3. Carried(JobsOf({c})) /\ CreationsKept
    BY <1>1, StayCarries DEF Carried, CreationsKept
  <1>4. Holders'
    BY <1>1, <1>2, StillHolders DEF Moves
  <1> QED
    BY <1>1, <1>2, <1>3, <1>4, WaitStep DEF Finished, Underway

\* Whoever awaited the lock takes it, or finds it taken again.
LEMMA LockWaits ==
    ASSUME Inv, OrderInv, WaitInv, NEW c \in Calls, TakeLock(c) \/ WaitAgain(c)
    PROVE  WaitInv'
  <1> DEFINE s == proc[c].sid
  <1>1. c \in Procs /\ Resumes(c, "lockWait") /\ UNCHANGED <<obj, vm>>
    BY DEF Procs, TakeLock, WaitAgain
  <1>2. /\ s \in SessionIds /\ proc[c].pc = "lockWait"
        /\ Call(c) \in Jobs /\ JobsOf({c}) = {Call(c)} /\ Runs(JobsOf({c}))
        /\ proc \in [Procs -> ProcRecords]
    BY <1>1, Running, Mover DEF Inv, ProcRefs, Underway
  <1>3. CreationsKept
    BY <1>1 DEF CreationsKept
  <1>4. CASE TakeLock(c)
    <2>1. /\ Moves({c}) /\ proc'[c].pc = "locked" /\ proc'[c].sid = s
          /\ sessionLocks[s] = None /\ sessionLocks' = [sessionLocks EXCEPT ![s] = c]
          /\ micro' = Append(Rest, Call(c)) /\ UNCHANGED waiters
      BY <1>1, <1>2, <1>4 DEF TakeLock, Goes, Moves, ProcRecords
    <2> HIDE DEF s
    <2>2. Carried(JobsOf({c})) /\ OnQueue(Call(c))'
      BY <1>2, <2>1, RequeueCarries
    <2>3. Holders'
      BY <1>2, <2>1, LockTaken
    <2> QED
      BY <1>3, <2>1, <2>2, <2>3, WaitStep
  <1>5. CASE WaitAgain(c)
    <2>1. /\ UNCHANGED <<proc, sessionLocks>> /\ sessionLocks[s] # None
          /\ Moves({c}) /\ Await(Call(c), LockOf(s))
      BY <1>5 DEF WaitAgain, Moves
    <2> HIDE DEF s
    <2>2. /\ Carried(JobsOf({c})) /\ OnQueue(Call(c))'
          /\ \A r \in Promises \ {LockOf(s)} : waiters'[r] = waiters[r]
      BY <1>2, <2>1, PromiseNames, AwaitCarries
    <2>3. Holders'
      BY <1>2, <2>1, <2>2, PromiseNames, StillHolders
    <2> QED
      BY <1>2, <1>3, <2>1, <2>2, <2>3, PromiseNames, WaitStep
  <1> QED
    BY <1>4, <1>5

\* The holder gives the lock back and is answered: refused, or with a VM, or
\* with the error of a creation that failed at once (gateway.ts:62, 78, 83).
LEMMA UnlockWaits ==
    ASSUME Inv, OrderInv, WaitInv, NEW c \in Calls,
           LockedForbidden(c) \/ LockedReuse(c)
               \/ LockedRefused(c) \/ RecreateRefused(c)
    PROVE  WaitInv'
  <1> DEFINE s == proc[c].sid
  <1>1. /\ c \in Procs /\ UNCHANGED vm /\ Unlock(s) /\ Settle(LockOf(s))
        /\ Resumes(c, "locked") \/ Resumes(c, "resetting")
    BY DEF Procs, LockedForbidden, LockedReuse, LockedRefused, RecreateRefused, GiveUp
  <1>2. /\ s \in SessionIds /\ proc[c].pc \in {"locked", "resetting"}
        /\ JobsOf({c}) = {Call(c)} /\ Runs(JobsOf({c}))
        /\ proc \in [Procs -> ProcRecords]
    BY <1>1, Holding, Mover
  <1>3. Moves({c}) /\ proc'[c].pc \in Finished
    <2>1. (\E how \in Finished : Returns(c, how)) \/ \E v : Grant(c, v)
      BY DEF LockedForbidden, LockedReuse, LockedRefused, RecreateRefused, GiveUp,
         Finished
    <2> QED
      BY <1>1, <1>2, <2>1 DEF Returns, Grant, NewCall, Finished, Moves
  <1>4. CreationsKept
    <2>1. CASE LockedForbidden(c) \/ RecreateRefused(c)
      BY <1>1, <2>1 DEF LockedForbidden, RecreateRefused, CreationsKept
    <2>2. CASE LockedReuse(c)
      <3>1. ObjectsKept
        BY <1>1, <1>2, <2>2, TouchedStates DEF LockedReuse, Grant
      <3> QED
        BY <1>1, <3>1 DEF ObjectsKept, CreationsKept
    <2>3. CASE LockedRefused(c)
      <3>1. CASE UNCHANGED obj
        BY <1>1, <3>1 DEF CreationsKept
      <3>2. CASE obj' = [obj EXCEPT ![c] = NewSession(c)]
        <4>1. obj[c].sid = None /\ obj \in [Calls -> SessionRecords]
          BY <2>3 DEF LockedRefused, Resumes, Inv, Fresh, TypeOK
        <4>2. obj[c].creation = None
          BY <4>1, GatewayConstants DEF Inv, ObjRefs, VmRefs, SessionRecords
        <4> QED
          BY <1>1, <3>2, <4>1, <4>2 DEF CreationsKept, NewSession
      <3> QED
        BY <2>3, <3>1, <3>2 DEF LockedRefused
    <2> QED
      BY <2>1, <2>2, <2>3
  <1> HIDE DEF s
  <1>5. /\ Carried(JobsOf({c})) /\ Elems(waiters'[LockOf(s)]) = {}
        /\ \A r \in Promises \ {LockOf(s)} : waiters'[r] = waiters[r]
    BY <1>1, <1>2, PromiseNames, SettleCarries
  <1>6. Holders'
    BY <1>1, <1>2, <1>3, <1>5, PromiseNames, LockReturned DEF s
  <1> QED
    BY <1>2, <1>3, <1>4, <1>5, <1>6, PromiseNames, WaitStep DEF Finished, Underway

\* The awaited creation settled, and the request is answered.
LEMMA JoinedWaits ==
    ASSUME Inv, OrderInv, WaitInv, NEW c \in Calls, Joined(c)
    PROVE  WaitInv'
  <1>1. /\ c \in Procs /\ Resumes(c, "joining") /\ micro' = Rest
        /\ UNCHANGED <<vm, sessionLocks, waiters>>
    BY DEF Joined, Procs
  <1>2. /\ proc[c].sid \in SessionIds /\ proc[c].pc = "joining"
        /\ JobsOf({c}) = {Call(c)} /\ Runs(JobsOf({c}))
        /\ proc \in [Procs -> ProcRecords]
    BY <1>1, Running, Mover DEF Inv, ProcRefs, Underway
  <1>3. Moves({c}) /\ proc'[c].pc \in Finished
    BY <1>1, <1>2 DEF Joined, Returns, Grant, NewCall, Finished, Moves
  <1>4. CreationsKept
    <2>1. CASE obj' = Touched(proc[c].sid, obj)
      <3>1. ObjectsKept
        BY <1>1, <1>2, <2>1, TouchedStates
      <3> QED
        BY <1>1, <3>1 DEF ObjectsKept, CreationsKept
    <2>2. CASE obj' = obj
      BY <1>1, <2>2 DEF CreationsKept
    <2> QED
      BY <2>1, <2>2 DEF Joined, Grant
  <1>5. Carried(JobsOf({c}))
    BY <1>1, <1>2, PopCarries
  <1>6. Holders'
    BY <1>1, <1>2, <1>3, StillHolders DEF Moves
  <1> QED
    BY <1>1, <1>3, <1>4, <1>5, <1>6, WaitStep DEF Finished, Underway

-----------------------------------------------------------------------------
(* Requests that hold the lock and go on.                                    *)

\* A teardown that p begins to await changes nothing of the creations.
LEMMA CleanupKeeps ==
    ASSUME Inv, NEW job, NEW v \in Calls, AwaitCleanup(job, v)
    PROVE  \A w \in Calls :
               vm'[w].promise = vm[w].promise /\ vm'[w].state = vm[w].state
  <1>1. /\ \A w \in Calls : vm[w] \in VmRecords
        /\ vm \in [Calls -> VmRecords]
    BY DEF Inv, TypeOK
  <1>2. vm' = [vm EXCEPT ![v].cleanup = IF vm[v].cleanup = "no" THEN "running"
                                        ELSE vm[v].cleanup]
    BY DEF AwaitCleanup
  <1> QED
    BY <1>1, <1>2 DEF VmRecords

\* The dead VM is taken off its session, and its teardown awaited with the
\* lock (gateway.ts:70-72).
LEMMA LockedResetWaits ==
    ASSUME Inv, OrderInv, WaitInv, NEW c \in Calls, LockedReset(c)
    PROVE  WaitInv'
  <1> DEFINE s == proc[c].sid
             o == sessions[s]
             v == obj[o].vm
  <1>1. /\ c \in Procs /\ Resumes(c, "locked") /\ UNCHANGED sessionLocks
        /\ AwaitCleanup(Call(c), v) /\ o # None /\ v # None
        /\ obj' = [obj EXCEPT ![o] = [@ EXCEPT !.vm = None, !.state = "creating"]]
        /\ proc' = [proc EXCEPT ![c].pc = "resetting", ![c].obj = o]
    BY DEF Procs, LockedReset
  <1>2. /\ s \in SessionIds /\ proc[c].pc = "locked" /\ Call(c) \in Jobs
        /\ JobsOf({c}) = {Call(c)} /\ Runs(JobsOf({c}))
        /\ proc \in [Procs -> ProcRecords] /\ obj \in [Calls -> SessionRecords]
    BY <1>1, Running, Mover DEF Inv, ProcRefs, Underway, TypeOK
  <1>3. o \in Calls /\ v \in Calls
    BY <1>1, <1>2, TableObject
  <1>4. Moves({c}) /\ proc'[c].pc = "resetting" /\ proc'[c].sid = proc[c].sid
    <2>1. proc[c] \in ProcRecords
      BY <1>1, <1>2
    <2> HIDE DEF o
    <2> QED
      BY <1>1, <1>2, <2>1 DEF Moves, ProcRecords
  <1>5. \A x \in Calls : obj'[x].creation = obj[x].creation
    <2>1. obj[o] \in SessionRecords
      BY <1>2, <1>3
    <2> HIDE DEF o
    <2> QED
      BY <1>1, <1>2, <2>1 DEF SessionRecords
  <1> HIDE DEF v
  <1>6. CreationsKept
    BY <1>1, <1>3, <1>5, CleanupKeeps DEF CreationsKept
  <1>7. /\ Carried(JobsOf({c})) /\ OnQueue(Call(c))'
        /\ \A r \in Promises \ {CleanupOf(v)} : waiters'[r] = waiters[r]
    BY <1>1, <1>2, <1>3, CleanupCarries
  <1>8. Holders'
    BY <1>1, <1>2, <1>3, <1>4, <1>7, PromiseNames, StillHolders DEF Moves
  <1> QED
    BY <1>3, <1>4, <1>6, <1>7, <1>8, PromiseNames, WaitStep

\* The lock is given back, and the creation v awaited: it has not settled.
LEMMA JoinWaits ==
    ASSUME Inv, OrderInv, WaitInv, NEW c \in Calls, NEW v \in Calls,
           Resumes(c, "locked") \/ Resumes(c, "resetting"),
           JoinAndUnlock(c, v)
    PROVE  /\ Holders' /\ Everybody' /\ Carried(JobsOf({c}))
           /\ \A w \in Calls \ {v} :
                  waiters'[CreationOf(w)] = waiters[CreationOf(w)]
  <1> DEFINE s == proc[c].sid
  <1>1. c \in Procs /\ proc[c].pc \in {"locked", "resetting"} /\ Head(micro) = Call(c)
    BY DEF Procs, Resumes
  <1>2. /\ s \in SessionIds /\ Call(c) \in Jobs
        /\ JobsOf({c}) = {Call(c)} /\ Runs(JobsOf({c}))
        /\ proc \in [Procs -> ProcRecords]
    BY <1>1, Mover DEF Inv, ProcRefs, Underway
  <1>3. Moves({c}) /\ Unlock(s)
    BY <1>1, <1>2 DEF JoinAndUnlock, Moves
  <1>4. /\ Carried(JobsOf({c})) /\ OnQueue(Call(c))'
        /\ Elems(waiters'[LockOf(s)]) = {}
        /\ \A r \in Promises \ {LockOf(s), CreationOf(v)} : waiters'[r] = waiters[r]
    BY <1>2, JoinCarries
  <1>5. \A w \in Calls \ {v} : waiters'[CreationOf(w)] = waiters[CreationOf(w)]
    BY <1>2, <1>4, PromiseNames
  <1>6. \A t \in SessionIds \ {s} : waiters'[LockOf(t)] = waiters[LockOf(t)]
    BY <1>2, <1>4, PromiseNames
  <1>7. Holders'
    BY <1>1, <1>3, <1>4, <1>6, LockReturned
  <1>8. Everybody'
    BY <1>3, <1>4, StillEverybody
  <1> QED
    BY <1>4, <1>5, <1>7, <1>8

\* The session found under the lock has a creation (gateway.ts:81).
LEMMA LockedJoinWaits ==
    ASSUME Inv, OrderInv, WaitInv, NEW c \in Calls, LockedJoin(c)
    PROVE  WaitInv'
  <1> DEFINE v == obj[sessions[proc[c].sid]].creation
  <1>1. /\ Resumes(c, "locked") /\ JoinAndUnlock(c, v) /\ UNCHANGED <<obj, vm>>
        /\ c \in Procs
    BY DEF LockedJoin, Procs
  <1>2. proc[c].sid \in SessionIds
    BY <1>1, Running DEF Inv, ProcRefs, Underway
  <1>3. v \in Calls /\ Unsettled(v)
    BY <1>2, TableObject DEF LockedJoin, WaitInv, Creations
  <1>4. CreationsKept
    BY <1>1 DEF CreationsKept
  <1> HIDE DEF v
  <1>5. /\ Holders' /\ Everybody' /\ Carried(JobsOf({c}))
        /\ \A w \in Calls \ {v} : waiters'[CreationOf(w)] = waiters[CreationOf(w)]
    BY <1>1, <1>3, JoinWaits
  <1>6. Creations'
    BY <1>3, <1>4, <1>5, StillCreations
  <1> QED
    BY <1>5, <1>6 DEF WaitInv

\* c makes a VM for the Session object o, and awaits it.
LEMMA ProvisionWaits ==
    ASSUME Inv, OrderInv, WaitInv, NEW c \in Calls, NEW o \in Calls,
           Resumes(c, "locked") \/ Resumes(c, "resetting"),
           JoinAndUnlock(c, c),
           vm'[c].promise = "pending", vm'[c].state = "creating",
           \A v \in Calls \ {c} : vm'[v] = vm[v],
           \A x \in Calls \ {o} : obj'[x].creation \in {obj[x].creation, None},
           obj'[o].creation = c
    PROVE  WaitInv'
  <1>1. /\ Holders' /\ Everybody' /\ Carried(JobsOf({c}))
        /\ \A w \in Calls \ {c} : waiters'[CreationOf(w)] = waiters[CreationOf(w)]
    BY JoinWaits
  <1>2. ASSUME NEW v \in Calls
        PROVE  /\ vm'[v].promise = "pending" => vm'[v].state = "creating"
               /\ vm'[v].promise = "discarding" => OnQueue(Handler(v))'
               /\ Elems(waiters'[CreationOf(v)]) # {} => Unsettled(v)'
    <2>1. CASE v = c
      BY <2>1 DEF Unsettled
    <2>2. CASE v # c
      <3>1. vm'[v] = vm[v] /\ waiters'[CreationOf(v)] = waiters[CreationOf(v)]
        BY <1>1, <2>2
      <3> QED
        BY <1>1, <3>1, StillHandled DEF WaitInv, Creations, Unsettled
    <2> QED
      BY <2>1, <2>2
  <1>3. ASSUME NEW x \in Calls, obj'[x].creation # None
        PROVE  vm'[obj'[x].creation].promise \in {"pending", "discarding"}
    <2>1. CASE x = o
      BY <2>1
    <2>2. CASE x # o
      <3>1. obj'[x].creation = obj[x].creation /\ obj[x].creation \in Calls
        BY <1>3, <2>2 DEF Inv, TypeOK, SessionRecords
      <3> QED
        BY <1>3, <3>1 DEF WaitInv, Creations, Unsettled
    <2> QED
      BY <2>1, <2>2
  <1>4. Creations'
    BY <1>2, <1>3 DEF Creations, Unsettled
  <1> QED
    BY <1>1, <1>4 DEF WaitInv

\* A session is made with its VM, or its VM alone (gateway.ts:66, 81-90).
LEMMA LockedCreateWaits ==
    ASSUME Inv, OrderInv, WaitInv, NEW c \in Calls, LockedCreate(c)
    PROVE  WaitInv'
  <1> DEFINE s == proc[c].sid
  <1>1. /\ Resumes(c, "locked") /\ c \in Procs /\ obj \in [Calls -> SessionRecords]
        /\ vm \in [Calls -> VmRecords] /\ sessions \in [SessionIds -> Calls \cup {None}]
    BY DEF LockedCreate, Procs, Inv, TypeOK
  <1>2. s \in SessionIds
    BY <1>1, Running DEF Inv, ProcRefs, Underway
  <1>3. CASE /\ sessions[s] = None
             /\ StartCreation(c, c, [obj EXCEPT ![c] = NewSession(c)])
    <2>1. /\ JoinAndUnlock(c, c)
          /\ vm'[c].promise = "pending" /\ vm'[c].state = "creating"
          /\ \A v \in Calls \ {c} : vm'[v] = vm[v]
      BY <1>1, <1>3 DEF StartCreation
    <2>2. /\ \A x \in Calls \ {c} : obj'[x] = obj[x]
          /\ obj'[c].creation = c
      BY <1>1, <1>3 DEF StartCreation, NewSession
    <2> QED
      BY <1>1, <2>1, <2>2, ProvisionWaits
  <1>4. CASE sessions[s] # None /\ StartCreation(c, sessions[s], obj)
    <2> DEFINE o == sessions[s]
    <2>1. o \in Calls
      BY <1>1, <1>2, <1>4
    <2> HIDE DEF o
    <2>2. StartCreation(c, o, obj)
      BY <1>4 DEF o
    <2>3. /\ JoinAndUnlock(c, c)
          /\ vm'[c].promise = "pending" /\ vm'[c].state = "creating"
          /\ \A v \in Calls \ {c} : vm'[v] = vm[v]
      BY <1>1, <2>2 DEF StartCreation
    <2>4. obj[o] \in SessionRecords /\ obj' = [obj EXCEPT ![o].creation = c]
      BY <1>1, <2>1, <2>2 DEF StartCreation
    <2>5. /\ \A x \in Calls \ {o} : obj'[x] = obj[x]
          /\ obj'[o].creation = c
      BY <1>1, <2>1, <2>4 DEF SessionRecords
    <2> QED
      BY <1>1, <2>1, <2>3, <2>5, ProvisionWaits
  <1> QED
    BY <1>3, <1>4 DEF LockedCreate

\* After the reset the session has its next VM made (gateway.ts:81-90).
LEMMA RecreateWaits ==
    ASSUME Inv, OrderInv, WaitInv, NEW c \in Calls, Recreate(c)
    PROVE  WaitInv'
  <1> DEFINE o == proc[c].obj
  <1>1. /\ Resumes(c, "resetting") /\ c \in Procs /\ obj \in [Calls -> SessionRecords]
        /\ vm \in [Calls -> VmRecords]
    BY DEF Recreate, Procs, Inv, TypeOK
  <1>2. o \in Calls /\ obj[o].creation = None
    BY <1>1, Running DEF Inv, ProcRefs, Reset
  <1> HIDE DEF o
  <1>3. StartCreation(c, o, obj)
    BY <1>2 DEF Recreate, o
  <1>4. /\ JoinAndUnlock(c, c)
        /\ vm'[c].promise = "pending" /\ vm'[c].state = "creating"
        /\ \A v \in Calls \ {c} : vm'[v] = vm[v]
    BY <1>1, <1>3 DEF StartCreation
  <1>5. obj[o] \in SessionRecords /\ obj' = [obj EXCEPT ![o].creation = c]
    BY <1>1, <1>2, <1>3 DEF StartCreation
  <1>6. /\ \A x \in Calls \ {o} : obj'[x] = obj[x]
        /\ obj'[o].creation = c
    BY <1>1, <1>2, <1>5 DEF SessionRecords
  <1> QED
    BY <1>1, <1>2, <1>4, <1>6, ProvisionWaits

-----------------------------------------------------------------------------
(* The life of a VM.                                                         *)

\* No process moves in these steps, and no lock.
LEMMA EventKeeps ==
    ASSUME Inv, WaitInv, UNCHANGED <<proc, sessionLocks>>, NEW S, Carried(S),
           \A p \in Procs : Call(p) \notin S,
           \A s \in SessionIds : waiters'[LockOf(s)] = waiters[LockOf(s)]
    PROVE  Holders' /\ Everybody'
  <1>1. Holders'
    BY StillHolders
  <1>2. Everybody'
    <2> SUFFICES ASSUME NEW p \in Procs, proc'[p].pc \in Underway
                 PROVE  OnQueue(Call(p))'
      BY DEF Everybody
    <2>1. OnQueue(Call(p)) /\ Call(p) \notin S
      BY DEF WaitInv, Everybody
    <2> QED
      BY <2>1, Carries
  <1> QED
    BY <1>1, <1>2

\* The creation v settles, is forgotten by its session, and whoever awaited it
\* is released.
LEMMA SettledWaits ==
    ASSUME Inv, OrderInv, WaitInv, NEW v \in Calls, NEW S, Runs(S),
           S = {} \/ S = {Handler(v)},
           Settle(CreationOf(v)), UNCHANGED <<proc, sessionLocks>>,
           vm'[v].promise \in {"fulfilled", "rejected"},
           \A w \in Calls \ {v} : vm'[w] = vm[w],
           vm[v].session \in Calls, obj'[vm[v].session].creation = None,
           \A o \in Calls \ {vm[v].session} : obj'[o].creation = obj[o].creation
    PROVE  WaitInv'
  <1>1. /\ Carried(S) /\ Elems(waiters'[CreationOf(v)]) = {}
        /\ \A r \in Promises \ {CreationOf(v)} : waiters'[r] = waiters[r]
    BY PromiseNames, SettleCarries
  <1>2. \A p \in Procs : Call(p) \notin S
    BY DEF Call, Handler
  <1>3. Holders' /\ Everybody'
    BY <1>1, <1>2, PromiseNames, EventKeeps
  <1>4. ASSUME NEW w \in Calls
        PROVE  /\ vm'[w].promise = "pending" => vm'[w].state = "creating"
               /\ vm'[w].promise = "discarding" => OnQueue(Handler(w))'
               /\ Elems(waiters'[CreationOf(w)]) # {} => Unsettled(w)'
    <2>1. CASE w = v
      BY <1>1, <2>1
    <2>2. CASE w # v
      <3>1. vm'[w] = vm[w] /\ waiters'[CreationOf(w)] = waiters[CreationOf(w)]
        BY <1>1, <2>2, PromiseNames
      <3>2. Handler(w) \notin S
        BY <2>2 DEF Handler
      <3> QED
        BY <1>1, <3>1, <3>2, Carries DEF WaitInv, Creations, Unsettled
    <2> QED
      BY <2>1, <2>2
  <1>5. ASSUME NEW o \in Calls, obj'[o].creation # None
        PROVE  vm'[obj'[o].creation].promise \in {"pending", "discarding"}
    <2>1. o # vm[v].session
      BY <1>5
    <2>2. obj'[o].creation = obj[o].creation /\ obj[o].creation \in Calls
      BY <1>5, <2>1 DEF Inv, TypeOK, SessionRecords
    <2>3. vm[obj[o].creation].session = o
      BY <1>5, <2>2 DEF Inv, ObjRefs
    <2>4. vm'[obj[o].creation] = vm[obj[o].creation]
      BY <2>1, <2>2, <2>3
    <2> QED
      BY <1>5, <2>2, <2>4 DEF WaitInv, Creations, Unsettled
  <1>6. Creations'
    BY <1>4, <1>5 DEF Creations, Unsettled
  <1> QED
    BY <1>3, <1>6 DEF WaitInv

\* createVm delivers a VM that is wanted, or rejects, or its unwanted VM is
\* torn down (gateway.ts:90-103).
LEMMA SettledSteps ==
    ASSUME Inv, OrderInv, WaitInv, NEW v \in Calls,
           Attach(v) \/ CreateFails(v) \/ Discarded(v)
    PROVE  WaitInv'
  <1> DEFINE o == vm[v].session
  <1>1. /\ vm \in [Calls -> VmRecords] /\ obj \in [Calls -> SessionRecords]
        /\ vm[v] \in VmRecords /\ UNCHANGED <<proc, sessionLocks>>
        /\ Settle(CreationOf(v))
    BY DEF Inv, TypeOK, Attach, CreateFails, Discarded
  <1>2. o \in Calls /\ obj[o] \in SessionRecords
    <2>1. vm[v].state # "none"
      BY DEF Attach, CreateFails, Discarded, Inv, CreationHeld
    <2> QED
      BY <1>1, <2>1 DEF Inv, VmRefs
  <1>3. /\ vm'[v].promise \in {"fulfilled", "rejected"}
        /\ \A w \in Calls \ {v} : vm'[w] = vm[w]
    <2>1. CASE Attach(v)
      BY <1>1, <2>1 DEF Attach, VmRecords
    <2>2. CASE CreateFails(v)
      BY <1>1, <2>2 DEF CreateFails, VmRecords
    <2>3. CASE Discarded(v)
      BY <1>1, <2>3 DEF Discarded, VmRecords
    <2> QED
      BY <2>1, <2>2, <2>3
  <1>4. /\ obj'[o].creation = None
        /\ \A x \in Calls \ {o} : obj'[x].creation = obj[x].creation
    <2> HIDE DEF o
    <2>1. CASE obj' = [obj EXCEPT ![o] =
                   [@ EXCEPT !.vm = v, !.state = "active", !.creation = None]]
      BY <1>1, <1>2, <2>1 DEF SessionRecords
    <2>2. CASE obj' = [obj EXCEPT ![o].creation = None]
      BY <1>1, <1>2, <2>2 DEF SessionRecords
    <2> QED
      BY <2>1, <2>2 DEF Attach, CreateFails, Discarded, o
  <1>5. \E S \in {{}, {Handler(v)}} : Runs(S)
    BY DEF Attach, CreateFails, Discarded, Runs
  <1> QED
    BY <1>1, <1>2, <1>3, <1>4, <1>5, SettledWaits

\* createVm delivers an unwanted VM, and the handler awaits its teardown.
LEMMA DiscardWaits ==
    ASSUME Inv, OrderInv, WaitInv, NEW v \in Calls, Discard(v)
    PROVE  WaitInv'
  <1>1. /\ vm \in [Calls -> VmRecords] /\ vm[v] \in VmRecords
        /\ UNCHANGED <<proc, sessionLocks, obj>> /\ Runs({})
        /\ Await(Handler(v), CleanupOf(v)) /\ Unsettled(v)
    BY DEF Inv, TypeOK, Discard, Runs, CreationHeld, Unsettled
  <1>2. /\ vm'[v].promise = "discarding"
        /\ \A w \in Calls \ {v} : vm'[w] = vm[w]
    BY <1>1 DEF Discard, VmRecords
  <1>3. /\ Carried({}) /\ OnQueue(Handler(v))'
        /\ \A r \in Promises \ {CleanupOf(v)} : waiters'[r] = waiters[r]
    BY <1>1, Names, AwaitCarries
  <1>4. Holders' /\ Everybody'
    BY <1>1, <1>3, PromiseNames, EventKeeps
  <1>5. ASSUME NEW w \in Calls
        PROVE  /\ vm'[w].promise = "pending" => vm'[w].state = "creating"
               /\ vm'[w].promise = "discarding" => OnQueue(Handler(w))'
               /\ Unsettled(w) => Unsettled(w)'
               /\ waiters'[CreationOf(w)] = waiters[CreationOf(w)]
    <2>1. waiters'[CreationOf(w)] = waiters[CreationOf(w)]
      BY <1>3, PromiseNames
    <2>2. CASE w = v
      BY <1>2, <1>3, <2>1, <2>2 DEF Unsettled
    <2>3. CASE w # v
      <3>1. vm'[w] = vm[w]
        BY <1>2, <2>3
      <3> QED
        BY <1>3, <2>1, <3>1, Carries DEF WaitInv, Creations, Unsettled
    <2> QED
      BY <2>2, <2>3
  <1>6. \A o \in Calls : obj[o].creation \in Calls \cup {None}
    BY DEF Inv, TypeOK, SessionRecords
  <1>7. Creations'
    BY <1>1, <1>5, <1>6 DEF WaitInv, Creations, Unsettled
  <1> QED
    BY <1>4, <1>7 DEF WaitInv

\* A teardown ends, a process exits, a session goes idle.
LEMMA EventWaits ==
    ASSUME Inv, OrderInv, WaitInv,
           \/ \E v \in Calls : CleanupDone(v) \/ ProcessExits(v)
           \/ \E s \in SessionIds : GoIdle(s)
    PROVE  WaitInv'
  <1>1. /\ UNCHANGED <<proc, sessionLocks>> /\ Runs({}) /\ JobsOf({}) = {}
        /\ vm \in [Calls -> VmRecords] /\ obj \in [Calls -> SessionRecords]
        /\ \A v \in Calls : vm[v] \in VmRecords
        /\ \A o \in Calls : obj[o] \in SessionRecords
    BY DEF CleanupDone, ProcessExits, GoIdle, Runs, JobsOf, Inv, TypeOK
  <1>2. CreationsKept
    <2>1. ASSUME NEW v \in Calls, CleanupDone(v)
          PROVE  CreationsKept
      BY <1>1, <2>1 DEF CleanupDone, CreationsKept, VmRecords
    <2>2. ASSUME NEW v \in Calls, ProcessExits(v)
          PROVE  CreationsKept
      BY <1>1, <2>2 DEF ProcessExits, CreationsKept, VmRecords
    <2>3. ASSUME NEW s \in SessionIds, GoIdle(s)
          PROVE  CreationsKept
      <3>1. vm' = vm /\ sessions[s] \in Calls
        BY <2>3 DEF GoIdle, Inv, TypeOK
      <3>2. obj' = [obj EXCEPT ![sessions[s]].idle = TRUE]
        BY <2>3 DEF GoIdle
      <3> QED
        BY <1>1, <3>1, <3>2 DEF CreationsKept, SessionRecords
    <2> QED
      BY <2>1, <2>2, <2>3
  <1>3. /\ Carried({})
        /\ \A r \in Promises :
               waiters'[r] = waiters[r] \/ \E v \in Calls : r = CleanupOf(v)
    <2>1. ASSUME NEW v \in Calls, CleanupDone(v)
          PROVE  Carried({}) /\ \A r \in Promises \ {CleanupOf(v)} : waiters'[r] = waiters[r]
      BY <1>1, <2>1, PromiseNames, SettleCarries DEF CleanupDone
    <2>2. CASE UNCHANGED <<micro, waiters>>
      BY <2>2, StayCarries
    <2> QED
      BY <2>1, <2>2 DEF ProcessExits, GoIdle
  <1>4. /\ \A s \in SessionIds : waiters'[LockOf(s)] = waiters[LockOf(s)]
        /\ \A v \in Calls : waiters'[CreationOf(v)] = waiters[CreationOf(v)]
    BY <1>3, PromiseNames
  <1>5. Holders' /\ Everybody'
    BY <1>1, <1>3, <1>4, EventKeeps
  <1>6. Creations'
    BY <1>1, <1>2, <1>3, <1>4, StillCreations
  <1> QED
    BY <1>5, <1>6 DEF WaitInv

-----------------------------------------------------------------------------
(* Destructions.                                                             *)

\* A destruction begins: it awaits the creation, if there is one, or runs on.
LEMMA BeginDestroyWaits ==
    ASSUME Inv, OrderInv, WaitInv, NEW p \in Procs, NEW s \in SessionIds,
           NEW owner, Quiet, proc[p].pc = "new", BeginDestroy(p, s, owner)
    PROVE  WaitInv'
  <1> DEFINE o == sessions[s]
             v == obj[o].creation
  <1>1. /\ o \in Calls /\ obj[o] \in SessionRecords /\ obj \in [Calls -> SessionRecords]
        /\ obj' = [obj EXCEPT ![o].state = "destroying"]
        /\ UNCHANGED <<vm, sessionLocks>>
    BY DEF BeginDestroy, Inv, TypeOK
  <1>2. /\ Call(p) \in Jobs /\ JobsOf({p}) = {Call(p)} /\ Runs(JobsOf({p}))
        /\ proc \in [Procs -> ProcRecords]
    BY Mover
  <1>3. Moves({p})
    BY <1>2 DEF BeginDestroy, Moves
  <1>4. CreationsKept
    <2> HIDE DEF o
    <2> QED
      BY <1>1 DEF CreationsKept, SessionRecords
  <1>5. /\ Carried(JobsOf({p})) /\ OnQueue(Call(p))'
        /\ \/ UNCHANGED waiters
           \/ /\ v \in Calls /\ Unsettled(v)
              /\ \A r \in Promises \ {CreationOf(v)} : waiters'[r] = waiters[r]
    <2>1. CASE v = None
      <3>1. micro' = Append(Rest, Call(p)) /\ UNCHANGED waiters
        BY <2>1 DEF BeginDestroy
      <3> QED
        BY <1>2, <3>1, RequeueCarries
    <2>2. CASE v # None
      <3>1. v \in Calls /\ Unsettled(v)
        BY <1>1, <2>2 DEF WaitInv, Creations, SessionRecords
      <3>2. Await(Call(p), CreationOf(v))
        BY <2>2 DEF BeginDestroy
      <3> HIDE DEF v
      <3> QED
        BY <1>2, <3>1, <3>2, PromiseNames, AwaitCarries
    <2> QED
      BY <2>1, <2>2
  <1> HIDE DEF v
  <1>6. /\ \A w \in Calls :
               waiters'[CreationOf(w)] = waiters[CreationOf(w)] \/ Unsettled(w)
        /\ \A t \in SessionIds : waiters'[LockOf(t)] = waiters[LockOf(t)]
    BY <1>5, PromiseNames
  <1>7. Holders'
    BY <1>1, <1>3, <1>6, StillHolders DEF Moves
  <1> QED
    BY <1>3, <1>4, <1>5, <1>6, <1>7, WaitStep

\* It awaits the teardown of the session's VM (session.ts:57-60).
LEMMA DestroyVmWaits ==
    ASSUME Inv, OrderInv, WaitInv, NEW p \in Procs, DestroyVm(p)
    PROVE  WaitInv'
  <1> DEFINE v == obj[proc[p].obj].vm
  <1>1. /\ Resumes(p, "awaitCreation") /\ AwaitCleanup(Call(p), v)
        /\ v # None /\ UNCHANGED <<obj, sessionLocks>>
    BY DEF DestroyVm
  <1>2. /\ Call(p) \in Jobs /\ JobsOf({p}) = {Call(p)} /\ Runs(JobsOf({p}))
        /\ proc \in [Procs -> ProcRecords] /\ proc[p].pc = "awaitCreation"
    BY <1>1, Running, Mover
  <1>3. v \in Calls
    BY <1>1, <1>2 DEF Inv, ProcRefs, TypeOK, SessionRecords
  <1>4. Moves({p})
    BY <1>2 DEF DestroyVm, Goes, Moves
  <1> HIDE DEF v
  <1>5. CreationsKept
    BY <1>1, <1>3, CleanupKeeps DEF CreationsKept
  <1>6. /\ Carried(JobsOf({p})) /\ OnQueue(Call(p))'
        /\ \A r \in Promises \ {CleanupOf(v)} : waiters'[r] = waiters[r]
    BY <1>1, <1>2, <1>3, CleanupCarries
  <1>7. Holders'
    BY <1>1, <1>2, <1>3, <1>4, <1>6, PromiseNames, StillHolders DEF Moves
  <1> QED
    BY <1>3, <1>4, <1>5, <1>6, <1>7, PromiseNames, WaitStep

\* It ends (session.ts:62-64).
LEMMA DestroyEndsWaits ==
    ASSUME Inv, OrderInv, WaitInv, NEW p \in Procs, DestroyEnds(p)
    PROVE  WaitInv'
  <1>1. PICK at \in {"awaitCreation", "awaitCleanup"} : Resumes(p, at)
    BY DEF DestroyEnds
  <1>2. /\ JobsOf({p}) = {Call(p)} /\ Runs(JobsOf({p}))
        /\ proc \in [Procs -> ProcRecords] /\ proc[p].pc = at
    BY <1>1, Running, Mover
  <1>3. Moves({p}) /\ proc'[p].pc \in {"new", "removed"}
    BY <1>2 DEF DestroyEnds, Returns, NewCall, Moves
  <1>4. CreationsKept /\ UNCHANGED <<sessionLocks, waiters>>
    BY DEF DestroyEnds, CreationsKept
  <1>5. Carried(JobsOf({p}))
    BY <1>2, PopCarries DEF DestroyEnds
  <1>6. Holders'
    BY <1>2, <1>3, <1>4, StillHolders DEF Moves
  <1> QED
    BY <1>3, <1>4, <1>5, <1>6, WaitStep DEF Underway

-----------------------------------------------------------------------------
(* The invariant holds.                                                      *)

LEMMA InitWaits == Init => WaitInv
  <1> SUFFICES ASSUME Init
               PROVE  WaitInv
    OBVIOUS
  <1>1. /\ \A q \in Promises : Elems(waiters[q]) = {}
        /\ \A s \in SessionIds : sessionLocks[s] = None
        /\ \A v \in Calls : vm[v].promise = "none"
        /\ \A o \in Calls : obj[o].creation = None
        /\ \A p \in Procs : proc[p].pc = "new"
    BY EmptyElems DEF Init, NoVm, NoSession, NewCall
  <1>2. Holders /\ Creations
    BY <1>1, PromiseNames DEF Holders, Creations
  <1>3. Everybody
    BY <1>1 DEF Everybody, Underway
  <1> QED
    BY <1>2, <1>3 DEF WaitInv

LEMMA NextWaits == Inv /\ OrderInv /\ WaitInv /\ [Next]_vars => WaitInv'
  <1> SUFFICES ASSUME Inv, OrderInv, WaitInv, [Next]_vars
               PROVE  WaitInv'
    OBVIOUS
  <1>1. CASE UNCHANGED vars
    BY <1>1 DEF vars, WaitInv, Holders, Creations, Unsettled, Everybody, OnQueue
  <1>2. ASSUME NEW c \in Calls, NEW s \in SessionIds, NEW owner \in Callers,
               \/ \E t \in Templates \cup {None} : Send(c, s, owner, t)
               \/ Destroy(c, s, owner) \/ DestroyRefused(c, s, owner)
        PROVE  WaitInv'
    <2>1. CASE Destroy(c, s, owner)
      BY <2>1, BeginDestroyWaits DEF Destroy, Procs
    <2> QED
      BY <1>2, <2>1, SendWaits, DestroyRefusedWaits
  <1>3. ASSUME NEW p \in Procs, Step(p)
        PROVE  WaitInv'
    BY <1>3, LockWaits, UnlockWaits, LockedResetWaits, LockedJoinWaits,
       LockedCreateWaits, RecreateWaits, JoinedWaits, DestroyVmWaits,
       DestroyEndsWaits DEF Step
  <1>4. ASSUME NEW v \in Calls,
               \/ Attach(v) \/ Discard(v) \/ Discarded(v) \/ CreateFails(v)
               \/ CleanupDone(v) \/ ProcessExits(v)
        PROVE  WaitInv'
    BY <1>4, SettledSteps, DiscardWaits, EventWaits
  <1>5. ASSUME NEW s \in SessionIds, GoIdle(s) \/ Reap(s)
        PROVE  WaitInv'
    <2>1. CASE Reap(s)
      BY <2>1, BeginDestroyWaits DEF Reap, Procs
    <2> QED
      BY <1>5, <2>1, EventWaits
  <1> QED
    BY <1>1, <1>2, <1>3, <1>4, <1>5 DEF Next

LEMMA WaitInvariance == Spec => [](Inv /\ OrderInv /\ WaitInv)
  BY InitInv, NextInv, InitOrder, NextOrder, InitWaits, NextWaits, PTL DEF Spec

-----------------------------------------------------------------------------
(* Nobody is stranded.                                                       *)

\* A continuation in a queue awaits the promise.
LEMMA AwaitsQueue ==
    ASSUME NEW p, NEW q
    PROVE  Awaits(p, q) <=> Call(p) \in Elems(waiters[q])
  BY DEF Awaits, Elems

\* At rest, who awaits a creation or a teardown awaits one that is under way.
LEMMA AtWork ==
    ASSUME Inv, OrderInv, WaitInv, Quiet, NEW p \in Procs,
           proc[p].pc \in Underway \ {"lockWait"}
    PROVE  AwaitsWork(p)
  <1>1. Elems(micro) = {}
    BY EmptyElems DEF Quiet
  <1>2. PICK q \in Promises : Call(p) \in Elems(waiters[q])
    BY <1>1 DEF WaitInv, Everybody, OnQueue
  <1>3. Call(p).kind = "call" /\ Call(p).who = p
    BY JobNames
  <1>4. ASSUME NEW s \in SessionIds, q = LockOf(s)
        PROVE  FALSE
    BY <1>2, <1>3, <1>4 DEF OrderInv, LockQueues
  <1>5. ASSUME NEW v \in Calls, q = CreationOf(v)
        PROVE  AwaitsWork(p)
    <2>1. Awaits(p, CreationOf(v)) /\ Unsettled(v)
      BY <1>2, <1>5, AwaitsQueue DEF WaitInv, Creations
    <2>2. CASE vm[v].promise = "pending"
      BY <2>1, <2>2 DEF WaitInv, Creations, AwaitsWork
    <2>3. CASE vm[v].promise = "discarding"
      <3>1. PICK r \in Promises : Handler(v) \in Elems(waiters[r])
        BY <1>1, <2>3 DEF WaitInv, Creations, OnQueue
      <3>2. Handler(v).kind = "create" /\ Handler(v).who = v
        BY JobNames
      <3>3. ASSUME NEW s \in SessionIds, r = LockOf(s)
            PROVE  FALSE
        BY <3>1, <3>2, <3>3 DEF OrderInv, LockQueues
      <3>4. ASSUME NEW w \in Calls, r = CreationOf(w)
            PROVE  FALSE
        BY <3>1, <3>2, <3>4 DEF OrderInv, CreationQueues, AwaitsCreation
      <3>5. ASSUME NEW w \in Calls, r = CleanupOf(w)
            PROVE  vm[v].cleanup = "running"
        <4>1. vm[w].cleanup = "running" /\ Handler(v) = Handler(w)
          BY <3>1, <3>2, <3>5 DEF OrderInv, CleanupQueues, TeardownQueue
        <4>2. v = w
          BY <4>1 DEF Handler
        <4> QED
          BY <4>1, <4>2
      <3>6. vm[v].cleanup = "running"
        BY <3>3, <3>4, <3>5 DEF Promises, LockOf, CreationOf, CleanupOf
      <3> QED
        BY <2>1, <2>3, <3>6 DEF AwaitsWork
    <2> QED
      BY <2>1, <2>2, <2>3 DEF Unsettled
  <1>6. ASSUME NEW v \in Calls, q = CleanupOf(v)
        PROVE  AwaitsWork(p)
    <2>1. Awaits(p, CleanupOf(v)) /\ vm[v].cleanup = "running"
      BY <1>2, <1>6, AwaitsQueue DEF OrderInv, CleanupQueues, TeardownQueue
    <2> QED
      BY <2>1 DEF AwaitsWork
  <1> QED
    BY <1>4, <1>5, <1>6 DEF Promises, LockOf, CreationOf, CleanupOf

\* Who awaits a lock: it is held, by one that awaits work.
LEMMA AtLock ==
    ASSUME Inv, OrderInv, WaitInv, Quiet, NEW p \in Procs, proc[p].pc = "lockWait"
    PROVE  \E s \in SessionIds :
               /\ Awaits(p, LockOf(s))
               /\ sessionLocks[s] # None
               /\ AwaitsWork(sessionLocks[s])
  <1>1. Elems(micro) = {}
    BY EmptyElems DEF Quiet
  <1>2. PICK q \in Promises : Call(p) \in Elems(waiters[q])
    BY <1>1 DEF WaitInv, Everybody, OnQueue, Underway
  <1>3. Call(p).kind = "call" /\ Call(p).who = p
    BY JobNames
  <1>4. \A v \in Calls : q # CreationOf(v) /\ q # CleanupOf(v)
    BY <1>2, <1>3, AwaitedCreation, AwaitedCleanup
  <1>5. PICK s \in SessionIds : q = LockOf(s)
    BY <1>4 DEF Promises, LockOf, CreationOf, CleanupOf
  <1>6. /\ sessionLocks[s] # None /\ sessionLocks[s] \in Procs
        /\ proc[sessionLocks[s]].pc \in {"locked", "resetting"}
    BY <1>2, <1>5 DEF WaitInv, Holders, Inv, TypeOK, Procs
  <1>7. AwaitsWork(sessionLocks[s])
    BY <1>6, AtWork DEF Underway
  <1> QED
    BY <1>2, <1>5, <1>6, <1>7, AwaitsQueue

\* At rest, every request and reaping that is not over awaits a creation or a
\* teardown that is under way, or the lock of one that does: no promise is
\* settled without its waiters or awaited after it settled, and no circle of
\* lock, creation and teardown (gateway.ts:21-36, 46-103, session.ts:54-61).
THEOREM NobodyIsStranded == Spec => []NobodyStranded
  <1>1. Inv /\ OrderInv /\ WaitInv => NobodyStranded
    <2> SUFFICES ASSUME Inv, OrderInv, WaitInv, Quiet, NEW p \in Procs,
                        proc[p].pc \notin Finished \cup {"new"}
                 PROVE  \/ AwaitsWork(p)
                        \/ \E s \in SessionIds :
                               /\ Awaits(p, LockOf(s))
                               /\ sessionLocks[s] # None
                               /\ AwaitsWork(sessionLocks[s])
      BY DEF NobodyStranded
    <2>1. proc[p].pc \in Underway
      BY DEF Inv, TypeOK, ProcRecords, PCs, Underway, Finished
    <2> QED
      BY <2>1, AtWork, AtLock
  <1> QED
    BY <1>1, WaitInvariance, PTL

=============================================================================
