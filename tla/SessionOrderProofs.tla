------------------------- MODULE SessionOrderProofs -------------------------
(*****************************************************************************)
(* The theorems about SessionGateway that depend on the order in which       *)
(* continuations run.  OrderInv says where each continuation is queued, and  *)
(* that destructions come before the requests that would renew the session.  *)
(* It is inductive together with Inv of SessionGatewayProofs.                *)
(*****************************************************************************)
EXTENDS SessionGatewayProofs, FiniteSetTheorems

-----------------------------------------------------------------------------
(* The inductive invariant.                                                  *)

\* The jobs in a queue; that each is there once.
Elems(q) == {q[i] : i \in 1 .. Len(q)}
Distinct(q) == \A i, k \in 1 .. Len(q) : q[i] = q[k] => i = k

\* What stands between a session's teardown and its next VM, and what ends a
\* session, as the processes are in pr.
Renews(j, pr) == j.kind = "call" /\ pr[j.who].pc \in {"lockWait", "locked", "resetting"}
Removes(j, pr) == j.kind = "call" /\ pr[j.who].pc \in {"awaitCreation", "awaitCleanup"}

\* Destructions come before requests that would renew the session.
Ordered(q, pr) ==
    \A i, k \in 1 .. Len(q) : i < k /\ Renews(q[i], pr) => ~Removes(q[k], pr)

\* A continuation is in one place of one queue.
Singly ==
    /\ Distinct(micro)
    /\ \A q \in Promises :
           /\ Distinct(waiters[q])
           /\ Elems(micro) \cap Elems(waiters[q]) = {}
           /\ \A r \in Promises \ {q} : Elems(waiters[q]) \cap Elems(waiters[r]) = {}

\* The VM of a session object is one that createVm delivered.
Delivered ==
    \A o \in Calls : obj[o].vm # None => vm[obj[o].vm].promise = "fulfilled"

\* Whoever waits for a lock.
LockQueues ==
    \A s \in SessionIds : \A j \in Elems(waiters[LockOf(s)]) :
        j.kind = "call" /\ proc[j.who].pc = "lockWait"

\* Whoever waits for a creation: a destruction does so for the creation its
\* session object has, which is in the table and marked.
AwaitsCreation(j, v) ==
    /\ j.kind = "call"
    /\ \/ proc[j.who].pc = "joining"
       \/ /\ proc[j.who].pc = "awaitCreation"
          /\ obj[proc[j.who].obj].creation = v
          /\ obj[proc[j.who].obj].state = "destroying"
          /\ sessions[proc[j.who].sid] = proc[j.who].obj

CreationQueues ==
    \A v \in Calls : \A j \in Elems(waiters[CreationOf(v)]) : AwaitsCreation(j, v)

\* p waits for the teardown of its session object's VM v: the session is as it
\* was, or a request that waits for the same will renew it later.
AwaitsTeardown(p, v) ==
    LET o == proc[p].obj IN
    /\ obj[o].state # "active"
    /\ sessions[proc[p].sid] \in {o, None}
    /\ \/ obj[o].vm = v /\ sessions[proc[p].sid] = o
       \/ \E c \in Calls :
              proc[c].pc = "resetting" /\ Call(c) \in Elems(waiters[CleanupOf(v)])

\* Whoever waits for a teardown: the handler of an unwanted VM, or what knows
\* the VM from its session object.
TeardownQueue(v) ==
    /\ Ordered(waiters[CleanupOf(v)], proc)
    /\ \A j \in Elems(waiters[CleanupOf(v)]) :
           /\ vm[v].cleanup = "running"
           /\ \/ j = Handler(v) /\ vm[v].promise = "discarding"
              \/ /\ j.kind = "call" /\ vm[v].promise = "fulfilled"
                 /\ proc[j.who].obj = vm[v].session
                 /\ \/ j.who \in Calls /\ proc[j.who].pc = "resetting"
                    \/ proc[j.who].pc = "awaitCleanup" /\ AwaitsTeardown(j.who, v)

CleanupQueues == \A v \in Calls : TeardownQueue(v)

\* p's destruction goes on before anything else happens to its session.
GoesOn(p) ==
    LET o == proc[p].obj IN
    /\ obj[o].state # "active"
    /\ sessions[proc[p].sid] \in {o, None}
    /\ sessions[proc[p].sid] = o => obj[o].creation = None
    /\ proc[p].pc = "awaitCreation" =>
           obj[o].vm = None \/ (sessions[proc[p].sid] = o /\ Len(micro) = 1)
    /\ proc[p].pc = "awaitCleanup" =>
           obj[o].vm = None \/ vm[obj[o].vm].cleanup = "done"

\* Whoever is about to run.
MicroQueue ==
    /\ Ordered(micro, proc)
    /\ \A j \in Elems(micro) :
           /\ j.kind = "create" => Len(micro) = 1
           /\ j.kind = "call" => proc[j.who].pc \in Underway
           /\ Removes(j, proc) => GoesOn(j.who)

\* A destruction is somewhere on its way.
Pending ==
    \A p \in Procs : Destroying(p) =>
        \/ Call(p) \in Elems(micro)
        \/ \E q \in Promises : Call(p) \in Elems(waiters[q])

OrderInv ==
    /\ Singly /\ Delivered /\ LockQueues /\ CreationQueues /\ CleanupQueues
    /\ MicroQueue /\ Pending

-----------------------------------------------------------------------------
(* Sequences of jobs.                                                        *)

\* The empty queue.
LEMMA EmptyElems ==
    /\ Elems(<<>>) = {} /\ Distinct(<<>>)
    /\ \A pr : Ordered(<<>>, pr)
  BY DEF Elems, Distinct, Ordered

\* What is left of a queue when its head is taken.
LEMMA TailElems ==
    ASSUME NEW q \in Seq(Jobs), q # <<>>, Distinct(q)
    PROVE  /\ Head(q) \in Elems(q) /\ Head(q) \in Jobs
           /\ Tail(q) \in Seq(Jobs) /\ Distinct(Tail(q))
           /\ Elems(Tail(q)) = Elems(q) \ {Head(q)}
           /\ Len(q) = 1 => Elems(Tail(q)) = {}
  <1> DEFINE t == Tail(q)
  <1>1. /\ Len(q) \in Nat /\ Len(q) > 0 /\ Len(t) = Len(q) - 1 /\ Head(q) = q[1]
        /\ \A i \in 1 .. Len(t) : t[i] = q[i + 1]
        /\ t \in Seq(Jobs)
    OBVIOUS
  <1>2. Head(q) \in Elems(q) /\ Head(q) \in Jobs
    BY <1>1 DEF Elems
  <1>3. Distinct(t)
    BY <1>1 DEF Distinct
  <1>4. Elems(t) \subseteq Elems(q) \ {Head(q)}
    BY <1>1 DEF Elems, Distinct
  <1>5. ASSUME NEW j \in Elems(q), j # Head(q)
        PROVE  j \in Elems(t)
    <2>1. PICK i \in 1 .. Len(q) : q[i] = j
      BY DEF Elems
    <2>2. i - 1 \in 1 .. Len(t) /\ t[i - 1] = j
      BY <1>1, <1>5, <2>1
    <2> QED
      BY <2>2 DEF Elems
  <1>6. Len(q) = 1 => Elems(t) = {}
    BY <1>1 DEF Elems
  <1> QED
    BY <1>1, <1>2, <1>3, <1>4, <1>5, <1>6

\* A queue that a job is added to.
LEMMA AppendElems ==
    ASSUME NEW q \in Seq(Jobs), NEW j \in Jobs
    PROVE  /\ Elems(Append(q, j)) = Elems(q) \cup {j}
           /\ Append(q, j) \in Seq(Jobs)
           /\ Len(Append(q, j)) = Len(q) + 1
           /\ Distinct(q) /\ j \notin Elems(q) => Distinct(Append(q, j))
  <1> DEFINE t == Append(q, j)
  <1>1. /\ Len(q) \in Nat /\ Len(t) = Len(q) + 1 /\ t[Len(q) + 1] = j
        /\ \A i \in 1 .. Len(q) : t[i] = q[i]
        /\ t \in Seq(Jobs)
    OBVIOUS
  <1> HIDE DEF t
  <1>2. Elems(t) \subseteq Elems(q) \cup {j}
    BY <1>1 DEF Elems
  <1>3. Elems(q) \subseteq Elems(t) /\ j \in Elems(t)
    BY <1>1 DEF Elems
  <1>4. ASSUME Distinct(q), j \notin Elems(q)
        PROVE  Distinct(t)
    BY <1>1, <1>4 DEF Distinct, Elems
  <1> QED
    BY <1>1, <1>2, <1>3, <1>4 DEF t

\* A queue that another is appended to.
LEMMA ConcatElems ==
    ASSUME NEW q \in Seq(Jobs), NEW r \in Seq(Jobs)
    PROVE  /\ Elems(q \o r) = Elems(q) \cup Elems(r)
           /\ q \o r \in Seq(Jobs)
           /\ Distinct(q) /\ Distinct(r) /\ Elems(q) \cap Elems(r) = {} =>
                  Distinct(q \o r)
  <1> DEFINE t == q \o r
  <1>1. /\ Len(q) \in Nat /\ Len(r) \in Nat /\ Len(t) = Len(q) + Len(r)
        /\ \A i \in 1 .. Len(q) : t[i] = q[i]
        /\ \A i \in Len(q) + 1 .. Len(t) : t[i] = r[i - Len(q)]
        /\ t \in Seq(Jobs)
    OBVIOUS
  <1> HIDE DEF t
  <1>2. ASSUME NEW i \in 1 .. Len(t)
        PROVE  \/ i \in 1 .. Len(q) /\ t[i] = q[i]
               \/ i - Len(q) \in 1 .. Len(r) /\ t[i] = r[i - Len(q)]
    BY <1>1
  <1>3. Elems(t) \subseteq Elems(q) \cup Elems(r)
    BY <1>2 DEF Elems
  <1>4. Elems(q) \subseteq Elems(t)
    BY <1>1 DEF Elems
  <1>5. Elems(r) \subseteq Elems(t)
    <2> SUFFICES ASSUME NEW i \in 1 .. Len(r)
                 PROVE  r[i] \in Elems(t)
      BY DEF Elems
    <2>1. i + Len(q) \in 1 .. Len(t) /\ t[i + Len(q)] = r[i]
      BY <1>1
    <2> QED
      BY <2>1 DEF Elems
  <1>6. ASSUME Distinct(q), Distinct(r), Elems(q) \cap Elems(r) = {}
        PROVE  Distinct(t)
    <2> SUFFICES ASSUME NEW i \in 1 .. Len(t), NEW k \in 1 .. Len(t), t[i] = t[k]
                 PROVE  i = k
      BY DEF Distinct
    <2>1. CASE i \in 1 .. Len(q) /\ k \in 1 .. Len(q)
      BY <1>1, <1>6, <2>1 DEF Distinct
    <2>2. CASE i \in 1 .. Len(q) /\ k \notin 1 .. Len(q)
      <3>1. t[i] \in Elems(q) /\ t[k] \in Elems(r)
        BY <1>1, <1>2, <2>2 DEF Elems
      <3> QED
        BY <1>6, <3>1
    <2>3. CASE i \notin 1 .. Len(q) /\ k \in 1 .. Len(q)
      <3>1. t[i] \in Elems(r) /\ t[k] \in Elems(q)
        BY <1>1, <1>2, <2>3 DEF Elems
      <3> QED
        BY <1>6, <3>1
    <2>4. CASE i \notin 1 .. Len(q) /\ k \notin 1 .. Len(q)
      <3>1. /\ i - Len(q) \in 1 .. Len(r) /\ k - Len(q) \in 1 .. Len(r)
            /\ r[i - Len(q)] = r[k - Len(q)]
        BY <1>2, <2>4
      <3>2. i - Len(q) = k - Len(q)
        BY <1>6, <3>1 DEF Distinct
      <3> QED
        BY <1>1, <3>2
    <2> QED
      BY <2>1, <2>2, <2>3, <2>4
  <1> QED
    BY <1>1, <1>3, <1>4, <1>5, <1>6 DEF t

\* The order of a queue survives the running of its head.
LEMMA TailOrdered ==
    ASSUME NEW q \in Seq(Jobs), q # <<>>, NEW pr, Ordered(q, pr)
    PROVE  /\ Ordered(Tail(q), pr)
           /\ Renews(Head(q), pr) => \A j \in Elems(Tail(q)) : ~Removes(j, pr)
  <1> DEFINE t == Tail(q)
  <1>1. /\ Len(q) \in Nat /\ Len(q) > 0 /\ Len(t) = Len(q) - 1 /\ Head(q) = q[1]
        /\ \A i \in 1 .. Len(t) : t[i] = q[i + 1]
    OBVIOUS
  <1> HIDE DEF t
  <1>2. Ordered(t, pr)
    <2> SUFFICES ASSUME NEW i \in 1 .. Len(t), NEW k \in 1 .. Len(t), i < k,
                        Renews(t[i], pr)
                 PROVE  ~Removes(t[k], pr)
      BY DEF Ordered
    <2>1. /\ i + 1 \in 1 .. Len(q) /\ k + 1 \in 1 .. Len(q) /\ i + 1 < k + 1
          /\ t[i] = q[i + 1] /\ t[k] = q[k + 1]
      BY <1>1
    <2> QED
      BY <2>1 DEF Ordered
  <1>3. ASSUME Renews(Head(q), pr), NEW k \in 1 .. Len(t)
        PROVE  ~Removes(t[k], pr)
    <2>1. /\ 1 \in 1 .. Len(q) /\ k + 1 \in 1 .. Len(q) /\ 1 < k + 1
          /\ t[k] = q[k + 1]
      BY <1>1
    <2> QED
      BY <1>1, <1>3, <2>1 DEF Ordered
  <1> QED
    BY <1>2, <1>3 DEF t, Elems

\* What is appended to a queue keeps its order if it removes nothing, or
\* nothing in the queue renews.
LEMMA AppendOrdered ==
    ASSUME NEW q \in Seq(Jobs), NEW j \in Jobs, NEW pr, Ordered(q, pr),
           ~Removes(j, pr) \/ \A h \in Elems(q) : ~Renews(h, pr)
    PROVE  Ordered(Append(q, j), pr)
  <1> DEFINE t == Append(q, j)
  <1>1. /\ Len(q) \in Nat /\ Len(t) = Len(q) + 1 /\ t[Len(q) + 1] = j
        /\ \A i \in 1 .. Len(q) : t[i] = q[i] /\ q[i] \in Elems(q)
    BY DEF Elems
  <1> HIDE DEF t
  <1> SUFFICES ASSUME NEW i \in 1 .. Len(t), NEW k \in 1 .. Len(t), i < k,
                      Renews(t[i], pr)
               PROVE  ~Removes(t[k], pr)
    BY DEF Ordered, t
  <1>2. i \in 1 .. Len(q) /\ t[i] = q[i] /\ q[i] \in Elems(q)
    BY <1>1
  <1>3. CASE k \in 1 .. Len(q)
    BY <1>1, <1>2, <1>3 DEF Ordered
  <1>4. CASE k = Len(q) + 1
    BY <1>1, <1>2, <1>4
  <1> QED
    BY <1>1, <1>3, <1>4

\* Two queues in a row are ordered if the first has nothing that renews, or
\* the second nothing that removes.
LEMMA ConcatOrdered ==
    ASSUME NEW q \in Seq(Jobs), NEW r \in Seq(Jobs), NEW pr,
           Ordered(q, pr), Ordered(r, pr),
           \/ \A j \in Elems(q) : ~Renews(j, pr)
           \/ \A j \in Elems(r) : ~Removes(j, pr)
    PROVE  Ordered(q \o r, pr)
  <1> DEFINE t == q \o r
  <1>1. /\ Len(q) \in Nat /\ Len(r) \in Nat /\ Len(t) = Len(q) + Len(r)
        /\ \A i \in 1 .. Len(q) : t[i] = q[i]
        /\ \A i \in Len(q) + 1 .. Len(t) : t[i] = r[i - Len(q)]
    OBVIOUS
  <1> HIDE DEF t
  <1> SUFFICES ASSUME NEW i \in 1 .. Len(t), NEW k \in 1 .. Len(t), i < k,
                      Renews(t[i], pr)
               PROVE  ~Removes(t[k], pr)
    BY DEF Ordered, t
  <1>2. CASE k \in 1 .. Len(q)
    BY <1>1, <1>2 DEF Ordered
  <1>3. CASE i \in 1 .. Len(q) /\ k \notin 1 .. Len(q)
    <2>1. t[i] = q[i] /\ k - Len(q) \in 1 .. Len(r) /\ t[k] = r[k - Len(q)]
      BY <1>1, <1>3
    <2> QED
      BY <1>3, <2>1 DEF Elems
  <1>4. CASE i \notin 1 .. Len(q)
    <2>1. /\ i - Len(q) \in 1 .. Len(r) /\ t[i] = r[i - Len(q)]
          /\ k - Len(q) \in 1 .. Len(r) /\ t[k] = r[k - Len(q)]
          /\ i - Len(q) < k - Len(q)
      BY <1>1, <1>4
    <2> QED
      BY <2>1 DEF Ordered
  <1> QED
    BY <1>2, <1>3, <1>4

\* A queue stays ordered if no job in it comes to renew or to remove.
LEMMA KeptOrdered ==
    ASSUME NEW q, NEW pr, NEW pr2, Ordered(q, pr),
           \A j \in Elems(q) :
               /\ Renews(j, pr2) => Renews(j, pr)
               /\ Removes(j, pr2) => Removes(j, pr)
    PROVE  Ordered(q, pr2)
  BY DEF Ordered, Elems

\* A queue is ordered if nothing in it removes, or nothing renews.
LEMMA FreelyOrdered ==
    ASSUME NEW q, NEW pr,
           \/ \A j \in Elems(q) : ~Renews(j, pr)
           \/ \A j \in Elems(q) : ~Removes(j, pr)
    PROVE  Ordered(q, pr)
  BY DEF Ordered, Elems

-----------------------------------------------------------------------------
(* What the steps do to the queues.                                          *)

\* A job is named by its kind and by whose it is.
LEMMA JobNames ==
    /\ \A j \in Jobs : j.kind = "call" => j.who \in Procs /\ j = Call(j.who)
    /\ \A j \in Jobs : j.kind = "create" => j = Handler(j.who)
    /\ \A j \in Jobs : j.kind \in {"call", "create"}
    /\ \A p \in Procs : Call(p).kind = "call" /\ Call(p).who = p
    /\ \A v \in Calls : Handler(v).kind = "create" /\ Handler(v).who = v
  BY DEF Jobs, Call, Handler, Procs

\* The kinds of promises are different, and so are promises of different names.
LEMMA PromiseNames ==
    /\ \A s \in SessionIds : LockOf(s) \in Promises
    /\ \A v \in Calls : CreationOf(v) \in Promises /\ CleanupOf(v) \in Promises
    /\ \A s, t \in SessionIds : LockOf(s) = LockOf(t) => s = t
    /\ \A v, w \in Calls :
           /\ CreationOf(v) = CreationOf(w) => v = w
           /\ CleanupOf(v) = CleanupOf(w) => v = w
           /\ CreationOf(v) # CleanupOf(w)
    /\ \A s \in SessionIds, v \in Calls :
           LockOf(s) # CreationOf(v) /\ LockOf(s) # CleanupOf(v)
  BY DEF Promises, LockOf, CreationOf, CleanupOf

\* The jobs in the queues.
LEMMA Queued ==
    ASSUME TypeOK
    PROVE  /\ micro \in Seq(Jobs) /\ Elems(micro) \subseteq Jobs
           /\ \A q \in Promises :
                  waiters[q] \in Seq(Jobs) /\ Elems(waiters[q]) \subseteq Jobs
  <1>1. micro \in Seq(Jobs) /\ \A q \in Promises : waiters[q] \in Seq(Jobs)
    BY DEF TypeOK
  <1>2. ASSUME NEW q \in Seq(Jobs)
        PROVE  Elems(q) \subseteq Jobs
    BY DEF Elems
  <1> QED
    BY <1>1, <1>2

\* What is left of the microtask queue when its head runs, or an event comes.
LEMMA RestElems ==
    ASSUME TypeOK, Singly
    PROVE  /\ Rest \in Seq(Jobs) /\ Distinct(Rest)
           /\ \A pr : Ordered(micro, pr) => Ordered(Rest, pr)
           /\ ~Quiet =>
                  /\ Head(micro) \in Elems(micro)
                  /\ Elems(Rest) = Elems(micro) \ {Head(micro)}
                  /\ Len(micro) = 1 => Elems(Rest) = {}
                  /\ \A pr : Ordered(micro, pr) /\ Renews(Head(micro), pr) =>
                         \A j \in Elems(Rest) : ~Removes(j, pr)
           /\ Quiet => Rest = <<>> /\ Elems(Rest) = {} /\ Elems(micro) = {}
  <1>1. micro \in Seq(Jobs) /\ Distinct(micro)
    BY DEF TypeOK, Singly
  <1>2. CASE Quiet
    BY <1>1, <1>2, EmptyElems DEF Rest, Quiet
  <1>3. CASE ~Quiet
    <2>1. Rest = Tail(micro) /\ micro # <<>>
      BY <1>3 DEF Rest, Quiet
    <2> QED
      BY <1>1, <1>3, <2>1, TailElems, TailOrdered
  <1> QED
    BY <1>2, <1>3

\* The running step ends.
LEMMA PopMove ==
    ASSUME TypeOK, Singly, micro' = Rest, UNCHANGED waiters
    PROVE  Singly'
  BY RestElems DEF Singly

\* The running step ends, and job is registered for a promise.
LEMMA AwaitMove ==
    ASSUME TypeOK, Singly, NEW job \in Jobs, NEW q \in Promises,
           Await(job, q), job \notin Elems(Rest),
           \A r \in Promises : job \notin Elems(waiters[r])
    PROVE  /\ Singly' /\ micro' = Rest
           /\ waiters'[q] = Append(waiters[q], job)
           /\ Elems(waiters'[q]) = Elems(waiters[q]) \cup {job}
           /\ \A r \in Promises \ {q} : waiters'[r] = waiters[r]
  <1>1. /\ micro' = Rest /\ waiters'[q] = Append(waiters[q], job)
        /\ \A r \in Promises \ {q} : waiters'[r] = waiters[r]
        /\ waiters[q] \in Seq(Jobs)
    BY DEF Await, TypeOK
  <1>2. /\ Elems(waiters'[q]) = Elems(waiters[q]) \cup {job}
        /\ Distinct(waiters'[q])
    BY <1>1, AppendElems DEF Singly
  <1>3. Distinct(micro') /\ Elems(micro') \subseteq Elems(micro) /\ job \notin Elems(micro')
    BY <1>1, RestElems
  <1>4. Singly'
    <2> SUFFICES ASSUME NEW r \in Promises
                 PROVE  /\ Distinct(waiters'[r])
                        /\ Elems(micro') \cap Elems(waiters'[r]) = {}
                        /\ \A s \in Promises \ {r} :
                               Elems(waiters'[r]) \cap Elems(waiters'[s]) = {}
      BY <1>3 DEF Singly
    <2>1. Distinct(waiters'[r])
      <3>1. CASE r = q
        BY <1>2, <3>1
      <3>2. CASE r # q
        BY <1>1, <3>2 DEF Singly
      <3> QED
        BY <3>1, <3>2
    <2>2. ASSUME NEW s \in Promises
          PROVE  Elems(waiters'[s]) \subseteq Elems(waiters[s]) \cup {job}
      <3>1. CASE s = q
        BY <1>2, <3>1
      <3>2. CASE s # q
        BY <1>1, <3>2
      <3> QED
        BY <3>1, <3>2
    <2>3. \A s \in Promises \ {q} : job \notin Elems(waiters'[s])
      BY <1>1
    <2>4. Elems(micro') \cap Elems(waiters'[r]) = {}
      BY <1>3, <2>2 DEF Singly
    <2>5. ASSUME NEW s \in Promises \ {r}
          PROVE  Elems(waiters'[r]) \cap Elems(waiters'[s]) = {}
      <3>1. Elems(waiters[r]) \cap Elems(waiters[s]) = {}
        BY DEF Singly
      <3>2. job \notin Elems(waiters'[r]) \/ job \notin Elems(waiters'[s])
        BY <2>3
      <3>3. s \in Promises
        OBVIOUS
      <3> QED
        BY <2>2, <3>1, <3>2, <3>3
    <2> QED
      BY <2>1, <2>4, <2>5
  <1> QED
    BY <1>1, <1>2, <1>4

\* The running step ends, and job is queued to run.
LEMMA RequeueMove ==
    ASSUME TypeOK, Singly, NEW job \in Jobs,
           micro' = Append(Rest, job), UNCHANGED waiters, job \notin Elems(Rest),
           \A r \in Promises : job \notin Elems(waiters[r])
    PROVE  Singly' /\ Elems(micro') = Elems(Rest) \cup {job}
  <1>1. /\ Elems(micro') = Elems(Rest) \cup {job} /\ Distinct(micro')
        /\ Elems(Rest) \subseteq Elems(micro)
    BY AppendElems, RestElems
  <1> QED
    BY <1>1 DEF Singly

\* The running step ends, and the promise q settles.
LEMMA SettleMove ==
    ASSUME TypeOK, Singly, NEW q \in Promises, Settle(q)
    PROVE  /\ Singly' /\ micro' = Rest \o waiters[q]
           /\ Elems(micro') = Elems(Rest) \cup Elems(waiters[q])
           /\ Elems(waiters'[q]) = {} /\ waiters'[q] = <<>>
           /\ \A r \in Promises \ {q} : waiters'[r] = waiters[r]
  <1>1. /\ micro' = Rest \o waiters[q] /\ waiters'[q] = <<>>
        /\ \A r \in Promises \ {q} : waiters'[r] = waiters[r]
        /\ waiters[q] \in Seq(Jobs)
    BY DEF Settle, TypeOK
  <1>2. /\ Distinct(Rest) /\ Rest \in Seq(Jobs)
        /\ Elems(Rest) \subseteq Elems(micro)
    BY RestElems
  <1>3. /\ Elems(micro') = Elems(Rest) \cup Elems(waiters[q])
        /\ Distinct(micro')
    BY <1>1, <1>2, ConcatElems DEF Singly
  <1>4. Singly'
    <2> SUFFICES ASSUME NEW r \in Promises
                 PROVE  /\ Distinct(waiters'[r])
                        /\ Elems(micro') \cap Elems(waiters'[r]) = {}
                        /\ \A s \in Promises \ {r} :
                               Elems(waiters'[r]) \cap Elems(waiters'[s]) = {}
      BY <1>3 DEF Singly
    <2>1. CASE r = q
      BY <1>1, <2>1, EmptyElems
    <2>2. CASE r # q
      BY <1>1, <1>2, <1>3, <2>2, EmptyElems DEF Singly
    <2> QED
      BY <2>1, <2>2
  <1> QED
    BY <1>1, <1>3, <1>4, EmptyElems

\* The running step gives back the lock and awaits the creation v.
LEMMA JoinMove ==
    ASSUME TypeOK, Singly, NEW c \in Calls, NEW v \in Calls,
           proc[c].sid \in SessionIds, JoinAndUnlock(c, v),
           Call(c) \notin Elems(Rest),
           \A r \in Promises : Call(c) \notin Elems(waiters[r])
    PROVE  /\ Singly' /\ micro' = Rest \o waiters[LockOf(proc[c].sid)]
           /\ Elems(micro') = Elems(Rest) \cup Elems(waiters[LockOf(proc[c].sid)])
           /\ Elems(waiters'[LockOf(proc[c].sid)]) = {}
           /\ Elems(waiters'[CreationOf(v)]) = Elems(waiters[CreationOf(v)]) \cup {Call(c)}
           /\ \A r \in Promises \ {LockOf(proc[c].sid), CreationOf(v)} :
                  waiters'[r] = waiters[r]
  <1> DEFINE l == LockOf(proc[c].sid)
             q == CreationOf(v)
             w == [waiters EXCEPT ![l] = <<>>]
  <1>1. /\ l \in Promises /\ q \in Promises /\ l # q
        /\ Call(c) \in Jobs
        /\ waiters \in [Promises -> Seq(Jobs)]
    BY Names, PromiseNames DEF TypeOK, Procs
  <1>2. micro' = Rest \o waiters[l] /\ waiters' = [w EXCEPT ![q] = Append(@, Call(c))]
    BY DEF JoinAndUnlock
  <1> HIDE DEF l, q
  <1>3. /\ waiters'[l] = <<>> /\ waiters'[q] = Append(waiters[q], Call(c))
        /\ \A r \in Promises \ {l, q} : waiters'[r] = waiters[r]
        /\ waiters[q] \in Seq(Jobs) /\ waiters[l] \in Seq(Jobs)
    BY <1>1, <1>2
  <1>4. /\ Elems(waiters'[q]) = Elems(waiters[q]) \cup {Call(c)}
        /\ Distinct(waiters'[q])
        /\ Elems(waiters'[l]) = {} /\ Distinct(waiters'[l])
    BY <1>1, <1>3, AppendElems, EmptyElems DEF Singly
  <1>5. /\ Elems(micro') = Elems(Rest) \cup Elems(waiters[l])
        /\ Distinct(micro') /\ Elems(Rest) \subseteq Elems(micro)
        /\ Call(c) \notin Elems(micro')
    BY <1>1, <1>2, <1>3, RestElems, ConcatElems DEF Singly
  <1>6. ASSUME NEW r \in Promises
        PROVE  /\ Distinct(waiters'[r])
               /\ Elems(waiters'[r]) \subseteq Elems(waiters[r]) \cup {Call(c)}
               /\ r # q => Call(c) \notin Elems(waiters'[r])
    BY <1>3, <1>4 DEF Singly
  <1>7. Singly'
    <2> SUFFICES ASSUME NEW r \in Promises
                 PROVE  /\ Elems(micro') \cap Elems(waiters'[r]) = {}
                        /\ \A s \in Promises \ {r} :
                               Elems(waiters'[r]) \cap Elems(waiters'[s]) = {}
      BY <1>5, <1>6 DEF Singly
    <2>1. Elems(micro') \cap Elems(waiters'[r]) = {}
      <3>1. CASE r = l
        BY <1>4, <3>1
      <3>2. CASE r # l
        <4>1. /\ Elems(Rest) \cap Elems(waiters[r]) = {}
              /\ Elems(waiters[l]) \cap Elems(waiters[r]) = {}
          BY <1>1, <1>5, <3>2 DEF Singly
        <4> QED
          BY <1>5, <1>6, <4>1
      <3> QED
        BY <3>1, <3>2
    <2>2. ASSUME NEW s \in Promises \ {r}
          PROVE  Elems(waiters'[r]) \cap Elems(waiters'[s]) = {}
      <3>1. Elems(waiters[r]) \cap Elems(waiters[s]) = {}
        BY DEF Singly
      <3>2. Call(c) \notin Elems(waiters'[r]) \/ Call(c) \notin Elems(waiters'[s])
        BY <1>6
      <3>3. s \in Promises
        OBVIOUS
      <3> QED
        BY <1>6, <3>1, <3>2, <3>3
    <2> QED
      BY <2>1, <2>2
  <1> QED
    BY <1>2, <1>3, <1>4, <1>5, <1>7 DEF l, q

-----------------------------------------------------------------------------
(* Where a process can be queued.                                            *)

\* Who does not wait is in no queue, and who runs is in no other.
LEMMA NotQueued ==
    ASSUME Inv, OrderInv, NEW p \in Procs,
           \/ Quiet /\ proc[p].pc \notin Underway
           \/ ~Quiet /\ Head(micro) = Call(p)
    PROVE  /\ Call(p) \notin Elems(Rest)
           /\ \A r \in Promises : Call(p) \notin Elems(waiters[r])
  <1>1. TypeOK /\ Singly
    BY DEF Inv, OrderInv
  <1>2. CASE ~Quiet /\ Head(micro) = Call(p)
    BY <1>1, <1>2, RestElems DEF Singly
  <1>3. CASE Quiet /\ proc[p].pc \notin Underway
    <2>1. Elems(Rest) = {}
      BY <1>1, <1>3, RestElems
    <2>2. Call(p).kind = "call" /\ Call(p).who = p /\ \A v \in Calls : Call(p) # Handler(v)
      BY JobNames
    <2>3. ASSUME NEW r \in Promises, Call(p) \in Elems(waiters[r])
          PROVE  FALSE
      <3>1. CASE \E s \in SessionIds : r = LockOf(s)
        BY <1>3, <2>2, <2>3, <3>1 DEF OrderInv, LockQueues, Underway
      <3>2. CASE \E v \in Calls : r = CreationOf(v)
        BY <1>3, <2>2, <2>3, <3>2 DEF OrderInv, CreationQueues, AwaitsCreation, Underway
      <3>3. CASE \E v \in Calls : r = CleanupOf(v)
        BY <1>3, <2>2, <2>3, <3>3 DEF OrderInv, CleanupQueues, TeardownQueue, Underway
      <3> QED
        BY <3>1, <3>2, <3>3 DEF Promises, LockOf, CreationOf, CleanupOf
    <2> QED
      BY <2>1, <2>3
  <1> QED
    BY <1>2, <1>3

\* What is left to run after the head knows that it is not alone.
LEMMA Behind ==
    ASSUME Inv, OrderInv, NEW j \in Elems(Rest)
    PROVE  /\ j \in Jobs /\ j \in Elems(micro) /\ j # Head(micro) /\ ~Quiet
           /\ Len(micro) # 1 /\ j.kind = "call"
           /\ j.who \in Procs /\ j = Call(j.who)
           /\ proc[j.who].pc \in Underway
           /\ Removes(j, proc) => GoesOn(j.who)
  <1>1. TypeOK /\ Singly /\ MicroQueue
    BY DEF Inv, OrderInv
  <1>2. j \in Elems(micro) /\ j # Head(micro) /\ ~Quiet /\ Len(micro) # 1 /\ j \in Jobs
    BY <1>1, RestElems, Queued
  <1> QED
    BY <1>1, <1>2, JobNames DEF MicroQueue

\* A destruction does not run behind what renews a session.
LEMMA RenewsLast ==
    ASSUME Inv, OrderInv, ~Quiet, Renews(Head(micro), proc)
    PROVE  \A j \in Elems(Rest) : ~Removes(j, proc)
  BY RestElems DEF Inv, OrderInv, MicroQueue

-----------------------------------------------------------------------------
(* Steps of requests that end no session and begin no VM.                    *)

\* The Session objects keep their state, the Vm objects what a queue is for.
StatesKept ==
    /\ \A o \in Calls : obj'[o].state = obj[o].state
    /\ \A v \in Calls :
           /\ vm'[v].promise = vm[v].promise
           /\ vm'[v].cleanup = vm[v].cleanup
           /\ vm'[v].session = vm[v].session

\* Request p moves on, or is in a queue for a lock or a creation; who waited
\* for a lock may come to run.
LEMMA RequestFrame ==
    ASSUME Inv, OrderInv, NEW p \in Procs, Singly',
           \A x \in Procs \ {p} : proc'[x] = proc[x],
           ~Destroying(p), ~Destroying(p)',
           ObjectsKept, StatesKept, UNCHANGED sessions,
           Quiet \/ Head(micro) = Call(p),
           Call(p) \notin Elems(Rest),
           \A r \in Promises : Call(p) \notin Elems(waiters[r]),
           \A s \in SessionIds :
               /\ Elems(waiters'[LockOf(s)]) \subseteq Elems(waiters[LockOf(s)]) \cup {Call(p)}
               /\ Call(p) \in Elems(waiters'[LockOf(s)]) => proc'[p].pc = "lockWait",
           \A v \in Calls :
               /\ Elems(waiters[CreationOf(v)]) \subseteq Elems(waiters'[CreationOf(v)])
               /\ Elems(waiters'[CreationOf(v)]) \subseteq
                      Elems(waiters[CreationOf(v)]) \cup {Call(p)}
               /\ Call(p) \in Elems(waiters'[CreationOf(v)]) => proc'[p].pc = "joining"
               /\ waiters'[CleanupOf(v)] = waiters[CleanupOf(v)],
           Elems(Rest) \subseteq Elems(micro'),
           \A j \in Elems(micro') :
               \/ j \in Elems(Rest)
               \/ j.kind = "call" /\ proc'[j.who].pc \in {"lockWait", "locked"},
           Ordered(micro', proc')
    PROVE  OrderInv'
  <1> USE DEF Inv, OrderInv
  <1>1. TypeOK /\ Singly /\ Call(p).kind = "call" /\ Call(p).who = p
    BY JobNames
  <1>2. ASSUME NEW q \in Promises, NEW j \in Elems(waiters[q])
        PROVE  /\ j \in Jobs
               /\ j.kind = "call" => /\ j.who \in Procs /\ j.who # p
                                     /\ proc'[j.who] = proc[j.who]
    BY <1>1, <1>2, Queued, JobNames
  <1>3. Delivered'
    BY DEF Delivered, TypeOK, SessionRecords, ObjectsKept, StatesKept
  <1>4. LockQueues'
    BY <1>1, <1>2, PromiseNames DEF LockQueues
  <1>5. CreationQueues'
    <2> SUFFICES ASSUME NEW v \in Calls, NEW j \in Elems(waiters'[CreationOf(v)])
                 PROVE  AwaitsCreation(j, v)'
      BY DEF CreationQueues
    <2>1. CASE j = Call(p)
      BY <1>1, <2>1 DEF AwaitsCreation
    <2>2. CASE j \in Elems(waiters[CreationOf(v)])
      <3>1. j.kind = "call" /\ j.who \in Procs /\ proc'[j.who] = proc[j.who]
        BY <1>2, <2>2, PromiseNames DEF CreationQueues, AwaitsCreation
      <3>2. CASE proc[j.who].pc = "joining"
        BY <3>1, <3>2 DEF AwaitsCreation
      <3>3. CASE proc[j.who].pc # "joining"
        BY <2>2, <3>1, <3>3 DEF CreationQueues, AwaitsCreation, ProcRefs, ObjectsKept, StatesKept
      <3> QED
        BY <3>2, <3>3
    <2> QED
      BY <2>1, <2>2
  <1>6. CleanupQueues'
    <2> SUFFICES ASSUME NEW v \in Calls
                 PROVE  TeardownQueue(v)'
      BY DEF CleanupQueues
    <2>1. Ordered(waiters'[CleanupOf(v)], proc')
      <3>1. \A j \in Elems(waiters[CleanupOf(v)]) :
                /\ Renews(j, proc') => Renews(j, proc)
                /\ Removes(j, proc') => Removes(j, proc)
        BY <1>2, PromiseNames DEF Renews, Removes
      <3> QED
        BY <3>1, KeptOrdered DEF CleanupQueues, TeardownQueue
    <2>2. ASSUME NEW j \in Elems(waiters[CleanupOf(v)]), j.kind = "call",
                 proc[j.who].pc = "awaitCleanup", AwaitsTeardown(j.who, v)
          PROVE  AwaitsTeardown(j.who, v)'
      <3>1. j.who \in Procs /\ proc'[j.who] = proc[j.who] /\ proc[j.who].obj \in Calls
        BY <1>2, <2>2, PromiseNames DEF ProcRefs
      <3>2. ASSUME NEW c \in Calls, proc[c].pc = "resetting",
                   Call(c) \in Elems(waiters[CleanupOf(v)])
            PROVE  /\ proc'[c].pc = "resetting"
                   /\ Call(c) \in Elems(waiters'[CleanupOf(v)])
        <4>1. c \in Procs /\ Call(c).kind = "call" /\ Call(c).who = c
          BY JobNames DEF Procs
        <4> QED
          BY <1>2, <3>2, <4>1, PromiseNames
      <3> QED
        BY <2>2, <3>1, <3>2 DEF AwaitsTeardown, ObjectsKept, StatesKept
    <2> QED
      BY <1>2, <2>1, <2>2, PromiseNames DEF CleanupQueues, TeardownQueue, StatesKept
  <1>7. ASSUME NEW j \in Elems(Rest)
        PROVE  /\ j.kind = "call" /\ j.who \in Procs /\ proc'[j.who] = proc[j.who]
               /\ proc'[j.who].pc \in Underway
               /\ Removes(j, proc') => GoesOn(j.who)'
    <2>1. /\ j.kind = "call" /\ j.who \in Procs /\ j = Call(j.who) /\ j.who # p
          /\ proc'[j.who] = proc[j.who] /\ proc[j.who].pc \in Underway
          /\ Len(micro) # 1
          /\ Removes(j, proc) => GoesOn(j.who)
      BY <1>7, Behind
    <2>2. ASSUME Removes(j, proc')
          PROVE  GoesOn(j.who)'
      <3>1. proc[j.who].obj \in Calls /\ GoesOn(j.who)
        BY <2>1, <2>2 DEF Removes, ProcRefs
      <3>2. proc[j.who].pc = "awaitCleanup" =>
                obj[proc[j.who].obj].vm = None \/ obj[proc[j.who].obj].vm \in Calls
        BY <3>1 DEF TypeOK, SessionRecords
      <3> QED
        <4> DEFINE o == proc[j.who].obj
        <4>1. /\ obj'[o].state = obj[o].state /\ obj'[o].vm = obj[o].vm
              /\ obj'[o].creation = obj[o].creation
          BY <3>1 DEF ObjectsKept, StatesKept
        <4>2. obj[o].vm \in Calls => vm'[obj[o].vm].cleanup = vm[obj[o].vm].cleanup
          BY DEF StatesKept
        <4>3. proc[j.who].pc = "awaitCreation" => obj[o].vm = None
          BY <2>1, <3>1 DEF GoesOn
        <4>4. proc[j.who].pc = "awaitCleanup" =>
                  obj'[o].vm = None \/ vm'[obj'[o].vm].cleanup = "done"
          BY <3>1, <3>2, <4>1, <4>2 DEF GoesOn
        <4> QED
          BY <2>1, <3>1, <4>1, <4>3, <4>4 DEF GoesOn
    <2> QED
      BY <2>1, <2>2
  <1>8. MicroQueue'
    <2>1. \A j \in Elems(micro') :
              /\ j.kind # "create"
              /\ j.kind = "call" => proc'[j.who].pc \in Underway
              /\ Removes(j, proc') => GoesOn(j.who)'
      BY <1>7 DEF Underway, Removes
    <2> QED
      BY <2>1 DEF MicroQueue
  <1>9. Pending'
    <2> SUFFICES ASSUME NEW x \in Procs, Destroying(x)'
                 PROVE  \/ Call(x) \in Elems(micro')
                        \/ \E q \in Promises : Call(x) \in Elems(waiters'[q])
      BY DEF Pending
    <2>1. /\ x # p /\ proc'[x] = proc[x] /\ Destroying(x) /\ Call(x) # Call(p)
          /\ Call(x).kind = "call" /\ Call(x).who = x
      BY JobNames DEF Destroying
    <2>2. CASE Call(x) \in Elems(Rest)
      BY <2>2
    <2>3. CASE \E q \in Promises : Call(x) \in Elems(waiters[q])
      <3>1. PICK q \in Promises : Call(x) \in Elems(waiters[q])
        BY <2>3
      <3>2. CASE \E s \in SessionIds : q = LockOf(s)
        BY <2>1, <3>1, <3>2 DEF LockQueues, Destroying
      <3>3. CASE \E v \in Calls : q = CreationOf(v) \/ q = CleanupOf(v)
        BY <3>1, <3>3
      <3> QED
        BY <3>2, <3>3 DEF Promises, LockOf, CreationOf, CleanupOf
    <2>4. CASE Call(x) \in Elems(micro) \ Elems(Rest)
      <3>1. ~Quiet /\ Call(x) = Head(micro)
        BY <1>1, <2>4, RestElems
      <3> QED
        BY <2>1, <3>1
    <2> QED
      BY <2>1, <2>2, <2>3, <2>4 DEF Pending
  <1> QED
    BY <1>3, <1>4, <1>5, <1>6, <1>8, <1>9

\* What the handlers are given, and what they do to a process and its session.
LEMMA Moved ==
    ASSUME Inv, NEW p \in Procs, NEW r,
           proc' = [proc EXCEPT ![p] = r]
    PROVE  proc'[p] = r /\ \A x \in Procs \ {p} : proc'[x] = proc[x]
  BY DEF Inv, TypeOK

\* Touching a session leaves everything of it but its activity.
LEMMA TouchedStates ==
    ASSUME Inv, NEW s \in SessionIds, obj' = Touched(s, obj), UNCHANGED vm
    PROVE  ObjectsKept /\ StatesKept
  BY DEF Inv, TypeOK, Touched, SessionRecords, ObjectsKept, StatesKept

\* The request ends at once.
LEMMA ReturnsAtOnce ==
    ASSUME Inv, OrderInv, NEW p \in Procs, Quiet, proc[p].pc = "new",
           \A x \in Procs \ {p} : proc'[x] = proc[x],
           proc'[p].pc \in Finished,
           ObjectsKept, StatesKept, UNCHANGED <<sessions, waiters, micro>>
    PROVE  OrderInv'
  <1>1. Singly' /\ ~Destroying(p) /\ ~Destroying(p)'
    BY DEF OrderInv, Singly, Destroying, Finished
  <1>2. /\ Call(p) \notin Elems(Rest)
        /\ \A r \in Promises : Call(p) \notin Elems(waiters[r])
    BY NotQueued DEF Underway
  <1>3. Elems(micro') = {} /\ Elems(Rest) = {} /\ Ordered(micro', proc')
    BY RestElems, EmptyElems DEF Inv, OrderInv, Quiet
  <1> QED
    BY <1>1, <1>2, <1>3, PromiseNames, RequestFrame

\* A new request ends at once, awaits a creation or the lock, or has it
\* (gateway.ts:46-58).
LEMMA SendOrder ==
    ASSUME Inv, OrderInv, NEW c \in Calls, NEW s \in SessionIds,
           NEW owner \in Callers, NEW t \in Templates \cup {None},
           Send(c, s, owner, t)
    PROVE  OrderInv'
  <1>1. /\ c \in Procs /\ Quiet /\ proc[c].pc = "new" /\ proc \in [Procs -> ProcRecords]
        /\ ~Destroying(c) /\ UNCHANGED <<sessions, vm>> /\ TypeOK /\ Singly
        /\ obj' = Touched(s, obj)
    BY DEF Procs, Send, SendForbidden, SendReuse, SendJoin, SendLock, SendWait,
       Arrives, Inv, OrderInv, TypeOK, Destroying
  <1>2. ObjectsKept /\ StatesKept
    BY <1>1, TouchedStates
  <1>3. /\ Call(c) \notin Elems(Rest) /\ Call(c) \in Jobs
        /\ \A r \in Promises : Call(c) \notin Elems(waiters[r])
        /\ Elems(Rest) = {} /\ Rest = <<>>
    BY <1>1, NotQueued, RestElems, Names DEF Underway
  <1>4. CASE SendForbidden(c, s, owner, t) \/ SendReuse(c, s, owner, t)
    <2>1. /\ \A x \in Procs \ {c} : proc'[x] = proc[x]
          /\ proc'[c].pc \in Finished
          /\ UNCHANGED <<sessions, waiters, micro>>
      BY <1>1, <1>4 DEF SendForbidden, SendReuse, Returns, NewCall, Finished
    <2> QED
      BY <1>1, <1>2, <2>1, ReturnsAtOnce
  <1>5. CASE SendJoin(c, s, owner, t)
    <2> DEFINE v == obj[sessions[s]].creation
    <2>1. /\ \A x \in Procs \ {c} : proc'[x] = proc[x]
          /\ proc'[c].pc = "joining" /\ ~Destroying(c)'
          /\ Await(Call(c), CreationOf(v))
      BY <1>1, <1>5 DEF SendJoin, NewSend, Destroying
    <2>2. v \in Calls
      BY <1>5, TableObject DEF SendJoin
    <2>3. /\ Singly' /\ micro' = Rest
          /\ Elems(waiters'[CreationOf(v)]) = Elems(waiters[CreationOf(v)]) \cup {Call(c)}
          /\ \A r \in Promises \ {CreationOf(v)} : waiters'[r] = waiters[r]
      BY <1>1, <1>3, <2>1, <2>2, PromiseNames, AwaitMove
    <2>4. Ordered(micro', proc') /\ Elems(micro') = {}
      BY <1>3, <2>3, EmptyElems
    <2> HIDE DEF v
    <2> QED
      BY <1>1, <1>2, <1>3, <2>1, <2>2, <2>3, <2>4, PromiseNames, RequestFrame
  <1>6. CASE SendLock(c, s, owner, t)
    <2>1. /\ \A x \in Procs \ {c} : proc'[x] = proc[x]
          /\ proc'[c].pc = "locked" /\ ~Destroying(c)'
          /\ micro' = Append(Rest, Call(c)) /\ UNCHANGED waiters
      BY <1>1, <1>6 DEF SendLock, NewSend, Destroying
    <2>2. Singly' /\ Elems(micro') = {Call(c)}
      BY <1>1, <1>3, <2>1, RequeueMove
    <2>3. Call(c).kind = "call" /\ Call(c).who = c
      BY <1>1, JobNames
    <2>4. Ordered(micro', proc')
      BY <2>1, <2>2, <2>3, FreelyOrdered DEF Removes
    <2> QED
      BY <1>1, <1>2, <1>3, <2>1, <2>2, <2>3, <2>4, PromiseNames, RequestFrame
  <1>7. CASE SendWait(c, s, owner, t)
    <2>1. /\ \A x \in Procs \ {c} : proc'[x] = proc[x]
          /\ proc'[c].pc = "lockWait" /\ ~Destroying(c)'
          /\ Await(Call(c), LockOf(s))
      BY <1>1, <1>7 DEF SendWait, NewSend, Destroying
    <2>2. /\ Singly' /\ micro' = Rest
          /\ Elems(waiters'[LockOf(s)]) = Elems(waiters[LockOf(s)]) \cup {Call(c)}
          /\ \A r \in Promises \ {LockOf(s)} : waiters'[r] = waiters[r]
      BY <1>1, <1>3, <2>1, PromiseNames, AwaitMove
    <2>3. Ordered(micro', proc') /\ Elems(micro') = {}
      BY <1>3, <2>2, EmptyElems
    <2> QED
      BY <1>1, <1>2, <1>3, <2>1, <2>2, <2>3, PromiseNames, RequestFrame
  <1> QED
    BY <1>4, <1>5, <1>6, <1>7 DEF Send

\* A destruction that is refused (session.ts:49-51).
LEMMA DestroyRefusedOrder ==
    ASSUME Inv, OrderInv, NEW c \in Calls, NEW s \in SessionIds,
           NEW owner \in Callers, DestroyRefused(c, s, owner)
    PROVE  OrderInv'
  <1>1. /\ c \in Procs /\ Quiet /\ proc[c].pc = "new" /\ proc \in [Procs -> ProcRecords]
        /\ UNCHANGED <<sessions, waiters, micro, obj, vm>>
    BY DEF Procs, DestroyRefused, Inv, TypeOK
  <1>2. /\ \A x \in Procs \ {c} : proc'[x] = proc[x]
        /\ proc'[c].pc \in Finished
    BY <1>1 DEF DestroyRefused, Returns, NewCall, Finished
  <1>3. ObjectsKept /\ StatesKept
    BY <1>1 DEF ObjectsKept, StatesKept
  <1> QED
    BY <1>1, <1>2, <1>3, ReturnsAtOnce

\* What holds of a process that runs.
LEMMA Running ==
    ASSUME Inv, OrderInv, NEW p \in Procs, NEW at, Resumes(p, at)
    PROVE  /\ ~Quiet /\ Head(micro) = Call(p) /\ proc[p].pc = at
           /\ Call(p) \in Jobs /\ Call(p) \in Elems(micro)
           /\ Call(p).kind = "call" /\ Call(p).who = p
           /\ Call(p) \notin Elems(Rest)
           /\ \A r \in Promises : Call(p) \notin Elems(waiters[r])
           /\ TypeOK /\ Singly /\ MicroQueue
           /\ proc \in [Procs -> ProcRecords]
           /\ \A pr : Ordered(micro, pr) => Ordered(Rest, pr)
  <1>1. ~Quiet /\ Head(micro) = Call(p) /\ proc[p].pc = at
    BY DEF Resumes, Quiet
  <1>2. TypeOK /\ Singly /\ MicroQueue
    BY DEF Inv, OrderInv
  <1> QED
    BY <1>1, <1>2, NotQueued, RestElems, JobNames, Names DEF TypeOK

\* What waits behind p keeps its order while only p moves.
LEMMA RestOrdered ==
    ASSUME Inv, OrderInv, NEW p \in Procs, ~Quiet, Head(micro) = Call(p),
           \A x \in Procs \ {p} : proc'[x] = proc[x]
    PROVE  Ordered(Rest, proc')
  <1>1. Ordered(Rest, proc) /\ Call(p) \notin Elems(Rest)
    BY RestElems, NotQueued DEF Inv, OrderInv, MicroQueue
  <1>2. \A j \in Elems(Rest) : j.kind = "call" /\ j.who \in Procs /\ j = Call(j.who)
    BY Behind
  <1> QED
    BY <1>1, <1>2, KeptOrdered DEF Renews, Removes

\* Whoever waited for the lock takes it, or waits again: it renews before and
\* after, and was the first in the queue (acquireSessionLock).
LEMMA LockOrder ==
    ASSUME Inv, OrderInv, NEW c \in Calls, TakeLock(c) \/ WaitAgain(c)
    PROVE  OrderInv'
  <1> DEFINE s == proc[c].sid
  <1>1. c \in Procs /\ Resumes(c, "lockWait") /\ UNCHANGED <<sessions, obj, vm>>
    BY DEF Procs, TakeLock, WaitAgain
  <1>2. /\ s \in SessionIds /\ ~Destroying(c) /\ Renews(Head(micro), proc)
        /\ ObjectsKept /\ StatesKept
    BY <1>1, Running DEF Inv, ProcRefs, Underway, Destroying, Renews, ObjectsKept,
       StatesKept
  <1>3. \A j \in Elems(Rest) : ~Removes(j, proc)
    BY <1>1, <1>2, Running, RenewsLast
  <1>4. CASE TakeLock(c)
    <2>1. /\ \A x \in Procs \ {c} : proc'[x] = proc[x]
          /\ proc'[c].pc = "locked" /\ ~Destroying(c)'
          /\ micro' = Append(Rest, Call(c)) /\ UNCHANGED waiters
      BY <1>1, <1>4, Running DEF TakeLock, Goes, Destroying
    <2>2. Singly' /\ Elems(micro') = Elems(Rest) \cup {Call(c)}
      BY <1>1, <2>1, Running, RequeueMove
    <2>3. Ordered(Rest, proc') /\ Rest \in Seq(Jobs)
      BY <1>1, <2>1, Running, RestOrdered, RestElems
    <2>4. Ordered(micro', proc')
      BY <1>1, <2>1, <2>3, Running, AppendOrdered DEF Removes
    <2> HIDE DEF s
    <2> QED
      BY <1>1, <1>2, <2>1, <2>2, <2>4, Running, PromiseNames, RequestFrame
  <1>5. CASE WaitAgain(c)
    <2>1. proc' = proc /\ ~Destroying(c)' /\ Await(Call(c), LockOf(s))
      BY <1>1, <1>5, Running DEF WaitAgain, Destroying
    <2>2. /\ Singly' /\ micro' = Rest
          /\ Elems(waiters'[LockOf(s)]) = Elems(waiters[LockOf(s)]) \cup {Call(c)}
          /\ \A r \in Promises \ {LockOf(s)} : waiters'[r] = waiters[r]
      BY <1>1, <1>2, <2>1, Running, PromiseNames, AwaitMove
    <2>3. Ordered(micro', proc')
      BY <1>1, <2>1, <2>2, Running, RestOrdered
    <2> HIDE DEF s
    <2> QED
      BY <1>1, <1>2, <2>1, <2>2, <2>3, Running, PromiseNames, RequestFrame
  <1> QED
    BY <1>4, <1>5

\* c gives back the lock of its session, and then awaits a creation or is
\* done: nothing that destroys a session runs in between.
Released(c) ==
    /\ c \in Procs /\ ~Quiet /\ Head(micro) = Call(c) /\ ~Destroying(c)
    /\ proc[c].pc \in {"locked", "resetting"} /\ proc[c].sid \in SessionIds
    /\ Call(c) \notin Elems(Rest)
    /\ \A r \in Promises : Call(c) \notin Elems(waiters[r])
    /\ \A x \in Procs \ {c} : proc'[x] = proc[x]
    /\ ~Destroying(c)'
    /\ Singly' /\ Ordered(micro', proc')
    /\ \A j \in Elems(Rest) : ~Removes(j, proc) /\ ~Removes(j, proc')
    /\ Elems(Rest) \subseteq Elems(micro')
    /\ \A j \in Elems(micro') :
           \/ j \in Elems(Rest)
           \/ j.kind = "call" /\ proc'[j.who].pc = "lockWait"
    /\ \A s \in SessionIds :
           Elems(waiters'[LockOf(s)]) \subseteq Elems(waiters[LockOf(s)])
    /\ \A w \in Calls :
           /\ Elems(waiters[CreationOf(w)]) \subseteq Elems(waiters'[CreationOf(w)])
           /\ Elems(waiters'[CreationOf(w)]) \subseteq
                  Elems(waiters[CreationOf(w)]) \cup {Call(c)}
           /\ Call(c) \in Elems(waiters'[CreationOf(w)]) => proc'[c].pc = "joining"
           /\ waiters'[CleanupOf(w)] = waiters[CleanupOf(w)]

\* c runs with the lock of its session.
LEMMA Holding ==
    ASSUME Inv, OrderInv, NEW c \in Calls,
           Resumes(c, "locked") \/ Resumes(c, "resetting")
    PROVE  /\ c \in Procs /\ ~Quiet /\ Head(micro) = Call(c) /\ ~Destroying(c)
           /\ proc[c].pc \in {"locked", "resetting"} /\ proc[c].sid \in SessionIds
           /\ Call(c) \notin Elems(Rest)
           /\ \A r \in Promises : Call(c) \notin Elems(waiters[r])
           /\ TypeOK /\ Singly /\ proc \in [Procs -> ProcRecords]
           /\ LockOf(proc[c].sid) \in Promises
           /\ Renews(Head(micro), proc)
  <1>1. PICK at \in {"locked", "resetting"} : Resumes(c, at)
    OBVIOUS
  <1>2. c \in Procs
    BY DEF Procs
  <1> QED
    BY <1>1, <1>2, Running, PromiseNames
       DEF Inv, ProcRefs, Underway, Destroying, Renews

\* Whoever waits for c's lock waits for nothing else, whatever c does; and no
\* destruction stands behind c in the queue.
LEMMA LockWaiters ==
    ASSUME Inv, OrderInv, NEW c \in Calls,
           Resumes(c, "locked") \/ Resumes(c, "resetting"),
           \A x \in Procs \ {c} : proc'[x] = proc[x], ~Destroying(c)'
    PROVE  /\ \A j \in Elems(waiters[LockOf(proc[c].sid)]) :
                  j.kind = "call" /\ proc'[j.who].pc = "lockWait"
           /\ \A j \in Elems(Rest) : ~Removes(j, proc) /\ ~Removes(j, proc')
  <1> DEFINE l == LockOf(proc[c].sid)
  <1>1. ASSUME NEW j \in Elems(waiters[l])
        PROVE  j.kind = "call" /\ proc'[j.who].pc = "lockWait"
    <2>1. j.kind = "call" /\ proc[j.who].pc = "lockWait"
      BY Holding DEF OrderInv, LockQueues
    <2>2. j.who \in Procs /\ j = Call(j.who)
      BY <2>1, Holding, Queued, JobNames
    <2> QED
      BY <2>1, <2>2, Holding
  <1>2. ASSUME NEW j \in Elems(Rest)
        PROVE  ~Removes(j, proc) /\ ~Removes(j, proc')
    <2>1. ~Removes(j, proc) /\ j.who \in Procs /\ j = Call(j.who)
      BY Holding, RenewsLast, Behind
    <2> QED
      BY <2>1, Holding DEF Removes
  <1> QED
    BY <1>1, <1>2

\* The queues when c gives back the lock and is done.
LEMMA ReleaseQueues ==
    ASSUME Inv, OrderInv, NEW c \in Calls,
           Resumes(c, "locked") \/ Resumes(c, "resetting"),
           Settle(LockOf(proc[c].sid)),
           \A x \in Procs \ {c} : proc'[x] = proc[x], proc'[c].pc \in Finished
    PROVE  Released(c)
  <1> DEFINE l == LockOf(proc[c].sid)
  <1>1. ~Destroying(c)'
    BY DEF Destroying, Finished
  <1>2. /\ Singly' /\ micro' = Rest \o waiters[l]
        /\ Elems(micro') = Elems(Rest) \cup Elems(waiters[l])
        /\ Elems(waiters'[l]) = {}
        /\ \A r \in Promises \ {l} : waiters'[r] = waiters[r]
    BY Holding, SettleMove
  <1>3. \A j \in Elems(waiters[l]) : j.kind = "call" /\ proc'[j.who].pc = "lockWait"
    BY <1>1, LockWaiters
  <1>4. \A j \in Elems(Rest) : ~Removes(j, proc) /\ ~Removes(j, proc')
    BY <1>1, LockWaiters
  <1>5. Ordered(micro', proc')
    <2>1. \A j \in Elems(micro') : ~Removes(j, proc')
      BY <1>2, <1>3, <1>4 DEF Removes
    <2> QED
      BY <2>1, FreelyOrdered
  <1>6. ASSUME NEW s \in SessionIds
        PROVE  Elems(waiters'[LockOf(s)]) \subseteq Elems(waiters[LockOf(s)])
    BY <1>2, PromiseNames
  <1>7. ASSUME NEW w \in Calls
        PROVE  /\ waiters'[CreationOf(w)] = waiters[CreationOf(w)]
               /\ waiters'[CleanupOf(w)] = waiters[CleanupOf(w)]
               /\ Call(c) \notin Elems(waiters[CreationOf(w)])
    BY <1>2, Holding, PromiseNames
  <1> HIDE DEF l
  <1> QED
    BY <1>1, <1>2, <1>3, <1>4, <1>5, <1>6, <1>7, Holding DEF Released

\* c gives back the lock and is done, and the table is as it was.
LEMMA UnlockOrder ==
    ASSUME Inv, OrderInv, NEW c \in Calls,
           Resumes(c, "locked") \/ Resumes(c, "resetting"),
           Settle(LockOf(proc[c].sid)),
           \A x \in Procs \ {c} : proc'[x] = proc[x], proc'[c].pc \in Finished,
           ObjectsKept, StatesKept, UNCHANGED sessions
    PROVE  OrderInv'
  <1>1. Released(c)
    BY ReleaseQueues
  <1>2. \A s \in SessionIds : Call(c) \notin Elems(waiters'[LockOf(s)])
    BY <1>1, PromiseNames DEF Released
  <1> QED
    BY <1>1, <1>2, RequestFrame, PromiseNames DEF Released

\* The owner is refused under the lock (gateway.ts:62).
LEMMA LockedForbiddenOrder ==
    ASSUME Inv, OrderInv, NEW c \in Calls, LockedForbidden(c)
    PROVE  OrderInv'
  <1>1. c \in Procs /\ Resumes(c, "locked") /\ Settle(LockOf(proc[c].sid))
        /\ UNCHANGED <<sessions, obj, vm>>
    BY DEF LockedForbidden, GiveUp, Procs
  <1>2. /\ \A x \in Procs \ {c} : proc'[x] = proc[x]
        /\ proc'[c].pc \in Finished
    BY <1>1, Running DEF LockedForbidden, GiveUp, Returns, NewCall, Finished
  <1>3. ObjectsKept /\ StatesKept
    BY <1>1 DEF ObjectsKept, StatesKept
  <1> QED
    BY <1>1, <1>2, <1>3, UnlockOrder

\* The session found under the lock has a VM (gateway.ts:78).
LEMMA LockedReuseOrder ==
    ASSUME Inv, OrderInv, NEW c \in Calls, LockedReuse(c)
    PROVE  OrderInv'
  <1>1. c \in Procs /\ Resumes(c, "locked") /\ Settle(LockOf(proc[c].sid))
        /\ UNCHANGED <<sessions, vm>> /\ obj' = Touched(proc[c].sid, obj)
    BY DEF LockedReuse, Procs, Grant
  <1>2. /\ \A x \in Procs \ {c} : proc'[x] = proc[x]
        /\ proc'[c].pc \in Finished
    BY <1>1, Running DEF LockedReuse, Grant, NewCall, Finished
  <1>3. proc[c].sid \in SessionIds
    BY <1>1, Running DEF Inv, ProcRefs, Underway
  <1>4. ObjectsKept /\ StatesKept
    BY <1>1, <1>3, TouchedStates
  <1> QED
    BY <1>1, <1>2, <1>4, UnlockOrder

\* The awaited creation settled, and the request ends.
LEMMA JoinedOrder ==
    ASSUME Inv, OrderInv, NEW c \in Calls, Joined(c)
    PROVE  OrderInv'
  <1>1. c \in Procs /\ Resumes(c, "joining") /\ micro' = Rest
        /\ UNCHANGED <<sessions, vm, waiters>>
    BY DEF Joined, Procs
  <1>2. /\ \A x \in Procs \ {c} : proc'[x] = proc[x]
        /\ proc'[c].pc \in Finished /\ ~Destroying(c) /\ ~Destroying(c)'
    <2>1. proc[c].pc = "joining" /\ proc \in [Procs -> ProcRecords]
      BY <1>1, Running
    <2>2. CASE Grant(c, proc[c].vm)
      BY <1>1, <2>1, <2>2 DEF Grant, NewCall, Finished, Destroying
    <2>3. CASE Returns(c, "failed")
      BY <1>1, <2>1, <2>3 DEF Returns, NewCall, Finished, Destroying
    <2> QED
      BY <2>2, <2>3 DEF Joined
  <1>3. proc[c].sid \in SessionIds
    BY <1>1, Running DEF Inv, ProcRefs, Underway
  <1>4. ObjectsKept /\ StatesKept
    <2>1. CASE obj' = Touched(proc[c].sid, obj)
      BY <1>1, <1>3, <2>1, TouchedStates
    <2>2. CASE obj' = obj
      BY <1>1, <2>2 DEF ObjectsKept, StatesKept
    <2> QED
      BY <2>1, <2>2 DEF Joined, Grant
  <1>5. Singly' /\ Ordered(micro', proc')
    BY <1>1, <1>2, Running, PopMove, RestOrdered
  <1> QED
    BY <1>1, <1>2, <1>4, <1>5, Running, PromiseNames, RequestFrame

-----------------------------------------------------------------------------
(* Steps with the lock that wait for a creation.                             *)

\* The queues when c gives back the lock and awaits the creation v.
LEMMA JoinQueues ==
    ASSUME Inv, OrderInv, NEW c \in Calls, NEW v \in Calls,
           Resumes(c, "locked") \/ Resumes(c, "resetting"), JoinAndUnlock(c, v)
    PROVE  Released(c) /\ proc'[c].pc = "joining"
  <1> DEFINE l == LockOf(proc[c].sid)
  <1>1. /\ \A x \in Procs \ {c} : proc'[x] = proc[x]
        /\ proc'[c].pc = "joining" /\ ~Destroying(c)'
    BY Holding DEF JoinAndUnlock, Destroying
  <1>2. /\ Singly' /\ micro' = Rest \o waiters[l]
        /\ Elems(micro') = Elems(Rest) \cup Elems(waiters[l])
        /\ Elems(waiters'[l]) = {}
        /\ Elems(waiters'[CreationOf(v)]) = Elems(waiters[CreationOf(v)]) \cup {Call(c)}
        /\ \A r \in Promises \ {l, CreationOf(v)} : waiters'[r] = waiters[r]
    BY Holding, JoinMove
  <1>3. \A j \in Elems(waiters[l]) : j.kind = "call" /\ proc'[j.who].pc = "lockWait"
    BY <1>1, LockWaiters
  <1>4. \A j \in Elems(Rest) : ~Removes(j, proc) /\ ~Removes(j, proc')
    BY <1>1, LockWaiters
  <1>5. Ordered(micro', proc')
    <2>1. \A j \in Elems(micro') : ~Removes(j, proc')
      BY <1>2, <1>3, <1>4 DEF Removes
    <2> QED
      BY <2>1, FreelyOrdered
  <1>6. ASSUME NEW s \in SessionIds
        PROVE  Elems(waiters'[LockOf(s)]) \subseteq Elems(waiters[LockOf(s)])
    BY <1>2, PromiseNames
  <1>7. ASSUME NEW w \in Calls
        PROVE  /\ Elems(waiters[CreationOf(w)]) \subseteq Elems(waiters'[CreationOf(w)])
               /\ Elems(waiters'[CreationOf(w)]) \subseteq
                      Elems(waiters[CreationOf(w)]) \cup {Call(c)}
               /\ waiters'[CleanupOf(w)] = waiters[CleanupOf(w)]
    BY <1>2, Holding, PromiseNames
  <1> HIDE DEF l
  <1> QED
    BY <1>1, <1>2, <1>3, <1>4, <1>5, <1>6, <1>7, Holding DEF Released

\* The session found under the lock has a creation (gateway.ts:81).
LEMMA LockedJoinOrder ==
    ASSUME Inv, OrderInv, NEW c \in Calls, LockedJoin(c)
    PROVE  OrderInv'
  <1> DEFINE v == obj[sessions[proc[c].sid]].creation
  <1>1. /\ Resumes(c, "locked") /\ JoinAndUnlock(c, v) /\ UNCHANGED <<sessions, obj, vm>>
        /\ c \in Procs
    BY DEF LockedJoin, Procs
  <1>2. proc[c].sid \in SessionIds
    BY <1>1, Running DEF Inv, ProcRefs, Underway
  <1>3. v \in Calls
    BY <1>2, TableObject DEF LockedJoin
  <1>4. ObjectsKept /\ StatesKept
    BY <1>1 DEF ObjectsKept, StatesKept
  <1> HIDE DEF v
  <1>5. Released(c) /\ proc'[c].pc = "joining"
    BY <1>1, <1>3, JoinQueues
  <1>6. \A s \in SessionIds : Call(c) \notin Elems(waiters'[LockOf(s)])
    BY <1>5, PromiseNames DEF Released
  <1> QED
    BY <1>1, <1>4, <1>5, <1>6, RequestFrame, PromiseNames DEF Released

\* c makes a VM for the Session object o, which is new or has none, or fails
\* to.
LEMMA ProvisionOrder ==
    ASSUME Inv, OrderInv, NEW c \in Calls, NEW o \in Calls,
           Released(c),
           \A x \in Calls \ {o} : obj'[x] = obj[x],
           obj'[o].vm = None,
           \A v \in Calls \ {c} : vm'[v] = vm[v],
           \/ /\ obj[o].vm = None /\ obj[o].creation = None
              /\ obj'[o].state = obj[o].state
              /\ UNCHANGED sessions
           \/ /\ obj[o].sid = None /\ o = c /\ proc[c].pc = "locked"
              /\ sessions[proc[c].sid] = None
              /\ sessions' = [sessions EXCEPT ![proc[c].sid] = c]
    PROVE  OrderInv'
  <1> DEFINE s == proc[c].sid
  <1> USE DEF Inv, OrderInv
  <1>0. /\ c \in Procs /\ ~Quiet /\ Head(micro) = Call(c) /\ ~Destroying(c)
        /\ proc[c].pc \in {"locked", "resetting"} /\ proc[c].sid \in SessionIds
        /\ Call(c) \notin Elems(Rest)
        /\ \A r \in Promises : Call(c) \notin Elems(waiters[r])
        /\ \A x \in Procs \ {c} : proc'[x] = proc[x]
        /\ ~Destroying(c)'
        /\ Singly' /\ Ordered(micro', proc')
        /\ \A j \in Elems(Rest) : ~Removes(j, proc) /\ ~Removes(j, proc')
        /\ Elems(Rest) \subseteq Elems(micro')
        /\ \A j \in Elems(micro') :
               \/ j \in Elems(Rest)
               \/ j.kind = "call" /\ proc'[j.who].pc = "lockWait"
        /\ \A q \in SessionIds :
               Elems(waiters'[LockOf(q)]) \subseteq Elems(waiters[LockOf(q)])
        /\ \A w \in Calls :
               /\ Elems(waiters[CreationOf(w)]) \subseteq Elems(waiters'[CreationOf(w)])
               /\ Elems(waiters'[CreationOf(w)]) \subseteq
                      Elems(waiters[CreationOf(w)]) \cup {Call(c)}
               /\ Call(c) \in Elems(waiters'[CreationOf(w)]) => proc'[c].pc = "joining"
               /\ waiters'[CleanupOf(w)] = waiters[CleanupOf(w)]
    BY DEF Released
  <1>1. /\ TypeOK /\ Singly /\ vm[c].state = "none" /\ vm[c].session = None
        /\ None \notin Calls /\ None \notin SessionIds
        /\ sessions \in [SessionIds -> Calls \cup {None}] /\ s \in SessionIds
    BY GatewayConstants, <1>0 DEF Fresh, TypeOK
  <1>2. ASSUME NEW q \in Promises, NEW j \in Elems(waiters[q])
        PROVE  /\ j \in Jobs
               /\ j.kind = "call" => /\ j.who \in Procs /\ j.who # c
                                     /\ proc'[j.who] = proc[j.who]
    BY <1>1, <1>2, Queued, JobNames, <1>0
  <1>3. Delivered'
    <2> SUFFICES ASSUME NEW x \in Calls, obj'[x].vm # None
                 PROVE  vm'[obj'[x].vm].promise = "fulfilled"
      BY DEF Delivered
    <2>1. x # o /\ obj'[x].vm = obj[x].vm /\ obj[x].vm \in Calls
      BY DEF TypeOK, SessionRecords
    <2>2. vm[obj[x].vm].session = x /\ vm[obj[x].vm].promise = "fulfilled"
      BY <2>1 DEF ObjRefs, Delivered
    <2> QED
      BY <1>1, <2>1, <2>2
  <1>4. LockQueues'
    <2> SUFFICES ASSUME NEW t \in SessionIds, NEW j \in Elems(waiters'[LockOf(t)])
                 PROVE  j.kind = "call" /\ proc'[j.who].pc = "lockWait"
      BY DEF LockQueues
    <2>1. j \in Elems(waiters[LockOf(t)])
      BY <1>0
    <2> QED
      BY <1>2, <2>1, PromiseNames DEF LockQueues
  <1>5. CreationQueues'
    <2> SUFFICES ASSUME NEW v \in Calls, NEW j \in Elems(waiters'[CreationOf(v)])
                 PROVE  AwaitsCreation(j, v)'
      BY DEF CreationQueues
    <2>1. CASE j = Call(c)
      BY <2>1, <1>0, JobNames DEF AwaitsCreation
    <2>2. CASE j \in Elems(waiters[CreationOf(v)])
      <3>1. j.kind = "call" /\ j.who \in Procs /\ proc'[j.who] = proc[j.who]
        BY <1>2, <2>2, PromiseNames DEF CreationQueues, AwaitsCreation
      <3>2. CASE proc[j.who].pc = "joining"
        BY <3>1, <3>2 DEF AwaitsCreation
      <3>3. CASE proc[j.who].pc # "joining"
        <4>1. /\ proc[j.who].pc = "awaitCreation"
              /\ obj[proc[j.who].obj].creation = v
              /\ obj[proc[j.who].obj].state = "destroying"
              /\ sessions[proc[j.who].sid] = proc[j.who].obj
          BY <2>2, <3>3 DEF CreationQueues, AwaitsCreation
        <4>2. /\ proc[j.who].obj \in Calls /\ proc[j.who].sid \in SessionIds
              /\ obj[proc[j.who].obj].sid = proc[j.who].sid
          BY <3>1, <4>1 DEF ProcRefs, Underway
        <4>3. proc[j.who].obj # o
          BY <1>1, <4>1, <4>2
        <4>4. sessions'[proc[j.who].sid] = sessions[proc[j.who].sid]
          BY <1>1, <4>1, <4>2
        <4> QED
          BY <3>1, <4>1, <4>2, <4>3, <4>4 DEF AwaitsCreation
      <3> QED
        BY <3>2, <3>3
    <2>3. j = Call(c) \/ j \in Elems(waiters[CreationOf(v)])
      BY <1>0
    <2> QED
      BY <2>1, <2>2, <2>3
  <1>6. CleanupQueues'
    <2> SUFFICES ASSUME NEW v \in Calls
                 PROVE  TeardownQueue(v)'
      BY DEF CleanupQueues
    <2>1. waiters'[CleanupOf(v)] = waiters[CleanupOf(v)]
      BY <1>0
    <2>2. Ordered(waiters'[CleanupOf(v)], proc')
      <3>1. \A j \in Elems(waiters[CleanupOf(v)]) :
                /\ Renews(j, proc') => Renews(j, proc)
                /\ Removes(j, proc') => Removes(j, proc)
        BY <1>2, PromiseNames DEF Renews, Removes
      <3> QED
        BY <2>1, <3>1, KeptOrdered DEF CleanupQueues, TeardownQueue
    <2>3. ASSUME NEW j \in Elems(waiters[CleanupOf(v)])
          PROVE  v # c
      <3>1. CASE j = Handler(v) /\ vm[v].promise = "discarding"
        BY <1>1, <3>1 DEF CreationHeld
      <3>2. CASE j # Handler(v) \/ vm[v].promise # "discarding"
        <4>1. /\ j.kind = "call" /\ proc[j.who].obj = vm[v].session
              /\ proc[j.who].pc \in {"resetting", "awaitCleanup"}
          BY <3>2 DEF CleanupQueues, TeardownQueue
        <4>2. j.who \in Procs
          BY <1>2, <4>1, PromiseNames
        <4> QED
          BY <1>1, <4>1, <4>2 DEF ProcRefs
      <3> QED
        BY <3>1, <3>2
    <2>4. ASSUME NEW j \in Elems(waiters[CleanupOf(v)]), j.kind = "call",
                 proc[j.who].pc = "awaitCleanup", AwaitsTeardown(j.who, v),
                 proc[j.who].obj = vm[v].session
          PROVE  AwaitsTeardown(j.who, v)'
      <3>1. /\ j.who \in Procs /\ proc'[j.who] = proc[j.who]
            /\ proc[j.who].obj \in Calls /\ proc[j.who].sid \in SessionIds
            /\ obj[proc[j.who].obj].sid = proc[j.who].sid
        BY <1>2, <2>4, PromiseNames DEF ProcRefs, Underway
      <3>2. ASSUME NEW d \in Calls, proc[d].pc = "resetting",
                   Call(d) \in Elems(waiters[CleanupOf(v)])
            PROVE  /\ proc'[d].pc = "resetting" /\ d # c
                   /\ Call(d) \in Elems(waiters'[CleanupOf(v)])
                   /\ proc[d].obj = vm[v].session /\ d \in Procs
        <4>1. d \in Procs /\ Call(d).kind = "call" /\ Call(d).who = d
          BY JobNames DEF Procs
        <4>2. Call(d) # Handler(v)
          BY <4>1, JobNames
        <4> QED
          BY <1>2, <2>1, <3>2, <4>1, <4>2, PromiseNames DEF CleanupQueues, TeardownQueue
      <3>3. obj'[proc[j.who].obj].state = obj[proc[j.who].obj].state
        BY <1>1, <3>1
      <3>4. obj[proc[j.who].obj].vm = v => obj'[proc[j.who].obj].vm = v
        BY <1>1, <3>1
      <3>5. sessions'[proc[j.who].sid] = sessions[proc[j.who].sid]
        <4>1. CASE UNCHANGED sessions
          BY <4>1
        <4>2. CASE /\ proc[c].pc = "locked" /\ sessions[s] = None
                   /\ sessions' = [sessions EXCEPT ![s] = c]
          <5>1. CASE proc[j.who].sid # s
            BY <1>1, <3>1, <4>2, <5>1
          <5>2. CASE proc[j.who].sid = s
            <6>1. PICK d \in Calls : proc[d].pc = "resetting"
                                     /\ Call(d) \in Elems(waiters[CleanupOf(v)])
              BY <1>1, <2>4, <3>1, <4>2, <5>2 DEF AwaitsTeardown
            <6>2. proc[d].sid = s /\ d # c
              BY <2>4, <3>1, <3>2, <5>2, <6>1 DEF ProcRefs
            <6> QED
              BY <4>2, <6>1, <6>2, LockExcludes
          <5> QED
            BY <5>1, <5>2
        <4> QED
          BY <4>1, <4>2
      <3> QED
        BY <2>4, <3>1, <3>2, <3>3, <3>4, <3>5 DEF AwaitsTeardown
    <2>5. ASSUME NEW j \in Elems(waiters[CleanupOf(v)])
          PROVE  vm'[v] = vm[v]
      BY <2>3, <2>5
    <2> QED
      BY <1>2, <2>1, <2>2, <2>4, <2>5, PromiseNames DEF CleanupQueues, TeardownQueue
  <1>7. MicroQueue'
    <2> SUFFICES ASSUME NEW j \in Elems(micro')
                 PROVE  /\ j.kind # "create"
                        /\ j.kind = "call" => proc'[j.who].pc \in Underway
                        /\ ~Removes(j, proc')
      BY <1>0 DEF MicroQueue
    <2>1. CASE j \in Elems(Rest)
      <3>1. /\ j.kind = "call" /\ j.who \in Procs /\ j = Call(j.who)
            /\ proc[j.who].pc \in Underway
        BY <2>1, Behind
      <3>2. proc'[j.who] = proc[j.who]
        BY <2>1, <3>1, <1>0
      <3> QED
        BY <2>1, <3>1, <3>2, <1>0
    <2>2. CASE j \notin Elems(Rest)
      <3>1. j.kind = "call" /\ proc'[j.who].pc = "lockWait"
        BY <2>2, <1>0
      <3> QED
        BY <3>1 DEF Underway, Removes
    <2> QED
      BY <2>1, <2>2
  <1>8. Pending'
    <2> SUFFICES ASSUME NEW x \in Procs, Destroying(x)'
                 PROVE  \/ Call(x) \in Elems(micro')
                        \/ \E q \in Promises : Call(x) \in Elems(waiters'[q])
      BY DEF Pending
    <2>1. /\ x # c /\ proc'[x] = proc[x] /\ Destroying(x) /\ Call(x) # Call(c)
          /\ Call(x).kind = "call" /\ Call(x).who = x
      BY JobNames, <1>0 DEF Destroying
    <2>2. Call(x) \notin Elems(Rest) /\ Call(x) # Head(micro)
      BY <2>1, <1>0 DEF Removes, Destroying
    <2>3. Call(x) \notin Elems(micro)
      BY <1>1, <2>2, RestElems, <1>0
    <2>4. PICK q \in Promises : Call(x) \in Elems(waiters[q])
      BY <2>1, <2>3 DEF Pending
    <2>5. CASE \E t \in SessionIds : q = LockOf(t)
      BY <2>1, <2>4, <2>5 DEF LockQueues, Destroying
    <2>6. CASE \E v \in Calls : q = CreationOf(v) \/ q = CleanupOf(v)
      <3>1. /\ \A v \in Calls : Elems(waiters[CreationOf(v)]) \subseteq Elems(waiters'[CreationOf(v)])
            /\ \A v \in Calls : waiters'[CleanupOf(v)] = waiters[CleanupOf(v)]
        BY <1>0
      <3>2. Call(x) \in Elems(waiters'[q])
        BY <2>4, <2>6, <3>1
      <3> QED
        BY <2>4, <3>2
    <2> QED
      BY <2>5, <2>6 DEF Promises, LockOf, CreationOf, CleanupOf
  <1> QED
    BY <1>3, <1>4, <1>5, <1>6, <1>7, <1>8, <1>0

\* A creation begins, for a new session or for one without VM (gateway.ts:64-83).
LEMMA LockedCreateOrder ==
    ASSUME Inv, OrderInv, NEW c \in Calls, LockedCreate(c)
    PROVE  OrderInv'
  <1> DEFINE s == proc[c].sid
  <1>1. /\ Resumes(c, "locked") /\ c \in Procs
        /\ obj \in [Calls -> SessionRecords] /\ vm \in [Calls -> VmRecords]
    BY DEF LockedCreate, Procs, Inv, TypeOK
  <1>2. s \in SessionIds /\ proc[c].pc = "locked" /\ obj[c].sid = None
    BY <1>1, Running DEF Inv, ProcRefs, Underway, Fresh
  <1>3. CASE sessions[s] = None
    <2>1. /\ sessions' = [sessions EXCEPT ![s] = c]
          /\ StartCreation(c, c, [obj EXCEPT ![c] = NewSession(c)])
      BY <1>3 DEF LockedCreate
    <2>2. /\ \A x \in Calls \ {c} : obj'[x] = obj[x]
          /\ obj'[c].vm = None /\ JoinAndUnlock(c, c)
          /\ \A v \in Calls \ {c} : vm'[v] = vm[v]
      BY <1>1, <2>1 DEF StartCreation, NewSession
    <2> QED
      BY <1>1, <1>2, <1>3, <2>1, <2>2, JoinQueues, ProvisionOrder
  <1>4. CASE sessions[s] # None
    <2>1. /\ sessions[s] \in Calls /\ obj[sessions[s]].vm = None
          /\ obj[sessions[s]].creation = None
          /\ StartCreation(c, sessions[s], obj) /\ UNCHANGED sessions
      BY <1>2, <1>4, TableObject DEF LockedCreate
    <2>2. /\ \A x \in Calls \ {sessions[s]} : obj'[x] = obj[x]
          /\ obj'[sessions[s]].vm = None /\ JoinAndUnlock(c, c)
          /\ obj'[sessions[s]].state = obj[sessions[s]].state
          /\ \A v \in Calls \ {c} : vm'[v] = vm[v]
      BY <1>1, <2>1 DEF StartCreation, SessionRecords
    <2> QED
      BY <1>1, <2>1, <2>2, JoinQueues, ProvisionOrder
  <1> QED
    BY <1>3, <1>4

\* After the reset a creation begins (gateway.ts:81-83): c was queued behind
\* every destruction that waited for the same teardown.
LEMMA RecreateOrder ==
    ASSUME Inv, OrderInv, NEW c \in Calls, Recreate(c)
    PROVE  OrderInv'
  <1> DEFINE o == proc[c].obj
  <1>1. /\ Resumes(c, "resetting") /\ c \in Procs
        /\ obj \in [Calls -> SessionRecords] /\ vm \in [Calls -> VmRecords]
    BY DEF Recreate, Procs, Inv, TypeOK
  <1>2. o \in Calls /\ obj[o].vm = None /\ obj[o].creation = None
    BY <1>1, Running DEF Inv, ProcRefs, Reset
  <1>3. StartCreation(c, o, obj) /\ UNCHANGED sessions
    BY <1>2 DEF Recreate
  <1>4. /\ \A x \in Calls \ {o} : obj'[x] = obj[x]
        /\ obj'[o].vm = None /\ JoinAndUnlock(c, c)
        /\ obj'[o].state = obj[o].state
        /\ \A v \in Calls \ {c} : vm'[v] = vm[v]
    BY <1>1, <1>2, <1>3 DEF StartCreation, SessionRecords
  <1> QED
    BY <1>1, <1>2, <1>3, <1>4, JoinQueues, ProvisionOrder

\* The creation is refused at once, for a new session or for one without VM.
LEMMA RefusedOrder ==
    ASSUME Inv, OrderInv, NEW c \in Calls, LockedRefused(c) \/ RecreateRefused(c)
    PROVE  OrderInv'
  <1> DEFINE s == proc[c].sid
  <1>1. /\ Resumes(c, "locked") \/ Resumes(c, "resetting")
        /\ Settle(LockOf(s)) /\ UNCHANGED vm /\ s \in SessionIds
        /\ obj \in [Calls -> SessionRecords] /\ vm \in [Calls -> VmRecords]
        /\ \A x \in Procs \ {c} : proc'[x] = proc[x]
        /\ proc'[c].pc \in Finished
    <2>1. /\ Resumes(c, "locked") \/ Resumes(c, "resetting")
          /\ GiveUp(c) /\ UNCHANGED vm
      BY DEF LockedRefused, RecreateRefused
    <2>2. c \in Procs /\ s \in SessionIds /\ TypeOK
      BY <2>1, Holding
    <2> QED
      BY <2>1, <2>2 DEF GiveUp, Returns, NewCall, Finished, TypeOK
  <1>2. CASE UNCHANGED <<sessions, obj>>
    <2>1. ObjectsKept /\ StatesKept
      BY <1>1, <1>2 DEF ObjectsKept, StatesKept
    <2> QED
      BY <1>1, <1>2, <2>1, UnlockOrder
  <1>3. CASE /\ Resumes(c, "locked") /\ sessions[s] = None
             /\ sessions' = [sessions EXCEPT ![s] = c]
             /\ obj' = [obj EXCEPT ![c] = NewSession(c)]
    <2>1. /\ \A x \in Calls \ {c} : obj'[x] = obj[x]
          /\ obj'[c].vm = None
          /\ \A v \in Calls \ {c} : vm'[v] = vm[v]
      BY <1>1, <1>3 DEF NewSession
    <2>2. c \in Procs
      BY DEF Procs
    <2>3. proc[c].pc = "locked" /\ obj[c].sid = None
      BY <1>3, <2>2, Running DEF Inv, Fresh
    <2>4. Released(c)
      BY <1>1, ReleaseQueues
    <2> QED
      BY <1>1, <1>3, <2>1, <2>3, <2>4, ProvisionOrder
  <1> QED
    BY <1>2, <1>3 DEF LockedRefused, RecreateRefused

-----------------------------------------------------------------------------
(* Parts of OrderInv that most of the other steps keep for the same reason.  *)

\* Only the processes in P move, and none of them awaits a promise.
OnlyMove(P) ==
    /\ \A x \in Procs \ P : proc'[x] = proc[x]
    /\ \A x \in P, r \in Promises : Call(x) \notin Elems(waiters[r])

\* The processes in the queues, when none of those in P is in one.
LEMMA OthersQueued ==
    ASSUME Inv, NEW P, OnlyMove(P), NEW q \in Promises, NEW j \in Elems(waiters[q]),
           j.kind = "call"
    PROVE  /\ j.who \in Procs /\ j.who \notin P /\ j = Call(j.who)
           /\ proc'[j.who] = proc[j.who]
  BY Queued, JobNames DEF Inv, OnlyMove

\* No step but those of requests for the lock changes who waits for a lock.
LEMMA LocksKept ==
    ASSUME Inv, OrderInv, NEW P, OnlyMove(P),
           \A s \in SessionIds : waiters'[LockOf(s)] = waiters[LockOf(s)]
    PROVE  LockQueues'
  <1> SUFFICES ASSUME NEW s \in SessionIds, NEW j \in Elems(waiters[LockOf(s)])
               PROVE  j.kind = "call" /\ proc'[j.who].pc = "lockWait"
    BY DEF LockQueues
  <1>1. j.kind = "call" /\ proc[j.who].pc = "lockWait"
    BY DEF OrderInv, LockQueues
  <1> QED
    BY <1>1, OthersQueued, PromiseNames

\* The order in the queues stays while nobody in them moves.
LEMMA TeardownsOrdered ==
    ASSUME Inv, OrderInv, NEW P, NEW v \in Calls, OnlyMove(P)
    PROVE  Ordered(waiters[CleanupOf(v)], proc')
  <1>1. ASSUME NEW j \in Elems(waiters[CleanupOf(v)])
        PROVE  /\ Renews(j, proc') => Renews(j, proc)
               /\ Removes(j, proc') => Removes(j, proc)
    BY OthersQueued, PromiseNames DEF Renews, Removes
  <1> QED
    BY <1>1, KeptOrdered DEF OrderInv, CleanupQueues, TeardownQueue

\* A destruction stays on its way if no queue drops it.
LEMMA StillPending ==
    ASSUME Inv, OrderInv, NEW P, OnlyMove(P),
           \A x \in P : Destroying(x)' =>
               \/ Call(x) \in Elems(micro')
               \/ \E q \in Promises : Call(x) \in Elems(waiters'[q]),
           \A j \in Elems(micro) :
               j \in Elems(micro') \/ j.kind = "create" \/ \E x \in P : j = Call(x),
           \A q \in Promises :
               \A j \in Elems(waiters[q]) :
                   j \in Elems(micro') \/ j \in Elems(waiters'[q])
    PROVE  Pending'
  <1> SUFFICES ASSUME NEW x \in Procs \ P, Destroying(x)'
               PROVE  \/ Call(x) \in Elems(micro')
                      \/ \E q \in Promises : Call(x) \in Elems(waiters'[q])
    BY DEF Pending
  <1>1. /\ Destroying(x) /\ Call(x).kind = "call"
        /\ \A y \in P : Call(x) # Call(y)
    BY JobNames DEF Destroying, Call, OnlyMove
  <1> QED
    BY <1>1 DEF OrderInv, Pending

\* What a job that waits for a creation, or for a teardown, says of it.
LEMMA AwaitedCreation ==
    ASSUME Inv, OrderInv, NEW v \in Calls, NEW j \in Elems(waiters[CreationOf(v)])
    PROVE  /\ j.kind = "call" /\ j.who \in Procs /\ j = Call(j.who)
           /\ proc[j.who].pc \in {"joining", "awaitCreation"}
           /\ proc[j.who].pc = "awaitCreation" =>
                  /\ proc[j.who].obj \in Calls /\ proc[j.who].sid \in SessionIds
                  /\ obj[proc[j.who].obj].sid = proc[j.who].sid
                  /\ obj[proc[j.who].obj].creation = v
                  /\ obj[proc[j.who].obj].state = "destroying"
                  /\ sessions[proc[j.who].sid] = proc[j.who].obj
                  /\ vm[v].session = proc[j.who].obj
  <1>1. j.kind = "call" /\ j.who \in Procs /\ j = Call(j.who)
    BY Queued, JobNames, PromiseNames DEF Inv, OrderInv, CreationQueues, AwaitsCreation
  <1>2. \/ proc[j.who].pc = "joining"
        \/ /\ proc[j.who].pc = "awaitCreation"
           /\ obj[proc[j.who].obj].creation = v
           /\ obj[proc[j.who].obj].state = "destroying"
           /\ sessions[proc[j.who].sid] = proc[j.who].obj
    BY DEF OrderInv, CreationQueues, AwaitsCreation
  <1>3. v # None
    BY GatewayConstants
  <1> QED
    BY <1>1, <1>2, <1>3 DEF Inv, ProcRefs, Underway, ObjRefs

\* The same for a teardown.
LEMMA AwaitedCleanup ==
    ASSUME Inv, OrderInv, NEW v \in Calls, NEW j \in Elems(waiters[CleanupOf(v)])
    PROVE  /\ vm[v].cleanup = "running"
           /\ \/ j = Handler(v) /\ j.kind = "create" /\ vm[v].promise = "discarding"
              \/ /\ j.kind = "call" /\ j.who \in Procs /\ j = Call(j.who)
                 /\ vm[v].promise = "fulfilled"
                 /\ proc[j.who].obj = vm[v].session /\ proc[j.who].obj \in Calls
                 /\ proc[j.who].sid \in SessionIds
                 /\ obj[proc[j.who].obj].sid = proc[j.who].sid
                 /\ \/ j.who \in Calls /\ proc[j.who].pc = "resetting"
                    \/ proc[j.who].pc = "awaitCleanup" /\ AwaitsTeardown(j.who, v)
  <1>1. /\ vm[v].cleanup = "running"
        /\ \/ j = Handler(v) /\ vm[v].promise = "discarding"
           \/ /\ j.kind = "call" /\ vm[v].promise = "fulfilled"
              /\ proc[j.who].obj = vm[v].session
              /\ \/ j.who \in Calls /\ proc[j.who].pc = "resetting"
                 \/ proc[j.who].pc = "awaitCleanup" /\ AwaitsTeardown(j.who, v)
    BY DEF OrderInv, CleanupQueues, TeardownQueue
  <1>2. j \in Jobs
    BY Queued, PromiseNames DEF Inv
  <1>3. CASE j = Handler(v) /\ vm[v].promise = "discarding"
    BY <1>1, <1>3, JobNames
  <1>4. CASE j # Handler(v) \/ vm[v].promise # "discarding"
    BY <1>1, <1>2, <1>4, JobNames DEF Inv, ProcRefs, Underway
  <1> QED
    BY <1>3, <1>4

\* A request that is being reset has the object to itself, and c knows it by
\* the VM whose teardown both wait for.
LEMMA ResetTogether ==
    ASSUME Inv, OrderInv, NEW v \in Calls, NEW c \in Calls,
           proc[c].pc = "resetting", Call(c) \in Elems(waiters[CleanupOf(v)])
    PROVE  /\ vm[v].session \in Calls /\ c \in Procs
           /\ proc[c].obj = vm[v].session
           /\ obj[vm[v].session].vm = None /\ obj[vm[v].session].creation = None
  <1>1. c \in Procs /\ Call(c).kind = "call" /\ Call(c).who = c
    BY JobNames DEF Procs
  <1>2. proc[c].obj = vm[v].session /\ proc[c].obj \in Calls
    BY <1>1, AwaitedCleanup
  <1> QED
    BY <1>1, <1>2 DEF Inv, Reset

\* The running continuation awaits the teardown of v, which is done, or puts it
\* in v's queue.
LEMMA CleanupMove ==
    ASSUME Inv, OrderInv, NEW p \in Procs, NEW v \in Calls, NEW at, Resumes(p, at),
           \A x \in Procs \ {p} : proc'[x] = proc[x], AwaitCleanup(Call(p), v)
    PROVE  /\ Singly' /\ OnlyMove({p})
           /\ \A r \in Promises \ {CleanupOf(v)} : waiters'[r] = waiters[r]
           /\ \A w \in Calls \ {v} : vm'[w] = vm[w]
           /\ \A w \in Calls :
                  vm'[w].promise = vm[w].promise /\ vm'[w].session = vm[w].session
           /\ vm[v].cleanup = "done" =>
                  /\ vm'[v].cleanup = "done" /\ micro' = Append(Rest, Call(p))
                  /\ Elems(micro') = Elems(Rest) \cup {Call(p)}
                  /\ Elems(waiters[CleanupOf(v)]) = {}
                  /\ Elems(waiters'[CleanupOf(v)]) = {}
           /\ vm[v].cleanup # "done" =>
                  /\ vm'[v].cleanup = "running" /\ micro' = Rest
                  /\ Elems(waiters'[CleanupOf(v)]) =
                         Elems(waiters[CleanupOf(v)]) \cup {Call(p)}
           /\ \/ ~Removes(Call(p), proc')
              \/ \A h \in Elems(waiters[CleanupOf(v)]) : ~Renews(h, proc')
              => Ordered(waiters'[CleanupOf(v)], proc')
  <1>1. /\ TypeOK /\ Singly /\ Call(p) \in Jobs /\ Call(p) \notin Elems(Rest)
        /\ \A r \in Promises : Call(p) \notin Elems(waiters[r])
        /\ vm \in [Calls -> VmRecords] /\ CleanupOf(v) \in Promises
    BY Running, PromiseNames DEF TypeOK
  <1>2. OnlyMove({p})
    BY <1>1 DEF OnlyMove
  <1>3. /\ Ordered(waiters[CleanupOf(v)], proc') /\ waiters[CleanupOf(v)] \in Seq(Jobs)
    BY <1>1, <1>2, TeardownsOrdered, Queued
  <1>4. vm' = [vm EXCEPT ![v].cleanup = IF vm[v].cleanup = "no" THEN "running"
                                        ELSE vm[v].cleanup]
    BY DEF AwaitCleanup
  <1>5. /\ \A w \in Calls \ {v} : vm'[w] = vm[w]
        /\ \A w \in Calls :
               vm'[w].promise = vm[w].promise /\ vm'[w].session = vm[w].session
        /\ vm[v].cleanup = "done" => vm'[v].cleanup = "done"
        /\ vm[v].cleanup # "done" => vm'[v].cleanup = "running"
    <2>1. \A w \in Calls : vm[w] \in VmRecords
      BY <1>1
    <2>2. vm[v].cleanup \in {"no", "running", "done"}
      BY <2>1 DEF VmRecords
    <2>3. /\ \A w \in Calls \ {v} : vm'[w] = vm[w]
          /\ vm'[v].cleanup = IF vm[v].cleanup = "no" THEN "running" ELSE vm[v].cleanup
          /\ vm'[v].promise = vm[v].promise /\ vm'[v].session = vm[v].session
      BY <1>1, <1>4, <2>1 DEF VmRecords
    <2> QED
      BY <2>2, <2>3
  <1>6. CASE vm[v].cleanup = "done"
    <2>1. micro' = Append(Rest, Call(p)) /\ UNCHANGED waiters
      BY <1>6 DEF AwaitCleanup
    <2>2. Elems(waiters[CleanupOf(v)]) = {}
      BY <1>6, AwaitedCleanup
    <2>3. Singly' /\ Elems(micro') = Elems(Rest) \cup {Call(p)}
      BY <1>1, <2>1, RequeueMove
    <2> QED
      BY <1>2, <1>3, <1>5, <1>6, <2>1, <2>2, <2>3
  <1>7. CASE vm[v].cleanup # "done"
    <2>1. Await(Call(p), CleanupOf(v))
      BY <1>7 DEF AwaitCleanup
    <2>2. /\ Singly' /\ micro' = Rest
          /\ waiters'[CleanupOf(v)] = Append(waiters[CleanupOf(v)], Call(p))
          /\ Elems(waiters'[CleanupOf(v)]) = Elems(waiters[CleanupOf(v)]) \cup {Call(p)}
          /\ \A r \in Promises \ {CleanupOf(v)} : waiters'[r] = waiters[r]
      BY <1>1, <2>1, AwaitMove
    <2>3. \/ ~Removes(Call(p), proc')
          \/ \A h \in Elems(waiters[CleanupOf(v)]) : ~Renews(h, proc')
          => Ordered(waiters'[CleanupOf(v)], proc')
      BY <1>1, <1>3, <2>2, AppendOrdered
    <2> QED
      BY <1>2, <1>5, <1>7, <2>2, <2>3
  <1> QED
    BY <1>6, <1>7

-----------------------------------------------------------------------------
(* A dead VM is taken off its session.                                       *)

\* Whether c waits for the teardown of v or finds it done: the jobs that wait
\* for v's teardown find c with them.
LEMMA ResetOrder ==
    ASSUME Inv, OrderInv, NEW c \in Calls, NEW o \in Calls, NEW v \in Calls,
           Resumes(c, "locked"), v = obj[o].vm,
           obj'[o].vm = None, obj'[o].state = "creating",
           \A x \in Calls \ {o} : obj'[x] = obj[x],
           \A x \in Procs \ {c} : proc'[x] = proc[x],
           proc'[c].pc = "resetting", proc'[c].obj = o,
           AwaitCleanup(Call(c), v), UNCHANGED sessions
    PROVE  OrderInv'
  <1>1. /\ c \in Procs /\ TypeOK /\ ~Quiet /\ Head(micro) = Call(c)
        /\ Call(c).kind = "call" /\ Call(c).who = c /\ Call(c) \in Jobs
        /\ Renews(Head(micro), proc) /\ Singly
    BY Running DEF Procs, Renews
  <1>2. /\ vm[v].session = o /\ vm[v].promise = "fulfilled" /\ obj[o].creation = None
        /\ None \notin Calls
    BY GatewayConstants DEF ObjRefs, Delivered, Inv, OrderInv
  <1>3. /\ Singly' /\ OnlyMove({c})
        /\ \A r \in Promises \ {CleanupOf(v)} : waiters'[r] = waiters[r]
        /\ \A w \in Calls \ {v} : vm'[w] = vm[w]
        /\ \A w \in Calls :
               vm'[w].promise = vm[w].promise /\ vm'[w].session = vm[w].session
        /\ Ordered(waiters'[CleanupOf(v)], proc')
    <2>1. ~Removes(Call(c), proc')
      BY <1>1 DEF Removes
    <2> QED
      BY <1>1, <2>1, CleanupMove
  <1>4. /\ Elems(Rest) \subseteq Elems(micro')
        /\ Elems(micro') \subseteq Elems(Rest) \cup {Call(c)}
        /\ Elems(waiters[CleanupOf(v)]) \subseteq Elems(waiters'[CleanupOf(v)])
        /\ Elems(waiters'[CleanupOf(v)]) \subseteq Elems(waiters[CleanupOf(v)]) \cup {Call(c)}
        /\ Elems(waiters'[CleanupOf(v)]) # {} =>
               vm'[v].cleanup = "running" /\ Call(c) \in Elems(waiters'[CleanupOf(v)])
    <2>1. CASE vm[v].cleanup = "done"
      BY <1>1, <2>1, CleanupMove
    <2>2. CASE vm[v].cleanup # "done"
      <3>1. /\ vm'[v].cleanup = "running" /\ micro' = Rest
            /\ Elems(waiters'[CleanupOf(v)]) =
                   Elems(waiters[CleanupOf(v)]) \cup {Call(c)}
        BY <1>1, <2>2, CleanupMove
      <3> QED
        BY <3>1
    <2> QED
      BY <2>1, <2>2
  <1>5. /\ \A s \in SessionIds : waiters'[LockOf(s)] = waiters[LockOf(s)]
        /\ \A w \in Calls : waiters'[CreationOf(w)] = waiters[CreationOf(w)]
        /\ \A w \in Calls \ {v} : waiters'[CleanupOf(w)] = waiters[CleanupOf(w)]
    BY <1>3, PromiseNames
  <1>6. Delivered'
    <2> SUFFICES ASSUME NEW x \in Calls, obj'[x].vm # None
                 PROVE  vm'[obj'[x].vm].promise = "fulfilled"
      BY DEF Delivered
    <2>1. obj'[x].vm = obj[x].vm /\ obj[x].vm \in Calls
      BY <1>1 DEF SessionRecords, TypeOK
    <2>2. vm[obj[x].vm].promise = "fulfilled"
      BY <2>1 DEF Delivered, OrderInv
    <2> QED
      BY <1>3, <2>1, <2>2
  <1>7. LockQueues'
    BY <1>3, <1>5, LocksKept
  <1>8. CreationQueues'
    <2> SUFFICES ASSUME NEW w \in Calls, NEW j \in Elems(waiters'[CreationOf(w)])
                 PROVE  AwaitsCreation(j, w)'
      BY DEF CreationQueues
    <2>1. j \in Elems(waiters[CreationOf(w)])
      BY <1>5
    <2>2. /\ j.kind = "call"
          /\ proc[j.who].pc \in {"joining", "awaitCreation"}
          /\ proc[j.who].pc = "awaitCreation" =>
                 /\ proc[j.who].obj \in Calls
                 /\ obj[proc[j.who].obj].creation = w
                 /\ obj[proc[j.who].obj].state = "destroying"
                 /\ sessions[proc[j.who].sid] = proc[j.who].obj
      BY <2>1, AwaitedCreation
    <2>3. proc'[j.who] = proc[j.who]
      BY <1>3, <2>1, <2>2, OthersQueued, PromiseNames
    <2>4. proc[j.who].pc = "awaitCreation" => proc[j.who].obj # o
      BY <1>2, <2>2
    <2> QED
      BY <2>2, <2>3, <2>4 DEF AwaitsCreation
  <1>9. CleanupQueues'
    <2> SUFFICES ASSUME NEW w \in Calls
                 PROVE  TeardownQueue(w)'
      BY DEF CleanupQueues
    <2>1. Ordered(waiters'[CleanupOf(w)], proc')
      <3>1. CASE w = v
        BY <1>3, <3>1
      <3>2. CASE w # v
        BY <1>3, <1>5, <3>2, TeardownsOrdered
      <3> QED
        BY <3>1, <3>2
    <2>2. ASSUME NEW j \in Elems(waiters'[CleanupOf(w)])
          PROVE  vm'[w].cleanup = "running"
      <3>1. CASE w = v
        BY <1>4, <2>2, <3>1
      <3>2. CASE w # v
        <4>1. j \in Elems(waiters[CleanupOf(w)]) /\ vm'[w] = vm[w]
          BY <1>3, <1>5, <2>2, <3>2
        <4> QED
          BY <4>1, AwaitedCleanup
      <3> QED
        BY <3>1, <3>2
    <2>3. ASSUME NEW j \in Elems(waiters[CleanupOf(w)]), j.kind = "call",
                 proc[j.who].pc = "awaitCleanup", AwaitsTeardown(j.who, w)
          PROVE  AwaitsTeardown(j.who, w)'
      <3>1. proc'[j.who] = proc[j.who]
        BY <1>3, <2>3, OthersQueued, PromiseNames
      <3>2. proc[j.who].obj \in Calls
        BY <2>3, AwaitedCleanup, JobNames
      <3>3. obj'[proc[j.who].obj].state # "active"
        BY <2>3, <3>2 DEF AwaitsTeardown
      <3>4. CASE w = v
        <4>1. Call(c) \in Elems(waiters'[CleanupOf(w)])
          BY <1>4, <2>3, <3>4
        <4> QED
          BY <2>3, <3>1, <3>3, <4>1 DEF AwaitsTeardown
      <3>5. CASE w # v
        <4>1. obj[proc[j.who].obj].vm = w => obj'[proc[j.who].obj].vm = w
          BY <3>2, <3>5
        <4>2. \A d \in Calls : proc[d].pc = "resetting" => proc'[d].pc = "resetting"
          BY DEF Procs
        <4>3. waiters'[CleanupOf(w)] = waiters[CleanupOf(w)]
          BY <1>5, <3>5
        <4> QED
          BY <2>3, <3>1, <3>3, <4>1, <4>2, <4>3 DEF AwaitsTeardown
      <3> QED
        BY <3>4, <3>5
    <2>4. ASSUME NEW j \in Elems(waiters'[CleanupOf(w)]), j \in Elems(waiters[CleanupOf(w)])
          PROVE  \/ j = Handler(w) /\ vm'[w].promise = "discarding"
                 \/ /\ j.kind = "call" /\ vm'[w].promise = "fulfilled"
                    /\ proc'[j.who].obj = vm'[w].session
                    /\ \/ j.who \in Calls /\ proc'[j.who].pc = "resetting"
                       \/ proc'[j.who].pc = "awaitCleanup" /\ AwaitsTeardown(j.who, w)'
      <3>1. j.kind = "call" => proc'[j.who] = proc[j.who]
        BY <1>3, <2>4, OthersQueued, PromiseNames
      <3>2. vm'[w].promise = vm[w].promise /\ vm'[w].session = vm[w].session
        BY <1>3
      <3>3. \/ j = Handler(w) /\ vm[w].promise = "discarding"
            \/ /\ j.kind = "call" /\ vm[w].promise = "fulfilled"
               /\ proc[j.who].obj = vm[w].session
               /\ \/ j.who \in Calls /\ proc[j.who].pc = "resetting"
                  \/ proc[j.who].pc = "awaitCleanup" /\ AwaitsTeardown(j.who, w)
        BY <2>4, AwaitedCleanup
      <3> QED
        BY <2>3, <2>4, <3>1, <3>2, <3>3
    <2>5. ASSUME NEW j \in Elems(waiters'[CleanupOf(w)]), j \notin Elems(waiters[CleanupOf(w)])
          PROVE  /\ j.kind = "call" /\ vm'[w].promise = "fulfilled"
                 /\ proc'[j.who].obj = vm'[w].session
                 /\ j.who \in Calls /\ proc'[j.who].pc = "resetting"
      <3>1. w = v /\ j = Call(c)
        BY <1>4, <1>5, <2>5
      <3> QED
        BY <1>1, <1>2, <1>3, <3>1
    <2> QED
      BY <2>1, <2>2, <2>4, <2>5 DEF TeardownQueue
  <1>10. \A j \in Elems(Rest) :
             /\ j.kind = "call" /\ ~Removes(j, proc')
             /\ proc'[j.who].pc \in Underway
    <2> SUFFICES ASSUME NEW j \in Elems(Rest)
                 PROVE  /\ j.kind = "call" /\ ~Removes(j, proc')
                        /\ proc'[j.who].pc \in Underway
      OBVIOUS
    <2>1. /\ j.kind = "call" /\ ~Removes(j, proc) /\ j.who \in Procs /\ j = Call(j.who)
          /\ proc[j.who].pc \in Underway /\ j # Head(micro)
      BY <1>1, RenewsLast, Behind
    <2>2. proc'[j.who] = proc[j.who]
      BY <1>1, <2>1
    <2> QED
      BY <2>1, <2>2 DEF Removes
  <1>11. MicroQueue'
    <2>1. \A j \in Elems(micro') :
              /\ j.kind = "call" /\ ~Removes(j, proc')
              /\ proc'[j.who].pc \in Underway
      <3>1. ~Removes(Call(c), proc') /\ proc'[Call(c).who].pc \in Underway
        BY <1>1 DEF Removes, Underway
      <3> QED
        BY <1>1, <1>4, <1>10, <3>1
    <2>2. Ordered(micro', proc')
      BY <2>1, FreelyOrdered
    <2> QED
      BY <2>1, <2>2 DEF MicroQueue
  <1>12. Pending'
    <2>1. \A x \in {c} : ~Destroying(x)'
      BY DEF Destroying
    <2>2. \A j \in Elems(micro) : j \in Elems(micro') \/ j = Call(c)
      BY <1>1, <1>4, RestElems
    <2>3. ASSUME NEW q \in Promises, NEW j \in Elems(waiters[q])
          PROVE  j \in Elems(waiters'[q])
      BY <1>3, <1>4
    <2> QED
      BY <1>3, <2>1, <2>2, <2>3, StillPending
  <1> QED
    BY <1>3, <1>6, <1>7, <1>8, <1>9, <1>11, <1>12 DEF OrderInv

\* The VM found under the lock is dead or cleaned: it is taken off its session
\* and torn down (gateway.ts:68-76).
LEMMA LockedResetOrder ==
    ASSUME Inv, OrderInv, NEW c \in Calls, LockedReset(c)
    PROVE  OrderInv'
  <1> DEFINE o == sessions[proc[c].sid]
  <1>1. /\ Resumes(c, "locked") /\ c \in Procs /\ UNCHANGED sessions
        /\ obj' = [obj EXCEPT ![o] = [@ EXCEPT !.vm = None, !.state = "creating"]]
        /\ proc' = [proc EXCEPT ![c].pc = "resetting", ![c].obj = o]
        /\ AwaitCleanup(Call(c), obj[o].vm)
    BY DEF LockedReset, Procs
  <1>2. proc[c].sid \in SessionIds
    BY <1>1, Running DEF Inv, ProcRefs, Underway
  <1>3. o \in Calls /\ obj[o].vm \in Calls
    BY <1>2, TableObject DEF LockedReset
  <1> HIDE DEF o
  <1>4. /\ \A x \in Procs \ {c} : proc'[x] = proc[x]
        /\ proc'[c].pc = "resetting" /\ proc'[c].obj = o
    <2>1. proc \in [Procs -> ProcRecords] /\ proc[c] \in ProcRecords
      BY <1>1, Running
    <2> QED
      BY <1>1, <2>1 DEF ProcRecords
  <1>5. /\ \A x \in Calls \ {o} : obj'[x] = obj[x]
        /\ obj'[o].vm = None /\ obj'[o].state = "creating"
    <2>1. obj \in [Calls -> SessionRecords] /\ obj[o] \in SessionRecords
      BY <1>3 DEF Inv, TypeOK
    <2> QED
      BY <1>1, <1>3, <2>1 DEF SessionRecords
  <1> QED
    BY <1>1, <1>3, <1>4, <1>5, ResetOrder

-----------------------------------------------------------------------------
(* The life of a VM.                                                         *)

\* A queue for a teardown stays as it is if its VM, and what its destructions
\* know of their session, do.
LEMMA TeardownKept ==
    ASSUME Inv, OrderInv, NEW P, OnlyMove(P), NEW v \in Calls,
           waiters'[CleanupOf(v)] = waiters[CleanupOf(v)],
           Elems(waiters[CleanupOf(v)]) # {} =>
               /\ vm'[v].cleanup = "running" /\ vm'[v].promise = vm[v].promise
               /\ vm'[v].session = vm[v].session,
           \A p \in Procs :
               proc[p].pc = "awaitCleanup" /\ AwaitsTeardown(p, v)
               /\ proc[p].obj \in Calls /\ proc[p].sid \in SessionIds
               /\ obj[proc[p].obj].sid = proc[p].sid
               /\ proc[p].obj = vm[v].session /\ vm[v].cleanup = "running" =>
                   LET o == proc[p].obj
                       s == proc[p].sid
                   IN  /\ obj'[o].state # "active" /\ sessions'[s] \in {o, None}
                       /\ obj[o].vm = v /\ sessions[s] = o =>
                              obj'[o].vm = v /\ sessions'[s] = o
    PROVE  TeardownQueue(v)'
  <1>1. Ordered(waiters'[CleanupOf(v)], proc')
    BY TeardownsOrdered
  <1>2. ASSUME NEW j \in Elems(waiters[CleanupOf(v)]), j.kind = "call",
               proc[j.who].pc = "awaitCleanup", AwaitsTeardown(j.who, v),
               j # Handler(v)
        PROVE  AwaitsTeardown(j.who, v)'
    <2>1. /\ j.who \in Procs /\ proc[j.who].obj \in Calls /\ proc[j.who].sid \in SessionIds
          /\ obj[proc[j.who].obj].sid = proc[j.who].sid
          /\ proc[j.who].obj = vm[v].session /\ vm[v].cleanup = "running"
      BY <1>2, AwaitedCleanup
    <2>2. proc'[j.who] = proc[j.who]
      BY <1>2, OthersQueued, PromiseNames
    <2>3. ASSUME NEW c \in Calls, proc[c].pc = "resetting",
                 Call(c) \in Elems(waiters[CleanupOf(v)])
          PROVE  proc'[c].pc = "resetting"
      <3>1. c \in Procs /\ Call(c).kind = "call" /\ Call(c).who = c
        BY JobNames DEF Procs
      <3> QED
        BY <2>3, <3>1, OthersQueued, PromiseNames
    <2> QED
      BY <1>2, <2>1, <2>2, <2>3 DEF AwaitsTeardown
  <1>3. ASSUME NEW j \in Elems(waiters'[CleanupOf(v)])
        PROVE  /\ vm'[v].cleanup = "running"
               /\ \/ j = Handler(v) /\ vm'[v].promise = "discarding"
                  \/ /\ j.kind = "call" /\ vm'[v].promise = "fulfilled"
                     /\ proc'[j.who].obj = vm'[v].session
                     /\ \/ j.who \in Calls /\ proc'[j.who].pc = "resetting"
                        \/ proc'[j.who].pc = "awaitCleanup" /\ AwaitsTeardown(j.who, v)'
    <2>1. j \in Elems(waiters[CleanupOf(v)])
      BY <1>3
    <2>2. j.kind = "call" => proc'[j.who] = proc[j.who]
      BY <2>1, OthersQueued, PromiseNames
    <2>3. \/ j = Handler(v) /\ j.kind = "create" /\ vm[v].promise = "discarding"
          \/ /\ j.kind = "call" /\ vm[v].promise = "fulfilled"
             /\ proc[j.who].obj = vm[v].session
             /\ \/ j.who \in Calls /\ proc[j.who].pc = "resetting"
                \/ proc[j.who].pc = "awaitCleanup" /\ AwaitsTeardown(j.who, v)
      BY <2>1, AwaitedCleanup
    <2>4. vm[v].promise # "discarding" => j # Handler(v) \/ j.kind = "create"
      BY JobNames
    <2> QED
      BY <1>2, <2>1, <2>2, <2>3, <2>4, JobNames
  <1> QED
    BY <1>1, <1>3 DEF TeardownQueue

\* Nobody moves.
LEMMA NobodyMoves ==
    ASSUME UNCHANGED proc
    PROVE  OnlyMove({})
  BY DEF OnlyMove

\* An event finds nothing left to run.
LEMMA QuietRest ==
    ASSUME Inv, OrderInv, Quiet
    PROVE  /\ Elems(Rest) = {} /\ Elems(micro) = {} /\ Rest = <<>>
           /\ TypeOK /\ Singly
  BY RestElems DEF Inv, OrderInv

\* A process exits, or a session goes idle: the queues do not see it.
LEMMA UnseenOrder ==
    ASSUME Inv, OrderInv, Quiet, ObjectsKept, StatesKept,
           UNCHANGED <<sessions, waiters, micro, proc>>
    PROVE  OrderInv'
  <1>1. /\ OnlyMove({}) /\ Elems(micro') = {} /\ Singly'
    BY NobodyMoves, QuietRest DEF OrderInv, Singly
  <1>2. Delivered'
    BY DEF Inv, OrderInv, Delivered, TypeOK, SessionRecords, ObjectsKept, StatesKept
  <1>3. LockQueues'
    BY <1>1, LocksKept
  <1>4. CreationQueues'
    <2> SUFFICES ASSUME NEW v \in Calls, NEW j \in Elems(waiters[CreationOf(v)])
                 PROVE  AwaitsCreation(j, v)'
      BY DEF CreationQueues
    <2> QED
      BY AwaitedCreation DEF AwaitsCreation, ObjectsKept, StatesKept
  <1>5. CleanupQueues'
    <2> SUFFICES ASSUME NEW v \in Calls
                 PROVE  TeardownQueue(v)'
      BY DEF CleanupQueues
    <2>1. ASSUME NEW p \in Procs, AwaitsTeardown(p, v), proc[p].obj \in Calls
          PROVE  /\ obj'[proc[p].obj].state # "active"
                 /\ sessions'[proc[p].sid] \in {proc[p].obj, None}
                 /\ obj'[proc[p].obj].vm = obj[proc[p].obj].vm
      BY <2>1 DEF AwaitsTeardown, ObjectsKept, StatesKept
    <2>2. Elems(waiters[CleanupOf(v)]) # {} => vm'[v].cleanup = "running"
      BY AwaitedCleanup DEF StatesKept
    <2> QED
      BY <1>1, <2>1, <2>2, TeardownKept DEF StatesKept
  <1>6. MicroQueue'
    BY <1>1, FreelyOrdered DEF MicroQueue
  <1>7. Pending'
    BY <1>1, QuietRest, StillPending
  <1> QED
    BY <1>1, <1>2, <1>3, <1>4, <1>5, <1>6, <1>7 DEF OrderInv

\* A process exits, or a session goes idle.
LEMMA UnseenOrders ==
    ASSUME Inv, OrderInv, NEW x \in Procs,
           \/ x \in Calls /\ ProcessExits(x)
           \/ x \in SessionIds /\ GoIdle(x)
    PROVE  OrderInv'
  <1>1. /\ obj \in [Calls -> SessionRecords] /\ vm \in [Calls -> VmRecords]
        /\ sessions \in [SessionIds -> Calls \cup {None}]
    BY DEF Inv, TypeOK
  <1>2. CASE x \in Calls /\ ProcessExits(x)
    <2>1. vm' = [vm EXCEPT ![x] = [@ EXCEPT !.state = "dead"]] /\ obj' = obj
          /\ Quiet /\ UNCHANGED <<sessions, waiters, micro, proc>>
      BY <1>1, <1>2 DEF ProcessExits
    <2>2. ObjectsKept /\ StatesKept
      BY <1>1, <1>2, <2>1 DEF VmRecords, ObjectsKept, StatesKept
    <2> QED
      BY <2>1, <2>2, UnseenOrder
  <1>3. CASE x \in SessionIds /\ GoIdle(x)
    <2>1. /\ obj' = [obj EXCEPT ![sessions[x]] = [@ EXCEPT !.idle = TRUE]] /\ vm' = vm
          /\ Quiet /\ UNCHANGED <<sessions, waiters, micro, proc>>
          /\ sessions[x] \in Calls
      BY <1>1, <1>3 DEF GoIdle
    <2>2. ObjectsKept /\ StatesKept
      BY <1>1, <2>1 DEF SessionRecords, ObjectsKept, StatesKept
    <2> QED
      BY <2>1, <2>2, UnseenOrder
  <1> QED
    BY <1>2, <1>3

\* createVm delivered a VM that the session wants: only requests waited for it.
LEMMA AttachOrder ==
    ASSUME Inv, OrderInv, NEW v \in Calls, Attach(v)
    PROVE  OrderInv'
  <1> DEFINE o == vm[v].session
  <1>1. /\ Quiet /\ vm[v].state = "creating" /\ ~Doomed(v) /\ Settle(CreationOf(v))
        /\ UNCHANGED <<sessions, proc>> /\ TypeOK /\ Singly
        /\ Elems(Rest) = {} /\ Elems(micro) = {}
        /\ obj \in [Calls -> SessionRecords] /\ vm \in [Calls -> VmRecords]
    BY QuietRest DEF Attach, TypeOK
  <1>2. /\ o \in Calls /\ vm[v].cleanup = "no" /\ vm[v].promise = "pending"
        /\ obj[o].creation = v /\ obj[o].vm = None /\ None \notin Calls
        /\ obj[o].state # "destroying"
    BY <1>1, GatewayConstants DEF Inv, VmRefs, CreationHeld, ObjRefs, Doomed
  <1>3. /\ \A x \in Calls \ {o} : obj'[x] = obj[x]
        /\ obj'[o].vm = v /\ obj'[o].state = "active" /\ obj'[o].creation = None
        /\ obj'[o].sid = obj[o].sid
    <2>1. obj' = [obj EXCEPT ![o] =
                     [@ EXCEPT !.vm = v, !.state = "active", !.creation = None]]
      BY DEF Attach
    <2> QED
      BY <1>1, <1>2, <2>1 DEF SessionRecords
  <1>4. /\ \A w \in Calls \ {v} : vm'[w] = vm[w]
        /\ vm'[v].promise = "fulfilled"
    <2>1. vm' = [vm EXCEPT ![v] = [@ EXCEPT !.state = "ready", !.promise = "fulfilled"]]
      BY DEF Attach
    <2> QED
      BY <1>1, <2>1 DEF VmRecords
  <1>5. /\ Singly' /\ Elems(micro') = Elems(waiters[CreationOf(v)])
        /\ Elems(waiters'[CreationOf(v)]) = {}
        /\ \A r \in Promises \ {CreationOf(v)} : waiters'[r] = waiters[r]
    <2>1. CreationOf(v) \in Promises /\ Settle(CreationOf(v)) /\ TypeOK /\ Singly
      BY <1>1, PromiseNames
    <2>2. Elems(Rest) = {}
      BY <1>1
    <2> QED
      BY <2>1, <2>2, SettleMove
  <1>6. /\ OnlyMove({})
        /\ \A s \in SessionIds : waiters'[LockOf(s)] = waiters[LockOf(s)]
        /\ \A w \in Calls \ {v} : waiters'[CreationOf(w)] = waiters[CreationOf(w)]
        /\ \A w \in Calls : waiters'[CleanupOf(w)] = waiters[CleanupOf(w)]
    BY <1>1, <1>5, NobodyMoves, PromiseNames
  <1>7. Delivered'
    <2> SUFFICES ASSUME NEW x \in Calls \ {o}, obj'[x].vm # None
                 PROVE  vm'[obj'[x].vm].promise = "fulfilled"
      BY <1>3, <1>4 DEF Delivered
    <2>1. obj'[x].vm = obj[x].vm /\ obj[x].vm \in Calls
      BY <1>1, <1>3 DEF SessionRecords
    <2>2. vm[obj[x].vm].promise = "fulfilled"
      BY <1>3, <2>1 DEF Delivered, OrderInv
    <2> QED
      BY <1>4, <2>1, <2>2
  <1>8. LockQueues'
    BY <1>6, LocksKept
  <1>9. CreationQueues'
    <2> SUFFICES ASSUME NEW w \in Calls, NEW j \in Elems(waiters'[CreationOf(w)])
                 PROVE  AwaitsCreation(j, w)'
      BY DEF CreationQueues
    <2>1. w # v /\ j \in Elems(waiters[CreationOf(w)])
      BY <1>5, <1>6
    <2>2. proc[j.who].pc = "awaitCreation" => proc[j.who].obj # o
      BY <1>2, <2>1, AwaitedCreation
    <2> QED
      BY <1>1, <1>3, <2>1, <2>2, AwaitedCreation DEF AwaitsCreation
  <1>10. CleanupQueues'
    <2> SUFFICES ASSUME NEW w \in Calls
                 PROVE  TeardownQueue(w)'
      BY DEF CleanupQueues
    <2>1. Elems(waiters[CleanupOf(w)]) # {} => w # v
      BY <1>2, AwaitedCleanup
    <2>2. Elems(waiters[CleanupOf(w)]) # {} => vm'[w] = vm[w] /\ vm[w].cleanup = "running"
      BY <1>4, <2>1, AwaitedCleanup
    <2>3. ASSUME NEW p \in Procs, AwaitsTeardown(p, w), proc[p].obj \in Calls,
                 proc[p].obj = vm[w].session
          PROVE  proc[p].obj # o
      <3>1. CASE obj[proc[p].obj].vm = w
        BY <1>2, <3>1
      <3>2. CASE obj[proc[p].obj].vm # w
        <4>1. PICK c \in Calls :
                  proc[c].pc = "resetting" /\ Call(c) \in Elems(waiters[CleanupOf(w)])
          BY <2>3, <3>2 DEF AwaitsTeardown
        <4>2. obj[vm[w].session].creation = None
          BY <4>1, ResetTogether
        <4> QED
          BY <1>2, <2>3, <4>2
      <3> QED
        BY <3>1, <3>2
    <2>4. ASSUME NEW p \in Procs, AwaitsTeardown(p, w), proc[p].obj \in Calls,
                 proc[p].obj = vm[w].session
          PROVE  /\ obj'[proc[p].obj] = obj[proc[p].obj]
                 /\ obj[proc[p].obj].state # "active"
                 /\ sessions[proc[p].sid] \in {proc[p].obj, None}
      BY <1>3, <2>3, <2>4 DEF AwaitsTeardown
    <2> QED
      BY <1>1, <1>6, <2>2, <2>4, TeardownKept
  <1>11. MicroQueue'
    <2>1. ASSUME NEW j \in Elems(micro')
          PROVE  /\ j.kind = "call" /\ ~Removes(j, proc')
                 /\ proc'[j.who].pc \in Underway
      <3>1. /\ j.kind = "call"
            /\ proc[j.who].pc \in {"joining", "awaitCreation"}
            /\ proc[j.who].pc = "awaitCreation" => o = proc[j.who].obj
                   /\ obj[proc[j.who].obj].state = "destroying"
        BY <1>5, <2>1, AwaitedCreation
      <3>2. proc[j.who].pc = "joining"
        BY <1>2, <3>1
      <3> QED
        BY <1>1, <3>1, <3>2 DEF Removes, Underway
    <2>2. Ordered(micro', proc')
      BY <2>1, FreelyOrdered
    <2> QED
      BY <2>1, <2>2 DEF MicroQueue
  <1>12. Pending'
    <2>1. ASSUME NEW q \in Promises, NEW j \in Elems(waiters[q])
          PROVE  j \in Elems(micro') \/ j \in Elems(waiters'[q])
      BY <1>5
    <2> QED
      BY <1>1, <1>6, <2>1, StillPending
  <1> QED
    BY <1>5, <1>7, <1>8, <1>9, <1>10, <1>11, <1>12 DEF OrderInv

\* createVm delivered a VM nobody wants: its handler waits for the teardown.
LEMMA DiscardOrder ==
    ASSUME Inv, OrderInv, NEW v \in Calls, Discard(v)
    PROVE  OrderInv'
  <1>1. /\ Quiet /\ vm[v].state = "creating" /\ Await(Handler(v), CleanupOf(v))
        /\ UNCHANGED <<sessions, obj, proc>> /\ TypeOK /\ Singly
        /\ Elems(Rest) = {} /\ Elems(micro) = {}
        /\ obj \in [Calls -> SessionRecords] /\ vm \in [Calls -> VmRecords]
    BY QuietRest DEF Discard, TypeOK
  <1>2. /\ vm[v].cleanup = "no" /\ vm[v].promise = "pending"
        /\ Handler(v) \in Jobs /\ Handler(v).kind = "create"
    BY <1>1, Names, JobNames DEF Inv, CreationHeld
  <1>3. /\ \A w \in Calls \ {v} : vm'[w] = vm[w]
        /\ vm'[v].promise = "discarding" /\ vm'[v].cleanup = "running"
    <2>1. vm' = [vm EXCEPT ![v] =
              [@ EXCEPT !.state = "ready", !.cleanup = "running", !.promise = "discarding"]]
      BY DEF Discard
    <2> QED
      BY <1>1, <2>1 DEF VmRecords
  <1>4. Elems(waiters[CleanupOf(v)]) = {}
    BY <1>2, AwaitedCleanup
  <1>5. ASSUME NEW r \in Promises
        PROVE  Handler(v) \notin Elems(waiters[r])
    <2>1. CASE \E s \in SessionIds : r = LockOf(s)
      BY <1>2, <2>1 DEF OrderInv, LockQueues
    <2>2. CASE \E w \in Calls : r = CreationOf(w)
      BY <1>2, <2>2, AwaitedCreation
    <2>3. CASE \E w \in Calls : r = CleanupOf(w)
      <3>1. PICK w \in Calls : r = CleanupOf(w)
        BY <2>3
      <3>2. Handler(v) \in Elems(waiters[r]) => Handler(v) = Handler(w)
        BY <1>2, <3>1, AwaitedCleanup
      <3> QED
        BY <1>4, <3>1, <3>2, JobNames
    <2> QED
      BY <2>1, <2>2, <2>3 DEF Promises, LockOf, CreationOf, CleanupOf
  <1>6. /\ Singly' /\ Elems(micro') = {}
        /\ Elems(waiters'[CleanupOf(v)]) = {Handler(v)}
        /\ \A r \in Promises \ {CleanupOf(v)} : waiters'[r] = waiters[r]
    BY <1>1, <1>2, <1>4, <1>5, PromiseNames, AwaitMove
  <1>7. /\ OnlyMove({})
        /\ \A s \in SessionIds : waiters'[LockOf(s)] = waiters[LockOf(s)]
        /\ \A w \in Calls : waiters'[CreationOf(w)] = waiters[CreationOf(w)]
        /\ \A w \in Calls \ {v} : waiters'[CleanupOf(w)] = waiters[CleanupOf(w)]
    BY <1>1, <1>6, NobodyMoves, PromiseNames
  <1>8. Delivered'
    <2> SUFFICES ASSUME NEW x \in Calls, obj[x].vm # None
                 PROVE  vm'[obj[x].vm].promise = "fulfilled"
      BY <1>1 DEF Delivered
    <2>1. obj[x].vm \in Calls /\ vm[obj[x].vm].promise = "fulfilled"
      BY <1>1 DEF SessionRecords, Delivered, OrderInv
    <2> QED
      BY <1>2, <1>3, <2>1
  <1>9. LockQueues'
    BY <1>7, LocksKept
  <1>10. CreationQueues'
    <2> SUFFICES ASSUME NEW w \in Calls, NEW j \in Elems(waiters'[CreationOf(w)])
                 PROVE  AwaitsCreation(j, w)'
      BY DEF CreationQueues
    <2> QED
      BY <1>1, <1>7, AwaitedCreation DEF AwaitsCreation
  <1>11. CleanupQueues'
    <2> SUFFICES ASSUME NEW w \in Calls
                 PROVE  TeardownQueue(w)'
      BY DEF CleanupQueues
    <2>1. CASE w = v
      <3>1. Ordered(waiters'[CleanupOf(v)], proc')
        BY <1>2, <1>6, FreelyOrdered DEF Removes
      <3> QED
        BY <1>3, <1>6, <2>1, <3>1 DEF TeardownQueue
    <2>2. CASE w # v
      <3>1. Elems(waiters[CleanupOf(w)]) # {} => vm[w].cleanup = "running"
        BY AwaitedCleanup
      <3>2. ASSUME NEW p \in Procs, AwaitsTeardown(p, w)
            PROVE  /\ obj[proc[p].obj].state # "active"
                   /\ sessions[proc[p].sid] \in {proc[p].obj, None}
        BY <3>2 DEF AwaitsTeardown
      <3> QED
        BY <1>1, <1>3, <1>7, <2>2, <3>1, <3>2, TeardownKept
    <2> QED
      BY <2>1, <2>2
  <1>12. MicroQueue'
    BY <1>6, FreelyOrdered DEF MicroQueue
  <1>13. Pending'
    <2>1. ASSUME NEW q \in Promises, NEW j \in Elems(waiters[q])
          PROVE  j \in Elems(waiters'[q])
      BY <1>4, <1>6
    <2> QED
      BY <1>1, <1>7, <2>1, StillPending
  <1> QED
    BY <1>6, <1>8, <1>9, <1>10, <1>11, <1>12, <1>13 DEF OrderInv

\* The creation v ends without a VM for its session: the destructions that
\* waited for it go on, and no request of theirs is before them.
LEMMA RejectOrder ==
    ASSUME Inv, OrderInv, NEW v \in Calls, NEW o \in Calls, o = vm[v].session,
           vm[v].promise \in {"pending", "discarding"}, Elems(Rest) = {},
           \A j \in Elems(micro) : j.kind = "create",
           Elems(waiters[CleanupOf(v)]) = {},
           Settle(CreationOf(v)), UNCHANGED <<sessions, proc>>,
           \A x \in Calls \ {o} : obj'[x] = obj[x],
           obj'[o].creation = None, obj'[o].vm = obj[o].vm,
           obj'[o].state = obj[o].state,
           \A w \in Calls \ {v} : vm'[w] = vm[w]
    PROVE  OrderInv'
  <1>1. /\ TypeOK /\ Singly /\ obj \in [Calls -> SessionRecords]
        /\ obj[o].creation = v /\ obj[o].vm = None /\ None \notin Calls
    BY GatewayConstants DEF Inv, OrderInv, TypeOK, CreationHeld, ObjRefs
  <1>2. /\ Singly' /\ Elems(micro') = Elems(waiters[CreationOf(v)])
        /\ Elems(waiters'[CreationOf(v)]) = {}
        /\ \A r \in Promises \ {CreationOf(v)} : waiters'[r] = waiters[r]
    BY <1>1, PromiseNames, SettleMove
  <1>3. /\ OnlyMove({})
        /\ \A s \in SessionIds : waiters'[LockOf(s)] = waiters[LockOf(s)]
        /\ \A w \in Calls \ {v} : waiters'[CreationOf(w)] = waiters[CreationOf(w)]
        /\ \A w \in Calls : waiters'[CleanupOf(w)] = waiters[CleanupOf(w)]
    BY <1>2, NobodyMoves, PromiseNames
  <1>4. Delivered'
    <2> SUFFICES ASSUME NEW x \in Calls, obj'[x].vm # None
                 PROVE  vm'[obj'[x].vm].promise = "fulfilled"
      BY DEF Delivered
    <2>1. obj'[x].vm = obj[x].vm /\ obj[x].vm \in Calls
      BY <1>1 DEF SessionRecords
    <2>2. vm[obj[x].vm].promise = "fulfilled"
      BY <2>1 DEF Delivered, OrderInv
    <2> QED
      BY <2>1, <2>2
  <1>5. LockQueues'
    BY <1>3, LocksKept
  <1>6. CreationQueues'
    <2> SUFFICES ASSUME NEW w \in Calls, NEW j \in Elems(waiters'[CreationOf(w)])
                 PROVE  AwaitsCreation(j, w)'
      BY DEF CreationQueues
    <2>1. w # v /\ j \in Elems(waiters[CreationOf(w)])
      BY <1>2, <1>3
    <2>2. proc[j.who].pc = "awaitCreation" => proc[j.who].obj # o
      BY <1>1, <2>1, AwaitedCreation
    <2> QED
      BY <2>1, <2>2, AwaitedCreation DEF AwaitsCreation
  <1>7. CleanupQueues'
    <2> SUFFICES ASSUME NEW w \in Calls
                 PROVE  TeardownQueue(w)'
      BY DEF CleanupQueues
    <2>1. Elems(waiters[CleanupOf(w)]) # {} => vm'[w] = vm[w] /\ vm[w].cleanup = "running"
      BY AwaitedCleanup
    <2>2. ASSUME NEW p \in Procs, AwaitsTeardown(p, w), proc[p].obj \in Calls
          PROVE  /\ obj'[proc[p].obj].state # "active"
                 /\ obj'[proc[p].obj].vm = obj[proc[p].obj].vm
                 /\ sessions[proc[p].sid] \in {proc[p].obj, None}
      BY <2>2 DEF AwaitsTeardown
    <2> QED
      BY <1>3, <2>1, <2>2, TeardownKept
  <1>8. MicroQueue'
    <2>1. ASSUME NEW j \in Elems(micro')
          PROVE  /\ j.kind = "call" /\ ~Renews(j, proc')
                 /\ proc'[j.who].pc \in Underway
                 /\ Removes(j, proc') => GoesOn(j.who)'
      <3>1. /\ j.kind = "call"
            /\ proc[j.who].pc \in {"joining", "awaitCreation"}
            /\ proc[j.who].pc = "awaitCreation" =>
                   /\ o = proc[j.who].obj
                   /\ obj[proc[j.who].obj].state = "destroying"
                   /\ sessions[proc[j.who].sid] = proc[j.who].obj
        BY <1>2, <2>1, AwaitedCreation
      <3> QED
        BY <1>1, <3>1 DEF Renews, Removes, Underway, GoesOn
    <2>2. Ordered(micro', proc')
      BY <2>1, FreelyOrdered
    <2> QED
      BY <2>1, <2>2 DEF MicroQueue
  <1>9. Pending'
    <2>1. ASSUME NEW q \in Promises, NEW j \in Elems(waiters[q])
          PROVE  j \in Elems(micro') \/ j \in Elems(waiters'[q])
      BY <1>2
    <2> QED
      BY <1>3, <2>1, StillPending
  <1> QED
    BY <1>2, <1>4, <1>5, <1>6, <1>7, <1>8, <1>9 DEF OrderInv

\* The creation failed, or its VM was torn down as nobody wanted it.
LEMMA RejectOrders ==
    ASSUME Inv, OrderInv, NEW v \in Calls, CreateFails(v) \/ Discarded(v)
    PROVE  OrderInv'
  <1> DEFINE o == vm[v].session
  <1>1. /\ TypeOK /\ Singly /\ MicroQueue /\ UNCHANGED <<sessions, proc>>
        /\ Settle(CreationOf(v)) /\ obj' = [obj EXCEPT ![o].creation = None]
        /\ obj \in [Calls -> SessionRecords] /\ vm \in [Calls -> VmRecords]
    BY DEF Inv, OrderInv, TypeOK, CreateFails, Discarded
  <1>2. vm[v].promise \in {"pending", "discarding"} /\ o \in Calls
    <2>1. vm[v].promise \in {"pending", "discarding"}
      BY DEF CreateFails, Discarded, Inv, CreationHeld
    <2> QED
      BY <2>1 DEF Inv, CreationHeld, VmRefs
  <1>3. \A w \in Calls \ {v} : vm'[w] = vm[w]
    BY <1>1 DEF CreateFails, Discarded
  <1>4. /\ \A x \in Calls \ {o} : obj'[x] = obj[x]
        /\ obj'[o].creation = None /\ obj'[o].vm = obj[o].vm
        /\ obj'[o].state = obj[o].state
    BY <1>1, <1>2 DEF SessionRecords
  <1>5. CASE CreateFails(v)
    <2>1. Quiet /\ vm[v].cleanup = "no"
      BY <1>5 DEF CreateFails, Inv, CreationHeld
    <2>2. Elems(Rest) = {} /\ Elems(micro) = {} /\ Elems(waiters[CleanupOf(v)]) = {}
      BY <2>1, QuietRest, AwaitedCleanup
    <2> HIDE DEF o
    <2> QED
      BY <1>1, <1>2, <1>3, <1>4, <2>2, RejectOrder DEF o
  <1>6. CASE Discarded(v)
    <2>1. /\ ~Quiet /\ Head(micro) = Handler(v) /\ vm[v].promise = "discarding"
          /\ Handler(v).kind = "create"
      BY <1>6, JobNames DEF Discarded, Quiet
    <2>2. Head(micro) \in Elems(micro) /\ Len(micro) = 1 /\ Elems(Rest) = {}
      BY <1>1, <2>1, RestElems DEF MicroQueue
    <2>3. \A j \in Elems(micro) : j.kind = "create"
      BY <1>1, <2>1, <2>2, RestElems
    <2>4. ASSUME NEW j \in Elems(waiters[CleanupOf(v)])
          PROVE  FALSE
      <3>1. j = Handler(v)
        BY <2>1, <2>4, AwaitedCleanup
      <3> QED
        BY <1>1, <2>1, <2>2, <2>4, <3>1, PromiseNames DEF Singly
    <2> HIDE DEF o
    <2> QED
      BY <1>1, <1>2, <1>3, <1>4, <2>2, <2>3, <2>4, RejectOrder DEF o
  <1> QED
    BY <1>5, <1>6

\* A queue whose jobs are all the same has one.
LEMMA OneJob ==
    ASSUME NEW q \in Seq(Jobs), Distinct(q), NEW j, Elems(q) = {j}
    PROVE  Len(q) = 1
  <1>1. /\ Len(q) \in Nat /\ \A i \in 1 .. Len(q) : q[i] = j
    BY DEF Elems
  <1>2. Len(q) > 0
    <2>1. PICK i \in 1 .. Len(q) : q[i] = j
      BY DEF Elems
    <2> QED
      BY <1>1, <2>1
  <1>3. ASSUME Len(q) > 1
        PROVE  FALSE
    <2>1. 1 \in 1 .. Len(q) /\ 2 \in 1 .. Len(q) /\ q[1] = q[2]
      BY <1>1, <1>3
    <2> QED
      BY <2>1 DEF Distinct
  <1>4. Len(q) \in Nat
    OBVIOUS
  <1>5. \A n \in Nat : n > 0 /\ ~(n > 1) => n = 1
    OBVIOUS
  <1> QED
    BY <1>2, <1>3, <1>4, <1>5

\* The teardown ends: destructions go on before the request that was reset.
LEMMA CleanupDoneOrder ==
    ASSUME Inv, OrderInv, NEW v \in Calls, CleanupDone(v)
    PROVE  OrderInv'
  <1>1. /\ Quiet /\ vm[v].cleanup = "running" /\ Settle(CleanupOf(v))
        /\ UNCHANGED <<sessions, obj, proc>> /\ TypeOK /\ Singly
        /\ Elems(Rest) = {} /\ Elems(micro) = {} /\ Rest = <<>>
        /\ obj \in [Calls -> SessionRecords] /\ vm \in [Calls -> VmRecords]
        /\ CleanupOf(v) \in Promises /\ waiters[CleanupOf(v)] \in Seq(Jobs)
    BY QuietRest, PromiseNames, Queued DEF CleanupDone, TypeOK
  <1>2. /\ \A w \in Calls \ {v} : vm'[w] = vm[w]
        /\ \A w \in Calls : vm'[w].promise = vm[w].promise
        /\ vm'[v].cleanup = "done"
    <2>1. vm' = [vm EXCEPT ![v].cleanup = "done"]
      BY DEF CleanupDone
    <2> QED
      BY <1>1, <2>1 DEF VmRecords
  <1>3. /\ Singly' /\ micro' = waiters[CleanupOf(v)]
        /\ Elems(waiters'[CleanupOf(v)]) = {} /\ waiters'[CleanupOf(v)] = <<>>
        /\ \A r \in Promises \ {CleanupOf(v)} : waiters'[r] = waiters[r]
    <2>1. /\ Singly' /\ micro' = Rest \o waiters[CleanupOf(v)]
          /\ Elems(waiters'[CleanupOf(v)]) = {} /\ waiters'[CleanupOf(v)] = <<>>
          /\ \A r \in Promises \ {CleanupOf(v)} : waiters'[r] = waiters[r]
      BY <1>1, SettleMove
    <2>2. <<>> \o waiters[CleanupOf(v)] = waiters[CleanupOf(v)]
      BY <1>1
    <2> QED
      BY <1>1, <2>1, <2>2
  <1>4. /\ OnlyMove({})
        /\ \A s \in SessionIds : waiters'[LockOf(s)] = waiters[LockOf(s)]
        /\ \A w \in Calls : waiters'[CreationOf(w)] = waiters[CreationOf(w)]
        /\ \A w \in Calls \ {v} : waiters'[CleanupOf(w)] = waiters[CleanupOf(w)]
    BY <1>1, <1>3, NobodyMoves, PromiseNames
  <1>5. Delivered'
    <2> SUFFICES ASSUME NEW x \in Calls, obj[x].vm # None
                 PROVE  vm'[obj[x].vm].promise = "fulfilled"
      BY <1>1 DEF Delivered
    <2>1. obj[x].vm \in Calls /\ vm[obj[x].vm].promise = "fulfilled"
      BY <1>1 DEF SessionRecords, Delivered, OrderInv
    <2> QED
      BY <1>2, <2>1
  <1>6. LockQueues'
    BY <1>4, LocksKept
  <1>7. CreationQueues'
    <2> SUFFICES ASSUME NEW w \in Calls, NEW j \in Elems(waiters'[CreationOf(w)])
                 PROVE  AwaitsCreation(j, w)'
      BY DEF CreationQueues
    <2> QED
      BY <1>1, <1>4, AwaitedCreation DEF AwaitsCreation
  <1>8. CleanupQueues'
    <2> SUFFICES ASSUME NEW w \in Calls
                 PROVE  TeardownQueue(w)'
      BY DEF CleanupQueues
    <2>1. CASE w = v
      <3>1. Ordered(waiters'[CleanupOf(v)], proc')
        BY <1>3, EmptyElems
      <3> QED
        BY <1>3, <2>1, <3>1 DEF TeardownQueue
    <2>2. CASE w # v
      <3>1. Elems(waiters[CleanupOf(w)]) # {} => vm[w].cleanup = "running"
        BY AwaitedCleanup
      <3>2. ASSUME NEW p \in Procs, AwaitsTeardown(p, w)
            PROVE  /\ obj[proc[p].obj].state # "active"
                   /\ sessions[proc[p].sid] \in {proc[p].obj, None}
        BY <3>2 DEF AwaitsTeardown
      <3> QED
        BY <1>1, <1>2, <1>4, <2>2, <3>1, <3>2, TeardownKept
    <2> QED
      BY <2>1, <2>2
  <1>9. MicroQueue'
    <2>1. Ordered(micro', proc')
      BY <1>1, <1>3 DEF OrderInv, CleanupQueues, TeardownQueue
    <2>2. ASSUME NEW j \in Elems(micro'), j.kind = "create"
          PROVE  Len(micro') = 1
      <3>1. j = Handler(v) /\ vm[v].promise = "discarding"
        BY <1>3, <2>2, AwaitedCleanup
      <3>2. \A h \in Elems(waiters[CleanupOf(v)]) : h = Handler(v)
        BY <3>1, AwaitedCleanup
      <3>3. Elems(waiters[CleanupOf(v)]) = {Handler(v)}
        BY <1>3, <2>2, <3>2
      <3> QED
        BY <1>1, <1>3, <3>3, OneJob DEF Singly
    <2>3. ASSUME NEW j \in Elems(micro'), j.kind = "call"
          PROVE  /\ proc'[j.who].pc \in Underway
                 /\ Removes(j, proc') => GoesOn(j.who)'
      <3>1. /\ proc[j.who].obj = vm[v].session /\ proc[j.who].obj \in Calls
            /\ \/ j.who \in Calls /\ proc[j.who].pc = "resetting"
               \/ proc[j.who].pc = "awaitCleanup" /\ AwaitsTeardown(j.who, v)
        BY <1>3, <2>3, AwaitedCleanup
      <3>2. CASE proc[j.who].pc = "resetting"
        BY <1>1, <3>2 DEF Underway, Removes
      <3>3. CASE proc[j.who].pc = "awaitCleanup" /\ AwaitsTeardown(j.who, v)
        <4> DEFINE o == proc[j.who].obj
        <4>1. obj[o].state # "active" /\ sessions[proc[j.who].sid] \in {o, None}
          BY <3>3 DEF AwaitsTeardown
        <4>2. \/ obj[o].vm = v
              \/ obj[o].vm = None /\ obj[o].creation = None
          <5>1. CASE \E c \in Calls : proc[c].pc = "resetting"
                                      /\ Call(c) \in Elems(waiters[CleanupOf(v)])
            BY <3>1, <5>1, ResetTogether
          <5> QED
            BY <3>3, <5>1 DEF AwaitsTeardown
        <4>3. obj[o].vm = v => obj[o].creation = None
          BY <3>1, GatewayConstants DEF Inv, ObjRefs
        <4> QED
          BY <1>1, <1>2, <3>3, <4>1, <4>2, <4>3 DEF GoesOn, Underway
      <3> QED
        BY <3>1, <3>2, <3>3
    <2>4. \A j \in Elems(micro') : j.kind = "create" \/ j.kind = "call"
      BY <1>1, <1>3, Queued, JobNames
    <2>5. ASSUME NEW j \in Elems(micro')
          PROVE  Removes(j, proc') => j.kind = "call"
      BY DEF Removes
    <2> QED
      BY <2>1, <2>2, <2>3, <2>5 DEF MicroQueue
  <1>10. Pending'
    <2>1. ASSUME NEW q \in Promises, NEW j \in Elems(waiters[q])
          PROVE  j \in Elems(micro') \/ j \in Elems(waiters'[q])
      BY <1>3
    <2> QED
      BY <1>1, <1>4, <2>1, StillPending
  <1> QED
    BY <1>3, <1>5, <1>6, <1>7, <1>8, <1>9, <1>10 DEF OrderInv

-----------------------------------------------------------------------------
(* destroySession and the reaper.                                            *)

\* A destruction begins: it waits for the creation of its session's VM, or is
\* the only thing that runs.
LEMMA BeginDestroyOrder ==
    ASSUME Inv, OrderInv, NEW p \in Procs, NEW s \in SessionIds,
           NEW owner \in Callers \cup {None}, Quiet, proc[p].pc = "new",
           BeginDestroy(p, s, owner)
    PROVE  OrderInv'
  <1> DEFINE o == sessions[s]
  <1>1. /\ UNCHANGED <<sessions, vm>> /\ TypeOK /\ Singly
        /\ Elems(Rest) = {} /\ Elems(micro) = {} /\ Rest = <<>>
        /\ obj \in [Calls -> SessionRecords] /\ proc \in [Procs -> ProcRecords]
        /\ Call(p) \in Jobs /\ Call(p).kind = "call" /\ Call(p).who = p
    BY QuietRest, Names, JobNames DEF BeginDestroy, TypeOK
  <1>2. o \in Calls /\ obj[o].sid = s /\ None \notin Calls
    BY TableObject, GatewayConstants DEF BeginDestroy, Inv, TableRefs
  <1>3. /\ \A x \in Calls : obj'[x].vm = obj[x].vm /\ obj'[x].creation = obj[x].creation
        /\ \A x \in Calls \ {o} : obj'[x].state = obj[x].state
        /\ obj'[o].state = "destroying"
    <2>1. obj' = [obj EXCEPT ![o].state = "destroying"]
      BY DEF BeginDestroy
    <2> QED
      BY <1>1, <1>2, <2>1 DEF SessionRecords
  <1>4. /\ proc'[p].pc = "awaitCreation" /\ proc'[p].obj = o /\ proc'[p].sid = s
        /\ \A x \in Procs \ {p} : proc'[x] = proc[x]
    <2>1. proc' = [proc EXCEPT ![p] =
              [pc |-> "awaitCreation", sid |-> s, owner |-> owner,
               template |-> None, obj |-> o, vm |-> None]]
      BY DEF BeginDestroy
    <2> QED
      BY <1>1, <2>1
  <1>5. /\ Call(p) \notin Elems(Rest)
        /\ \A r \in Promises : Call(p) \notin Elems(waiters[r])
    BY NotQueued DEF Underway
  <1>6. OnlyMove({p})
    BY <1>4, <1>5 DEF OnlyMove
  <1> HIDE DEF o
  <1>7. /\ Singly'
        /\ \A s2 \in SessionIds : waiters'[LockOf(s2)] = waiters[LockOf(s2)]
        /\ \A w \in Calls : waiters'[CleanupOf(w)] = waiters[CleanupOf(w)]
        /\ \A w \in Calls :
               /\ Elems(waiters[CreationOf(w)]) \subseteq Elems(waiters'[CreationOf(w)])
               /\ Elems(waiters'[CreationOf(w)]) \subseteq
                      Elems(waiters[CreationOf(w)]) \cup {Call(p)}
               /\ Call(p) \in Elems(waiters'[CreationOf(w)]) => obj[o].creation = w
        /\ \/ Elems(micro') = {} /\ \E w \in Calls : Call(p) \in Elems(waiters'[CreationOf(w)])
           \/ /\ Elems(micro') = {Call(p)} /\ Len(micro') = 1
              /\ obj[o].creation = None
    <2>1. CASE obj[o].creation # None
      <3> DEFINE v == obj[o].creation
      <3>1. v \in Calls
        BY <1>1, <1>2, <2>1 DEF SessionRecords
      <3>2. Await(Call(p), CreationOf(v))
        BY <2>1 DEF BeginDestroy, o
      <3> HIDE DEF v
      <3>3. /\ Singly' /\ micro' = Rest
            /\ Elems(waiters'[CreationOf(v)]) = Elems(waiters[CreationOf(v)]) \cup {Call(p)}
            /\ \A r \in Promises \ {CreationOf(v)} : waiters'[r] = waiters[r]
        BY <1>1, <1>5, <3>1, <3>2, PromiseNames, AwaitMove
      <3>4. ASSUME NEW w \in Calls, w # v
            PROVE  waiters'[CreationOf(w)] = waiters[CreationOf(w)]
        BY <3>1, <3>3, <3>4, PromiseNames
      <3>5. /\ \A s2 \in SessionIds : waiters'[LockOf(s2)] = waiters[LockOf(s2)]
            /\ \A w \in Calls : waiters'[CleanupOf(w)] = waiters[CleanupOf(w)]
        BY <3>1, <3>3, PromiseNames
      <3>6. ASSUME NEW w \in Calls
            PROVE  /\ Elems(waiters[CreationOf(w)]) \subseteq Elems(waiters'[CreationOf(w)])
                   /\ Elems(waiters'[CreationOf(w)]) \subseteq
                          Elems(waiters[CreationOf(w)]) \cup {Call(p)}
                   /\ Call(p) \in Elems(waiters'[CreationOf(w)]) => v = w
        <4>1. CASE w = v
          BY <3>3, <4>1
        <4>2. CASE w # v
          BY <1>5, <3>4, <4>2, PromiseNames
        <4> QED
          BY <4>1, <4>2
      <3> QED
        BY <1>1, <3>1, <3>3, <3>5, <3>6 DEF v
    <2>2. CASE obj[o].creation = None
      <3>1. micro' = Append(Rest, Call(p)) /\ UNCHANGED waiters
        BY <2>2 DEF BeginDestroy, o
      <3>2. Singly' /\ Elems(micro') = Elems(Rest) \cup {Call(p)}
        BY <1>1, <1>5, <3>1, RequeueMove
      <3>3. Len(micro') = 1
        BY <1>1, <3>1
      <3> QED
        BY <1>1, <1>5, <2>2, <3>1, <3>2, <3>3, PromiseNames
    <2> QED
      BY <2>1, <2>2
  <1>8. Delivered'
    <2> SUFFICES ASSUME NEW x \in Calls, obj[x].vm # None
                 PROVE  vm[obj[x].vm].promise = "fulfilled"
      BY <1>1, <1>3 DEF Delivered
    <2> QED
      BY DEF OrderInv, Delivered
  <1>9. LockQueues'
    BY <1>6, <1>7, LocksKept
  <1>10. CreationQueues'
    <2> SUFFICES ASSUME NEW w \in Calls, NEW j \in Elems(waiters'[CreationOf(w)])
                 PROVE  AwaitsCreation(j, w)'
      BY DEF CreationQueues
    <2>1. CASE j = Call(p)
      <3>1. obj[o].creation = w
        BY <1>7, <2>1
      <3> QED
        BY <1>1, <1>2, <1>3, <1>4, <2>1, <3>1 DEF AwaitsCreation, o
    <2>2. CASE j # Call(p)
      <3>1. j \in Elems(waiters[CreationOf(w)])
        BY <1>7, <2>2
      <3>2. j.kind = "call" /\ proc'[j.who] = proc[j.who]
        BY <1>6, <3>1, AwaitedCreation, OthersQueued, PromiseNames
      <3> QED
        BY <1>1, <1>3, <3>1, <3>2, AwaitedCreation DEF AwaitsCreation
    <2> QED
      BY <2>1, <2>2
  <1>11. CleanupQueues'
    <2> SUFFICES ASSUME NEW w \in Calls
                 PROVE  TeardownQueue(w)'
      BY DEF CleanupQueues
    <2>1. Elems(waiters[CleanupOf(w)]) # {} => vm[w].cleanup = "running"
      BY AwaitedCleanup
    <2>2. ASSUME NEW x \in Procs, AwaitsTeardown(x, w), proc[x].obj \in Calls
          PROVE  /\ obj'[proc[x].obj].state # "active"
                 /\ sessions[proc[x].sid] \in {proc[x].obj, None}
      BY <1>3, <2>2 DEF AwaitsTeardown
    <2> QED
      BY <1>1, <1>3, <1>6, <1>7, <2>1, <2>2, TeardownKept
  <1>12. MicroQueue'
    <2>1. ASSUME NEW j \in Elems(micro')
          PROVE  /\ j.kind = "call" /\ ~Renews(j, proc')
                 /\ proc'[j.who].pc \in Underway /\ GoesOn(j.who)'
      <3>1. j = Call(p) /\ Len(micro') = 1 /\ obj[o].creation = None
        BY <1>7, <2>1
      <3>2. sessions'[s] = o
        BY <1>1 DEF o
      <3> QED
        BY <1>1, <1>2, <1>3, <1>4, <3>1, <3>2 DEF Renews, Underway, GoesOn
    <2>2. Ordered(micro', proc')
      BY <2>1, FreelyOrdered
    <2> QED
      BY <2>1, <2>2 DEF MicroQueue
  <1>13. Pending'
    <2>1. \/ Call(p) \in Elems(micro')
          \/ \E q \in Promises : Call(p) \in Elems(waiters'[q])
      BY <1>7, PromiseNames
    <2>2. ASSUME NEW q \in Promises, NEW j \in Elems(waiters[q])
          PROVE  j \in Elems(waiters'[q])
      <3>1. CASE \E w \in Calls : q = CreationOf(w)
        BY <1>7, <2>2, <3>1
      <3>2. CASE \E w \in Calls : q = CleanupOf(w)
        BY <1>7, <2>2, <3>2
      <3>3. CASE \E t \in SessionIds : q = LockOf(t)
        BY <1>7, <2>2, <3>3
      <3> QED
        BY <3>1, <3>2, <3>3 DEF Promises, LockOf, CreationOf, CleanupOf
    <2>3. \A x \in {p} : \/ Call(x) \in Elems(micro')
                         \/ \E q \in Promises : Call(x) \in Elems(waiters'[q])
      BY <2>1
    <2> QED
      BY <1>1, <1>6, <2>2, <2>3, StillPending
  <1> QED
    BY <1>7, <1>8, <1>9, <1>10, <1>11, <1>12, <1>13 DEF OrderInv

\* The destruction tears down its session's VM: nothing runs behind it, and
\* nothing that would renew the session waits for that VM.
LEMMA TeardownOrder ==
    ASSUME Inv, OrderInv, NEW p \in Procs, DestroyVm(p), NEW o \in Calls,
           NEW v \in Calls, NEW s \in SessionIds,
           o = proc[p].obj, v = obj[o].vm, s = proc[p].sid
    PROVE  OrderInv'
  <1>1. /\ Resumes(p, "awaitCreation") /\ v # None /\ AwaitCleanup(Call(p), v)
        /\ UNCHANGED <<sessions, obj>> /\ TypeOK /\ Singly
        /\ proc' = [proc EXCEPT ![p].pc = "awaitCleanup"]
    BY DEF DestroyVm, Goes, Inv, OrderInv
  <1>2. /\ ~Quiet /\ Head(micro) = Call(p) /\ proc[p].pc = "awaitCreation"
        /\ Call(p) \in Jobs /\ Call(p).kind = "call" /\ Call(p).who = p
        /\ Call(p) \in Elems(micro)
        /\ proc \in [Procs -> ProcRecords] /\ proc[p] \in ProcRecords
        /\ MicroQueue /\ obj \in [Calls -> SessionRecords]
    BY <1>1, Running DEF TypeOK
  <1>3. /\ vm[v].session = o /\ vm[v].promise = "fulfilled"
        /\ obj[o].creation = None /\ None \notin Calls
    BY GatewayConstants DEF Inv, OrderInv, ObjRefs, Delivered
  <1>4. /\ proc'[p].pc = "awaitCleanup" /\ proc'[p].obj = o /\ proc'[p].sid = s
        /\ \A x \in Procs \ {p} : proc'[x] = proc[x]
    BY <1>1, <1>2 DEF ProcRecords
  <1>5. obj[o].state # "active" /\ sessions[s] = o /\ Elems(Rest) = {}
    <2>1. Removes(Call(p), proc)
      BY <1>2 DEF Removes
    <2>2. GoesOn(p)
      BY <1>2, <2>1 DEF MicroQueue
    <2>3. obj[o].state # "active" /\ sessions[s] = o /\ Len(micro) = 1
      BY <1>1, <1>2, <2>2 DEF GoesOn
    <2> QED
      BY <1>1, <1>2, <2>3, RestElems
  <1>6. ASSUME NEW h \in Elems(waiters[CleanupOf(v)])
        PROVE  ~Renews(h, proc')
    <2>1. CASE h.kind # "call"
      BY <2>1 DEF Renews
    <2>2. CASE h.kind = "call"
      <3>1. /\ h.who \in Procs /\ h = Call(h.who)
            /\ proc[h.who].pc \in {"resetting", "awaitCleanup"}
        BY <1>3, <2>2, AwaitedCleanup
      <3>2. ASSUME proc[h.who].pc = "resetting"
            PROVE  FALSE
        <4>1. h.who \in Calls
          BY <1>3, <2>2, <3>2, AwaitedCleanup, JobNames
        <4>2. obj[vm[v].session].vm = None
          BY <1>3, <3>1, <3>2, <4>1, ResetTogether
        <4> QED
          BY <1>1, <1>3, <4>2
      <3>3. proc[h.who].pc = "awaitCleanup" /\ h.who # p
        BY <1>2, <3>1, <3>2
      <3> QED
        BY <1>4, <3>1, <3>3 DEF Renews
    <2> QED
      BY <2>1, <2>2
  <1>7. /\ Singly' /\ OnlyMove({p})
        /\ \A r \in Promises \ {CleanupOf(v)} : waiters'[r] = waiters[r]
        /\ \A w \in Calls \ {v} : vm'[w] = vm[w]
        /\ \A w \in Calls :
               vm'[w].promise = vm[w].promise /\ vm'[w].session = vm[w].session
        /\ Ordered(waiters'[CleanupOf(v)], proc')
    BY <1>1, <1>2, <1>3, <1>4, <1>6, CleanupMove
  <1>8. \/ /\ vm'[v].cleanup = "done" /\ Elems(micro') = {Call(p)}
           /\ Elems(waiters[CleanupOf(v)]) = {}
           /\ Elems(waiters'[CleanupOf(v)]) = {}
        \/ /\ vm'[v].cleanup = "running" /\ Elems(micro') = {}
           /\ Elems(waiters'[CleanupOf(v)]) = Elems(waiters[CleanupOf(v)]) \cup {Call(p)}
    <2>1. CASE vm[v].cleanup = "done"
      BY <1>1, <1>2, <1>3, <1>4, <1>5, <2>1, CleanupMove
    <2>2. CASE vm[v].cleanup # "done"
      BY <1>1, <1>2, <1>3, <1>4, <1>5, <2>2, CleanupMove
    <2> QED
      BY <2>1, <2>2
  <1>9. /\ \A t \in SessionIds : waiters'[LockOf(t)] = waiters[LockOf(t)]
        /\ \A w \in Calls : waiters'[CreationOf(w)] = waiters[CreationOf(w)]
        /\ \A w \in Calls \ {v} : waiters'[CleanupOf(w)] = waiters[CleanupOf(w)]
    BY <1>3, <1>7, PromiseNames
  <1>16. sessions' = sessions /\ obj' = obj
    BY <1>1
  <1>10. Delivered'
    <2> SUFFICES ASSUME NEW x \in Calls, obj[x].vm # None
                 PROVE  vm'[obj[x].vm].promise = "fulfilled"
      BY <1>1 DEF Delivered
    <2>1. obj[x].vm \in Calls /\ vm[obj[x].vm].promise = "fulfilled"
      BY <1>2 DEF SessionRecords, Delivered, OrderInv
    <2> QED
      BY <1>7, <2>1
  <1>11. LockQueues'
    BY <1>7, <1>9, LocksKept
  <1>12. CreationQueues'
    <2> SUFFICES ASSUME NEW w \in Calls, NEW j \in Elems(waiters'[CreationOf(w)])
                 PROVE  AwaitsCreation(j, w)'
      BY DEF CreationQueues
    <2>1. j \in Elems(waiters[CreationOf(w)])
      BY <1>9
    <2>2. j.kind = "call" /\ proc'[j.who] = proc[j.who]
      BY <1>7, <2>1, AwaitedCreation, OthersQueued, PromiseNames
    <2> QED
      BY <1>16, <2>1, <2>2, AwaitedCreation DEF AwaitsCreation
  <1>13. CleanupQueues'
    <2> SUFFICES ASSUME NEW w \in Calls
                 PROVE  TeardownQueue(w)'
      BY DEF CleanupQueues
    <2>1. CASE w # v
      <3>1. Elems(waiters[CleanupOf(w)]) # {} => vm[w].cleanup = "running"
        BY AwaitedCleanup
      <3>2. ASSUME NEW x \in Procs, AwaitsTeardown(x, w)
            PROVE  /\ obj[proc[x].obj].state # "active"
                   /\ sessions[proc[x].sid] \in {proc[x].obj, None}
        BY <3>2 DEF AwaitsTeardown
      <3> QED
        BY <1>1, <1>7, <1>9, <2>1, <3>1, <3>2, TeardownKept
    <2>2. CASE w = v
      <3>1. ASSUME NEW j \in Elems(waiters'[CleanupOf(v)])
            PROVE  vm'[v].cleanup = "running"
        BY <1>8, <3>1
      <3>2. ASSUME NEW j \in Elems(waiters'[CleanupOf(v)]), j = Call(p)
            PROVE  /\ j.kind = "call" /\ vm'[v].promise = "fulfilled"
                   /\ proc'[j.who].obj = vm'[v].session
                   /\ proc'[j.who].pc = "awaitCleanup" /\ AwaitsTeardown(j.who, v)'
        <4>1. obj[o].vm = v
          OBVIOUS
        <4>2. AwaitsTeardown(p, v)'
          BY <1>4, <1>5, <1>16, <4>1 DEF AwaitsTeardown
        <4> QED
          BY <1>2, <1>3, <1>4, <1>7, <3>2, <4>2
      <3>3. ASSUME NEW j \in Elems(waiters'[CleanupOf(v)]), j # Call(p)
            PROVE  /\ j.kind = "call" /\ vm'[v].promise = "fulfilled"
                   /\ proc'[j.who].obj = vm'[v].session
                   /\ proc'[j.who].pc = "awaitCleanup" /\ AwaitsTeardown(j.who, v)'
        <4>1. j \in Elems(waiters[CleanupOf(v)])
          BY <1>8, <3>3
        <4>2. /\ j.kind = "call" /\ j.who \in Procs /\ j = Call(j.who)
              /\ proc[j.who].obj = vm[v].session
              /\ \/ j.who \in Calls /\ proc[j.who].pc = "resetting"
                 \/ proc[j.who].pc = "awaitCleanup" /\ AwaitsTeardown(j.who, v)
          BY <1>3, <4>1, AwaitedCleanup
        <4>3. proc'[j.who] = proc[j.who]
          BY <1>3, <1>7, <4>1, <4>2, OthersQueued, PromiseNames
        <4>4. ~Renews(j, proc')
          BY <1>6, <4>1
        <4>5. proc[j.who].pc = "awaitCleanup" /\ AwaitsTeardown(j.who, v)
          BY <4>2, <4>3, <4>4 DEF Renews
        <4>6. ~(\E c \in Calls : proc[c].pc = "resetting"
                                /\ Call(c) \in Elems(waiters[CleanupOf(v)]))
          <5> SUFFICES ASSUME NEW c \in Calls, proc[c].pc = "resetting",
                              Call(c) \in Elems(waiters[CleanupOf(v)])
                       PROVE  FALSE
            OBVIOUS
          <5>1. obj[o].vm = None
            BY <1>3, ResetTogether
          <5> QED
            BY <1>3, <5>1
        <4>7. AwaitsTeardown(j.who, v)'
          <5>1. /\ obj[proc[j.who].obj].state # "active"
                /\ obj[proc[j.who].obj].vm = v
                /\ sessions[proc[j.who].sid] = proc[j.who].obj
            BY <4>5, <4>6 DEF AwaitsTeardown
          <5> QED
            BY <1>16, <4>3, <5>1 DEF AwaitsTeardown
        <4> QED
          BY <1>3, <1>7, <4>2, <4>3, <4>5, <4>7
      <3>4. TeardownQueue(v)'
        BY <1>7, <3>1, <3>2, <3>3 DEF TeardownQueue
      <3> QED
        BY <2>2, <3>4
    <2> QED
      BY <2>1, <2>2
  <1>14. MicroQueue'
    <2>1. ASSUME NEW j \in Elems(micro')
          PROVE  /\ j.kind = "call" /\ ~Renews(j, proc')
                 /\ proc'[j.who].pc \in Underway /\ GoesOn(j.who)'
      <3>1. j = Call(p) /\ vm'[v].cleanup = "done"
        BY <1>8, <2>1
      <3> QED
        BY <1>1, <1>2, <1>3, <1>4, <1>5, <3>1 DEF Renews, Underway, GoesOn
    <2>2. Ordered(micro', proc')
      BY <2>1, FreelyOrdered
    <2> QED
      BY <2>1, <2>2 DEF MicroQueue
  <1>15. Pending'
    <2>1. \A x \in {p} : \/ Call(x) \in Elems(micro')
                         \/ \E q \in Promises : Call(x) \in Elems(waiters'[q])
      BY <1>3, <1>8, PromiseNames
    <2>2. \A j \in Elems(micro) : j = Call(p)
      BY <1>1, <1>2, <1>5, RestElems
    <2>3. ASSUME NEW q \in Promises, NEW j \in Elems(waiters[q])
          PROVE  j \in Elems(waiters'[q])
      BY <1>7, <1>8, <2>3
    <2> QED
      BY <1>7, <2>1, <2>2, <2>3, StillPending
  <1> QED
    BY <1>7, <1>10, <1>11, <1>12, <1>13, <1>14, <1>15 DEF OrderInv

\* The awaited creation settled, and a destruction tears the session's VM down
\* (session.ts:60).
LEMMA DestroyVmOrder ==
    ASSUME Inv, OrderInv, NEW p \in Procs, DestroyVm(p)
    PROVE  OrderInv'
  <1> DEFINE o == proc[p].obj
  <1>1. proc[p].pc = "awaitCreation" /\ obj[o].vm # None
    BY DEF DestroyVm, Resumes
  <1>2. o \in Calls /\ proc[p].sid \in SessionIds
    BY <1>1 DEF Inv, ProcRefs, Underway
  <1>3. obj[o].vm \in Calls
    BY <1>1, <1>2 DEF Inv, TypeOK, SessionRecords
  <1> QED
    BY <1>2, <1>3, TeardownOrder

\* The destruction ends.  The session that it removes is its own, and has
\* neither a VM in service nor a creation.
LEMMA RemovalOrder ==
    ASSUME Inv, OrderInv, NEW p \in Procs, DestroyEnds(p), NEW o \in Calls,
           NEW s \in SessionIds, o = proc[p].obj, s = proc[p].sid
    PROVE  OrderInv'
  <1>1. /\ \/ Resumes(p, "awaitCreation") /\ obj[o].vm = None
           \/ Resumes(p, "awaitCleanup")
        /\ sessions' = [sessions EXCEPT ![s] = None] /\ micro' = Rest
        /\ obj' = obj /\ vm' = vm /\ waiters' = waiters /\ TypeOK /\ Singly
    BY DEF DestroyEnds, Inv, OrderInv
  <1>2. /\ ~Quiet /\ Head(micro) = Call(p) /\ MicroQueue
        /\ Call(p) \in Elems(micro) /\ Call(p).kind = "call" /\ Call(p).who = p
        /\ Call(p) \notin Elems(Rest)
        /\ \A r \in Promises : Call(p) \notin Elems(waiters[r])
        /\ proc[p].pc \in {"awaitCreation", "awaitCleanup"}
        /\ proc \in [Procs -> ProcRecords]
    <2>1. PICK at \in {"awaitCreation", "awaitCleanup"} : Resumes(p, at)
      BY <1>1
    <2> QED
      BY <2>1, Running
  <1>3. /\ \A x \in Procs \ {p} : proc'[x] = proc[x]
        /\ proc'[p].pc \in {"new", "removed"}
    BY <1>2 DEF DestroyEnds, Returns, NewCall
  <1>4. /\ sessions'[s] = None /\ \A t \in SessionIds \ {s} : sessions'[t] = sessions[t]
        /\ None \notin Calls
    BY <1>1, GatewayConstants DEF TypeOK
  <1>5. /\ obj[o].state # "active" /\ sessions[s] \in {o, None}
        /\ sessions[s] = o => obj[o].creation = None
        /\ obj[o].vm = None \/ vm[obj[o].vm].cleanup = "done"
    <2>1. GoesOn(p)
      BY <1>2 DEF MicroQueue, Removes
    <2> QED
      BY <1>1, <1>2, <2>1 DEF GoesOn, Resumes
  <1>6. OnlyMove({p}) /\ Singly' /\ Ordered(micro', proc')
    BY <1>1, <1>2, <1>3, PopMove, RestOrdered DEF OnlyMove
  <1>7. Delivered'
    BY <1>1 DEF OrderInv, Delivered
  <1>8. LockQueues'
    BY <1>1, <1>6, LocksKept
  <1>9. CreationQueues'
    <2> SUFFICES ASSUME NEW w \in Calls, NEW j \in Elems(waiters[CreationOf(w)])
                 PROVE  AwaitsCreation(j, w)'
      BY <1>1 DEF CreationQueues
    <2>1. j.kind = "call" /\ proc'[j.who] = proc[j.who]
      BY <1>6, AwaitedCreation, OthersQueued, PromiseNames
    <2>2. CASE proc[j.who].pc = "joining"
      BY <2>1, <2>2 DEF AwaitsCreation
    <2>3. CASE proc[j.who].pc = "awaitCreation"
      <3>1. /\ proc[j.who].obj \in Calls /\ proc[j.who].sid \in SessionIds
            /\ obj[proc[j.who].obj].creation = w
            /\ obj[proc[j.who].obj].state = "destroying"
            /\ sessions[proc[j.who].sid] = proc[j.who].obj
        BY <2>3, AwaitedCreation
      <3>2. proc[j.who].sid # s
        BY <1>4, <1>5, <3>1
      <3>3. sessions'[proc[j.who].sid] = proc[j.who].obj
        BY <1>4, <3>1, <3>2
      <3> QED
        BY <1>1, <2>1, <2>3, <3>1, <3>3 DEF AwaitsCreation
    <2> QED
      BY <2>2, <2>3, AwaitedCreation
  <1>10. CleanupQueues'
    <2> SUFFICES ASSUME NEW w \in Calls
                 PROVE  TeardownQueue(w)'
      BY DEF CleanupQueues
    <2>1. Elems(waiters[CleanupOf(w)]) # {} => vm[w].cleanup = "running"
      BY AwaitedCleanup
    <2>2. ASSUME NEW x \in Procs, AwaitsTeardown(x, w), proc[x].obj \in Calls,
                 proc[x].sid \in SessionIds, vm[w].cleanup = "running"
          PROVE  LET b == proc[x].obj
                     t == proc[x].sid
                 IN  /\ obj'[b].state # "active" /\ sessions'[t] \in {b, None}
                     /\ obj[b].vm = w /\ sessions[t] = b =>
                            obj'[b].vm = w /\ sessions'[t] = b
      <3>1. obj[proc[x].obj].state # "active" /\ sessions[proc[x].sid] \in {proc[x].obj, None}
        BY <2>2 DEF AwaitsTeardown
      <3>2. CASE proc[x].sid # s
        BY <1>1, <1>4, <2>2, <3>1, <3>2
      <3>3. CASE proc[x].sid = s
        <4>1. ~(obj[proc[x].obj].vm = w /\ sessions[s] = proc[x].obj)
          BY <1>4, <1>5, <2>2
        <4> QED
          BY <1>1, <1>4, <3>1, <3>3, <4>1
      <3> QED
        BY <3>2, <3>3
    <2> QED
      BY <1>1, <1>6, <2>1, <2>2, TeardownKept
  <1>11. MicroQueue'
    <2>1. ASSUME NEW j \in Elems(micro')
          PROVE  /\ j.kind = "call" /\ proc'[j.who].pc \in Underway
                 /\ Removes(j, proc') => GoesOn(j.who)'
      <3>1. /\ j.kind = "call" /\ j.who \in Procs /\ j = Call(j.who)
            /\ proc[j.who].pc \in Underway /\ Len(micro) # 1
            /\ Removes(j, proc) => GoesOn(j.who)
        BY <1>1, <2>1, Behind
      <3>2. proc'[j.who] = proc[j.who]
        BY <1>1, <1>2, <1>3, <2>1, <3>1
      <3>3. ASSUME Removes(j, proc)
            PROVE  GoesOn(j.who)'
        <4> DEFINE b == proc[j.who].obj
                   t == proc[j.who].sid
        <4>1. b \in Calls /\ t \in SessionIds
          BY <3>1, <3>3 DEF Removes, Inv, ProcRefs, Underway
        <4>2. /\ obj[b].state # "active" /\ sessions[t] \in {b, None}
              /\ sessions[t] = b => obj[b].creation = None
              /\ proc[j.who].pc = "awaitCreation" => obj[b].vm = None
              /\ proc[j.who].pc = "awaitCleanup" =>
                     obj[b].vm = None \/ vm[obj[b].vm].cleanup = "done"
          BY <3>1, <3>3 DEF GoesOn
        <4>3. sessions'[t] \in {sessions[t], None}
          BY <1>4, <4>1
        <4> QED
          BY <1>1, <1>4, <3>2, <4>1, <4>2, <4>3 DEF GoesOn
      <3> QED
        BY <3>1, <3>2, <3>3 DEF Removes
    <2> QED
      BY <1>6, <2>1 DEF MicroQueue
  <1>12. Pending'
    <2>1. \A x \in {p} : ~Destroying(x)'
      BY <1>3 DEF Destroying
    <2>2. \A j \in Elems(micro) : j \in Elems(micro') \/ j = Call(p)
      BY <1>1, <1>2, RestElems
    <2>3. \A q \in Promises : \A j \in Elems(waiters[q]) : j \in Elems(waiters'[q])
      BY <1>1
    <2> QED
      BY <1>6, <2>1, <2>2, <2>3, StillPending
  <1> QED
    BY <1>6, <1>7, <1>8, <1>9, <1>10, <1>11, <1>12 DEF OrderInv

\* A destruction ends (session.ts:62-67).
LEMMA DestroyEndsOrder ==
    ASSUME Inv, OrderInv, NEW p \in Procs, DestroyEnds(p)
    PROVE  OrderInv'
  <1>1. proc[p].pc \in {"awaitCreation", "awaitCleanup"}
    BY DEF DestroyEnds, Resumes
  <1>2. proc[p].obj \in Calls /\ proc[p].sid \in SessionIds
    BY <1>1 DEF Inv, ProcRefs, Underway
  <1> QED
    BY <1>2, RemovalOrder

-----------------------------------------------------------------------------
(* The invariant.                                                            *)

\* Nothing is queued at first.
LEMMA InitOrder == Init => OrderInv
  <1> SUFFICES ASSUME Init
               PROVE  OrderInv
    OBVIOUS
  <1>1. /\ micro = <<>> /\ \A q \in Promises : waiters[q] = <<>>
        /\ \A o \in Calls : obj[o].vm = None
        /\ \A p \in Procs : proc[p].pc = "new"
    BY DEF Init, NoSession, NewCall
  <1>2. /\ Elems(micro) = {} /\ Distinct(micro) /\ Ordered(micro, proc)
        /\ \A q \in Promises : /\ Elems(waiters[q]) = {} /\ Distinct(waiters[q])
                               /\ Ordered(waiters[q], proc)
    BY <1>1, EmptyElems
  <1>3. Singly /\ Delivered /\ MicroQueue
    BY <1>1, <1>2 DEF Singly, Delivered, MicroQueue
  <1>4. LockQueues /\ CreationQueues /\ CleanupQueues
    BY <1>2, PromiseNames DEF LockQueues, CreationQueues, CleanupQueues, TeardownQueue
  <1>5. Pending
    BY <1>1 DEF Pending, Destroying
  <1> QED
    BY <1>3, <1>4, <1>5 DEF OrderInv

\* Every step keeps the order.
LEMMA NextOrder == Inv /\ OrderInv /\ [Next]_vars => OrderInv'
  <1> SUFFICES ASSUME Inv, OrderInv, [Next]_vars
               PROVE  OrderInv'
    OBVIOUS
  <1>1. CASE UNCHANGED vars
    <2>1. UNCHANGED vars
      BY <1>1
    <2>2. Singly' /\ Delivered' /\ LockQueues' /\ Pending'
      BY <2>1 DEF vars, OrderInv, Singly, Delivered, LockQueues, Pending, Destroying
    <2>3. CreationQueues'
      BY <2>1 DEF vars, OrderInv, CreationQueues, AwaitsCreation
    <2>4. CleanupQueues'
      BY <2>1 DEF vars, OrderInv, CleanupQueues, TeardownQueue, AwaitsTeardown
    <2>5. MicroQueue'
      BY <2>1 DEF vars, OrderInv, MicroQueue, GoesOn
    <2> QED
      BY <2>2, <2>3, <2>4, <2>5 DEF OrderInv
  <1>2. ASSUME NEW c \in Calls, NEW s \in SessionIds, NEW owner \in Callers,
               \/ \E t \in Templates \cup {None} : Send(c, s, owner, t)
               \/ Destroy(c, s, owner) \/ DestroyRefused(c, s, owner)
        PROVE  OrderInv'
    <2>1. CASE Destroy(c, s, owner)
      BY <2>1, BeginDestroyOrder DEF Destroy, Procs
    <2> QED
      BY <1>2, <2>1, SendOrder, DestroyRefusedOrder
  <1>3. ASSUME NEW p \in Procs, Step(p)
        PROVE  OrderInv'
    BY <1>3, LockOrder, LockedForbiddenOrder, LockedReuseOrder, LockedResetOrder,
       LockedJoinOrder, LockedCreateOrder, RecreateOrder, RefusedOrder,
       JoinedOrder, DestroyVmOrder, DestroyEndsOrder DEF Step
  <1>4. ASSUME NEW v \in Calls,
               \/ Attach(v) \/ Discard(v) \/ Discarded(v) \/ CreateFails(v)
               \/ CleanupDone(v) \/ ProcessExits(v)
        PROVE  OrderInv'
    BY <1>4, AttachOrder, DiscardOrder, RejectOrders, CleanupDoneOrder,
       UnseenOrders DEF Procs
  <1>5. ASSUME NEW s \in SessionIds, GoIdle(s) \/ Reap(s)
        PROVE  OrderInv'
    <2>1. CASE GoIdle(s)
      BY <2>1, UnseenOrders DEF Procs
    <2>2. CASE Reap(s)
      BY <2>2, BeginDestroyOrder DEF Reap, Procs
    <2> QED
      BY <1>5, <2>1, <2>2
  <1> QED
    BY <1>1, <1>2, <1>3, <1>4, <1>5 DEF Next

\* The order holds always.
LEMMA OrderInvariance == Spec => [](Inv /\ OrderInv)
  BY InitInv, NextInv, InitOrder, NextOrder, PTL DEF Spec

-----------------------------------------------------------------------------
(* What the order gives.                                                     *)

\* Wherever it waits, a destruction's session is marked and in its place.
LEMMA DestroyingMarked ==
    ASSUME Inv, OrderInv, NEW p \in Procs, Destroying(p)
    PROVE  /\ obj[proc[p].obj].state # "active"
           /\ sessions[proc[p].sid] \in {proc[p].obj, None}
  <1>1. Call(p).kind = "call" /\ Call(p).who = p
    BY JobNames
  <1>2. CASE Call(p) \in Elems(micro)
    <2>1. GoesOn(p)
      BY <1>1, <1>2 DEF OrderInv, MicroQueue, Removes, Destroying
    <2> QED
      BY <2>1 DEF GoesOn
  <1>3. ASSUME NEW v \in Calls, Call(p) \in Elems(waiters[CreationOf(v)])
        PROVE  /\ obj[proc[p].obj].state # "active"
               /\ sessions[proc[p].sid] \in {proc[p].obj, None}
    BY <1>1, <1>3, AwaitedCreation DEF Destroying
  <1>4. ASSUME NEW v \in Calls, Call(p) \in Elems(waiters[CleanupOf(v)])
        PROVE  /\ obj[proc[p].obj].state # "active"
               /\ sessions[proc[p].sid] \in {proc[p].obj, None}
    <2>1. AwaitsTeardown(p, v)
      BY <1>1, <1>4, AwaitedCleanup DEF Destroying
    <2> QED
      BY <2>1 DEF AwaitsTeardown
  <1>5. ASSUME NEW s \in SessionIds
        PROVE  Call(p) \notin Elems(waiters[LockOf(s)])
    BY <1>1 DEF OrderInv, LockQueues, Destroying
  <1>6. CASE \E q \in Promises : Call(p) \in Elems(waiters[q])
    BY <1>3, <1>4, <1>5, <1>6 DEF Promises, LockOf, CreationOf, CleanupOf
  <1> QED
    BY <1>2, <1>6 DEF OrderInv, Pending

\* What a step does to the table, the manifest and the VMs in service.
InService(v) == vm[v].state \in {"ready", "dead"} /\ vm[v].cleanup = "no"

\* Nothing comes into service, and the Session objects keep their names.
ServiceKept ==
    /\ \A v \in Calls : InService(v)' => InService(v) /\ vm'[v].session = vm[v].session
    /\ \A o \in Calls : obj[o].sid \in SessionIds => obj'[o].sid = obj[o].sid
    /\ UNCHANGED manifest

\* A VM in service, and its session.
LEMMA InServiceRefs ==
    ASSUME Inv, NEW v \in Calls, InService(v)
    PROVE  /\ vm[v].session \in Calls /\ obj[vm[v].session].sid \in SessionIds
           /\ obj[vm[v].session].vm = v
  BY DEF Inv, InService, VmHeld, VmRefs

\* Only LockedCreate, LockedRefused, Attach and DestroyEnds change the table or the manifest.
LEMMA TableChanges ==
    ASSUME Inv, [Next]_vars
    PROVE  \/ ServiceKept /\ UNCHANGED <<sessions, sessionsActive>>
           \/ /\ ServiceKept
              /\ \E c \in Calls, s \in SessionIds :
                     /\ sessions[s] = None /\ sessions' = [sessions EXCEPT ![s] = c]
                     /\ sessionsActive' = sessionsActive + 1
           \/ \E v \in Calls : Attach(v)
           \/ \E p \in Procs : DestroyEnds(p)
  <1>1. /\ obj \in [Calls -> SessionRecords] /\ vm \in [Calls -> VmRecords]
        /\ sessions \in [SessionIds -> Calls \cup {None}]
        /\ None \notin SessionIds
    BY GatewayConstants DEF Inv, TypeOK
  <1>2. CASE UNCHANGED vars
    BY <1>2 DEF vars, ServiceKept, InService
  <1>3. ASSUME NEW c \in Calls, NEW s \in SessionIds, NEW owner \in Callers,
               \/ \E t \in Templates \cup {None} : Send(c, s, owner, t)
               \/ Destroy(c, s, owner) \/ DestroyRefused(c, s, owner)
        PROVE  ServiceKept /\ UNCHANGED <<sessions, sessionsActive>>
    <2>1. vm' = vm /\ UNCHANGED <<sessions, sessionsActive, manifest>>
      BY <1>3 DEF Send, SendForbidden, SendReuse, SendJoin, SendLock, SendWait,
         Destroy, DestroyRefused, BeginDestroy
    <2>2. \A o \in Calls : obj'[o].sid = obj[o].sid
      BY <1>1, <1>3 DEF Send, SendForbidden, SendReuse, SendJoin, SendLock,
         SendWait, Arrives, Touched, Destroy, DestroyRefused, BeginDestroy, SessionRecords
    <2> QED
      BY <2>1, <2>2 DEF ServiceKept, InService
  <1>4. ASSUME NEW c \in Calls, LockedCreate(c) \/ LockedRefused(c)
        PROVE  /\ ServiceKept
               /\ \/ UNCHANGED <<sessions, sessionsActive>>
                  \/ \E s \in SessionIds :
                         /\ sessions[s] = None /\ sessions' = [sessions EXCEPT ![s] = c]
                         /\ sessionsActive' = sessionsActive + 1
    <2>1. proc[c].sid \in SessionIds /\ obj[c].sid = None
      BY <1>4 DEF LockedCreate, LockedRefused, Resumes, Inv, ProcRefs, Underway,
         Procs, Fresh
    <2>2. /\ \A v \in Calls \ {c} : vm'[v] = vm[v]
          /\ vm'[c] = vm[c] \/ vm'[c].state = "creating"
          /\ UNCHANGED manifest
      BY <1>1, <1>4 DEF LockedCreate, LockedRefused, StartCreation
    <2>3. ASSUME NEW o \in Calls, obj[o].sid \in SessionIds
          PROVE  obj'[o].sid = obj[o].sid
      <3>1. o # c
        BY <1>1, <2>1, <2>3
      <3> QED
        BY <1>1, <1>4, <2>3, <3>1
           DEF LockedCreate, LockedRefused, StartCreation, SessionRecords
    <2>4. ServiceKept
      BY <2>2, <2>3 DEF ServiceKept, InService
    <2> QED
      BY <1>4, <2>1, <2>4 DEF LockedCreate, LockedRefused
  <1>5. ASSUME NEW p \in Procs, Step(p), ~DestroyEnds(p),
               p \in Calls => ~LockedCreate(p) /\ ~LockedRefused(p)
        PROVE  ServiceKept /\ UNCHANGED <<sessions, sessionsActive>>
    <2>1. UNCHANGED <<sessions, sessionsActive, manifest>>
      BY <1>5 DEF Step, TakeLock, WaitAgain, LockedForbidden, LockedReuse,
         LockedReset, LockedJoin, Recreate, RecreateRefused, Joined, DestroyVm
    <2>2. \A o \in Calls : obj'[o].sid = obj[o].sid
      <3>1. \/ obj' = obj
            \/ \E s : obj' = Touched(s, obj)
            \/ \E o : obj' = [obj EXCEPT ![o] = [@ EXCEPT !.vm = None, !.state = "creating"]]
            \/ \E o, c : obj' = [obj EXCEPT ![o].creation = c]
        <4>1. CASE /\ p \in Calls
                   /\ \/ TakeLock(p) \/ WaitAgain(p) \/ LockedForbidden(p)
                      \/ LockedJoin(p) \/ RecreateRefused(p)
          BY <4>1 DEF TakeLock, WaitAgain, LockedForbidden, LockedJoin, RecreateRefused
        <4>2. CASE p \in Calls /\ (LockedReuse(p) \/ Joined(p))
          BY <4>2 DEF LockedReuse, Joined, Grant
        <4>3. CASE p \in Calls /\ LockedReset(p)
          BY <4>3 DEF LockedReset
        <4>4. CASE p \in Calls /\ Recreate(p)
          BY <4>4 DEF Recreate, StartCreation
        <4>5. CASE DestroyVm(p)
          BY <4>5 DEF DestroyVm
        <4> QED
          BY <1>5, <4>1, <4>2, <4>3, <4>4, <4>5 DEF Step
      <3>2. CASE obj' = obj
        BY <3>2
      <3>3. ASSUME NEW s, obj' = Touched(s, obj)
            PROVE  \A o \in Calls : obj'[o].sid = obj[o].sid
        BY <1>1, <3>3 DEF Touched, SessionRecords
      <3>4. ASSUME NEW x,
                   obj' = [obj EXCEPT ![x] = [@ EXCEPT !.vm = None, !.state = "creating"]]
            PROVE  \A o \in Calls : obj'[o].sid = obj[o].sid
        BY <1>1, <3>4 DEF SessionRecords
      <3>5. ASSUME NEW x, NEW c, obj' = [obj EXCEPT ![x].creation = c]
            PROVE  \A o \in Calls : obj'[o].sid = obj[o].sid
        BY <1>1, <3>5 DEF SessionRecords
      <3> QED
        BY <3>1, <3>2, <3>3, <3>4, <3>5
    <2>3. CASE p \in Calls /\ Recreate(p)
      <3>1. /\ \A v \in Calls \ {p} : vm'[v] = vm[v]
            /\ vm'[p] = vm[p] \/ vm'[p].state = "creating"
        BY <1>1, <2>3 DEF Recreate, StartCreation
      <3> QED
        BY <2>1, <2>2, <3>1 DEF ServiceKept, InService
    <2>4. CASE ~(p \in Calls /\ Recreate(p))
      <3>1. \/ vm' = vm
            \/ \E v : vm' = [vm EXCEPT ![v].cleanup = IF @ = "no" THEN "running" ELSE @]
        BY <1>5, <2>4 DEF Step, TakeLock, WaitAgain, LockedForbidden, LockedReuse,
           LockedReset, LockedJoin, RecreateRefused, Joined, DestroyVm, AwaitCleanup
      <3>2. \A v \in Calls : /\ vm'[v].state = vm[v].state
                             /\ vm'[v].session = vm[v].session
                             /\ vm'[v].cleanup = "no" => vm[v].cleanup = "no"
        BY <1>1, <3>1 DEF VmRecords
      <3> QED
        BY <2>1, <2>2, <3>2 DEF ServiceKept, InService
    <2> QED
      BY <2>3, <2>4
  <1>6. ASSUME NEW v \in Calls,
               \/ Discard(v) \/ Discarded(v) \/ CreateFails(v)
               \/ CleanupDone(v) \/ ProcessExits(v)
        PROVE  ServiceKept /\ UNCHANGED <<sessions, sessionsActive>>
    <2>1. UNCHANGED <<sessions, sessionsActive, manifest>>
      BY <1>6 DEF Discard, Discarded, CreateFails, CleanupDone, ProcessExits
    <2>2. \A o \in Calls : obj'[o].sid = obj[o].sid
      BY <1>1, <1>6 DEF Discard, Discarded, CreateFails, CleanupDone, ProcessExits,
         SessionRecords
    <2>3. /\ \A w \in Calls \ {v} : vm'[w] = vm[w]
          /\ vm'[v].session = vm[v].session
          /\ InService(v)' => InService(v)
      <3>1. CASE Discard(v)
        <4>1. vm' = [vm EXCEPT ![v] =
                  [@ EXCEPT !.state = "ready", !.cleanup = "running", !.promise = "discarding"]]
          BY <3>1 DEF Discard
        <4> QED
          BY <1>1, <4>1 DEF VmRecords, InService
      <3>2. CASE Discarded(v)
        <4>1. vm' = [vm EXCEPT ![v].promise = "rejected"]
          BY <3>2 DEF Discarded
        <4> QED
          BY <1>1, <4>1 DEF VmRecords, InService
      <3>3. CASE CreateFails(v)
        <4>1. vm' = [vm EXCEPT ![v] = [@ EXCEPT !.state = "failed", !.promise = "rejected"]]
          BY <3>3 DEF CreateFails
        <4> QED
          BY <1>1, <4>1 DEF VmRecords, InService
      <3>4. CASE CleanupDone(v)
        <4>1. vm' = [vm EXCEPT ![v].cleanup = "done"]
          BY <3>4 DEF CleanupDone
        <4> QED
          BY <1>1, <4>1 DEF VmRecords, InService
      <3>5. CASE ProcessExits(v)
        <4>1. vm[v].state = "ready" /\ vm' = [vm EXCEPT ![v].state = "dead"]
          BY <3>5 DEF ProcessExits
        <4> QED
          BY <1>1, <4>1 DEF VmRecords, InService
      <3> QED
        BY <1>6, <3>1, <3>2, <3>3, <3>4, <3>5
    <2> QED
      BY <2>1, <2>2, <2>3 DEF ServiceKept, InService
  <1>7. ASSUME NEW s \in SessionIds, GoIdle(s) \/ Reap(s)
        PROVE  ServiceKept /\ UNCHANGED <<sessions, sessionsActive>>
    <2>1. vm' = vm /\ UNCHANGED <<sessions, sessionsActive, manifest>>
      BY <1>7 DEF GoIdle, Reap, BeginDestroy
    <2>2. \A o \in Calls : obj'[o].sid = obj[o].sid
      BY <1>1, <1>7 DEF GoIdle, Reap, BeginDestroy, SessionRecords
    <2> QED
      BY <2>1, <2>2 DEF ServiceKept, InService
  <1> QED
    BY <1>2, <1>3, <1>4, <1>5, <1>6, <1>7 DEF Next

\* The end of a destruction: the session it removes has no VM in service.
LEMMA NothingRemovedInService ==
    ASSUME Inv, OrderInv, NEW p \in Procs, DestroyEnds(p), NoOrphanVm,
           NEW v \in Calls, InService(v)
    PROVE  obj[vm[v].session].sid # proc[p].sid
  <1> DEFINE o == proc[p].obj
             s == proc[p].sid
  <1>1. /\ Destroying(p) /\ o \in Calls /\ None \notin Calls /\ s \in SessionIds
    BY GatewayConstants DEF DestroyEnds, Resumes, Destroying, Inv, ProcRefs, Underway
  <1>2. obj[o].vm = None \/ vm[obj[o].vm].cleanup = "done"
    <2>1. PICK at \in {"awaitCreation", "awaitCleanup"} :
              Resumes(p, at) /\ (at = "awaitCreation" => obj[o].vm = None)
      BY DEF DestroyEnds
    <2>2. Call(p) \in Elems(micro) /\ Removes(Call(p), proc) /\ MicroQueue
          /\ Call(p).who = p /\ proc[p].pc = at
      BY <2>1, Running DEF Removes
    <2>3. GoesOn(p)
      BY <2>2 DEF MicroQueue
    <2> QED
      BY <2>1, <2>2, <2>3 DEF GoesOn
  <1>3. sessions[s] \in {o, None}
    BY <1>1, DestroyingMarked
  <1>4. /\ vm[v].session \in Calls /\ obj[vm[v].session].vm = v
        /\ sessions[obj[vm[v].session].sid] = vm[v].session
    BY InServiceRefs DEF NoOrphanVm, InService
  <1>5. ASSUME obj[vm[v].session].sid = s
        PROVE  FALSE
    <2>1. vm[v].session = o
      BY <1>1, <1>3, <1>4, <1>5
    <2> QED
      BY <1>1, <1>2, <1>4, <2>1 DEF InService
  <1> QED
    BY <1>5

\* A VM in service stays the one of a session in the table, and in the manifest.
LEMMA TableNext ==
    ASSUME Inv, Inv', OrderInv, NoOrphanVm, ManifestTracksSessions, [Next]_vars
    PROVE  NoOrphanVm' /\ ManifestTracksSessions'
  <1>1. /\ obj \in [Calls -> SessionRecords] /\ vm \in [Calls -> VmRecords]
        /\ sessions \in [SessionIds -> Calls \cup {None}]
        /\ None \notin Calls
        /\ manifest \in SUBSET [session : SessionIds, vm : Calls]
    BY GatewayConstants DEF Inv, TypeOK
  <1>2. SUFFICES /\ \A v \in Calls : InService(v)' =>
                     /\ sessions'[obj'[vm'[v].session].sid] = vm'[v].session
                     /\ [session |-> obj'[vm'[v].session].sid, vm |-> v] \in manifest'
                 /\ \A e \in manifest' : sessions'[e.session] # None
    <2>1. \A v \in Calls : InService(v)' => obj'[vm'[v].session].vm = v
      BY DEF Inv, VmHeld, InService
    <2> QED
      BY <1>2, <2>1 DEF NoOrphanVm, ManifestTracksSessions, InService
  <1>3. \A v \in Calls : InService(v) =>
            /\ vm[v].session \in Calls /\ obj[vm[v].session].sid \in SessionIds
            /\ sessions[obj[vm[v].session].sid] = vm[v].session
            /\ [session |-> obj[vm[v].session].sid, vm |-> v] \in manifest
    BY InServiceRefs DEF NoOrphanVm, ManifestTracksSessions, InService
  <1>4. \A e \in manifest : e.session \in SessionIds /\ sessions[e.session] # None
    BY <1>1 DEF ManifestTracksSessions
  <1>5. CASE ServiceKept /\ \A s \in SessionIds : sessions[s] # None => sessions'[s] = sessions[s]
    <2>1. ASSUME NEW v \in Calls, InService(v)'
          PROVE  /\ sessions'[obj'[vm'[v].session].sid] = vm'[v].session
                 /\ [session |-> obj'[vm'[v].session].sid, vm |-> v] \in manifest'
      <3> DEFINE o == vm[v].session
                 s == obj[o].sid
      <3>1. InService(v) /\ vm'[v].session = o /\ manifest' = manifest
        BY <1>5, <2>1 DEF ServiceKept
      <3>2. /\ o \in Calls /\ s \in SessionIds /\ sessions[s] = o
            /\ [session |-> s, vm |-> v] \in manifest
        BY <1>3, <3>1
      <3>3. obj'[o].sid = s
        BY <1>5, <3>2 DEF ServiceKept
      <3>4. sessions'[s] = o
        BY <1>1, <1>5, <3>2
      <3> QED
        BY <3>1, <3>2, <3>3, <3>4
    <2>2. \A e \in manifest' : sessions'[e.session] # None
      BY <1>4, <1>5 DEF ServiceKept
    <2> QED
      BY <2>1, <2>2
  <1>6. ASSUME NEW v \in Calls, Attach(v)
        PROVE  /\ \A w \in Calls : InService(w)' =>
                     /\ sessions'[obj'[vm'[w].session].sid] = vm'[w].session
                     /\ [session |-> obj'[vm'[w].session].sid, vm |-> w] \in manifest'
               /\ \A e \in manifest' : sessions'[e.session] # None
    <2> DEFINE o == vm[v].session
    <2>1. o \in Calls /\ obj[o].sid \in SessionIds /\ sessions[obj[o].sid] = o
      BY <1>6 DEF Attach, Doomed, Inv, VmRefs
    <2>2. /\ sessions' = sessions
          /\ manifest' = manifest \cup {[session |-> obj[o].sid, vm |-> v]}
          /\ obj' = [obj EXCEPT ![o] =
                        [@ EXCEPT !.vm = v, !.state = "active", !.creation = None]]
          /\ vm' = [vm EXCEPT ![v] = [@ EXCEPT !.state = "ready", !.promise = "fulfilled"]]
      BY <1>6 DEF Attach
    <2>3. \A x \in Calls : obj'[x].sid = obj[x].sid
      BY <1>1, <2>1, <2>2 DEF SessionRecords
    <2>4. vm'[v].session = o /\ \A w \in Calls \ {v} : vm'[w] = vm[w]
      BY <1>1, <2>2 DEF VmRecords
    <2>5. ASSUME NEW w \in Calls, InService(w)'
          PROVE  /\ sessions'[obj'[vm'[w].session].sid] = vm'[w].session
                 /\ [session |-> obj'[vm'[w].session].sid, vm |-> w] \in manifest'
      <3>1. CASE w = v
        BY <2>1, <2>2, <2>3, <2>4, <3>1
      <3>2. CASE w # v
        <4>1. InService(w) /\ vm'[w] = vm[w]
          BY <2>4, <2>5, <3>2 DEF InService
        <4> QED
          BY <1>3, <2>2, <2>3, <4>1
      <3> QED
        BY <3>1, <3>2
    <2>6. \A e \in manifest' : sessions'[e.session] # None
      BY <1>1, <1>4, <2>1, <2>2
    <2> QED
      BY <2>5, <2>6
  <1>7. ASSUME NEW p \in Procs, DestroyEnds(p)
        PROVE  /\ \A w \in Calls : InService(w)' =>
                     /\ sessions'[obj'[vm'[w].session].sid] = vm'[w].session
                     /\ [session |-> obj'[vm'[w].session].sid, vm |-> w] \in manifest'
               /\ \A e \in manifest' : sessions'[e.session] # None
    <2> DEFINE s == proc[p].sid
    <2>1. /\ sessions' = [sessions EXCEPT ![s] = None] /\ obj' = obj /\ vm' = vm
          /\ manifest' = {e \in manifest : e.session # s}
      BY <1>7 DEF DestroyEnds, RemoveEntry
    <2>2. s \in SessionIds
      BY <1>7 DEF DestroyEnds, Resumes, Inv, ProcRefs, Underway
    <2>3. \A t \in SessionIds \ {s} : sessions'[t] = sessions[t]
      BY <1>1, <2>1
    <2>4. ASSUME NEW w \in Calls, InService(w)'
          PROVE  /\ sessions'[obj'[vm'[w].session].sid] = vm'[w].session
                 /\ [session |-> obj'[vm'[w].session].sid, vm |-> w] \in manifest'
      <3>1. InService(w)
        BY <2>1, <2>4 DEF InService
      <3>2. obj[vm[w].session].sid # s
        BY <1>7, <3>1, NothingRemovedInService
      <3> QED
        BY <1>3, <2>1, <2>3, <3>1, <3>2
    <2>5. \A e \in manifest' : sessions'[e.session] # None
      BY <1>4, <2>1, <2>3
    <2> QED
      BY <2>4, <2>5
  <1>8. CASE ServiceKept /\ sessions' = sessions
    BY <1>5, <1>8
  <1>9. CASE ServiceKept /\ \E c \in Calls, s \in SessionIds :
                 sessions[s] = None /\ sessions' = [sessions EXCEPT ![s] = c]
    BY <1>1, <1>5, <1>9
  <1> QED
    BY <1>6, <1>7, <1>8, <1>9, TableChanges

\* The table, and the manifest, always show what is in service.
LEMMA TableInvariance ==
    Spec => [](Inv /\ OrderInv /\ NoOrphanVm /\ ManifestTracksSessions)
  <1>1. Init => NoOrphanVm /\ ManifestTracksSessions
    BY DEF Init, NoVm, NoOrphanVm, ManifestTracksSessions
  <1>2. /\ Inv /\ OrderInv /\ NoOrphanVm /\ ManifestTracksSessions
        /\ [Next]_vars
        => (Inv /\ OrderInv /\ NoOrphanVm /\ ManifestTracksSessions)'
    <2> SUFFICES ASSUME Inv, OrderInv, NoOrphanVm, ManifestTracksSessions, [Next]_vars
                 PROVE  (Inv /\ OrderInv /\ NoOrphanVm /\ ManifestTracksSessions)'
      OBVIOUS
    <2>1. Inv' /\ OrderInv'
      BY NextInv, NextOrder
    <2> QED
      BY <2>1, TableNext
  <1> QED
    BY <1>1, <1>2, InitInv, InitOrder, PTL DEF Spec

-----------------------------------------------------------------------------
(* The theorems.                                                             *)

\* destroySession deletes by id, and yet never removes another session than
\* the one it marked (session.ts:62): whoever would renew the id runs after it.
THEOREM RemovesItsOwn == Spec => []DestroysItsOwnSession
  <1>1. Inv /\ OrderInv => DestroysItsOwnSession
    BY DestroyingMarked DEF DestroysItsOwnSession
  <1> QED
    BY <1>1, OrderInvariance, PTL

\* A session under destruction is never active again, so the reaper takes it
\* once (gateway.ts:85, session.ts:53 and 78).
THEOREM StaysMarked == Spec => []NoRevival
  <1>1. Inv /\ OrderInv => NoRevival
    BY DestroyingMarked DEF NoRevival
  <1> QED
    BY <1>1, OrderInvariance, PTL

\* A VM that is up and not being torn down is the VM of a session in the table,
\* which a destruction, the reaper or a reset will find (gateway.ts:74-89,
\* session.ts:53-62).
THEOREM NoOrphans == Spec => []NoOrphanVm
  BY TableInvariance, PTL

\* The manifest names every VM in service, and no session that is gone
\* (gateway.ts:92, session.ts:63).
THEOREM ManifestTracks == Spec => []ManifestTracksSessions
  BY TableInvariance, PTL

\* The number of sessions in the table, and what a step does to it.
Open == {s \in SessionIds : sessions[s] # None}

\* The gauge of active sessions never counts a session that is gone
\* (metrics.ts:71): one is added with the session, and taken off with each
\* destruction that ends.
THEOREM GaugeBounded ==
    ASSUME IsFiniteSet(SessionIds)
    PROVE  Spec => []SessionsNotOverstated
  <1>1. Init => SessionsNotOverstated
    <2> SUFFICES ASSUME Init
                 PROVE  SessionsNotOverstated
      OBVIOUS
    <2>1. {s \in SessionIds : sessions[s] # None} = {} /\ sessionsActive = 0
      BY DEF Init
    <2> QED
      BY <2>1, FS_EmptySet DEF SessionsNotOverstated
  <1>2. Inv /\ SessionsNotOverstated /\ [Next]_vars => SessionsNotOverstated'
    <2> SUFFICES ASSUME Inv, SessionsNotOverstated, [Next]_vars
                 PROVE  SessionsNotOverstated'
      OBVIOUS
    <2>1. /\ sessions \in [SessionIds -> Calls \cup {None}] /\ sessionsActive \in Int
          /\ IsFiniteSet(Open) /\ Cardinality(Open) \in Nat /\ None \notin Calls
          /\ sessionsActive <= Cardinality(Open)
      BY FS_Subset, FS_CardinalityType, GatewayConstants
         DEF Inv, TypeOK, Open, SessionsNotOverstated
    <2>2. SUFFICES sessionsActive' <= Cardinality(Open')
      BY DEF Open, SessionsNotOverstated
    <2>3. CASE UNCHANGED <<sessions, sessionsActive>>
      BY <2>1, <2>3 DEF Open
    <2>4. ASSUME NEW c \in Calls, NEW s \in SessionIds, sessions[s] = None,
                 sessions' = [sessions EXCEPT ![s] = c],
                 sessionsActive' = sessionsActive + 1
          PROVE  sessionsActive' <= Cardinality(Open')
      <3>1. Open' = Open \cup {s} /\ s \notin Open
        BY <2>1, <2>4 DEF Open
      <3>2. Cardinality(Open') = Cardinality(Open) + 1
        BY <2>1, <3>1, FS_AddElement
      <3> QED
        BY <2>1, <2>4, <3>2
    <2>5. ASSUME NEW v \in Calls, Attach(v)
          PROVE  sessionsActive' <= Cardinality(Open')
      BY <2>1, <2>5 DEF Attach, Open
    <2>6. ASSUME NEW p \in Procs, DestroyEnds(p)
          PROVE  sessionsActive' <= Cardinality(Open')
      <3> DEFINE s == proc[p].sid
      <3>1. /\ sessions' = [sessions EXCEPT ![s] = None]
            /\ sessionsActive' = sessionsActive - 1 /\ s \in SessionIds
        BY <2>6 DEF DestroyEnds, Resumes, Inv, ProcRefs, Underway
      <3>2. Open' = Open \ {s}
        BY <2>1, <3>1 DEF Open
      <3>3. Cardinality(Open \ {s}) >= Cardinality(Open) - 1
        <4>1. IsFiniteSet(Open) /\ Cardinality(Open) \in Nat
          BY <2>1
        <4>2. Cardinality(Open \ {s}) = IF s \in Open THEN Cardinality(Open) - 1
                                                     ELSE Cardinality(Open)
          <5> HIDE DEF s
          <5> QED
            BY <4>1, FS_RemoveElement
        <4> QED
          BY <4>1, <4>2
      <3>4. Cardinality(Open \ {s}) \in Nat
        BY <2>1, FS_Subset, FS_CardinalityType
      <3> QED
        BY <2>1, <3>1, <3>2, <3>3, <3>4
    <2> QED
      BY <2>3, <2>4, <2>5, <2>6, TableChanges
  <1> QED
    BY <1>1, <1>2, Invariance, PTL DEF Spec
=============================================================================
