-------------------------- MODULE VmLifecycleProofs -------------------------
(* What VmLifecycle guarantees for any number of VMs and slots.              *)
EXTENDS VmLifecycle, FiniteSetTheorems, TLAPS

Up   == {"wait", "restore", "ready"}
Over == {"failed", "cleaned"}

-----------------------------------------------------------------------------
(* The inductive invariant: what the step a VM has reached says of its slot, *)
(* of what exists on the host for it, and of its Vm object.                  *)

SlotShape(v) ==
    /\ pc[v] \in {"idle", "refused"} => slot[v] = 0
    /\ slot[v] = 0 => pc[v] \in {"idle", "refused", "failed"}

HostShape(v) ==
    /\ pc[v] \in {"idle", "refused", "addNs"} =>
           host[v].veth = "none" /\ ~host[v].dns /\ ~host[v].netns
    /\ pc[v] \in {"idle", "refused"} \cup SetupPCs => host[v].process = "none"
    /\ pc[v] \in {"addVeth", "configure", "dns", "rules"} \cup Up => host[v].netns
    /\ pc[v] \in {"configure", "dns", "rules"} \cup Up => host[v].veth = "moved"
    /\ pc[v] \in Up => host[v].rules
    /\ pc[v] \in TeardownPCs \cup Over => host[v].process # "running"
    /\ pc[v] \in {"deleteNs", "deleteLink"} \cup Over =>
           (host[v].dns => "stopDns" \in MayFail)
    /\ pc[v] \in {"deleteLink"} \cup Over =>
           (host[v].netns => "deleteNs" \in MayFail)
    /\ pc[v] \in Over => (host[v].veth # "none" => "deleteLink" \in MayFail)

LifeShape(v) ==
    /\ pc[v] \in {"idle", "refused", "failed"} \cup SetupPCs \cup BootPCs =>
           state[v] = "none" /\ cleanup[v] = "no"
    /\ pc[v] = "ready" => state[v] # "none" /\ cleanup[v] = "no"
    /\ pc[v] \in TeardownPCs /\ undoing[v] = "cleanup" =>
           state[v] # "none" /\ cleanup[v] = "running"
    /\ pc[v] \in TeardownPCs /\ undoing[v] # "cleanup" =>
           state[v] = "none" /\ cleanup[v] = "no"
    /\ pc[v] = "cleaned" => state[v] # "none" /\ cleanup[v] = "done"

Shape(v) == SlotShape(v) /\ HostShape(v) /\ LifeShape(v)

Inv == TypeOK /\ SlotsExact /\ \A v \in Vms : Shape(v)

-----------------------------------------------------------------------------
(* Lemmas on the variables, one VM at a time.                                *)

\* Nothing that belongs to VM w changes in the step.
Unmoved(w) ==
    /\ pc'[w] = pc[w] /\ undoing'[w] = undoing[w] /\ slot'[w] = slot[w]
    /\ host'[w] = host[w] /\ state'[w] = state[w] /\ cleanup'[w] = cleanup[w]

\* A VM of which nothing changes keeps its shape.
LEMMA UnmovedShape ==
    ASSUME NEW w \in Vms, Shape(w), Unmoved(w)
    PROVE  Shape(w)'
BY DEF Unmoved, Shape, SlotShape, HostShape, LifeShape, Up, Over, SetupPCs,
       BootPCs, TeardownPCs

\* A step of v alone: the other VMs keep their shapes.
LEMMA OneMoves ==
    ASSUME \A w \in Vms : Shape(w),
           NEW v \in Vms, Shape(v)',
           \A w \in Vms \ {v} : Unmoved(w)
    PROVE  \A w \in Vms : Shape(w)'
<1>. SUFFICES ASSUME NEW w \in Vms PROVE Shape(w)'
  OBVIOUS
<1>1. CASE w = v
  BY <1>1
<1>2. CASE w # v
  BY <1>2, UnmovedShape
<1>. QED
  BY <1>1, <1>2

\* The pool stays exact while slots and their holders stay the same.
LEMMA SameHolders ==
    ASSUME SlotsExact, UNCHANGED <<slot, usedSlots>>,
           \A w \in Vms : Holds(w)' <=> Holds(w)
    PROVE  SlotsExact'
BY DEF SlotsExact, Holds

-----------------------------------------------------------------------------

LEMMA InitInv == Init => Inv
<1>. SUFFICES ASSUME Init PROVE Inv
  OBVIOUS
<1>1. TypeOK
  BY LifecycleConstants
     DEF Init, TypeOK, PCs, SetupPCs, BootPCs, TeardownPCs, HostRecords, Nothing
<1>2. SlotsExact
  BY DEF Init, SlotsExact, Holds
<1>3. \A v \in Vms : Shape(v)
  BY DEF Init, Shape, SlotShape, HostShape, LifeShape, Nothing, Up, Over,
         SetupPCs, BootPCs, TeardownPCs
<1>. QED
  BY <1>1, <1>2, <1>3 DEF Inv

-----------------------------------------------------------------------------
(* Steps that keep the pool, the Vm object and the gauge.                    *)

\* Between allocateSlot and releaseSlot.
Holding == SetupPCs \cup BootPCs \cup TeardownPCs \cup {"ready"}

\* What the Undoes and Goes of a VM that holds its slot have in common.
LEMMA HeldStep ==
    ASSUME Inv, NEW v \in Vms, NEW at \in Holding, NEW h \in HostRecords,
           NEW u \in {"nothing", "setup", "create", "cleanup"},
           pc[v] \in Holding,
           pc' = [pc EXCEPT ![v] = at],
           host' = [host EXCEPT ![v] = h],
           undoing' = [undoing EXCEPT ![v] = u],
           UNCHANGED <<slot, usedSlots, state, cleanup, gauge>>,
           Shape(v)'
    PROVE  Inv'
<1>1. TypeOK'
  BY DEF Inv, TypeOK, Holding, PCs
<1>2. \A w \in Vms : Holds(w)' <=> Holds(w)
  BY DEF Inv, TypeOK, Holds, Holding, SetupPCs, BootPCs, TeardownPCs
<1>3. SlotsExact'
  BY <1>2, SameHolders DEF Inv
<1>4. \A w \in Vms \ {v} : Unmoved(w)
  BY DEF Inv, TypeOK, Unmoved
<1>5. \A w \in Vms : Shape(w)'
  BY <1>4, OneMoves DEF Inv
<1>. QED
  BY <1>1, <1>3, <1>5 DEF Inv

\* Goes, for a VM that holds its slot.
LEMMA GoesInv ==
    ASSUME Inv, NEW v \in Vms, NEW at \in Holding, NEW h \in HostRecords,
           pc[v] \in Holding, Goes(v, at, h), Shape(v)'
    PROVE  Inv'
<1>1. undoing' = [undoing EXCEPT ![v] = undoing[v]]
  BY DEF Goes, Inv, TypeOK
<1>2. undoing[v] \in {"nothing", "setup", "create", "cleanup"}
  BY DEF Inv, TypeOK
<1>. QED
  BY <1>1, <1>2, HeldStep DEF Goes

\* A setup or boot step that fails after it changed the host to h.
LEMMA FailureInv ==
    ASSUME Inv, NEW v \in Vms, NEW h \in HostRecords,
           NEW u \in {"setup", "create"},
           pc[v] \in SetupPCs \cup BootPCs,
           h.process # "running",
           Undoes(v, u, h), UNCHANGED <<slot, usedSlots, state, cleanup, gauge>>
    PROVE  Inv'
<1>1. Shape(v)'
  BY DEF Inv, TypeOK, Undoes, Shape, SlotShape, HostShape, LifeShape, Up, Over,
         SetupPCs, BootPCs, TeardownPCs
<1>2. pc' = [pc EXCEPT ![v] = "stopDns"] /\ "stopDns" \in Holding
      /\ pc[v] \in Holding
  BY DEF Undoes, Holding, TeardownPCs
<1>. QED
  BY <1>1, <1>2, HeldStep DEF Undoes

\* A setup step, given what its success and its failures make of the host.
LEMMA SetupStepInv ==
    ASSUME Inv, NEW v \in Vms, NEW at \in SetupPCs, NEW next \in SetupPCs,
           NEW done \in SUBSET HostRecords, NEW partial \in SUBSET HostRecords,
           SetupStep(v, at, next, done, partial),
           \A h \in partial : h.process # "running",
           ASSUME NEW h \in done, Goes(v, next, h) PROVE Shape(v)'
    PROVE  Inv'
<1>1. pc[v] \in SetupPCs /\ next \in Holding /\ pc[v] \in Holding
  BY DEF SetupStep, Holding
<1>2. CASE \E h \in done : Goes(v, next, h)
  <2>1. PICK h \in done : Goes(v, next, h)
    BY <1>2
  <2>2. Shape(v)'
    BY <2>1
  <2>. QED
    BY <1>1, <2>1, <2>2, GoesInv
<1>3. CASE /\ \E h \in partial : Undoes(v, "setup", h)
           /\ UNCHANGED <<slot, usedSlots, state, cleanup, gauge>>
  <2>1. PICK h \in partial : Undoes(v, "setup", h)
    BY <1>3
  <2>. QED
    BY <1>1, <1>3, <2>1, FailureInv
<1>. QED
  BY <1>2, <1>3 DEF SetupStep

-----------------------------------------------------------------------------
(* createVm.                                                                 *)

LEMMA CreateInv ==
    ASSUME Inv, NEW v \in Vms, Create(v)
    PROVE  Inv'
<1>1. PICK n \in FreeSlots : /\ slot' = [slot EXCEPT ![v] = n]
                             /\ usedSlots' = usedSlots \cup {n}
  BY DEF Create
<1>2. n \in Slots /\ n \notin usedSlots /\ n # 0
  BY <1>1, LifecycleConstants DEF FreeSlots, Slots
<1>3. TypeOK'
  BY <1>1, <1>2 DEF Create, Inv, TypeOK, PCs, SetupPCs, Count
<1>4. ~Holds(v) /\ Holds(v)' /\ slot'[v] = n
  BY <1>1, <1>2 DEF Create, Inv, TypeOK, Holds
<1>5. \A w \in Vms \ {v} : (Holds(w)' <=> Holds(w)) /\ slot'[w] = slot[w]
  BY <1>1 DEF Create, Inv, TypeOK, Holds
<1>6. SlotsExact'
  BY <1>1, <1>2, <1>4, <1>5 DEF Inv, SlotsExact
<1>7. Shape(v)'
  BY <1>1, <1>2 DEF Create, Inv, TypeOK, Shape, SlotShape, HostShape,
     LifeShape, Up, Over, SetupPCs, BootPCs, TeardownPCs
<1>8. \A w \in Vms \ {v} : Unmoved(w)
  BY <1>1 DEF Create, Inv, TypeOK, Unmoved
<1>. QED
  BY <1>3, <1>6, <1>7, <1>8, OneMoves DEF Inv

LEMMA RefusalInv ==
    ASSUME Inv, NEW v \in Vms, CreateRefused(v) \/ RefusalEnds(v)
    PROVE  Inv'
<1>1. TypeOK'
  BY DEF CreateRefused, RefusalEnds, Inv, TypeOK, PCs, Count
<1>2. \A w \in Vms : Holds(w)' <=> Holds(w)
  BY DEF CreateRefused, RefusalEnds, Inv, TypeOK, Holds, Shape, SlotShape
<1>3. SlotsExact'
  BY <1>2, SameHolders DEF CreateRefused, RefusalEnds, Inv
<1>4. Shape(v)'
  BY DEF CreateRefused, RefusalEnds, Inv, TypeOK, Shape, SlotShape, HostShape,
     LifeShape, Up, Over, SetupPCs, BootPCs, TeardownPCs
<1>5. \A w \in Vms \ {v} : Unmoved(w)
  BY DEF CreateRefused, RefusalEnds, Inv, TypeOK, Unmoved
<1>. QED
  BY <1>1, <1>3, <1>4, <1>5, OneMoves DEF Inv

\* What a setup step may assume of its VM's record.
LEMMA SetupHost ==
    ASSUME Inv, NEW v \in Vms, pc[v] \in SetupPCs
    PROVE  host[v] \in HostRecords /\ host[v].process = "none"
BY DEF Inv, TypeOK, Shape, HostShape

LEMMA AddNsInv ==
    ASSUME Inv, NEW v \in Vms, AddNs(v)
    PROVE  Inv'
<1>. DEFINE done == {[host[v] EXCEPT !.netns = TRUE]}
            partial == {host[v]}
<1>1. SetupStep(v, "addNs", "addVeth", done, partial)
  BY DEF AddNs
<1>2. pc[v] = "addNs" /\ {"addNs", "addVeth"} \subseteq SetupPCs
  BY <1>1 DEF SetupStep, SetupPCs
<1>3. host[v] \in HostRecords /\ host[v].process = "none"
  BY <1>2, SetupHost
<1>4. done \in SUBSET HostRecords /\ partial \in SUBSET HostRecords
  BY <1>3 DEF HostRecords
<1>5. ASSUME NEW h \in done, Goes(v, "addVeth", h) PROVE Shape(v)'
  BY <1>2, <1>3, <1>5 DEF Goes, Inv, TypeOK, HostRecords, Shape, SlotShape,
     HostShape, LifeShape, Up, Over, SetupPCs, BootPCs, TeardownPCs
<1>6. \A h \in partial : h.process # "running"
  BY <1>3
<1>. HIDE DEF done, partial
<1>. QED
  BY <1>1, <1>2, <1>4, <1>5, <1>6, SetupStepInv

LEMMA AddVethInv ==
    ASSUME Inv, NEW v \in Vms, AddVeth(v)
    PROVE  Inv'
<1>. DEFINE done == {[host[v] EXCEPT !.veth = "moved"]}
            partial == {[host[v] EXCEPT !.veth = w] :
                            w \in {"none", "host", "moved"}}
<1>1. SetupStep(v, "addVeth", "configure", done, partial)
  BY DEF AddVeth
<1>2. pc[v] = "addVeth" /\ {"addVeth", "configure"} \subseteq SetupPCs
  BY <1>1 DEF SetupStep, SetupPCs
<1>3. host[v] \in HostRecords /\ host[v].process = "none"
  BY <1>2, SetupHost
<1>4. done \in SUBSET HostRecords /\ partial \in SUBSET HostRecords
  BY <1>3 DEF HostRecords
<1>5. ASSUME NEW h \in done, Goes(v, "configure", h) PROVE Shape(v)'
  BY <1>2, <1>3, <1>5 DEF Goes, Inv, TypeOK, HostRecords, Shape, SlotShape,
     HostShape, LifeShape, Up, Over, SetupPCs, BootPCs, TeardownPCs
<1>6. \A h \in partial : h.process # "running"
  BY <1>3 DEF HostRecords
<1>. HIDE DEF done, partial
<1>. QED
  BY <1>1, <1>2, <1>4, <1>5, <1>6, SetupStepInv

LEMMA ConfigureInv ==
    ASSUME Inv, NEW v \in Vms, Configure(v)
    PROVE  Inv'
<1>. DEFINE done == {host[v]}
<1>1. SetupStep(v, "configure", "dns", done, done)
  BY DEF Configure
<1>2. pc[v] = "configure" /\ {"configure", "dns"} \subseteq SetupPCs
  BY <1>1 DEF SetupStep, SetupPCs
<1>3. host[v] \in HostRecords /\ host[v].process = "none"
  BY <1>2, SetupHost
<1>4. done \in SUBSET HostRecords
  BY <1>3
<1>5. ASSUME NEW h \in done, Goes(v, "dns", h) PROVE Shape(v)'
  BY <1>2, <1>3, <1>5 DEF Goes, Inv, TypeOK, Shape, SlotShape,
     HostShape, LifeShape, Up, Over, SetupPCs, BootPCs, TeardownPCs
<1>6. \A h \in done : h.process # "running"
  BY <1>3
<1>. HIDE DEF done
<1>. QED
  BY <1>1, <1>2, <1>4, <1>5, <1>6, SetupStepInv

LEMMA SetupDnsInv ==
    ASSUME Inv, NEW v \in Vms, SetupDns(v)
    PROVE  Inv'
<1>. DEFINE done == {host[v], [host[v] EXCEPT !.dns = TRUE]}
<1>1. SetupStep(v, "dns", "rules", done, done)
  BY DEF SetupDns
<1>2. pc[v] = "dns" /\ {"dns", "rules"} \subseteq SetupPCs
  BY <1>1 DEF SetupStep, SetupPCs
<1>3. host[v] \in HostRecords /\ host[v].process = "none"
  BY <1>2, SetupHost
<1>4. done \in SUBSET HostRecords
  BY <1>3 DEF HostRecords
<1>5. ASSUME NEW h \in done, Goes(v, "rules", h) PROVE Shape(v)'
  BY <1>2, <1>3, <1>5 DEF Goes, Inv, TypeOK, HostRecords, Shape, SlotShape,
     HostShape, LifeShape, Up, Over, SetupPCs, BootPCs, TeardownPCs
<1>6. \A h \in done : h.process # "running"
  BY <1>3 DEF HostRecords
<1>. HIDE DEF done
<1>. QED
  BY <1>1, <1>2, <1>4, <1>5, <1>6, SetupStepInv

LEMMA RulesFailInv ==
    ASSUME Inv, NEW v \in Vms, RulesFail(v)
    PROVE  Inv'
<1>1. pc[v] = "rules" /\ Undoes(v, "setup", host[v])
      /\ UNCHANGED <<slot, usedSlots, state, cleanup, gauge>>
  BY DEF RulesFail
<1>2. pc[v] \in SetupPCs
  BY <1>1 DEF SetupPCs
<1>. QED
  BY <1>1, <1>2, SetupHost, FailureInv

LEMMA JailFailsInv ==
    ASSUME Inv, NEW v \in Vms, JailFails(v)
    PROVE  Inv'
<1>1. PICK j \in BOOLEAN :
          Undoes(v, "create", [host[v] EXCEPT !.rules = TRUE, !.jail = j])
  BY DEF JailFails
<1>. DEFINE h == [host[v] EXCEPT !.rules = TRUE, !.jail = j]
<1>2. pc[v] \in SetupPCs /\ UNCHANGED <<slot, usedSlots, state, cleanup, gauge>>
  BY DEF JailFails, SetupPCs
<1>3. h \in HostRecords /\ h.process # "running"
  BY <1>2, SetupHost DEF HostRecords
<1>. HIDE DEF h
<1>. QED
  BY <1>1, <1>2, <1>3, FailureInv DEF h

LEMMA LaunchInv ==
    ASSUME Inv, NEW v \in Vms, Launch(v)
    PROVE  Inv'
<1>. DEFINE spawned == [host[v] EXCEPT !.rules = TRUE, !.jail = TRUE,
                            !.cgroup = TRUE, !.process = "running"]
            unspawned == [host[v] EXCEPT !.rules = TRUE, !.jail = TRUE]
<1>1. PICK h \in {spawned, unspawned} : Goes(v, "wait", h)
  BY DEF Launch
<1>2. pc[v] = "rules" /\ pc[v] \in SetupPCs
  BY DEF Launch, SetupPCs
<1>3. host[v] \in HostRecords
  BY <1>2, SetupHost
<1>4. h \in HostRecords /\ h.rules /\ h.netns = host[v].netns
      /\ h.veth = host[v].veth
  BY <1>3 DEF HostRecords
<1>. HIDE DEF spawned, unspawned
<1>5. Shape(v)'
  BY <1>1, <1>2, <1>4 DEF Goes, Inv, TypeOK, Shape, SlotShape,
     HostShape, LifeShape, Up, Over, SetupPCs, BootPCs, TeardownPCs
<1>6. "wait" \in Holding /\ pc[v] \in Holding
  BY <1>2 DEF Holding, BootPCs
<1>. QED
  BY <1>1, <1>4, <1>5, <1>6, GoesInv

LEMMA SocketAnswersInv ==
    ASSUME Inv, NEW v \in Vms, SocketAnswers(v)
    PROVE  Inv'
<1>1. pc[v] = "wait" /\ Goes(v, "restore", host[v])
  BY DEF SocketAnswers
<1>2. Shape(v)'
  BY <1>1 DEF Goes, Inv, TypeOK, Shape, SlotShape, HostShape, LifeShape,
     Up, Over, SetupPCs, BootPCs, TeardownPCs
<1>3. {"restore", "wait"} \subseteq Holding /\ host[v] \in HostRecords
  BY DEF Holding, BootPCs, Inv, TypeOK
<1>. QED
  BY <1>1, <1>2, <1>3, GoesInv

LEMMA RestoredInv ==
    ASSUME Inv, NEW v \in Vms, Restored(v)
    PROVE  Inv'
<1>1. TypeOK'
  BY DEF Restored, Inv, TypeOK, PCs
<1>2. \A w \in Vms : Holds(w)' <=> Holds(w)
  BY DEF Restored, Inv, TypeOK, Holds
<1>3. SlotsExact'
  BY <1>2, SameHolders DEF Restored, Inv
<1>4. Shape(v)'
  BY DEF Restored, Inv, TypeOK, Shape, SlotShape, HostShape, LifeShape, Up,
     Over, SetupPCs, BootPCs, TeardownPCs
<1>5. \A w \in Vms \ {v} : Unmoved(w)
  BY DEF Restored, Inv, TypeOK, Unmoved
<1>. QED
  BY <1>1, <1>3, <1>4, <1>5, OneMoves DEF Inv

\* What the kill and the removal of the jail leave.
LEMMA KilledHost ==
    ASSUME NEW h \in HostRecords,
           NEW g \in AfterRemoval(Killed(h), "jail", "removeJail", FALSE)
    PROVE  g \in HostRecords /\ g.process # "running"
<1>1. Killed(h) \in HostRecords /\ Killed(h).process # "running"
  BY DEF Killed, HostRecords
<1>2. g = Killed(h) \/ g = [Killed(h) EXCEPT !.jail = FALSE]
  BY DEF AfterRemoval
<1>. QED
  BY <1>1, <1>2 DEF HostRecords

LEMMA BootFailsInv ==
    ASSUME Inv, NEW v \in Vms, BootFails(v)
    PROVE  Inv'
<1>1. PICK h \in AfterRemoval(Killed(host[v]), "jail", "removeJail", FALSE) :
          Undoes(v, "create", h)
  BY DEF BootFails
<1>2. h \in HostRecords /\ h.process # "running"
  BY KilledHost DEF Inv, TypeOK
<1>. QED
  BY <1>1, <1>2, FailureInv DEF BootFails

-----------------------------------------------------------------------------
(* cleanupVm and the teardown.                                               *)

LEMMA CleanupInv ==
    ASSUME Inv, NEW v \in Vms, Cleanup(v)
    PROVE  Inv'
<1>1. PICK h \in AfterRemoval(Killed(host[v]), "jail", "removeJail", FALSE) :
          Undoes(v, "cleanup", h)
  BY DEF Cleanup
<1>2. h \in HostRecords /\ h.process # "running"
  BY KilledHost DEF Inv, TypeOK
<1>3. TypeOK'
  BY <1>1, <1>2 DEF Cleanup, Undoes, Inv, TypeOK, PCs, TeardownPCs
<1>4. \A w \in Vms : Holds(w)' <=> Holds(w)
  BY <1>1 DEF Cleanup, Undoes, Inv, TypeOK, Holds
<1>5. SlotsExact'
  BY <1>4, SameHolders DEF Cleanup, Inv
<1>6. Shape(v)'
  BY <1>1, <1>2 DEF Cleanup, Undoes, Inv, TypeOK, Shape, SlotShape, HostShape,
     LifeShape, Up, Over, SetupPCs, BootPCs, TeardownPCs
<1>7. \A w \in Vms \ {v} : Unmoved(w)
  BY <1>1 DEF Cleanup, Undoes, Inv, TypeOK, Unmoved
<1>. QED
  BY <1>3, <1>5, <1>6, <1>7, OneMoves DEF Inv

LEMMA StopDnsInv ==
    ASSUME Inv, NEW v \in Vms, StopDns(v)
    PROVE  Inv'
<1>1. PICK h \in AfterRemoval(host[v], "dns", "stopDns", FALSE) :
          Goes(v, "deleteNs", h)
  BY DEF StopDns
<1>2. host[v] \in HostRecords /\ pc[v] = "stopDns"
  BY DEF StopDns, Inv, TypeOK
<1>3. h \in HostRecords /\ h.process = host[v].process
      /\ (h.dns => "stopDns" \in MayFail)
  BY <1>2 DEF AfterRemoval, HostRecords
<1>4. Shape(v)'
  BY <1>1, <1>2, <1>3 DEF Goes, Inv, TypeOK, Shape, SlotShape, HostShape,
     LifeShape, Up, Over, SetupPCs, BootPCs, TeardownPCs
<1>5. {"stopDns", "deleteNs"} \subseteq Holding
  BY DEF Holding, TeardownPCs
<1>. QED
  BY <1>1, <1>2, <1>3, <1>4, <1>5, GoesInv

LEMMA DeleteNsInv ==
    ASSUME Inv, NEW v \in Vms, DeleteNs(v)
    PROVE  Inv'
<1>1. PICK h \in AfterRemoval(host[v], "netns", "deleteNs", FALSE) :
          Goes(v, "deleteLink", h)
  BY DEF DeleteNs
<1>2. host[v] \in HostRecords /\ pc[v] = "deleteNs"
  BY DEF DeleteNs, Inv, TypeOK
<1>3. h \in HostRecords /\ h.process = host[v].process /\ h.dns = host[v].dns
      /\ (h.netns => "deleteNs" \in MayFail)
  BY <1>2 DEF AfterRemoval, HostRecords
<1>4. Shape(v)'
  BY <1>1, <1>2, <1>3 DEF Goes, Inv, TypeOK, Shape, SlotShape, HostShape,
     LifeShape, Up, Over, SetupPCs, BootPCs, TeardownPCs
<1>5. {"deleteNs", "deleteLink"} \subseteq Holding
  BY DEF Holding, TeardownPCs
<1>. QED
  BY <1>1, <1>2, <1>3, <1>4, <1>5, GoesInv

LEMMA DeleteLinkInv ==
    ASSUME Inv, NEW v \in Vms, DeleteLink(v)
    PROVE  Inv'
<1>1. PICK h \in AfterRemoval(host[v], "veth", "deleteLink", "none") :
          host' = [host EXCEPT ![v] = h]
  BY DEF DeleteLink
<1>2. host[v] \in HostRecords /\ pc[v] = "deleteLink"
      /\ usedSlots' = usedSlots \ {slot[v]}
  BY DEF DeleteLink, Released, Inv, TypeOK
<1>3. h \in HostRecords /\ h.process = host[v].process /\ h.dns = host[v].dns
      /\ h.netns = host[v].netns /\ (h.veth # "none" => "deleteLink" \in MayFail)
  BY <1>2 DEF AfterRemoval, HostRecords
<1>4. \/ /\ undoing[v] = "cleanup"
         /\ pc' = [pc EXCEPT ![v] = "cleaned"]
         /\ cleanup' = [cleanup EXCEPT ![v] = "done"]
         /\ gauge' = Count(state[v], -1)
      \/ /\ undoing[v] # "cleanup"
         /\ pc' = [pc EXCEPT ![v] = "failed"]
         /\ gauge' = Count("creating", -1)
         /\ UNCHANGED cleanup
  BY DEF DeleteLink
<1>5. UNCHANGED <<undoing, slot, state>>
  BY DEF DeleteLink
<1>6. TypeOK'
  BY <1>1, <1>2, <1>3, <1>4, <1>5 DEF Inv, TypeOK, PCs, Count
<1>7. Holds(v) /\ ~Holds(v)' /\ slot'[v] = slot[v]
  BY <1>2, <1>4, <1>5 DEF Inv, TypeOK, Holds, Shape, SlotShape
<1>8. \A w \in Vms \ {v} : (Holds(w)' <=> Holds(w)) /\ slot'[w] = slot[w]
  BY <1>4, <1>5 DEF Inv, TypeOK, Holds
<1>9. SlotsExact'
  BY <1>2, <1>7, <1>8 DEF Inv, SlotsExact
<1>10. Shape(v)'
  BY <1>1, <1>2, <1>3, <1>4, <1>5 DEF Inv, TypeOK, Shape, SlotShape, HostShape,
     LifeShape, Up, Over, SetupPCs, BootPCs, TeardownPCs
<1>11. \A w \in Vms \ {v} : Unmoved(w)
  BY <1>1, <1>4, <1>5 DEF Inv, TypeOK, Unmoved
<1>. QED
  BY <1>6, <1>9, <1>10, <1>11, OneMoves DEF Inv

-----------------------------------------------------------------------------
(* The host, and the theorems.                                               *)

LEMMA ProcessExitsInv ==
    ASSUME Inv, NEW v \in Vms, ProcessExits(v)
    PROVE  Inv'
<1>1. host[v] \in HostRecords
  BY DEF Inv, TypeOK
<1>2. host'[v] \in HostRecords /\ host'[v].process = "dead"
      /\ host'[v].netns = host[v].netns /\ host'[v].veth = host[v].veth
      /\ host'[v].dns = host[v].dns /\ host'[v].rules = host[v].rules
  BY <1>1 DEF ProcessExits, HostRecords, Inv, TypeOK
<1>3. host' = [host EXCEPT ![v] = host'[v]]
  BY DEF ProcessExits, Inv, TypeOK
<1>4. TypeOK'
  BY <1>2, <1>3 DEF ProcessExits, Inv, TypeOK
<1>5. SlotsExact'
  BY SameHolders DEF ProcessExits, Inv, Holds
<1>6. Shape(v)'
  BY <1>2 DEF ProcessExits, Inv, TypeOK, Shape, SlotShape, HostShape,
     LifeShape, Up, Over, SetupPCs, BootPCs, TeardownPCs
<1>7. \A w \in Vms \ {v} : Unmoved(w)
  BY <1>3 DEF ProcessExits, Inv, TypeOK, Unmoved
<1>. QED
  BY <1>4, <1>5, <1>6, <1>7, OneMoves DEF Inv

LEMMA KernelFreesNsInv ==
    ASSUME Inv, NEW v \in Vms, KernelFreesNs(v)
    PROVE  Inv'
<1>1. host[v] \in HostRecords /\ ~host[v].netns
  BY DEF KernelFreesNs, Inv, TypeOK
<1>2. host'[v] \in HostRecords /\ host'[v].veth = "none"
      /\ host'[v].netns = host[v].netns /\ host'[v].process = host[v].process
      /\ host'[v].dns = host[v].dns /\ host'[v].rules = host[v].rules
  BY <1>1 DEF KernelFreesNs, HostRecords, Inv, TypeOK
<1>3. host' = [host EXCEPT ![v] = host'[v]]
  BY DEF KernelFreesNs, Inv, TypeOK
<1>4. TypeOK'
  BY <1>2, <1>3 DEF KernelFreesNs, Inv, TypeOK
<1>5. SlotsExact'
  BY SameHolders DEF KernelFreesNs, Inv, Holds
<1>6. Shape(v)'
  BY <1>1, <1>2 DEF KernelFreesNs, Inv, TypeOK, Shape, SlotShape, HostShape,
     LifeShape, Up, Over, SetupPCs, BootPCs, TeardownPCs
<1>7. \A w \in Vms \ {v} : Unmoved(w)
  BY <1>3 DEF KernelFreesNs, Inv, TypeOK, Unmoved
<1>. QED
  BY <1>4, <1>5, <1>6, <1>7, OneMoves DEF Inv

LEMMA NextInv == Inv /\ [Next]_vars => Inv'
<1>. SUFFICES ASSUME Inv, [Next]_vars PROVE Inv'
  OBVIOUS
<1>1. ASSUME NEW v \in Vms, Create(v) PROVE Inv'
  BY <1>1, CreateInv
<1>2. ASSUME NEW v \in Vms, CreateRefused(v) PROVE Inv'
  BY <1>2, RefusalInv
<1>3. ASSUME NEW v \in Vms, Setup(v) PROVE Inv'
  BY <1>3, RefusalInv, AddNsInv, AddVethInv, ConfigureInv, SetupDnsInv,
     RulesFailInv, JailFailsInv, LaunchInv DEF Setup
<1>4. ASSUME NEW v \in Vms, Boot(v) PROVE Inv'
  BY <1>4, SocketAnswersInv, RestoredInv, BootFailsInv DEF Boot
<1>5. ASSUME NEW v \in Vms, Cleanup(v) PROVE Inv'
  BY <1>5, CleanupInv
<1>6. ASSUME NEW v \in Vms, Teardown(v) PROVE Inv'
  BY <1>6, StopDnsInv, DeleteNsInv, DeleteLinkInv DEF Teardown
<1>7. ASSUME NEW v \in Vms, ProcessExits(v) PROVE Inv'
  BY <1>7, ProcessExitsInv
<1>8. ASSUME NEW v \in Vms, KernelFreesNs(v) PROVE Inv'
  BY <1>8, KernelFreesNsInv
<1>9. CASE UNCHANGED vars
  BY <1>9 DEF vars, Inv, TypeOK, SlotsExact, Holds, Shape, SlotShape,
     HostShape, LifeShape
<1>. QED
  BY <1>1, <1>2, <1>3, <1>4, <1>5, <1>6, <1>7, <1>8, <1>9 DEF Next

LEMMA Invariance == Spec => []Inv
BY InitInv, NextInv, PTL DEF Spec

\* Every variable has its type in every reachable state.
THEOREM TypeCorrect == Spec => []TypeOK
BY Invariance, PTL DEF Inv

\* The slot pool is exact: networking.ts:26-40, 386 and 517.
THEOREM PoolExact == Spec => []SlotsExact
BY Invariance, PTL DEF Inv

\* No two host-side veths have one address, if deleting a link works: a slot
\* is given back after its veth is gone (networking.ts:506-517).
THEOREM AddressesApart ==
    ASSUME "deleteLink" \notin MayFail
    PROVE  Spec => []AddressesDistinct
<1>1. Inv => AddressesDistinct
  <2>. SUFFICES ASSUME Inv, NEW v \in Vms, NEW w \in Vms,
                       host[v].veth # "none", host[w].veth # "none",
                       slot[v] = slot[w]
                PROVE  v = w
    BY DEF AddressesDistinct
  <2>1. Holds(v) /\ Holds(w)
    BY DEF Inv, Shape, SlotShape, HostShape, Holds, Over
  <2>. QED
    BY <2>1 DEF Inv, SlotsExact
<1>. QED
  BY <1>1, Invariance, PTL

\* A running guest has its namespace, veth, rules and slot (vm-manager.ts:
\* 79-87, 129-146).
THEOREM Confined == Spec => []GuestConfined
<1>1. Inv => GuestConfined
  <2>. SUFFICES ASSUME Inv, NEW v \in Vms, host[v].process = "running"
                PROVE  /\ host[v].netns /\ host[v].veth = "moved"
                       /\ host[v].rules /\ slot[v] \in usedSlots
    BY DEF GuestConfined
  <2>1. pc[v] \in Up
    BY DEF Inv, TypeOK, PCs, Shape, HostShape, Up, Over, SetupPCs, BootPCs
  <2>2. Holds(v)
    BY <2>1 DEF Inv, Shape, SlotShape, Holds, Up
  <2>. QED
    BY <2>1, <2>2 DEF Inv, SlotsExact, Shape, HostShape
<1>. QED
  BY <1>1, Invariance, PTL

\* Whatever failed, an ended VM leaves no process running and no network
\* (vm-manager.ts:129-146, networking.ts:483-491).
THEOREM Undone ==
    ASSUME "deleteLink" \notin MayFail
    PROVE  Spec => []NetworkUndone
<1>1. Inv => NetworkUndone
  BY DEF Inv, Shape, HostShape, NetworkUndone, Over
<1>. QED
  BY <1>1, Invariance, PTL

-----------------------------------------------------------------------------
(* The gauge.                                                                *)

Active == {v \in Vms : pc[v] \notin {"idle", "failed", "cleaned"}}

\* The gauge's total moves with the set of active VMs.
LEMMA ActiveGrows ==
    ASSUME IsFiniteSet(Vms), NEW v \in Vms, v \notin Active,
           Active' = Active \cup {v}
    PROVE  /\ Cardinality(Active) \in Nat
           /\ Cardinality(Active') = Cardinality(Active) + 1
<1>1. IsFiniteSet(Active)
  BY FS_Subset DEF Active
<1>. QED
  BY <1>1, FS_AddElement, FS_CardinalityType

LEMMA ActiveShrinks ==
    ASSUME IsFiniteSet(Vms), NEW v \in Vms, v \in Active,
           Active' = Active \ {v}
    PROVE  /\ Cardinality(Active) \in Nat
           /\ Cardinality(Active') = Cardinality(Active) - 1
<1>1. IsFiniteSet(Active)
  BY FS_Subset DEF Active
<1>. QED
  BY <1>1, FS_RemoveElement, FS_CardinalityType

GaugeSum == gauge["creating"] + gauge["ready"] + gauge["dead"]

LEMMA GaugeStep ==
    ASSUME IsFiniteSet(Vms), Inv, GaugeSum = Cardinality(Active), [Next]_vars
    PROVE  (GaugeSum = Cardinality(Active))'
<1>. Cardinality(Active) \in Nat
  BY FS_Subset, FS_CardinalityType DEF Active
<1>1. ASSUME UNCHANGED gauge, Active' = Active PROVE (GaugeSum = Cardinality(Active))'
  BY <1>1 DEF GaugeSum
<1>2. ASSUME NEW v \in Vms, Create(v) \/ CreateRefused(v)
      PROVE  (GaugeSum = Cardinality(Active))'
  <2>1. v \notin Active /\ Active' = Active \cup {v}
    BY <1>2 DEF Create, CreateRefused, Active, Inv, TypeOK
  <2>2. GaugeSum' = GaugeSum + 1
    BY <1>2 DEF Create, CreateRefused, GaugeSum, Count, Inv, TypeOK
  <2>. QED
    BY <2>1, <2>2, ActiveGrows
<1>3. ASSUME NEW v \in Vms, RefusalEnds(v) \/ DeleteLink(v)
      PROVE  (GaugeSum = Cardinality(Active))'
  <2>1. v \in Active /\ Active' = Active \ {v}
    BY <1>3 DEF RefusalEnds, DeleteLink, Active, Inv, TypeOK
  <2>2. GaugeSum' = GaugeSum - 1
    <3>1. \E label \in {"creating", "ready", "dead"} :
              gauge' = [gauge EXCEPT ![label] = @ - 1]
      <4>1. CASE RefusalEnds(v)
        BY <4>1 DEF RefusalEnds, Count, Inv, TypeOK
      <4>2. CASE DeleteLink(v) /\ undoing[v] = "cleanup"
        <5>1. state[v] \in {"ready", "dead"}
          BY <4>2 DEF DeleteLink, Inv, TypeOK, Shape, LifeShape, TeardownPCs
        <5>. QED
          BY <4>2, <5>1 DEF DeleteLink, Count, Inv, TypeOK
      <4>3. CASE DeleteLink(v) /\ undoing[v] # "cleanup"
        BY <4>3 DEF DeleteLink, Count, Inv, TypeOK
      <4>. QED
        BY <1>3, <4>1, <4>2, <4>3
    <3>. QED
      BY <3>1 DEF GaugeSum, Inv, TypeOK
  <2>. QED
    BY <2>1, <2>2, ActiveShrinks
<1>4. ASSUME NEW v \in Vms, Restored(v) PROVE (GaugeSum = Cardinality(Active))'
  <2>1. Active' = Active
    BY <1>4 DEF Restored, Active, Inv, TypeOK
  <2>2. GaugeSum' = GaugeSum
    BY <1>4 DEF Restored, GaugeSum, Inv, TypeOK
  <2>. QED
    BY <2>1, <2>2
<1>5. ASSUME NEW v \in Vms, Setup(v), ~RefusalEnds(v) PROVE (GaugeSum = Cardinality(Active))'
  BY <1>1, <1>5 DEF Setup, AddNs, AddVeth, Configure, SetupDns, RulesFail,
     JailFails, Launch, SetupStep, Goes, Undoes, Active, Inv, TypeOK
<1>6. ASSUME NEW v \in Vms, SocketAnswers(v) \/ BootFails(v) \/ Cleanup(v)
      PROVE  (GaugeSum = Cardinality(Active))'
  BY <1>1, <1>6 DEF SocketAnswers, BootFails, Cleanup, Goes, Undoes, Active,
     BootPCs, Inv, TypeOK
<1>7. ASSUME NEW v \in Vms, StopDns(v) \/ DeleteNs(v)
      PROVE  (GaugeSum = Cardinality(Active))'
  BY <1>1, <1>7 DEF StopDns, DeleteNs, Goes, Active, Inv, TypeOK
<1>8. ASSUME NEW v \in Vms, ProcessExits(v) \/ KernelFreesNs(v)
      PROVE  (GaugeSum = Cardinality(Active))'
  BY <1>1, <1>8 DEF ProcessExits, KernelFreesNs, Active
<1>9. CASE UNCHANGED vars
  BY <1>1, <1>9 DEF vars, Active
<1>. QED
  BY <1>2, <1>3, <1>4, <1>5, <1>6, <1>7, <1>8, <1>9
     DEF Next, Setup, Boot, Teardown

\* The gauge's total is the number of VMs under way (vm-manager.ts:76-118,
\* 155, cleanup.ts:64), whatever becomes of its labels.
THEOREM GaugeRight ==
    ASSUME IsFiniteSet(Vms)
    PROVE  Spec => []GaugeTotal
<1>1. Init => GaugeSum = Cardinality(Active)
  <2>. SUFFICES ASSUME Init PROVE GaugeSum = Cardinality(Active)
    OBVIOUS
  <2>1. Active = {} /\ GaugeSum = 0
    BY DEF Init, Active, GaugeSum
  <2>. QED
    BY <2>1, FS_EmptySet
<1>2. GaugeSum = Cardinality(Active) /\ Inv /\ [Next]_vars
      => (GaugeSum = Cardinality(Active))'
  BY GaugeStep
<1>3. GaugeSum = Cardinality(Active) => GaugeTotal
  BY DEF GaugeSum, Active, GaugeTotal
<1>. QED
  BY <1>1, <1>2, <1>3, Invariance, PTL DEF Spec

-----------------------------------------------------------------------------
(* Refinement: every step is one of VmService, or changes nothing of it.     *)

\* A step inside createVm, or of a VM that is up: nothing is seen of it.
LEMMA Hidden ==
    ASSUME Inv, NEW v \in Vms, NEW at,
           pc[v] \notin {"idle", "failed"}, at \notin {"idle", "failed"},
           pc' = [pc EXCEPT ![v] = at], UNCHANGED <<state, cleanup>>
    PROVE  UNCHANGED Service!vars
<1>1. \A w \in Vms : SeenState'[w] = SeenState[w]
  BY DEF SeenState, Inv, TypeOK
<1>2. SeenState' = SeenState
  BY <1>1 DEF SeenState
<1>. QED
  BY <1>2 DEF Service!vars

\* The states that are seen, and how they move.
LEMMA SeenMoves ==
    ASSUME NEW v \in Vms, NEW s, SeenState'[v] = s,
           \A w \in Vms \ {v} : SeenState'[w] = SeenState[w]
    PROVE  SeenState' = [SeenState EXCEPT ![v] = s]
<1>. DEFINE before == SeenState
            after == SeenState'
<1>1. before = [w \in Vms |-> before[w]] /\ after = [w \in Vms |-> after[w]]
  BY DEF SeenState
<1>. HIDE DEF before, after
<1>2. \A w \in Vms : after[w] = [before EXCEPT ![v] = s][w]
  BY <1>1 DEF before, after
<1>3. after = [before EXCEPT ![v] = s]
  BY <1>1, <1>2
<1>. QED
  BY <1>3 DEF before, after

\* No step of v is seen of another VM.
LEMMA SeenOthers ==
    ASSUME NEW w \in Vms, pc'[w] = pc[w], state'[w] = state[w]
    PROVE  SeenState'[w] = SeenState[w]
BY DEF SeenState

LEMMA CreateServes ==
    ASSUME Inv, NEW v \in Vms, Create(v) \/ CreateRefused(v)
    PROVE  Service!Create(v)
<1>1. SeenState[v] = "none" /\ cleanup[v] = "no"
  BY DEF Create, CreateRefused, SeenState, Inv, Shape, LifeShape
<1>2. SeenState'[v] = "creating"
  BY DEF Create, CreateRefused, SeenState, Inv, TypeOK, Shape, LifeShape
<1>3. \A w \in Vms \ {v} : SeenState'[w] = SeenState[w]
  BY SeenOthers DEF Create, CreateRefused, Inv, TypeOK
<1>4. SeenState' = [SeenState EXCEPT ![v] = "creating"]
  BY <1>2, <1>3, SeenMoves
<1>5. cleanup' = [cleanup EXCEPT ![v] = "no"]
  BY <1>1 DEF Create, CreateRefused, Inv, TypeOK
<1>. QED
  BY <1>1, <1>4, <1>5 DEF Service!Create, Service!Becomes

LEMMA RestoredServes ==
    ASSUME Inv, NEW v \in Vms, Restored(v)
    PROVE  Service!Succeed(v)
<1>1. SeenState[v] = "creating" /\ cleanup[v] = "no"
  BY DEF Restored, SeenState, Inv, Shape, LifeShape, BootPCs
<1>2. SeenState'[v] = "ready"
  BY DEF Restored, SeenState, Inv, TypeOK
<1>3. \A w \in Vms \ {v} : SeenState'[w] = SeenState[w]
  BY SeenOthers DEF Restored, Inv, TypeOK
<1>4. SeenState' = [SeenState EXCEPT ![v] = "ready"]
  BY <1>2, <1>3, SeenMoves
<1>5. cleanup' = [cleanup EXCEPT ![v] = "no"]
  BY <1>1 DEF Restored, Inv, TypeOK
<1>. QED
  BY <1>1, <1>4, <1>5 DEF Service!Succeed, Service!Becomes

LEMMA CleanupServes ==
    ASSUME Inv, NEW v \in Vms, Cleanup(v)
    PROVE  Service!BeginCleanup(v)
<1>1. SeenState[v] \in {"ready", "dead"} /\ cleanup[v] = "no"
  BY DEF Cleanup, SeenState, Inv, TypeOK, Shape, LifeShape
<1>2. \A w \in Vms : SeenState'[w] = SeenState[w]
  BY DEF Cleanup, Undoes, SeenState, Inv, TypeOK, Shape, LifeShape
<1>3. SeenState' = [SeenState EXCEPT ![v] = SeenState[v]]
  BY <1>2, SeenMoves
<1>. QED
  BY <1>1, <1>3 DEF Cleanup, Service!BeginCleanup, Service!Becomes

LEMMA DeleteLinkServes ==
    ASSUME Inv, NEW v \in Vms, DeleteLink(v)
    PROVE  Service!Fail(v) \/ Service!EndCleanup(v)
<1>. pc[v] \in TeardownPCs
  BY DEF DeleteLink, TeardownPCs
<1>. \A w \in Vms \ {v} : SeenState'[w] = SeenState[w]
  BY SeenOthers DEF DeleteLink, Inv, TypeOK
<1>1. CASE undoing[v] = "cleanup"
  <2>1. cleanup[v] = "running" /\ cleanup' = [cleanup EXCEPT ![v] = "done"]
    BY <1>1 DEF DeleteLink, Inv, Shape, LifeShape
  <2>2. SeenState'[v] = SeenState[v]
    BY <1>1 DEF DeleteLink, SeenState, Inv, TypeOK, Shape, LifeShape
  <2>3. SeenState' = [SeenState EXCEPT ![v] = SeenState[v]]
    BY <2>2, SeenMoves
  <2>. QED
    BY <2>1, <2>3 DEF Service!EndCleanup, Service!Becomes
<1>2. CASE undoing[v] # "cleanup"
  <2>1. state[v] = "none" /\ cleanup[v] = "no"
    BY <1>2 DEF Inv, Shape, LifeShape
  <2>2. SeenState[v] = "creating" /\ SeenState'[v] = "failed"
    BY <1>2, <2>1 DEF DeleteLink, SeenState, Inv, TypeOK
  <2>3. SeenState' = [SeenState EXCEPT ![v] = "failed"]
    BY <2>2, SeenMoves
  <2>4. cleanup' = [cleanup EXCEPT ![v] = "no"]
    BY <1>2, <2>1 DEF DeleteLink, Inv, TypeOK
  <2>. QED
    BY <2>2, <2>3, <2>4 DEF Service!Fail, Service!Becomes
<1>. QED
  BY <1>1, <1>2

LEMMA RefusalServes ==
    ASSUME Inv, NEW v \in Vms, RefusalEnds(v)
    PROVE  Service!Fail(v)
<1>1. state[v] = "none" /\ cleanup[v] = "no"
  BY DEF RefusalEnds, Inv, Shape, LifeShape
<1>2. SeenState[v] = "creating" /\ SeenState'[v] = "failed"
  BY <1>1 DEF RefusalEnds, SeenState, Inv, TypeOK
<1>3. \A w \in Vms \ {v} : SeenState'[w] = SeenState[w]
  BY SeenOthers DEF RefusalEnds, Inv, TypeOK
<1>4. SeenState' = [SeenState EXCEPT ![v] = "failed"]
  BY <1>2, <1>3, SeenMoves
<1>5. cleanup' = [cleanup EXCEPT ![v] = "no"]
  BY <1>1 DEF RefusalEnds, Inv, TypeOK
<1>. QED
  BY <1>2, <1>4, <1>5 DEF Service!Fail, Service!Becomes

LEMMA ExitServes ==
    ASSUME Inv, NEW v \in Vms, ProcessExits(v)
    PROVE  Service!Exit(v) \/ UNCHANGED Service!vars
<1>. \A w \in Vms \ {v} : SeenState'[w] = SeenState[w]
  BY SeenOthers DEF ProcessExits, Inv, TypeOK
<1>1. CASE state[v] = "ready"
  <2>1. SeenState[v] = "ready" /\ SeenState'[v] = "dead"
    BY <1>1 DEF ProcessExits, SeenState, Inv, TypeOK
  <2>2. SeenState' = [SeenState EXCEPT ![v] = "dead"]
    BY <2>1, SeenMoves
  <2>3. cleanup' = [cleanup EXCEPT ![v] = cleanup[v]]
    BY DEF ProcessExits, Inv, TypeOK
  <2>. QED
    BY <2>1, <2>2, <2>3 DEF Service!Exit, Service!Becomes
<1>2. CASE state[v] # "ready"
  <2>1. UNCHANGED <<pc, state, cleanup>>
    BY <1>2 DEF ProcessExits, Inv, TypeOK
  <2>. QED
    BY <2>1 DEF SeenState, Service!vars
<1>. QED
  BY <1>1, <1>2

LEMMA StepServes == Inv /\ [Next]_vars => [Service!Next]_(Service!vars)
<1>. SUFFICES ASSUME Inv, [Next]_vars
              PROVE  Service!Next \/ UNCHANGED Service!vars
  OBVIOUS
<1>1. ASSUME NEW v \in Vms, Create(v) \/ CreateRefused(v) PROVE Service!Next
  BY <1>1, CreateServes DEF Service!Next
<1>2. ASSUME NEW v \in Vms, Restored(v) PROVE Service!Next
  BY <1>2, RestoredServes DEF Service!Next
<1>3. ASSUME NEW v \in Vms, Cleanup(v) PROVE Service!Next
  BY <1>3, CleanupServes DEF Service!Next
<1>4. ASSUME NEW v \in Vms, RefusalEnds(v) \/ DeleteLink(v) PROVE Service!Next
  BY <1>4, RefusalServes, DeleteLinkServes DEF Service!Next
<1>5. ASSUME NEW v \in Vms, ProcessExits(v)
      PROVE  Service!Next \/ UNCHANGED Service!vars
  BY <1>5, ExitServes DEF Service!Next
<1>6. ASSUME NEW v \in Vms, Setup(v), ~RefusalEnds(v)
      PROVE  UNCHANGED Service!vars
  <2>1. /\ pc[v] \in SetupPCs
        /\ \E at \in {"addVeth", "configure", "dns", "rules", "wait", "stopDns"} :
               pc' = [pc EXCEPT ![v] = at]
        /\ UNCHANGED <<state, cleanup>>
    BY <1>6 DEF Setup, AddNs, AddVeth, Configure, SetupDns, RulesFail,
       JailFails, Launch, SetupStep, Goes, Undoes, SetupPCs
  <2>. QED
    BY <2>1, Hidden DEF SetupPCs
<1>7. ASSUME NEW v \in Vms,
             SocketAnswers(v) \/ BootFails(v) \/ StopDns(v) \/ DeleteNs(v)
      PROVE  UNCHANGED Service!vars
  <2>1. /\ pc[v] \in BootPCs \cup TeardownPCs
        /\ \E at \in {"restore", "stopDns", "deleteNs", "deleteLink"} :
               pc' = [pc EXCEPT ![v] = at]
        /\ UNCHANGED <<state, cleanup>>
    BY <1>7 DEF SocketAnswers, BootFails, StopDns, DeleteNs, Goes, Undoes,
       BootPCs, TeardownPCs
  <2>. QED
    BY <2>1, Hidden DEF BootPCs, TeardownPCs
<1>8. ASSUME NEW v \in Vms, KernelFreesNs(v) PROVE UNCHANGED Service!vars
  BY <1>8 DEF KernelFreesNs, SeenState, Service!vars
<1>9. CASE UNCHANGED vars
  BY <1>9 DEF vars, SeenState, Service!vars
<1>. QED
  BY <1>1, <1>2, <1>3, <1>4, <1>5, <1>6, <1>7, <1>8, <1>9
     DEF Next, Setup, Boot, Teardown

\* createVm and cleanupVm, step by step, implement the contract their users
\* rely on (vm-manager.ts:46-163, cleanup.ts:9-73).
THEOREM Implements == Spec => ServiceSpec
<1>1. Init => Service!Init
  BY DEF Init, Service!Init, SeenState
<1>. QED
  BY <1>1, StepServes, Invariance, PTL DEF Spec, ServiceSpec, Service!Spec

=============================================================================
