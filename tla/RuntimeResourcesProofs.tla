----------------------- MODULE RuntimeResourcesProofs ------------------------
(* Proofs of what RuntimeLifecycle promises about RunPod, for every number   *)
(* of workspaces, operations, callers and failures: a ready runtime is       *)
(* whole, every resource can be found from its record, and none is orphaned. *)
EXTENDS RuntimeResources, RuntimeCouplingProofs

-----------------------------------------------------------------------------
(* The steps of a provision and of a cleanup.                                *)

\* What a step of a provision does to the ids that are stored.
LEMMA ProvisionStepKnows ==
    ASSUME NEW s \in ProvisionStep
    PROVE  /\ s \in CreateStep =>
                /\ Target(s) \notin KnownAt(s)
                /\ KnownAfter(s) = KnownAt(s) \cup {Target(s)}
                /\ ObservedThrough(Target(s)) \subseteq KnownAt(s)
           /\ s = "poll_provisioner" =>
                Target(s) \in KnownAt(s) /\ KnownAfter(s) = KnownAt(s)
           /\ s = "terminate_provisioner_pod" =>
                /\ Target(s) = "pod" /\ Target(s) \in KnownAt(s)
                /\ KnownAfter(s) = KnownAt(s) \ {Target(s)}
<1>1. /\ Target("create_network_volume") = "volume"
      /\ Target("create_template") = "template"
      /\ Target("create_endpoint") = "endpoint"
      /\ Target("start_provisioner_pod") = "pod"
      /\ Target("poll_provisioner") = "pod"
      /\ Target("terminate_provisioner_pod") = "pod"
  BY DEF Target
<1>2. /\ KnownAt("create_network_volume") = {}
      /\ KnownAt("start_provisioner_pod") = {"volume"}
      /\ KnownAt("poll_provisioner") = {"volume", "pod"}
      /\ KnownAt("terminate_provisioner_pod") = {"volume", "pod"}
      /\ KnownAt("create_template") = {"volume"}
      /\ KnownAt("create_endpoint") = {"volume", "template"}
  BY DEF KnownAt
<1>3. /\ KnownAfter("create_network_volume") = {"volume"}
      /\ KnownAfter("start_provisioner_pod") = {"volume", "pod"}
      /\ KnownAfter("poll_provisioner") = {"volume", "pod"}
      /\ KnownAfter("terminate_provisioner_pod") = {"volume"}
      /\ KnownAfter("create_template") = {"volume", "template"}
      /\ KnownAfter("create_endpoint") = {"volume", "template", "endpoint"}
  BY <1>2 DEF KnownAfter, NextStep, ReadyKinds
<1>4. /\ ObservedThrough("volume") = {} /\ ObservedThrough("template") = {}
      /\ ObservedThrough("pod") = {"volume"}
      /\ ObservedThrough("endpoint") = {"volume", "template"}
  BY DEF ObservedThrough
<1> QED BY <1>1, <1>2, <1>3, <1>4 DEF ProvisionStep, CreateStep

\* The next step of a provision begins with what this one leaves, and what it
\* creates is not there yet.
LEMMA ProvisionStepLeadsOn ==
    ASSUME NEW s \in ProvisionStep, s # "create_endpoint"
    PROVE  /\ KnownAt(NextStep(s)) = KnownAfter(s)
           /\ NextStep(s) \in ProvisionStep
           /\ NextStep(s) \in CreateStep => Target(NextStep(s)) \notin KnownAfter(s)
<1>1. KnownAt(NextStep(s)) = KnownAfter(s)
  BY DEF KnownAfter
<1>2. NextStep(s) \in ProvisionStep
  BY DEF NextStep, ProvisionStep, CreateStep
<1> QED BY <1>1, <1>2, ProvisionStepKnows

\* A step of a cleanup leaves gone what the next one expects to be, the last one
\* leaves nothing, and no id is forgotten that an observation still needs.
LEMMA CleanupStepLeadsOn ==
    ASSUME NEW s \in CleanupStep
    PROVE  /\ s # "delete_network_volume" =>
                /\ GoneAt(NextStep(s)) \subseteq GoneAt(s) \cup {Target(s)}
                /\ NextStep(s) \in CleanupStep
           /\ s = "delete_network_volume" => ResourceKind = GoneAt(s) \cup {Target(s)}
           /\ \A j \in ResourceKind : Target(s) \in ObservedThrough(j) => j \in GoneAt(s)
<1>1. /\ Target("delete_endpoint") = "endpoint" /\ Target("delete_template") = "template"
      /\ Target("cleanup_provisioner_pod") = "pod"
      /\ Target("delete_network_volume") = "volume"
  BY DEF Target
<1>2. /\ GoneAt("delete_endpoint") = {} /\ GoneAt("delete_template") = {"endpoint"}
      /\ GoneAt("cleanup_provisioner_pod") = {"endpoint", "template"}
      /\ GoneAt("delete_network_volume") = {"endpoint", "template", "pod"}
  BY DEF GoneAt
<1>3. /\ NextStep("delete_endpoint") = "delete_template"
      /\ NextStep("delete_template") = "cleanup_provisioner_pod"
      /\ NextStep("cleanup_provisioner_pod") = "delete_network_volume"
  BY DEF NextStep
<1>4. /\ ObservedThrough("volume") = {} /\ ObservedThrough("template") = {}
      /\ ObservedThrough("pod") = {"volume"}
      /\ ObservedThrough("endpoint") = {"volume", "template"}
  BY DEF ObservedThrough
<1> QED BY <1>1, <1>2, <1>3, <1>4 DEF CleanupStep, ResourceKind

-----------------------------------------------------------------------------
(* What a step does to the resources.                                        *)

\* At most resources of provision g and kind k come or go.
Touches(g, k) ==
    \A r : ~IsOf(r, g, k) => /\ r \in remote' <=> r \in remote
                             /\ r \in late' <=> r \in late

\* The resources of the other provisions and kinds are as they were.
LEMMA Untouched ==
    ASSUME NEW g, NEW k, Touches(g, k), NEW h, NEW j, h # g \/ j # k
    PROVE  /\ NoneOf(h, j)' <=> NoneOf(h, j)
           /\ Held(h, j)' <=> Held(h, j)
<1>1. \A r : IsOf(r, h, j) => /\ r \in remote' <=> r \in remote
                              /\ r \in late' <=> r \in late
  BY DEF Touches, IsOf
<1>2. IsOf([gen |-> h, kind |-> j, copy |-> Good], h, j)
  BY DEF IsOf
<1>3. NoneOf(h, j)' <=> NoneOf(h, j)
  BY <1>1 DEF NoneOf, IsOf
<1>4. Held(h, j)' <=> Held(h, j)
  BY <1>1, <1>2 DEF Held, NoneLate, IsOf
<1> QED BY <1>3, <1>4

\* The resources of provision h are as they were.
Same(h) ==
    \A r : r.gen = h => /\ r \in remote' <=> r \in remote
                        /\ r \in late' <=> r \in late

\* A provision whose resources do not change has those it had.
LEMMA SameProvision ==
    ASSUME NEW h, Same(h)
    PROVE  /\ \A k : NoneOf(h, k)' <=> NoneOf(h, k)
           /\ \A K : Exactly(h, K)' <=> Exactly(h, K)
           /\ \A K, k : ExactlyBut(h, K, k)' <=> ExactlyBut(h, K, k)
<1>1. ASSUME NEW k
      PROVE  /\ NoneOf(h, k)' <=> NoneOf(h, k)
             /\ Held(h, k)' <=> Held(h, k)
  <2>1. [gen |-> h, kind |-> k, copy |-> Good].gen = h
    OBVIOUS
  <2>2. NoneOf(h, k)' <=> NoneOf(h, k)
    BY DEF Same, NoneOf, IsOf
  <2>3. Held(h, k)' <=> Held(h, k)
    BY <2>1 DEF Same, Held, NoneLate, IsOf
  <2> QED BY <2>2, <2>3
<1> QED BY <1>1 DEF Exactly, ExactlyBut

\* The current step may leave anything of the kind it works on.
LEMMA UntouchedKinds ==
    ASSUME NEW g, NEW k, Touches(g, k), NEW K, k \notin K, ExactlyBut(g, K, k)
    PROVE  ExactlyBut(g, K, k)'
BY Untouched DEF ExactlyBut

\* What is left of the resources of a kind, when only some of them go.
LEMMA Shrinking ==
    ASSUME remote' \subseteq remote, late' \subseteq late, NEW g, NEW k
    PROVE  /\ NoneOf(g, k) => NoneOf(g, k)'
           /\ NoneLate(g, k) => NoneLate(g, k)'
           /\ RequestedOnce => RequestedOnce'
           /\ Held(g, "pod") => Held(g, "pod")'
BY DEF NoneOf, NoneLate, RequestedOnce, Held

-----------------------------------------------------------------------------
(* Whose resources a task works on.                                          *)

\* A running operation is a row whose workspace has an anchor of its kind.
LEMMA RunningRow ==
    ASSUME TypeOK, Coupled, NEW o \in OpId, Running(o)
    PROVE  /\ ops[o] \in Row /\ ops[o].ws \in Workspace
           /\ ops[o].kind \in {"provision", "cleanup"}
           /\ ops[o].kind = "provision" => ops[o].step \in ProvisionStep
           /\ ops[o].kind = "cleanup" => ops[o].step \in CleanupStep
           /\ anchor[ops[o].ws] \in AttachedRuntime
           /\ anchor[ops[o].ws].state = BusyState(ops[o].kind)
<1>1. ops[o] \in Row
  BY DEF TypeOK, StoreTypeOK, Running, Operation, NoOperation
<1>2. anchor[ops[o].ws].state = BusyState(ops[o].kind) /\ StepOfKind(ops[o])
  BY DEF Coupled, StoreCoupled, RunningIsAnchored
<1>3. anchor[ops[o].ws] \in Runtime
  BY <1>1 DEF TypeOK, StoreTypeOK, Row
<1>4. anchor[ops[o].ws] \in AttachedRuntime
  BY <1>2, <1>3, AttachedByState DEF BusyState
<1> QED BY <1>1, <1>2, <1>4 DEF Row, StepOfKind

\* The runtime of a running operation is that of a provision on its workspace,
\* a running provision's own, and no other workspace's.
LEMMA RunningGen ==
    ASSUME TypeOK, Coupled, Originated, NEW o \in OpId, Running(o),
           NEW g, g = anchor[ops[o].ws].gen
    PROVE  /\ g \in OpId /\ ProvisionOn(g, ops[o].ws)
           /\ ops[o].kind = "provision" => g = o
           /\ ops[o].kind = "cleanup" => ~Running(g)
           /\ \A w \in Workspace : anchor[w].gen = g => w = ops[o].ws
           /\ \A p \in OpId : Running(p) /\ ops[p].kind = "provision" /\ p = g => p = o
           /\ \A p \in OpId : Running(p) /\ anchor[ops[p].ws].gen = g => p = o
<1>1. /\ ops[o] \in Row /\ ops[o].ws \in Workspace
      /\ ops[o].kind \in {"provision", "cleanup"}
      /\ anchor[ops[o].ws] \in AttachedRuntime
      /\ anchor[ops[o].ws].state = BusyState(ops[o].kind)
  BY RunningRow
<1>2. g \in OpId /\ anchor[ops[o].ws].state # "none"
  BY <1>1 DEF AttachedRuntime, BusyState
<1>3. ProvisionOn(g, ops[o].ws) /\ (anchor[ops[o].ws].state = "provisioning" <=> Running(g))
  BY <1>1, <1>2 DEF Originated, AnchorsAreProvisions
<1>4. \A p \in OpId : Running(p) /\ ops[p].ws = ops[o].ws => p = o
  BY DEF Coupled, StoreCoupled, OneRunningPerWorkspace
<1>5. ops[o].kind = "provision" => g = o
  BY <1>1, <1>2, <1>3, <1>4 DEF BusyState, ProvisionOn
<1>6. ops[o].kind = "cleanup" => ~Running(g)
  BY <1>1, <1>3 DEF BusyState
<1>7. ASSUME NEW w \in Workspace, anchor[w].gen = g
      PROVE  w = ops[o].ws
  <2>1. anchor[w] \in Runtime
    BY DEF TypeOK, StoreTypeOK
  <2>2. anchor[w].state # "none"
    BY <1>2, <1>7, <2>1, PlaceholderAssumption, AttachedByState DEF Runtime, Detached
  <2>3. ProvisionOn(g, w)
    BY <1>7, <2>2 DEF Originated, AnchorsAreProvisions
  <2> QED BY <1>3, <2>3 DEF ProvisionOn
<1>8. \A p \in OpId : Running(p) /\ p = g => p = o
  BY <1>3, <1>4 DEF ProvisionOn
<1>9. ASSUME NEW p \in OpId, Running(p), anchor[ops[p].ws].gen = g
      PROVE  p = o
  <2>1. ops[p].ws \in Workspace
    BY <1>9, RunningRow
  <2> QED BY <1>4, <1>7, <1>9, <2>1
<1> QED BY <1>2, <1>3, <1>5, <1>6, <1>7, <1>8, <1>9

\* A task that holds a runtime holds the one of its workspace.
LEMMA HolderGen ==
    ASSUME TypeOK, Coupled, NEW o \in OpId, task[o].pc \in HoldsAnchor
    PROVE  /\ Running(o) /\ task[o].op = ops[o] /\ task[o].rt \in AttachedRuntime
           /\ Gen(o) = anchor[ops[o].ws].gen
           /\ KindOf(o) = Target(ops[o].step) /\ KindOf(o) \in ResourceKind
<1>1. Running(o) /\ task[o].op = ops[o] /\ task[o].rt \in AttachedRuntime
  BY HolderKnows
<1>2. task[o].rt.gen = anchor[task[o].op.ws].gen
  BY DEF Coupled, TasksCoupled, TaskCoupled
<1> QED BY <1>1, <1>2, TargetIsKind DEF Gen, KindOf

\* A step of a body, a supervisor or a recovery.
TaskStep(o) ==
    \/ BodyStep(o) \/ SupervisorStep(o) \/ RecoveryStep(o)
    \/ Deadline(o) \/ DeadlineInCommit(o)

\* The resources a task does not work on are as they were.
LEMMA TaskTouches ==
    ASSUME TypeOK, NEW o \in OpId, PcFitsStep(o), TaskStep(o)
    PROVE  Touches(Gen(o), KindOf(o))
<1>1. \A C : \A r \in Named(Gen(o), KindOf(o), C) : IsOf(r, Gen(o), KindOf(o))
  BY DEF Named, IsOf
<1>2. IsOf(Wanted(o), Gen(o), KindOf(o))
  BY DEF Wanted, IsOf
<1>3. CASE Create(o)
  <2>1. CreateEffect(o)
    BY <1>3, Effects
  <2> QED BY <1>1, <1>2, <2>1 DEF CreateEffect, Touches, cloud
<1>4. CASE Purge(o) \/ RecoverPurge(o)
  <2>1. \A r \in task[o].ids : IsOf(r, Gen(o), KindOf(o))
    BY <1>4 DEF PcFitsStep, Purge, RecoverPurge
  <2> QED BY <1>4, <2>1 DEF Purge, RecoverPurge, Touches
<1>5. CASE Delete(o) \/ Undo(o)
  BY <1>2, <1>5, Effects DEF DeleteEffect, UndoEffect, Touches
<1>6. CASE UNCHANGED cloud
  BY <1>6 DEF cloud, Touches
<1> QED
  BY <1>3, <1>4, <1>5, <1>6, Effects
  DEF TaskStep, BodyStep, SupervisorStep, RecoveryStep, ObserveEffect, Wait, Adopt, Save,
      FailLoadOp, FailLoadWs, FailSave, RecoverLoad, RecoverObserveEffect, RecoverSave,
      Deadline, DeadlineInCommit

\* A step that changes resources is one of a task that holds their runtime.
LEMMA TouchersHold ==
    ASSUME NEW o \in OpId, TaskStep(o)
    PROVE  /\ UNCHANGED cloud \/ task[o].pc \in HoldsAnchor
           /\ task[o].pc = "create" \/ (remote' \subseteq remote /\ late' = late)
<1>1. CASE UNCHANGED cloud
  BY <1>1 DEF cloud
<1>2. CASE Create(o)
  BY <1>2, Effects DEF CreateEffect, HoldsAnchor, BodyPc
<1>3. CASE Purge(o) \/ Delete(o) \/ Undo(o) \/ RecoverPurge(o)
  BY <1>3, Effects
  DEF Purge, DeleteEffect, UndoEffect, RecoverPurge, HoldsAnchor, BodyPc, RecoveryPc
<1> QED
  BY <1>1, <1>2, <1>3, Effects
  DEF TaskStep, BodyStep, SupervisorStep, RecoveryStep, ObserveEffect, Wait, Adopt, Save,
      FailLoadOp, FailLoadWs, FailSave, RecoverLoad, RecoverObserveEffect, RecoverSave,
      Deadline, DeadlineInCommit

-----------------------------------------------------------------------------
(* Rows keep their provision.                                                *)

\* A row keeps its workspace and kind, and runs no more once it does not.
LEMMA RowsKeep ==
    ASSUME TypeOK, Coupled, [Next]_vars, NEW g \in OpId, ops[g] # NoOperation
    PROVE  /\ ops'[g].kind = ops[g].kind /\ ops'[g].ws = ops[g].ws
           /\ Running(g)' => Running(g)
<1>1. CASE UNCHANGED ops
  BY <1>1 DEF Running
<1>2. ASSUME NEW o \in OpId, NEW op, NEW rt, Saved(o, op, rt), Running(o) \/ ops[o] = NoOperation
      PROVE  /\ ops'[g].kind = ops[g].kind /\ ops'[g].ws = ops[g].ws
             /\ Running(g)' => Running(g)
  <2>1. ops' = [ops EXCEPT ![o] = op] /\ Admissible(o, op, rt)
    BY <1>2 DEF Saved
  <2>2. CASE g # o
    BY <2>1, <2>2 DEF TypeOK, StoreTypeOK, Running
  <2>3. CASE g = o
    BY <1>2, <2>1, <2>3 DEF TypeOK, StoreTypeOK, Running, Admissible
  <2> QED BY <2>2, <2>3
<1> QED BY <1>1, <1>2, OnlyUnfinishedAreSaved DEF vars, store

\* A row of provision g on workspace w stays one.
LEMMA ProvisionsStay ==
    ASSUME TypeOK, Coupled, [Next]_vars, NEW g \in OpId, NEW w, ProvisionOn(g, w)
    PROVE  /\ ops'[g].kind = "provision" /\ ops'[g].ws = w
           /\ ops'[g].state = "running" => Running(g)
BY RowsKeep DEF ProvisionOn, NoOperation, Running

-----------------------------------------------------------------------------
(* What a task stores.                                                       *)

\* The row of o goes to state, and its workspace's runtime becomes rt.
Stores(o, state, rt) ==
    /\ Running(o)
    /\ \E op \in Row : /\ ops' = [ops EXCEPT ![o] = op]
                       /\ op.state = state /\ op.ws = ops[o].ws /\ op.kind = ops[o].kind
    /\ anchor' = [anchor EXCEPT ![ops[o].ws] = rt]
    /\ workspaces' = workspaces

\* The runtime stays attached; its operation runs on, fails or has provisioned it.
Stays(o) ==
    \E rt \in AttachedRuntime :
        /\ rt.gen = anchor[ops[o].ws].gen /\ rt.known = task[o].rt.known
        /\ task[o].pc \in {"save", "adopt", "fail_save", "recover_save"}
        /\ \/ rt.state = anchor[ops[o].ws].state /\ Stores(o, "running", rt)
           \/ rt.state = "failed" /\ Stores(o, "failed", rt)
           \/ /\ rt.state = "ready" /\ ops[o].kind = "provision" /\ task[o].pc = "save"
              /\ ops[o].step = "create_endpoint" /\ Stores(o, "succeeded", rt)

\* The last step of a cleanup detaches it.
Detaches(o) ==
    /\ ops[o].kind = "cleanup" /\ ops[o].step = "delete_network_volume"
    /\ task[o].pc = "save"
    /\ Stores(o, "succeeded", Detached)

\* A body that saves the step it has done.
LEMMA SaveStores ==
    ASSUME TypeOK, Coupled, NEW o \in OpId, task[o].pc = "save",
           Saved(o, NextOperation(o), NextRuntime(o))
    PROVE  Stays(o) \/ Detaches(o)
<1> DEFINE op == ops[o]
           rt == task[o].rt
<1>1. /\ Running(o) /\ op \in Row /\ StepOfKind(op) /\ rt \in AttachedRuntime
      /\ task[o].op = op
      /\ rt.gen = anchor[op.ws].gen /\ rt.state = anchor[op.ws].state
  <2>1. task[o].pc \in HoldsAnchor
    BY DEF HoldsAnchor, BodyPc
  <2> QED BY <2>1, HolderKnows DEF Coupled, TasksCoupled, TaskCoupled
<1>2. /\ Advance(op) \in Row /\ Advance(op).ws = op.ws /\ Advance(op).kind = op.kind
      /\ op.step \in LastStep => Advance(op).state = "succeeded"
      /\ op.step \notin LastStep => Advance(op).state = "running"
  BY <1>1, RowsStayRows DEF Advance, Row, Running
<1>3. /\ ops' = [ops EXCEPT ![o] = Advance(op)] /\ workspaces' = workspaces
      /\ anchor' = [anchor EXCEPT ![op.ws] = AdvancedRuntime(op, rt)]
  BY <1>1, <1>2 DEF Saved, NextOperation, NextRuntime
<1>4. CASE op.step \notin LastStep
  <2>1. AdvancedRuntime(op, rt) = rt /\ Stores(o, "running", rt)
    BY <1>1, <1>2, <1>3, <1>4, AdvancedIsRuntime DEF Stores
  <2> QED BY <1>1, <2>1 DEF Stays
<1>5. CASE op.step = "create_endpoint"
  <2> DEFINE new == [rt EXCEPT !.state = "ready"]
  <2>1. new \in AttachedRuntime /\ new.gen = rt.gen /\ new.known = rt.known /\ new.state = "ready"
    BY <1>1 DEF AttachedRuntime, RuntimeState
  <2>2. op.kind = "provision"
    BY <1>1, <1>5 DEF StepOfKind, Row, CleanupStep
  <2>3. Stores(o, "succeeded", new)
    BY <1>1, <1>2, <1>3, <1>5 DEF Stores, AdvancedRuntime, LastStep
  <2> QED BY <1>1, <1>5, <2>1, <2>2, <2>3 DEF Stays
<1>6. CASE op.step = "delete_network_volume"
  <2>1. op.kind = "cleanup"
    BY <1>1, <1>6 DEF StepOfKind, Row, ProvisionStep, CreateStep
  <2>2. Stores(o, "succeeded", Detached)
    BY <1>1, <1>2, <1>3, <1>6 DEF Stores, AdvancedRuntime, LastStep
  <2> QED BY <1>6, <2>1, <2>2 DEF Detaches
<1> QED BY <1>4, <1>5, <1>6 DEF LastStep

\* A supervisor or a recovery that fails its operation.
LEMMA FailureStores ==
    ASSUME TypeOK, Coupled, NEW o \in OpId, task[o].pc \in {"fail_save", "recover_save"},
           FailureSaved(o)
    PROVE  Stays(o)
<1> DEFINE op == ops[o]
           rt == task[o].rt
           new == MarkFailed(rt)
<1>1. /\ Running(o) /\ op \in Row /\ rt \in AttachedRuntime /\ task[o].op = op
      /\ rt.gen = anchor[op.ws].gen
  <2>1. task[o].pc \in HoldsAnchor
    BY DEF HoldsAnchor, RecoveryPc
  <2> QED BY <2>1, HolderKnows DEF Coupled, TasksCoupled, TaskCoupled
<1>2. Fail(op) \in Row /\ Fail(op).ws = op.ws /\ Fail(op).kind = op.kind
      /\ Fail(op).state = "failed"
  BY <1>1, RowsStayRows DEF Fail, Row
<1>3. /\ new \in AttachedRuntime /\ new.gen = rt.gen /\ new.known = rt.known
      /\ new.state = "failed"
  BY <1>1 DEF MarkFailed, AttachedRuntime, RuntimeState
<1>4. Stores(o, "failed", new)
  BY <1>1, <1>2 DEF FailureSaved, Saved, Stores
<1> QED BY <1>1, <1>3, <1>4 DEF Stays

\* Whatever a task stores, the runtime of its workspace stays attached unless a
\* cleanup is at its end.
LEMMA TaskStores ==
    ASSUME TypeOK, Coupled, NEW o \in OpId, TaskStep(o)
    PROVE  UNCHANGED store \/ Stays(o) \/ Detaches(o)
<1>1. CASE task[o].pc = "save" /\ Saved(o, NextOperation(o), NextRuntime(o))
  BY <1>1, SaveStores
<1>2. CASE task[o].pc = "adopt" /\ Saved(o, task[o].op, task[o].rt)
  <2>1. task[o].pc \in HoldsAnchor
    BY <1>2 DEF HoldsAnchor, BodyPc
  <2>2. /\ Running(o) /\ ops[o] \in Row /\ task[o].rt \in AttachedRuntime /\ task[o].op = ops[o]
        /\ task[o].rt.gen = anchor[ops[o].ws].gen
        /\ task[o].rt.state = anchor[ops[o].ws].state
    BY <2>1, HolderKnows DEF Coupled, TasksCoupled, TaskCoupled
  <2>3. Stores(o, "running", task[o].rt)
    BY <1>2, <2>2 DEF Stores, Saved, Running
  <2> QED BY <1>2, <2>2, <2>3 DEF Stays
<1>3. CASE task[o].pc \in {"fail_save", "recover_save"} /\ FailureSaved(o)
  BY <1>3, FailureStores
<1>4. CASE UNCHANGED store
  BY <1>4
<1>5. FailureRefused(o) => UNCHANGED store
  BY DEF FailureRefused, SaveRefused
<1> QED
  BY <1>1, <1>2, <1>3, <1>4, <1>5, Effects
  DEF TaskStep, BodyStep, SupervisorStep, RecoveryStep, CreateEffect, ObserveEffect,
      Purge, Wait, DeleteEffect, Adopt, Save, SaveRefused, UndoEffect, FailLoadOp,
      FailLoadWs, FailSave, RecoverLoad, RecoverObserveEffect, RecoverPurge, RecoverSave,
      Deadline, DeadlineInCommit

-----------------------------------------------------------------------------
(* Everything comes from the provision its name contains.                    *)

\* A step of a task.
LEMMA TaskKeepsOriginated ==
    ASSUME TypeOK, Coupled, Originated, NEW o \in OpId, TaskStep(o), Next
    PROVE  Originated'
<1>1. \A g \in OpId, w \in Workspace :
         ProvisionOn(g, w) => /\ ops'[g].kind = "provision" /\ ops'[g].ws = w
                              /\ ops'[g].state = "running" => Running(g)
  BY ProvisionsStay
<1>2. callers' = callers
  BY Effects
  DEF TaskStep, BodyStep, SupervisorStep, RecoveryStep, CreateEffect, ObserveEffect,
      Purge, Wait, DeleteEffect, Adopt, Save, UndoEffect, FailLoadOp, FailLoadWs,
      FailSave, RecoverLoad, RecoverObserveEffect, RecoverPurge, RecoverSave, Deadline,
      DeadlineInCommit
<1>3. AnchorsAreProvisions'
  <2>1. CASE UNCHANGED store
    BY <2>1 DEF store, Originated, AnchorsAreProvisions, ProvisionOn, Running
  <2>2. CASE Stays(o) \/ Detaches(o)
    <3> DEFINE v == ops[o].ws
               h == anchor[v].gen
               Fine(w) ==
                 LET g == anchor'[w].gen IN
                 /\ ops'[g].kind = "provision" /\ ops'[g].ws = w
                 /\ anchor'[w].state = "provisioning" <=> ops'[g].state = "running"
    <3>1. PICK rt, state : /\ Stores(o, state, rt)
                           /\ rt.state # "none" =>
                                /\ rt.gen = h
                                /\ rt.state = "provisioning" <=>
                                      state = "running" /\ anchor[v].state = "provisioning"
      BY <2>2 DEF Stays, Detaches, Detached
    <3>2. /\ Running(o) /\ v \in Workspace
          /\ anchor' = [anchor EXCEPT ![v] = rt]
          /\ ops'[o].state = state /\ \A p \in OpId : p # o => ops'[p] = ops[p]
      BY <3>1, RunningRow DEF Stores, TypeOK, StoreTypeOK
    <3>3. /\ h \in OpId /\ ProvisionOn(h, v)
          /\ ops[o].kind = "provision" => h = o
          /\ ops[o].kind = "cleanup" => ~Running(h)
          /\ ops[o].kind \in {"provision", "cleanup"}
          /\ anchor[v].state = BusyState(ops[o].kind)
      BY <3>2, RunningGen, RunningRow
    <3>4. ASSUME NEW w \in Workspace, anchor'[w].state # "none", w # v
          PROVE  Fine(w)
      <4>1. anchor'[w] = anchor[w] /\ anchor[w] \in AttachedRuntime
        BY <3>2, <3>4, AttachedByState DEF TypeOK, StoreTypeOK
      <4>2. /\ anchor[w].gen \in OpId /\ ProvisionOn(anchor[w].gen, w)
            /\ anchor[w].state = "provisioning" <=> Running(anchor[w].gen)
        BY <3>4, <4>1 DEF Originated, AnchorsAreProvisions, AttachedRuntime
      <4>3. anchor[w].gen # o
        BY <3>2, <3>4, <4>2 DEF ProvisionOn
      <4> QED BY <1>1, <3>2, <4>1, <4>2, <4>3 DEF Running
    <3>5. ASSUME anchor'[v].state # "none"
          PROVE  Fine(v)
      <4>1. anchor'[v] = rt
        BY <3>2 DEF TypeOK, StoreTypeOK
      <4>2. anchor'[v].gen = h /\ ops'[h].kind = "provision" /\ ops'[h].ws = v
        BY <1>1, <3>1, <3>2, <3>3, <3>5, <4>1
      <4>3. CASE ops[o].kind = "provision"
        BY <3>1, <3>2, <3>3, <3>5, <4>1, <4>2, <4>3 DEF Running, BusyState
      <4>4. CASE ops[o].kind = "cleanup"
        BY <1>1, <3>1, <3>2, <3>3, <3>5, <4>1, <4>2, <4>4 DEF BusyState
      <4> QED BY <3>3, <4>2, <4>3, <4>4
    <3> QED BY <3>4, <3>5 DEF AnchorsAreProvisions, ProvisionOn, Running
  <2> QED BY <2>1, <2>2, TaskStores
<1>4. CallsAreProvisions'
  <2> SUFFICES ASSUME NEW c \in Caller, callers[c].pc = "cleanup"
               PROVE  LET g == callers[c].rt.gen IN
                      /\ ops'[g].kind = "provision" /\ ops'[g].ws = callers[c].ws
                      /\ ops'[g].state # "running"
                      /\ callers[c].rt.state = "cleaning_up"
    BY <1>2 DEF CallsAreProvisions, ProvisionOn, Running
  <2>1. callers[c].rt.gen \in OpId /\ callers[c].ws \in Workspace
    BY DEF TypeOK, CallTypeOK, AttachedRuntime
  <2> QED BY <1>1, <2>1 DEF Originated, CallsAreProvisions
<1>5. ResourcesAreProvisions'
  <2>1. \A r \in remote \cup late : r.gen \in OpId
    BY DEF TypeOK, CloudTypeOK, Resource
  <2>2. \A r \in remote \cup late : ops[r.gen].kind = "provision"
    BY DEF Originated, ResourcesAreProvisions
  <2>3. \A r \in remote \cup late : ops'[r.gen].kind = "provision"
    BY <2>1, <2>2, RowsKeep DEF NoOperation
  <2>4. CASE remote' \subseteq remote /\ late' = late
    BY <2>3, <2>4 DEF ResourcesAreProvisions
  <2>5. CASE Create(o)
    <3>1. task[o].pc \in HoldsAnchor
      BY <2>5, Effects DEF CreateEffect, HoldsAnchor, BodyPc
    <3>2. Gen(o) \in OpId /\ ProvisionOn(Gen(o), ops[o].ws)
      BY <3>1, HolderGen, RunningGen
    <3>3. \A r \in remote' \cup late' : r \in remote \cup late \/ r.gen = Gen(o)
      BY <2>5, Effects DEF CreateEffect, Wanted, Named, cloud
    <3>4. ops'[Gen(o)].kind = "provision"
      BY <2>5, <3>2, Effects DEF CreateEffect, store, ProvisionOn
    <3> QED BY <2>3, <3>3, <3>4 DEF ResourcesAreProvisions
  <2>6. TaskStep(o) => (remote' \subseteq remote /\ late' = late) \/ Create(o)
    BY Effects
    DEF TaskStep, BodyStep, SupervisorStep, RecoveryStep, CreateEffect, ObserveEffect,
        Purge, Wait, DeleteEffect, Adopt, Save, UndoEffect, FailLoadOp, FailLoadWs,
        FailSave, RecoverLoad, RecoverObserveEffect, RecoverPurge, RecoverSave, Deadline,
        DeadlineInCommit, cloud
  <2> QED BY <2>4, <2>5, <2>6
<1> QED BY <1>3, <1>4, <1>5 DEF Originated

\* The call of c becomes operation o: a provision of a workspace that has no
\* runtime, or the cleanup of the runtime c has read.
Admits(c, o, op, rt) ==
    /\ ops[o] = NoOperation /\ ops' = [ops EXCEPT ![o] = op]
    /\ op.state = "running" /\ op.ws = callers[c].ws
    /\ anchor' = [anchor EXCEPT ![op.ws] = rt]
    /\ workspaces' = workspaces /\ workspaces[op.ws] = "present"
    /\ task' = [task EXCEPT ![o] = Entered(op, rt)]
    /\ callers' = [callers EXCEPT ![c] = NoCall]
    /\ remote' = remote /\ late' = late
    /\ \/ /\ op = ProvisionOf(op.ws) /\ rt = NewProvisioning(o)
          /\ anchor[op.ws] = Detached
       \/ /\ op = CleanupOf(op.ws) /\ callers[c].pc = "cleanup" /\ rt = callers[c].rt
          /\ anchor[op.ws].state \in Settled
          /\ Timely => \A r \in late : r.gen # rt.gen

LEMMA Admission ==
    ASSUME TypeOK, Coupled, NEW c \in Caller, NEW o \in OpId,
           ProvisionAdmit(c, o) \/ CleanupAdmit(c, o)
    PROVE  \E op \in Row, rt \in AttachedRuntime : Admits(c, o, op, rt) /\ op.ws \in Workspace
<1> DEFINE v == callers[c].ws
<1>1. ASSUME NEW op \in Row, NEW rt \in AttachedRuntime, Admit(c, o, op, rt), op.ws = v,
             op.state = "running", v \in Workspace,
             \/ op = ProvisionOf(v) /\ rt = NewProvisioning(o)
             \/ /\ op = CleanupOf(v) /\ callers[c].pc = "cleanup" /\ rt = callers[c].rt
                /\ Timely => \A r \in late : r.gen # rt.gen
      PROVE  Admits(c, o, op, rt)
  <2>1. /\ ops[o] = NoOperation /\ Admissible(o, op, rt)
        /\ ops' = [ops EXCEPT ![o] = op] /\ anchor' = [anchor EXCEPT ![v] = rt]
        /\ workspaces' = workspaces
        /\ task' = [task EXCEPT ![o] = Entered(op, rt)]
        /\ callers' = [callers EXCEPT ![c] = NoCall]
        /\ remote' = remote /\ late' = late
    BY <1>1 DEF Admit, Saved, cloud
  <2>2. /\ op.kind = "provision" => workspaces[v] = "present" /\ anchor[v] = Detached
        /\ op.kind # "provision" => anchor[v].state \in Settled
    BY <1>1, <2>1 DEF Admissible
  <2>3. op.kind # "provision" => workspaces[v] = "present"
    BY <1>1, <2>2 DEF Coupled, StoreCoupled, AttachedIsPresent, Settled
  <2>4. ProvisionOf(v).kind = "provision" /\ CleanupOf(v).kind = "cleanup"
    BY DEF ProvisionOf, CleanupOf
  <2> QED BY <1>1, <2>1, <2>2, <2>3, <2>4 DEF Admits
<1>2. CASE ProvisionAdmit(c, o)
  <2>1. v \in Workspace
    BY <1>2 DEF ProvisionAdmit, TypeOK, CallTypeOK
  <2>2. /\ ProvisionOf(v) \in Row /\ ProvisionOf(v).ws = v
        /\ ProvisionOf(v).state = "running"
    BY <2>1 DEF ProvisionOf, Row, Step, ProvisionStep, CreateStep
  <2>3. NewProvisioning(o) \in AttachedRuntime
    BY DEF NewProvisioning, AttachedRuntime, RuntimeState
  <2> QED BY <1>1, <1>2, <2>1, <2>2, <2>3 DEF ProvisionAdmit
<1>3. CASE CleanupAdmit(c, o)
  <2>1. v \in Workspace /\ callers[c].rt \in AttachedRuntime /\ callers[c].pc = "cleanup"
    BY <1>3 DEF CleanupAdmit, TypeOK, CallTypeOK
  <2>2. CleanupOf(v) \in Row /\ CleanupOf(v).ws = v /\ CleanupOf(v).state = "running"
    BY <2>1 DEF CleanupOf, Row, Step, CleanupStep
  <2> QED BY <1>1, <1>3, <2>1, <2>2 DEF CleanupAdmit
<1> QED BY <1>2, <1>3

\* A provision, or a cleanup of a provision that runs no more, is admitted.
LEMMA AdmitKeepsOriginated ==
    ASSUME TypeOK, Coupled, Originated, NEW c \in Caller, NEW o \in OpId,
           ProvisionAdmit(c, o) \/ CleanupAdmit(c, o), Next
    PROVE  Originated'
<1> DEFINE v == callers[c].ws
<1>1. \A g \in OpId, w \in Workspace :
         ProvisionOn(g, w) => /\ ops'[g].kind = "provision" /\ ops'[g].ws = w
                              /\ ops'[g].state = "running" => Running(g)
  BY ProvisionsStay
<1>2. PICK op \in Row, rt \in AttachedRuntime :
         /\ Admits(c, o, op, rt)
         /\ op.ws = v /\ op.state = "running" /\ v \in Workspace
         /\ \/ op.kind = "provision" /\ rt = NewProvisioning(o)
            \/ op.kind = "cleanup" /\ callers[c].pc = "cleanup" /\ rt = callers[c].rt
  BY Admission DEF Admits, ProvisionOf, CleanupOf
<1>3. /\ ops[o] = NoOperation /\ ops' = [ops EXCEPT ![o] = op]
      /\ anchor' = [anchor EXCEPT ![v] = rt]
      /\ callers' = [callers EXCEPT ![c] = NoCall]
      /\ remote' = remote /\ late' = late
  BY <1>2 DEF Admits
<1>4. \A w : \A g \in OpId : ProvisionOn(g, w) => g # o
  BY <1>3 DEF ProvisionOn, NoOperation
<1>5. AnchorsAreProvisions'
  <2> SUFFICES ASSUME NEW w \in Workspace, anchor'[w].state # "none"
               PROVE  LET g == anchor'[w].gen IN
                      /\ ops'[g].kind = "provision" /\ ops'[g].ws = w
                      /\ anchor'[w].state = "provisioning" <=> ops'[g].state = "running"
    BY DEF AnchorsAreProvisions, ProvisionOn, Running
  <2>1. CASE w # v
    <3>1. anchor'[w] = anchor[w] /\ anchor[w].gen \in OpId
      BY <1>3, <2>1, AttachedByState DEF TypeOK, StoreTypeOK, AttachedRuntime
    <3>2. /\ ProvisionOn(anchor[w].gen, w)
          /\ anchor[w].state = "provisioning" <=> Running(anchor[w].gen)
      BY <3>1 DEF Originated, AnchorsAreProvisions
    <3>3. ops'[anchor[w].gen] = ops[anchor[w].gen]
      BY <1>3, <1>4, <3>1, <3>2 DEF TypeOK, StoreTypeOK
    <3> QED BY <3>1, <3>2, <3>3 DEF ProvisionOn, Running
  <2>2. CASE w = v
    <3>1. anchor'[w] = rt /\ ops'[o] = op
      BY <1>2, <1>3, <2>2 DEF TypeOK, StoreTypeOK
    <3>2. CASE op.kind = "provision" /\ rt = NewProvisioning(o)
      BY <1>2, <2>2, <3>1, <3>2 DEF NewProvisioning
    <3>3. CASE callers[c].pc = "cleanup" /\ rt = callers[c].rt
      <4>1. /\ rt.gen \in OpId /\ ProvisionOn(rt.gen, v) /\ ~Running(rt.gen)
            /\ rt.state = "cleaning_up"
        BY <1>2, <3>3 DEF Originated, CallsAreProvisions, AttachedRuntime
      <4> QED BY <1>1, <1>2, <2>2, <3>1, <4>1
    <3> QED BY <1>2, <3>2, <3>3
  <2> QED BY <2>1, <2>2
<1>6. CallsAreProvisions'
  <2> SUFFICES ASSUME NEW d \in Caller, callers'[d].pc = "cleanup"
               PROVE  LET g == callers'[d].rt.gen IN
                      /\ ops'[g].kind = "provision" /\ ops'[g].ws = callers'[d].ws
                      /\ ops'[g].state # "running"
                      /\ callers'[d].rt.state = "cleaning_up"
    BY DEF CallsAreProvisions, ProvisionOn, Running
  <2>1. callers'[d] = callers[d]
    BY <1>3 DEF NoCall, TypeOK, CallTypeOK
  <2>2. callers[d].rt.gen \in OpId /\ callers[d].ws \in Workspace
    BY <2>1 DEF TypeOK, CallTypeOK, AttachedRuntime
  <2> QED BY <1>1, <2>1, <2>2 DEF Originated, CallsAreProvisions
<1>7. ResourcesAreProvisions'
  <2>1. \A r \in remote \cup late : ops'[r.gen].kind = "provision"
    BY RowsKeep DEF NoOperation, Originated, ResourcesAreProvisions, TypeOK, CloudTypeOK,
                    Resource
  <2> QED BY <1>3, <2>1 DEF ResourcesAreProvisions
<1> QED BY <1>5, <1>6, <1>7 DEF Originated

\* Every other step leaves the runtimes and the rows alone.
LEMMA OthersKeepOriginated ==
    ASSUME TypeOK, Coupled, Originated, UNCHANGED <<anchor, ops>>,
           remote' \cup late' \subseteq remote \cup late,
           \A c \in Caller : \/ callers'[c] = callers[c] \/ callers'[c].pc # "cleanup"
                             \/ \E w \in Workspace : CleanupBegin(c, w)
    PROVE  Originated'
<1>1. AnchorsAreProvisions' /\ ResourcesAreProvisions'
  BY DEF Originated, AnchorsAreProvisions, ResourcesAreProvisions, ProvisionOn, Running
<1>2. ASSUME NEW c \in Caller, callers'[c].pc = "cleanup"
      PROVE  LET rt == callers'[c].rt IN
             /\ ops[rt.gen].kind = "provision" /\ ops[rt.gen].ws = callers'[c].ws
             /\ ops[rt.gen].state # "running"
             /\ rt.state = "cleaning_up"
  <2>1. CASE callers'[c] = callers[c]
    BY <1>2, <2>1 DEF Originated, CallsAreProvisions, ProvisionOn, Running
  <2>2. ASSUME NEW w \in Workspace, CleanupBegin(c, w)
        PROVE  LET rt == callers'[c].rt IN
               /\ ops[rt.gen].kind = "provision" /\ ops[rt.gen].ws = callers'[c].ws
               /\ ops[rt.gen].state # "running"
               /\ rt.state = "cleaning_up"
    <3>1. /\ callers'[c] = [pc |-> "cleanup", ws |-> w, rt |-> BeginCleanup(anchor[w])]
          /\ anchor[w].state \in Settled
      BY <2>2 DEF CleanupBegin, TypeOK, CallTypeOK
    <3>2. anchor[w] \in AttachedRuntime
      BY <3>1, AttachedByState DEF TypeOK, StoreTypeOK, Settled
    <3>3. /\ BeginCleanup(anchor[w]).gen = anchor[w].gen
          /\ BeginCleanup(anchor[w]).state = "cleaning_up"
      BY <3>2 DEF BeginCleanup, AttachedRuntime
    <3>4. ProvisionOn(anchor[w].gen, w) /\ ~Running(anchor[w].gen)
      BY <3>1 DEF Originated, AnchorsAreProvisions, Settled
    <3> QED BY <3>1, <3>3, <3>4 DEF ProvisionOn, Running
  <2> QED BY <1>2, <2>1, <2>2
<1>3. CallsAreProvisions'
  BY <1>2 DEF CallsAreProvisions, ProvisionOn, Running
<1> QED BY <1>1, <1>3 DEF Originated

\* What the steps that are not a task's leave alone.
LEMMA OtherSteps ==
    ASSUME TypeOK, Next
    PROVE  \/ \E o \in OpId : TaskStep(o)
           \/ \E c \in Caller, o \in OpId : ProvisionAdmit(c, o) \/ CleanupAdmit(c, o)
           \/ /\ UNCHANGED <<anchor, ops>>
              /\ \/ UNCHANGED cloud
                 \/ \E r \in late : LateCreate(r)
              /\ UNCHANGED task \/ task' = [o \in OpId |-> Idle]
              /\ \A c \in Caller : \/ callers'[c] = callers[c] \/ callers'[c].pc # "cleanup"
                                   \/ \E w \in Workspace : CleanupBegin(c, w)
<1> DEFINE Quiet ==
             /\ UNCHANGED <<anchor, ops>>
             /\ \/ UNCHANGED cloud
                \/ \E r \in late : LateCreate(r)
             /\ UNCHANGED task \/ task' = [o \in OpId |-> Idle]
             /\ \A c \in Caller : \/ callers'[c] = callers[c] \/ callers'[c].pc # "cleanup"
                                  \/ \E w \in Workspace : CleanupBegin(c, w)
<1>1. ASSUME NEW w \in Workspace, CreateWorkspace(w) \/ DeleteWorkspace(w)
      PROVE  Quiet
  BY <1>1 DEF CreateWorkspace, DeleteWorkspace, process
<1>2. ASSUME NEW c \in Caller, NEW w \in Workspace, ProvisionBegin(c, w) \/ CleanupBegin(c, w)
      PROVE  Quiet
  <2>1. \A d \in Caller : d # c => callers'[d] = callers[d]
    BY <1>2 DEF ProvisionBegin, CleanupBegin, TypeOK, CallTypeOK
  <2>2. callers'[c].pc # "cleanup" \/ CleanupBegin(c, w)
    BY <1>2 DEF ProvisionBegin, TypeOK, CallTypeOK
  <2> QED BY <1>2, <2>1, <2>2 DEF ProvisionBegin, CleanupBegin, store
<1>3. ASSUME NEW c \in Caller, CallerGivesUp(c)
      PROVE  Quiet
  BY <1>3 DEF CallerGivesUp, store, NoCall, TypeOK, CallTypeOK
<1>4. ASSUME NEW r \in late, LateCreate(r)
      PROVE  Quiet
  BY <1>4 DEF LateCreate, store, process
<1>5. CASE Exit \/ Boot \/ Serve
  BY <1>5 DEF Exit, Boot, Serve, store, NoCall
<1> QED BY <1>1, <1>2, <1>3, <1>4, <1>5 DEF Next, Command, TaskStep

\* Every step.
LEMMA StepKeepsOriginated == TypeOK /\ Coupled /\ Originated /\ [Next]_vars => Originated'
<1> SUFFICES ASSUME TypeOK, Coupled, Originated, [Next]_vars
             PROVE  Originated'
  OBVIOUS
<1>1. CASE UNCHANGED vars
  BY <1>1, OthersKeepOriginated DEF vars, store, cloud, process
<1>2. CASE Next
  <2>1. (\E r \in late : LateCreate(r)) => remote' \cup late' \subseteq remote \cup late
    BY DEF LateCreate
  <2>2. UNCHANGED cloud => remote' \cup late' \subseteq remote \cup late
    BY DEF cloud
  <2> QED
    BY <1>2, <2>1, <2>2, OtherSteps, TaskKeepsOriginated, AdmitKeepsOriginated,
       OthersKeepOriginated
<1> QED BY <1>1, <1>2

-----------------------------------------------------------------------------
(* A provision sends one create request of each kind.                        *)

\* Only a provision creates, at a create step, what is not there yet.
LEMMA CreatorIsProvision ==
    ASSUME TypeOK, Coupled, Provisioned, NEW o \in OpId, task[o].pc = "create"
    PROVE  /\ Running(o) /\ ops[o].kind = "provision" /\ ops[o].step \in CreateStep
           /\ Gen(o) = o /\ KindOf(o) = Target(ops[o].step)
           /\ ProvisionKept(o) /\ NoneOf(o, KindOf(o))
<1>1. task[o].pc \in HoldsAnchor
  BY DEF HoldsAnchor, BodyPc
<1>2. /\ Running(o) /\ task[o].op = ops[o]
      /\ Gen(o) = anchor[ops[o].ws].gen /\ KindOf(o) = Target(ops[o].step)
  BY <1>1, HolderGen
<1>3. ops[o].step \in CreateStep
  BY <1>2 DEF Provisioned, PcFitsStep
<1>4. ops[o].kind = "provision"
  BY <1>2, <1>3, RunningRow DEF CleanupStep, CreateStep
<1>5. ProvisionKept(o)
  BY <1>2, <1>4 DEF Provisioned, ProvisionsKept
<1> QED BY <1>2, <1>3, <1>4, <1>5 DEF ProvisionKept

\* What a create request leaves is of the kind it asks for.
LEMMA CreateAdds ==
    ASSUME NEW o \in OpId, Create(o)
    PROVE  \/ UNCHANGED cloud
           \/ /\ late' = late
              /\ \E C : remote' = remote \cup Named(Gen(o), KindOf(o), C)
           \/ /\ remote' = remote
              /\ \E c : late' = late \cup Named(Gen(o), KindOf(o), {c})
<1>1. {Wanted(o)} = Named(Gen(o), KindOf(o), {Good})
  BY DEF Wanted, Named
<1> QED BY <1>1, Effects DEF CreateEffect

\* No task step requests a resource twice.
LEMMA TaskRequestsOnce ==
    ASSUME TypeOK, Coupled, Provisioned, NEW o \in OpId, TaskStep(o)
    PROVE  RequestedOnce'
<1>1. RequestedOnce
  BY DEF Provisioned
<1>2. CASE remote' \subseteq remote /\ late' = late
  BY <1>1, <1>2, Shrinking
<1>3. CASE task[o].pc = "create"
  <2> DEFINE g == Gen(o)
             k == KindOf(o)
  <2>1. \A r \in remote \cup late : ~IsOf(r, g, k)
    BY <1>3, CreatorIsProvision DEF NoneOf
  <2>2. \A C : \A r \in Named(g, k, C) : IsOf(r, g, k)
    BY DEF Named, IsOf
  <2>3. CASE UNCHANGED cloud
    BY <1>1, <2>3, Shrinking DEF cloud
  <2>4. ASSUME late' = late, NEW C, remote' = remote \cup Named(g, k, C)
        PROVE  RequestedOnce'
    BY <1>1, <2>1, <2>2, <2>4 DEF RequestedOnce, IsOf
  <2>5. ASSUME remote' = remote, NEW c, late' = late \cup Named(g, k, {c})
        PROVE  RequestedOnce'
    <3>1. \A r, q \in Named(g, k, {c}) : r = q
      BY DEF Named
    <3>2. ASSUME NEW r \in late', NEW q \in late', IsOf(q, r.gen, r.kind)
          PROVE  q = r
      BY <1>1, <2>1, <2>2, <2>5, <3>1, <3>2 DEF RequestedOnce, IsOf
    <3>3. ASSUME NEW r \in late', NEW q \in remote'
          PROVE  ~IsOf(q, r.gen, r.kind)
      BY <1>1, <2>1, <2>2, <2>5 DEF RequestedOnce, IsOf
    <3> QED BY <3>2, <3>3 DEF RequestedOnce
  <2>6. UNCHANGED cloud \/ Create(o)
    <3>1. ~(Observe(o) \/ Delete(o) \/ Undo(o) \/ RecoverObserve(o))
      BY <1>3, Effects DEF ObserveEffect, DeleteEffect, UndoEffect, RecoverObserveEffect
    <3> QED
      BY <1>3, <3>1
      DEF TaskStep, BodyStep, SupervisorStep, RecoveryStep, Purge, Wait, Adopt, Save,
          FailLoadOp, FailLoadWs, FailSave, RecoverLoad, RecoverPurge, RecoverSave,
          Deadline, DeadlineInCommit
  <2> QED BY <2>3, <2>4, <2>5, <2>6, CreateAdds
<1> QED BY <1>2, <1>3, TouchersHold

-----------------------------------------------------------------------------
(* What an operation's step says of the place its task is at.                *)

\* A body that has entered a step is at a place the step has.
LEMMA EnteredFits ==
    ASSUME NEW op \in Row, NEW rt, StepOfKind(op), NEW o \in OpId, task'[o] = Entered(op, rt)
    PROVE  /\ PcFitsStep(o)'
           /\ task'[o].pc \in {"create", "wait", "delete", "observe", "save"}
           /\ task'[o].op = op /\ task'[o].rt = rt /\ task'[o].ids = {}
           /\ task'[o].pc = "create" => op.step \in CreateStep
           /\ task'[o].pc = "save" => op.kind = "cleanup"
<1> DEFINE t == task'[o]
<1>1. t.op = op /\ t.rt = rt /\ t.ids = {} /\ t.pc = EntryPc(op, rt)
  BY DEF Entered
<1>2. t.pc \in {"create", "wait", "delete", "observe", "save"}
  BY <1>1 DEF EntryPc
<1>3. /\ t.pc = "create" => op.step \in CreateStep
      /\ t.pc = "wait" => op.step = "poll_provisioner"
      /\ t.pc = "observe" => op.kind = "cleanup"
      /\ t.pc = "delete" /\ op.kind = "provision" => op.step = "terminate_provisioner_pod"
  BY <1>1 DEF EntryPc
<1>4. t.pc = "save" => op.kind = "cleanup"
  BY <1>1 DEF EntryPc, StepOfKind, ProvisionStep, Row
<1>5. op.kind = "cleanup" => op.kind # "provision"
  OBVIOUS
<1> QED BY <1>1, <1>2, <1>3, <1>4, <1>5 DEF PcFitsStep

\* Where a step asks nothing of the place.
LEMMA FitsAnyStep ==
    ASSUME NEW o \in OpId,
           task'[o].pc \in {"idle", "save", "fail_load_op", "fail_load_ws", "fail_save",
                            "recover_save"}
    PROVE  PcFitsStep(o)'
BY DEF PcFitsStep

\* What a body enters when it has saved its step.
LEMMA NextIsEntered ==
    ASSUME TypeOK, Coupled, NEW o \in OpId, task[o].pc = "save", task[o].op.step \notin LastStep
    PROVE  /\ NextOperation(o) \in Row /\ StepOfKind(NextOperation(o))
           /\ NextOperation(o) = [ops[o] EXCEPT !.step = NextStep(ops[o].step)]
           /\ NextRuntime(o) = task[o].rt
<1>1. task[o].pc \in HoldsAnchor
  BY DEF HoldsAnchor, BodyPc
<1>2. /\ ops[o] \in Row /\ task[o].op = ops[o] /\ StepOfKind(ops[o])
      /\ task[o].rt \in AttachedRuntime
  BY <1>1, HolderKnows
<1>3. NextOperation(o) \in Row /\ NextOperation(o) = [ops[o] EXCEPT !.step = NextStep(ops[o].step)]
  BY <1>2, RowsStayRows DEF NextOperation, Advance
<1>4. StepOfKind(NextOperation(o))
  BY <1>2, <1>3, NextStepKeepsKind DEF StepOfKind, Row
<1> QED BY <1>2, <1>3, <1>4, AdvancedIsRuntime DEF NextRuntime

\* Every task is where its step has a place for it.
LEMMA TaskFits ==
    ASSUME TypeOK, Coupled, NEW o \in OpId, PcFitsStep(o), TaskStep(o)
    PROVE  PcFitsStep(o)'
<1> DEFINE t == task[o]
<1>1. task \in [OpId -> Task] /\ t \in Task
  BY DEF TypeOK, TaskTypeOK
<1>2. /\ BodyFails(o) => task'[o].pc = "fail_load_op"
      /\ TaskEnds(o) => task'[o].pc = "idle"
  BY <1>1 DEF BodyFails, TaskEnds, Idle
<1>3. \A pc : Goto(o, pc) => /\ task'[o].pc = pc /\ task'[o].op = t.op
                              /\ task'[o].rt = t.rt /\ task'[o].ids = t.ids
  BY <1>1 DEF Goto, Task
<1>4. CASE task'[o].pc \in {"idle", "save", "fail_load_op", "fail_load_ws", "fail_save",
                            "recover_save"}
  BY <1>4, FitsAnyStep
<1>5. \A r \in Listed(o) : IsOf(r, Gen(o), KindOf(o))
  BY DEF Listed, IsOf
<1>6. ASSUME t.pc = "create", Goto(o, "observe")
      PROVE  PcFitsStep(o)'
  BY <1>1, <1>3, <1>6 DEF PcFitsStep, Task
<1>7. CASE Create(o)
  BY <1>1, <1>2, <1>4, <1>6, <1>7, Effects DEF CreateEffect, Learns, Task
<1>8. ASSUME t.pc = "observe", t.op.kind = "cleanup",
             task' = [task EXCEPT ![o].rt = Knowing(@, KindOf(o)), ![o].pc = "adopt"]
      PROVE  PcFitsStep(o)'
  BY <1>1, <1>8 DEF PcFitsStep, Task
<1>9. ASSUME t.pc = "observe", task' = [task EXCEPT ![o].ids = Listed(o), ![o].pc = "purge"]
      PROVE  PcFitsStep(o)'
  BY <1>1, <1>5, <1>9 DEF PcFitsStep, Task, Gen, KindOf
<1>10. CASE Observe(o)
  <2>1. ObserveEffect(o)
    BY <1>10, Effects
  <2> QED BY <1>1, <1>2, <1>3, <1>4, <1>8, <1>9, <2>1 DEF ObserveEffect, Task
<1>11. CASE Purge(o) \/ Wait(o) \/ Delete(o) \/ Undo(o) \/ Deadline(o) \/ DeadlineInCommit(o)
  <2>1. \/ Purge(o) \/ Wait(o) \/ Deadline(o) \/ DeadlineInCommit(o)
        \/ DeleteEffect(o) \/ UndoEffect(o)
    BY <1>11, Effects
  <2> QED
    BY <1>1, <1>2, <1>3, <1>4, <2>1
    DEF Purge, Wait, DeleteEffect, UndoEffect, Deadline, DeadlineInCommit, Task
<1>12. CASE Adopt(o)
  <2>1. t.op.kind = "cleanup"
    BY <1>12 DEF Adopt, PcFitsStep
  <2>2. ASSUME Goto(o, "delete")
        PROVE  PcFitsStep(o)'
    BY <1>1, <1>3, <2>1, <2>2 DEF PcFitsStep, Task
  <2> QED BY <1>2, <1>4, <1>12, <2>2 DEF Adopt
<1>13. CASE Save(o)
  <2>1. ASSUME t.op.step \notin LastStep,
               task' = [task EXCEPT ![o] = Entered(NextOperation(o), NextRuntime(o))]
        PROVE  PcFitsStep(o)'
    BY <1>1, <1>13, <2>1, NextIsEntered, EnteredFits DEF Save
  <2>2. ASSUME t.op.step \in CreateStep, Goto(o, "undo")
        PROVE  PcFitsStep(o)'
    BY <1>1, <1>3, <2>2 DEF PcFitsStep, Task
  <2> QED BY <1>2, <1>4, <1>13, <2>1, <2>2 DEF Save
<1>14. CASE SupervisorStep(o)
  BY <1>1, <1>2, <1>4, <1>14
  DEF SupervisorStep, FailLoadOp, FailLoadWs, FailSave, Abandon, Task
<1>15. CASE RecoverLoad(o)
  <2>1. ASSUME NEW rt, NEW pc \in {"recover_observe", "recover_save"},
               pc = "recover_observe" => ops[o].step \in CreateStep,
               task' = [task EXCEPT ![o] = [pc |-> pc, op |-> ops[o], rt |-> rt, ids |-> {}]]
        PROVE  PcFitsStep(o)'
    BY <1>1, <2>1 DEF PcFitsStep
  <2> QED BY <1>2, <1>4, <1>15, <2>1 DEF RecoverLoad, Abandon, Looks
<1>16. ASSUME t.pc = "recover_observe",
              task' = [task EXCEPT ![o].ids = Listed(o), ![o].pc = "recover_purge"]
       PROVE  PcFitsStep(o)'
  BY <1>1, <1>5, <1>16 DEF PcFitsStep, Task, Gen, KindOf
<1>17. CASE RecoverObserve(o)
  <2>1. RecoverObserveEffect(o)
    BY <1>17, Effects
  <2> QED BY <1>1, <1>3, <1>4, <1>16, <2>1 DEF RecoverObserveEffect, Task
<1>18. CASE RecoverPurge(o) \/ RecoverSave(o)
  BY <1>1, <1>2, <1>4, <1>18 DEF RecoverPurge, RecoverSave, Abandon, Task
<1> QED
  BY <1>7, <1>10, <1>11, <1>12, <1>13, <1>14, <1>15, <1>17, <1>18
  DEF TaskStep, BodyStep, RecoveryStep

-----------------------------------------------------------------------------
(* What a task's step leaves alone.                                          *)

\* Only one task moves.
LEMMA TaskIsAlone ==
    ASSUME TypeOK, NEW o \in OpId, TaskStep(o), NEW p \in OpId, p # o
    PROVE  task'[p] = task[p]
BY Effects
DEF TypeOK, TaskTypeOK, TaskStep, BodyStep, SupervisorStep, RecoveryStep, CreateEffect,
    ObserveEffect, Purge, Wait, DeleteEffect, Adopt, Save, UndoEffect, FailLoadOp,
    FailLoadWs, FailSave, RecoverLoad, RecoverObserveEffect, RecoverPurge, RecoverSave,
    Deadline, DeadlineInCommit, Goto, Learns, BodyFails, TaskEnds, Abandon

\* The resources of a provision are as they were unless the task holds its runtime.
LEMMA OthersAreSame ==
    ASSUME TypeOK, NEW o \in OpId, PcFitsStep(o), TaskStep(o), NEW h,
           task[o].pc \in HoldsAnchor => Gen(o) # h
    PROVE  Same(h)
<1>1. CASE UNCHANGED cloud
  BY <1>1 DEF cloud, Same
<1>2. CASE task[o].pc \in HoldsAnchor
  BY <1>2, TaskTouches DEF Touches, Same, IsOf
<1> QED BY <1>1, <1>2, TouchersHold

\* The rows of the other operations, and the runtimes of their workspaces, are
\* as they were.
LEMMA OthersAreStored ==
    ASSUME TypeOK, Coupled, NEW o \in OpId, TaskStep(o)
    PROVE  /\ \A p \in OpId : p # o => ops'[p] = ops[p]
           /\ \A p \in OpId : p # o /\ Running(p) => anchor'[ops[p].ws] = anchor[ops[p].ws]
           /\ \A w \in Workspace : w # ops[o].ws => anchor'[w] = anchor[w]
           /\ ~Running(o) => UNCHANGED store
<1>1. CASE UNCHANGED store
  BY <1>1 DEF store
<1>2. ASSUME NEW state, NEW rt, Stores(o, state, rt)
      PROVE  /\ Running(o)
             /\ \A p \in OpId : p # o => ops'[p] = ops[p]
             /\ \A p \in OpId : p # o /\ Running(p) => anchor'[ops[p].ws] = anchor[ops[p].ws]
             /\ \A w \in Workspace : w # ops[o].ws => anchor'[w] = anchor[w]
  <2>1. \A p \in OpId : p # o /\ Running(p) =>
           ops[p].ws # ops[o].ws /\ ops[p].ws \in Workspace
    BY <1>2, RunningRow DEF Stores, Coupled, StoreCoupled, OneRunningPerWorkspace
  <2> QED BY <1>2, <2>1 DEF Stores, TypeOK, StoreTypeOK
<1> QED BY <1>1, <1>2, TaskStores DEF Stays, Detaches

\* A provision whose rows, runtime, task and resources are as they were is kept.
LEMMA ProvisionFramed ==
    ASSUME NEW p \in OpId, ProvisionKept(p), ops'[p] = ops[p], task'[p] = task[p],
           anchor'[ops[p].ws] = anchor[ops[p].ws], Same(p)
    PROVE  ProvisionKept(p)'
<1>1. /\ \A k : NoneOf(p, k)' <=> NoneOf(p, k)
      /\ \A K : Exactly(p, K)' <=> Exactly(p, K)
      /\ \A K, k : ExactlyBut(p, K, k)' <=> ExactlyBut(p, K, k)
  BY SameProvision
<1> QED BY <1>1 DEF ProvisionKept

\* The provision of another operation than the task's is kept.
LEMMA OtherProvisionsKept ==
    ASSUME TypeOK, Coupled, Provisioned, NEW o \in OpId, TaskStep(o),
           NEW p \in OpId, p # o, Running(p)', ops'[p].kind = "provision"
    PROVE  ProvisionKept(p)'
<1>1. /\ task'[p] = task[p] /\ ops'[p] = ops[p]
      /\ Running(p) /\ ops[p].kind = "provision"
  BY TaskIsAlone, OthersAreStored DEF Running
<1>2. anchor'[ops[p].ws] = anchor[ops[p].ws]
  BY <1>1, OthersAreStored
<1>3. ASSUME task[o].pc \in HoldsAnchor
      PROVE  Gen(o) # p
  BY <1>1, <1>3, HolderGen, RunningGen DEF Provisioned
<1>4. Same(p)
  BY <1>3, OthersAreSame DEF Provisioned
<1> QED BY <1>1, <1>2, <1>4, ProvisionFramed DEF Provisioned, ProvisionsKept

-----------------------------------------------------------------------------
(* The provision of the task itself.                                         *)

\* A running provision is kept, and what its task holds is its own.
LEMMA RunningProvision ==
    ASSUME TypeOK, Coupled, Provisioned, NEW o \in OpId, Running(o), ops[o].kind = "provision"
    PROVE  /\ ProvisionKept(o) /\ ops[o].step \in ProvisionStep
           /\ Target(ops[o].step) \in ResourceKind
           /\ task[o].pc \in HoldsAnchor =>
                /\ task[o].op = ops[o] /\ Gen(o) = o /\ KindOf(o) = Target(ops[o].step)
                /\ Wanted(o) = [gen |-> o, kind |-> Target(ops[o].step), copy |-> Good]
                /\ Listed(o) = {r \in remote : IsOf(r, o, Target(ops[o].step))}
<1>1. ProvisionKept(o) /\ ops[o].step \in ProvisionStep
  BY RunningRow DEF Provisioned, ProvisionsKept
<1>2. ASSUME task[o].pc \in HoldsAnchor
      PROVE  /\ task[o].op = ops[o] /\ Gen(o) = o /\ KindOf(o) = Target(ops[o].step)
  BY <1>1, <1>2, HolderGen DEF ProvisionKept
<1> QED BY <1>1, <1>2, TargetIsKind DEF Wanted, Listed, IsOf

\* Whatever the task does, the earlier steps stay done and the later ones have
\* not begun.
LEMMA StepMayLeaveAnything ==
    ASSUME TypeOK, Coupled, Provisioned, NEW o \in OpId, TaskStep(o), Running(o),
           ops[o].kind = "provision", NEW s, s = ops[o].step
    PROVE  ExactlyBut(o, KnownAt(s), Target(s))'
<1> DEFINE k == Target(s)
           K == KnownAt(s)
<1>1. ExactlyBut(o, K, k) /\ s \in ProvisionStep
  BY RunningProvision DEF ProvisionKept
<1>2. CASE task[o].pc \notin HoldsAnchor
  <2>1. Same(o)
    BY <1>2, OthersAreSame DEF Provisioned
  <2> QED BY <1>1, <2>1, SameProvision
<1>3. CASE task[o].pc \in HoldsAnchor
  <2>1. Touches(o, k)
    BY <1>3, RunningProvision, TaskTouches DEF Provisioned
  <2>2. CASE s \in CreateStep
    BY <1>1, <2>1, <2>2, ProvisionStepKnows, UntouchedKinds
  <2>3. CASE s \notin CreateStep
    <3>1. k = "pod" /\ k \in K
      BY <1>1, <2>3, ProvisionStepKnows DEF ProvisionStep, Target
    <3>2. remote' \subseteq remote /\ late' = late
      BY <2>3, CreatorIsProvision, TouchersHold
    <3>3. Held(o, k)'
      BY <1>1, <3>1, <3>2, Shrinking DEF ExactlyBut, ResourceKind
    <3> QED BY <1>1, <2>1, <3>1, <3>3, Untouched DEF ExactlyBut
  <2> QED BY <2>2, <2>3
<1> QED BY <1>2, <1>3

\* A provision that goes on with the step it is at is kept, if its task is.
LEMMA ProvisionGoesOn ==
    ASSUME TypeOK, Coupled, Provisioned, NEW o \in OpId, TaskStep(o), Running(o),
           ops[o].kind = "provision", NEW s, s = ops[o].step, UNCHANGED store,
           task'[o].pc \in (BodyPc \ {"save", "undo"}) \cup {"recover_observe", "recover_purge"} =>
              task'[o].rt.known = KnownAt(s),
           task'[o].pc = "create" => NoneOf(o, Target(s))',
           task'[o].pc = "save" => /\ task'[o].rt.known = KnownAfter(s)
                                   /\ Exactly(o, KnownAfter(s))'
    PROVE  ProvisionKept(o)'
<1>1. ExactlyBut(o, KnownAt(s), Target(s))'
  BY StepMayLeaveAnything
<1>2. ProvisionKept(o) /\ s \in ProvisionStep
  BY RunningProvision
<1>3. ops'[o] = ops[o] /\ anchor' = anchor
  BY DEF store
<1>4. anchor'[ops'[o].ws].gen = o /\ anchor'[ops'[o].ws].known = KnownAt(ops'[o].step)
  BY <1>2, <1>3 DEF ProvisionKept
<1> QED BY <1>1, <1>3, <1>4 DEF ProvisionKept

\* The resources a step has left are exactly those whose ids it stores, when
\* those of its own kind are.
LEMMA StepLeavesExactly ==
    ASSUME NEW o, NEW s \in ProvisionStep, s \in CreateStep,
           ExactlyBut(o, KnownAt(s), Target(s))', Held(o, Target(s))'
    PROVE  Exactly(o, KnownAfter(s))'
BY ProvisionStepKnows DEF ExactlyBut, Exactly

\* A body that created its resource, and has the answer, knows all there is.
LEMMA CreateKept ==
    ASSUME TypeOK, Coupled, Provisioned, NEW o \in OpId, Create(o),
           NEW s, s = ops[o].step
    PROVE  ProvisionKept(o)'
<1> DEFINE t == task[o]
           k == Target(s)
<1>1. t.pc = "create" /\ TaskStep(o) /\ UNCHANGED store
  BY Effects DEF CreateEffect, TaskStep, BodyStep
<1>2. /\ Running(o) /\ ops[o].kind = "provision" /\ s \in CreateStep /\ s \in ProvisionStep
      /\ Gen(o) = o /\ KindOf(o) = k /\ NoneOf(o, k)
      /\ Wanted(o) = [gen |-> o, kind |-> k, copy |-> Good]
      /\ t.rt.known = KnownAt(s)
  BY <1>1, CreatorIsProvision DEF Wanted, ProvisionStep, ProvisionKept, BodyPc
<1>3. t \in Task /\ task \in [OpId -> Task] /\ t.rt \in AttachedRuntime
  BY <1>1, TaskHolds DEF TypeOK, TaskTypeOK, BodyPc
<1>4. CASE remote' = remote \cup {Wanted(o)} /\ Learns(o) /\ UNCHANGED late
  <2>1. /\ task'[o].pc = "save" /\ task'[o].rt.known = KnownAfter(s)
    BY <1>2, <1>3, <1>4, ProvisionStepKnows DEF Learns, Knowing, Task, AttachedRuntime
  <2>2. Held(o, k)'
    BY <1>2, <1>4 DEF Held, NoneLate, NoneOf, IsOf
  <2>3. Exactly(o, KnownAfter(s))'
    BY <1>1, <1>2, <2>2, StepMayLeaveAnything, StepLeavesExactly
  <2> QED BY <1>1, <1>2, <2>1, <2>3, ProvisionGoesOn
<1>5. CASE Goto(o, "observe")
  <2>1. task'[o].pc = "observe" /\ task'[o].rt = t.rt
    BY <1>3, <1>5 DEF Goto, Task
  <2> QED BY <1>1, <1>2, <2>1, ProvisionGoesOn
<1>6. CASE BodyFails(o)
  <2>1. task'[o].pc = "fail_load_op"
    BY <1>3, <1>6 DEF BodyFails, Idle
  <2> QED BY <1>1, <1>2, <2>1, ProvisionGoesOn DEF BodyPc
<1> QED BY <1>4, <1>5, <1>6, Effects DEF CreateEffect

\* An observation that finds what was created knows all there is.
LEMMA ObserveKept ==
    ASSUME TypeOK, Coupled, Provisioned, NEW o \in OpId, Running(o),
           ops[o].kind = "provision", NEW s, s = ops[o].step,
           Observe(o) \/ RecoverObserve(o)
    PROVE  ProvisionKept(o)'
<1> DEFINE t == task[o]
           k == Target(s)
<1>1. /\ t.pc \in {"observe", "recover_observe"} /\ TaskStep(o)
      /\ UNCHANGED store /\ UNCHANGED cloud
      /\ Observe(o) => t.pc = "observe"
      /\ RecoverObserve(o) => t.pc = "recover_observe"
  BY Effects DEF ObserveEffect, RecoverObserveEffect, TaskStep, BodyStep, RecoveryStep
<1>2. /\ t.pc \in HoldsAnchor /\ t.pc \in HoldsRuntime
      /\ t.pc \in (BodyPc \ {"save", "undo"}) \cup {"recover_observe", "recover_purge"}
  BY <1>1 DEF HoldsAnchor, HoldsRuntime, BodyPc, RecoveryPc
<1>3. /\ t.op = ops[o] /\ Gen(o) = o /\ KindOf(o) = k
      /\ Wanted(o) = [gen |-> o, kind |-> k, copy |-> Good]
      /\ Listed(o) = {r \in remote : IsOf(r, o, k)}
      /\ s \in ProvisionStep /\ t.rt.known = KnownAt(s)
  BY <1>2, RunningProvision DEF ProvisionKept
<1>4. s \in CreateStep
  BY <1>1, <1>3 DEF Provisioned, PcFitsStep
<1>5. t \in Task /\ task \in [OpId -> Task] /\ t.rt \in AttachedRuntime
  BY <1>2 DEF TypeOK, TaskTypeOK
<1>6. ASSUME Listed(o) = {Wanted(o)}, t.pc = "observe",
             task' = [task EXCEPT ![o].rt = Knowing(@, KindOf(o)), ![o].pc = "save"]
      PROVE  ProvisionKept(o)'
  <2>1. task'[o].pc = "save" /\ task'[o].rt.known = KnownAfter(s)
    BY <1>3, <1>4, <1>5, <1>6, ProvisionStepKnows DEF Knowing, Task, AttachedRuntime
  <2>2. Wanted(o) \in remote /\ IsOf(Wanted(o), o, k)
    BY <1>3, <1>6 DEF IsOf
  <2>3. NoneLate(o, k)
    BY <2>2 DEF NoneLate, Provisioned, RequestedOnce, IsOf
  <2>4. Held(o, k)'
    BY <1>1, <1>3, <1>6, <2>2, <2>3 DEF Held, NoneLate, cloud
  <2>5. Exactly(o, KnownAfter(s))'
    BY <1>1, <1>3, <1>4, <2>4, StepMayLeaveAnything, StepLeavesExactly
  <2> QED BY <1>1, <2>1, <2>5, ProvisionGoesOn
<1>7. ASSUME task'[o].rt = t.rt, task'[o].pc \in {"purge", "recover_purge"}
      PROVE  ProvisionKept(o)'
  BY <1>1, <1>3, <1>7, ProvisionGoesOn
<1>8. ASSUME task'[o].pc \in {"fail_load_op", "recover_save"}
      PROVE  ProvisionKept(o)'
  BY <1>1, <1>8, ProvisionGoesOn DEF BodyPc
<1>9. CASE Observe(o)
  <2>1. ObserveEffect(o)
    BY <1>9, Effects
  <2> QED
    BY <1>1, <1>3, <1>5, <1>6, <1>7, <1>8, <2>1 DEF ObserveEffect, BodyFails, Idle, Task
<1>10. CASE RecoverObserve(o)
  <2>1. RecoverObserveEffect(o)
    BY <1>10, Effects
  <2> QED BY <1>5, <1>7, <1>8, <2>1 DEF RecoverObserveEffect, Goto, Task
<1> QED BY <1>9, <1>10

\* The provisioner pod of a provision is gone when its deletion is done.
LEMMA DeleteKept ==
    ASSUME TypeOK, Coupled, Provisioned, NEW o \in OpId, Running(o),
           ops[o].kind = "provision", NEW s, s = ops[o].step, Delete(o)
    PROVE  ProvisionKept(o)'
<1> DEFINE t == task[o]
<1>1. t.pc = "delete" /\ TaskStep(o) /\ UNCHANGED store
  BY Effects DEF DeleteEffect, TaskStep, BodyStep
<1>2. t.pc \in HoldsAnchor
  BY <1>1 DEF HoldsAnchor, BodyPc
<1>3. /\ t.op = ops[o] /\ KindOf(o) = Target(s) /\ t.rt.known = KnownAt(s)
      /\ Wanted(o) = [gen |-> o, kind |-> Target(s), copy |-> Good]
      /\ ExactlyBut(o, KnownAt(s), Target(s)) /\ s \in ProvisionStep
  BY <1>1, <1>2, RunningProvision DEF ProvisionKept, BodyPc
<1>4. s = "terminate_provisioner_pod"
  BY <1>1, <1>3 DEF Provisioned, PcFitsStep
<1>5. /\ Target(s) = "pod" /\ "pod" \in KnownAt(s) /\ KnownAfter(s) = KnownAt(s) \ {"pod"}
  BY <1>3, <1>4, ProvisionStepKnows
<1>6. t \in Task /\ task \in [OpId -> Task] /\ t.rt \in AttachedRuntime
  BY <1>1, TaskHolds DEF TypeOK, TaskTypeOK, BodyPc
<1>7. CASE /\ remote' = remote \ {Wanted(o)}
           /\ task' = [task EXCEPT ![o].rt = Forgetting(@, KindOf(o)), ![o].pc = "save"]
  <2>1. task'[o].pc = "save" /\ task'[o].rt.known = KnownAfter(s)
    BY <1>3, <1>5, <1>6, <1>7 DEF Forgetting, Task, AttachedRuntime
  <2>2. Held(o, "pod") /\ remote \subseteq Resource /\ late' = late
    BY <1>3, <1>5, Effects DEF ExactlyBut, ResourceKind, TypeOK, CloudTypeOK, DeleteEffect
  <2>3. \A r \in remote : IsOf(r, o, "pod") => r = Wanted(o)
    BY <1>3, <1>5, <2>2 DEF Held, IsOf, Resource
  <2>4. NoneOf(o, "pod")'
    BY <1>7, <2>2, <2>3 DEF NoneOf, Held, NoneLate
  <2>5. ExactlyBut(o, KnownAt(s), "pod")'
    BY <1>1, <1>5, StepMayLeaveAnything
  <2>6. Exactly(o, KnownAfter(s))'
    BY <1>5, <2>4, <2>5 DEF Exactly, ExactlyBut
  <2> QED BY <1>1, <2>1, <2>6, ProvisionGoesOn
<1>8. CASE BodyFails(o)
  <2>1. task'[o].pc = "fail_load_op"
    BY <1>6, <1>8 DEF BodyFails, Idle
  <2> QED BY <1>1, <2>1, ProvisionGoesOn DEF BodyPc
<1> QED BY <1>7, <1>8, Effects DEF DeleteEffect

\* The pod a body has waited for is there when the wait is over.
LEMMA WaitKept ==
    ASSUME TypeOK, Coupled, Provisioned, NEW o \in OpId, Running(o),
           ops[o].kind = "provision", NEW s, s = ops[o].step, Wait(o)
    PROVE  ProvisionKept(o)'
<1> DEFINE t == task[o]
<1>1. t.pc = "wait" /\ TaskStep(o) /\ UNCHANGED store
  BY DEF Wait, TaskStep, BodyStep
<1>2. t.pc \in HoldsAnchor
  BY <1>1 DEF HoldsAnchor, BodyPc
<1>3. t.op = ops[o] /\ t.rt.known = KnownAt(s) /\ s \in ProvisionStep
  BY <1>1, <1>2, RunningProvision DEF ProvisionKept, BodyPc
<1>4. s = "poll_provisioner"
  BY <1>1, <1>3 DEF Provisioned, PcFitsStep
<1>5. t \in Task /\ task \in [OpId -> Task]
  BY DEF TypeOK, TaskTypeOK
<1>6. CASE Goto(o, "save")
  <2>1. task'[o].pc = "save" /\ task'[o].rt = t.rt
    BY <1>5, <1>6 DEF Goto, Task
  <2>2. ExactlyBut(o, KnownAt(s), Target(s))'
    BY <1>1, StepMayLeaveAnything
  <2>3. Exactly(o, KnownAfter(s))'
    BY <1>3, <1>4, <2>2, ProvisionStepKnows DEF Exactly, ExactlyBut
  <2> QED BY <1>1, <1>3, <1>4, <2>1, <2>3, ProvisionStepKnows, ProvisionGoesOn
<1>7. CASE BodyFails(o)
  <2>1. task'[o].pc = "fail_load_op"
    BY <1>5, <1>7 DEF BodyFails, Idle
  <2> QED BY <1>1, <2>1, ProvisionGoesOn DEF BodyPc
<1> QED BY <1>6, <1>7 DEF Wait

\* A body that has saved its step begins the next one with what it has.
LEMMA SaveKept ==
    ASSUME TypeOK, Coupled, Provisioned, NEW o \in OpId, Running(o),
           ops[o].kind = "provision", NEW s, s = ops[o].step, task[o].pc = "save",
           Saved(o, NextOperation(o), NextRuntime(o)), s \notin LastStep, UNCHANGED cloud,
           \/ task' = [task EXCEPT ![o] = Entered(NextOperation(o), NextRuntime(o))]
           \/ BodyFails(o)
    PROVE  ProvisionKept(o)'
<1> DEFINE t == task[o]
           n == NextStep(s)
<1>1. t.pc \in HoldsAnchor
  BY DEF HoldsAnchor, BodyPc
<1>2. /\ t.op = ops[o] /\ t.rt.gen = o /\ t.rt.known = KnownAfter(s)
      /\ Exactly(o, KnownAfter(s)) /\ s \in ProvisionStep
  BY <1>1, RunningProvision DEF ProvisionKept, Gen
<1>3. /\ KnownAt(n) = KnownAfter(s) /\ n \in ProvisionStep
      /\ n \in CreateStep => Target(n) \notin KnownAfter(s)
  BY <1>2, ProvisionStepLeadsOn DEF LastStep
<1>4. /\ NextOperation(o) \in Row /\ StepOfKind(NextOperation(o))
      /\ NextOperation(o) = [ops[o] EXCEPT !.step = n]
      /\ NextRuntime(o) = t.rt
  BY <1>2, NextIsEntered
<1>5. task \in [OpId -> Task]
  BY DEF TypeOK, TaskTypeOK
<1>6. ops[o] \in Row /\ ops[o].ws \in Workspace
  BY RunningRow
<1>7. /\ ops'[o].ws = ops[o].ws /\ ops'[o].step = n
      /\ anchor'[ops[o].ws] = t.rt
  BY <1>4, <1>6 DEF Saved, TypeOK, StoreTypeOK, Row
<1>8. Same(o)
  BY DEF Same, cloud
<1>9. Exactly(o, KnownAt(n))'
  BY <1>2, <1>3, <1>8, SameProvision
<1>10. ExactlyBut(o, KnownAt(n), Target(n))'
  BY <1>9 DEF Exactly, ExactlyBut
<1>11. /\ task'[o].pc \in {"create", "wait", "delete", "observe", "fail_load_op"}
       /\ task'[o].pc # "fail_load_op" => task'[o].rt = t.rt
       /\ task'[o].pc = "create" => n \in CreateStep
  <2>1. CASE BodyFails(o)
    BY <1>5, <2>1 DEF BodyFails, Idle
  <2>2. CASE task'[o] = Entered(NextOperation(o), NextRuntime(o))
    <3>1. NextOperation(o).step = n /\ NextOperation(o).kind = "provision"
      BY <1>1, <1>4, <1>6, HolderKnows DEF Row
    <3>2. NextOperation(o) \in Row /\ StepOfKind(NextOperation(o))
      BY <1>4
    <3>3. /\ task'[o].pc \in {"create", "wait", "delete", "observe", "save"}
          /\ task'[o].rt = NextRuntime(o)
          /\ task'[o].pc = "create" => NextOperation(o).step \in CreateStep
          /\ task'[o].pc = "save" => NextOperation(o).kind = "cleanup"
      BY <2>2, <3>2, EnteredFits
    <3> QED BY <1>4, <3>1, <3>3
  <2> QED BY <1>5, <2>1, <2>2
<1>12. task'[o].pc = "create" => NoneOf(o, Target(n))'
  BY <1>3, <1>9, <1>11, TargetIsKind DEF Exactly
<1> QED BY <1>2, <1>3, <1>7, <1>10, <1>11, <1>12 DEF ProvisionKept, BodyPc

\* A provision that still runs is kept, whatever its own task does.
LEMMA OwnProvisionKept ==
    ASSUME TypeOK, Coupled, Provisioned, Next, NEW o \in OpId, TaskStep(o), Running(o)',
           ops'[o].kind = "provision"
    PROVE  ProvisionKept(o)'
<1> DEFINE t == task[o]
<1>1. Running(o) /\ ops[o].kind = "provision"
  <2>1. ops[o] # NoOperation
    BY OthersAreStored DEF store, Running, NoOperation
  <2> QED BY <2>1, RowsKeep
<1>2. ASSUME NEW s, s = ops[o].step
      PROVE  ProvisionKept(o)'
  <2>1. t \in Task /\ task \in [OpId -> Task]
    BY DEF TypeOK, TaskTypeOK
  <2>2. ASSUME UNCHANGED store,
               task'[o].pc \in {"undo", "recover_save", "idle"} \cup SupervisorPc
        PROVE  ProvisionKept(o)'
    BY <1>1, <1>2, <2>2, ProvisionGoesOn DEF BodyPc, SupervisorPc
  <2>3. /\ BodyFails(o) => task'[o].pc = "fail_load_op"
        /\ TaskEnds(o) => task'[o].pc = "idle"
        /\ \A pc : Goto(o, pc) => task'[o].pc = pc
    BY <2>1 DEF BodyFails, TaskEnds, Idle, Goto, Task
  <2>4. CASE Create(o) \/ Observe(o) \/ RecoverObserve(o) \/ Delete(o) \/ Wait(o)
    BY <1>1, <1>2, <2>4, CreateKept, ObserveKept, DeleteKept, WaitKept
  <2>5. CASE Purge(o)
    <3>1. t.op.kind # "cleanup"
      BY <1>1, <2>5, RunningProvision DEF Purge, HoldsAnchor, BodyPc
    <3> QED BY <2>2, <2>3, <2>5, <3>1 DEF Purge, SupervisorPc
  <2>6. CASE Undo(o) \/ Deadline(o)
    BY <2>2, <2>3, <2>6, Effects DEF UndoEffect, Deadline, SupervisorPc
  <2>7. ~(t.pc = "adopt")
    BY <1>1, RunningProvision DEF HoldsAnchor, BodyPc, Provisioned, PcFitsStep
  <2>8. ASSUME t.pc = "save", Saved(o, NextOperation(o), NextRuntime(o))
        PROVE  t.op.step \notin LastStep /\ t.op = ops[o]
    <3>1. t.op = ops[o] /\ ops[o] \in Row
      BY <1>1, <2>8, RunningProvision, RunningRow DEF HoldsAnchor, BodyPc
    <3>2. ops'[o] = Advance(ops[o])
      BY <2>8, <3>1 DEF Saved, NextOperation, TypeOK, StoreTypeOK
    <3> QED BY <3>1, <3>2 DEF Advance, Running, Row
  <2>9. CASE Save(o)
    <3>1. CASE /\ t.pc = "save" /\ Saved(o, NextOperation(o), NextRuntime(o))
               /\ UNCHANGED cloud
               /\ IF t.op.step \in LastStep THEN TaskEnds(o)
                  ELSE task' = [task EXCEPT ![o] = Entered(NextOperation(o), NextRuntime(o))]
      BY <1>1, <1>2, <2>8, <3>1, SaveKept
    <3>2. CASE /\ SaveRefused(o, NextOperation(o), NextRuntime(o))
               /\ IF t.op.step \in CreateStep THEN Goto(o, "undo") ELSE BodyFails(o)
      BY <2>2, <2>3, <3>2 DEF SaveRefused, SupervisorPc
    <3> QED BY <2>9, <3>1, <3>2 DEF Save
  <2>10. CASE DeadlineInCommit(o)
    BY <1>1, <1>2, <2>7, <2>8, <2>10, SaveKept DEF DeadlineInCommit
  <2>11. CASE SupervisorStep(o)
    <3>1. FailureSaved(o) => ops'[o].state = "failed"
      BY <2>1 DEF FailureSaved, Saved, TypeOK, StoreTypeOK, Fail, Operation, Row, CanFail,
                  NoOperation, Task
    <3>2. ~FailureSaved(o)
      BY <3>1 DEF Running
    <3>3. UNCHANGED store
      BY <2>11, <3>2
      DEF SupervisorStep, FailLoadOp, FailLoadWs, FailSave, FailureRefused, SaveRefused
    <3>4. task'[o].pc \in {"idle"} \cup SupervisorPc
      BY <2>1, <2>3, <2>11
      DEF SupervisorStep, FailLoadOp, FailLoadWs, FailSave, Abandon, SupervisorPc, Task
    <3> QED BY <2>2, <3>3, <3>4
  <2>12. CASE RecoverLoad(o)
    <3>1. CASE TaskEnds(o)
      BY <2>2, <2>3, <2>12, <3>1 DEF RecoverLoad
    <3>2. ASSUME NEW pc \in {"recover_observe", "recover_save"},
                 task' = [task EXCEPT ![o] = [pc |-> pc, op |-> ops[o],
                                              rt |-> anchor[ops[o].ws], ids |-> {}]]
          PROVE  ProvisionKept(o)'
      <4>1. task'[o].pc = pc /\ task'[o].rt.known = KnownAt(s)
        BY <1>1, <1>2, <2>1, <3>2, RunningProvision DEF ProvisionKept
      <4>2. UNCHANGED store
        BY <2>12 DEF RecoverLoad
      <4> QED BY <1>1, <1>2, <4>1, <4>2, ProvisionGoesOn DEF BodyPc
    <3> QED BY <2>12, <3>1, <3>2 DEF RecoverLoad, Abandon
  <2>13. CASE RecoverPurge(o)
    BY <2>1, <2>2, <2>13 DEF RecoverPurge, Task
  <2>14. CASE RecoverSave(o)
    <3>1. FailureSaved(o) => ops'[o].state = "failed"
      BY <2>1 DEF FailureSaved, Saved, TypeOK, StoreTypeOK, Fail, Operation, Row, CanFail,
                  NoOperation, Task
    <3>2. ~FailureSaved(o)
      BY <3>1 DEF Running
    <3> QED
      BY <2>2, <2>3, <2>14, <3>2 DEF RecoverSave, Abandon, FailureRefused, SaveRefused
  <2> QED
    BY <2>4, <2>5, <2>6, <2>7, <2>9, <2>10, <2>11, <2>12, <2>13, <2>14
    DEF TaskStep, BodyStep, RecoveryStep, Adopt
<1> QED BY <1>2

-----------------------------------------------------------------------------
(* A ready runtime, and the invariant.                                       *)

\* A body that saves asks nothing of RunPod.
LEMMA SaversTouchNothing ==
    ASSUME NEW o \in OpId, TaskStep(o), task[o].pc = "save"
    PROVE  UNCHANGED cloud
BY Effects
DEF TaskStep, BodyStep, SupervisorStep, RecoveryStep, CreateEffect, ObserveEffect, Purge,
    Wait, DeleteEffect, Adopt, Save, UndoEffect, FailLoadOp, FailLoadWs, FailSave,
    RecoverLoad, RecoverObserveEffect, RecoverPurge, RecoverSave, Deadline,
    DeadlineInCommit

\* A runtime becomes ready with the resources its record names, and no task
\* touches them as long as it is.
LEMMA TaskKeepsReady ==
    ASSUME TypeOK, Coupled, Provisioned, NEW o \in OpId, TaskStep(o)
    PROVE  ReadyKept'
<1> SUFFICES ASSUME NEW w \in Workspace, anchor'[w].state = "ready"
             PROVE  anchor'[w].known = ReadyKinds
                    /\ \A g : g = anchor'[w].gen => Exactly(g, ReadyKinds)'
  <2>1. ASSUME NEW w \in Workspace, \A g : g = anchor'[w].gen => Exactly(g, ReadyKinds)'
        PROVE  Exactly(anchor[w].gen, ReadyKinds)'
    BY <2>1 DEF Exactly, Held, NoneOf, NoneLate
  <2> QED BY <2>1 DEF ReadyKept
<1>1. CASE anchor'[w] = anchor[w]
  <2> DEFINE g == anchor[w].gen
  <2>1. anchor[w].known = ReadyKinds /\ Exactly(g, ReadyKinds)
    BY <1>1 DEF Provisioned, ReadyKept
  <2>2. ASSUME task[o].pc \in HoldsAnchor
        PROVE  Gen(o) # g
    <3>1. /\ Running(o) /\ Gen(o) = anchor[ops[o].ws].gen
          /\ anchor[ops[o].ws].state = BusyState(ops[o].kind)
      BY <2>2, HolderGen, RunningRow
    <3>2. anchor[ops[o].ws].state # "ready"
      BY <3>1 DEF BusyState
    <3> QED BY <1>1, <3>1, <3>2, RunningGen DEF Provisioned
  <2>3. ASSUME NEW h, h = g
        PROVE  Exactly(h, ReadyKinds)'
    BY <2>1, <2>2, <2>3, OthersAreSame, SameProvision DEF Provisioned
  <2> QED BY <1>1, <2>1, <2>3
<1>2. CASE anchor'[w] # anchor[w]
  <2>1. w = ops[o].ws /\ ~UNCHANGED store /\ Running(o)
    BY <1>2, OthersAreStored DEF store
  <2>2. PICK rt \in AttachedRuntime :
          /\ rt.gen = anchor[w].gen /\ rt.known = task[o].rt.known /\ rt.state = "ready"
          /\ ops[o].kind = "provision" /\ task[o].pc = "save"
          /\ ops[o].step = "create_endpoint" /\ Stores(o, "succeeded", rt)
    <3>1. /\ anchor[w].state \in Busy
          /\ \A rt, state : Stores(o, state, rt) => anchor'[w] = rt
      BY <2>1, RunningRow DEF BusyState, Busy, Stores, TypeOK, StoreTypeOK
    <3>2. ~Detaches(o)
      BY <3>1 DEF Detaches, Detached
    <3> QED BY <2>1, <3>1, <3>2, TaskStores DEF Stays, Busy
  <2>3. /\ rt.known = KnownAfter("create_endpoint") /\ anchor[w].gen = o
        /\ Exactly(o, KnownAfter("create_endpoint"))
    BY <2>1, <2>2, RunningProvision DEF ProvisionKept
  <2>4. anchor'[w] = rt
    BY <2>1, <2>2 DEF Stores, TypeOK, StoreTypeOK
  <2>5. Same(o)
    BY <2>2, SaversTouchNothing DEF Same, cloud
  <2>6. KnownAfter("create_endpoint") = ReadyKinds
    BY DEF KnownAfter
  <2>7. Exactly(o, ReadyKinds)'
    BY <2>3, <2>5, <2>6, SameProvision
  <2> QED BY <2>2, <2>3, <2>4, <2>6, <2>7
<1> QED BY <1>1, <1>2

\* A step of a task.
LEMMA TaskKeepsProvisioned ==
    ASSUME TypeOK, Coupled, Provisioned, Next, NEW o \in OpId, TaskStep(o)
    PROVE  Provisioned'
<1>1. RequestedOnce' /\ Originated' /\ ReadyKept'
  BY TaskRequestsOnce, TaskKeepsOriginated, TaskKeepsReady DEF Provisioned
<1>2. ASSUME NEW p \in OpId
      PROVE  PcFitsStep(p)'
  <2>1. PcFitsStep(p)
    BY DEF Provisioned
  <2>2. CASE p = o
    BY <2>1, <2>2, TaskFits
  <2>3. CASE p # o
    <3>1. task'[p] = task[p]
      BY <2>3, TaskIsAlone
    <3> QED BY <2>1, <3>1 DEF PcFitsStep, Gen, KindOf
  <2> QED BY <2>2, <2>3
<1>3. ProvisionsKept'
  BY OwnProvisionKept, OtherProvisionsKept DEF ProvisionsKept
<1> QED BY <1>1, <1>2, <1>3 DEF Provisioned

\* RunPod executes a request late: of what nobody counts on being gone or whole.
LEMMA LateKeeps ==
    ASSUME RequestedOnce, UNCHANGED cloud \/ \E r \in late : LateCreate(r), NEW g
    PROVE  /\ RequestedOnce'
           /\ \A k : NoneOf(g, k) => NoneOf(g, k)'
           /\ \A K : Exactly(g, K) => Exactly(g, K)'
           /\ \A K, k : ExactlyBut(g, K, k) => ExactlyBut(g, K, k)'
<1>1. PICK r : \/ UNCHANGED cloud
               \/ r \in late /\ late' = late \ {r} /\ remote' \in {remote, remote \cup {r}}
  BY DEF LateCreate
<1>2. RequestedOnce'
  BY <1>1 DEF cloud, RequestedOnce, IsOf
<1>3. \A k : NoneOf(g, k) => NoneOf(g, k)'
  BY <1>1 DEF cloud, NoneOf
<1>4. \A k : Held(g, k) => Held(g, k)'
  BY <1>1 DEF cloud, Held, NoneLate
<1> QED BY <1>2, <1>3, <1>4 DEF Exactly, ExactlyBut

\* A step that changes no row, runtime or task.
LEMMA QuietKeepsProvisioned ==
    ASSUME Provisioned, Originated', UNCHANGED <<anchor, ops>>,
           UNCHANGED cloud \/ \E r \in late : LateCreate(r),
           UNCHANGED task \/ task' = [o \in OpId |-> Idle]
    PROVE  Provisioned'
<1>1. \A o \in OpId : task'[o] = task[o] \/ task'[o] = Idle
  OBVIOUS
<1>2. RequestedOnce'
  BY LateKeeps DEF Provisioned
<1>3. \A o \in OpId : PcFitsStep(o)'
  BY <1>1 DEF Provisioned, PcFitsStep, Gen, KindOf, Idle
<1>4. ASSUME NEW o \in OpId, Running(o)', ops'[o].kind = "provision"
      PROVE  ProvisionKept(o)'
  <2>1. ProvisionKept(o)
    BY <1>4 DEF Running, Provisioned, ProvisionsKept
  <2>2. /\ \A k : NoneOf(o, k) => NoneOf(o, k)'
        /\ \A K : Exactly(o, K) => Exactly(o, K)'
        /\ \A K, k : ExactlyBut(o, K, k) => ExactlyBut(o, K, k)'
    BY LateKeeps DEF Provisioned
  <2>3. CASE task'[o] = task[o]
    BY <2>1, <2>2, <2>3 DEF ProvisionKept
  <2>4. CASE task'[o] = Idle
    BY <2>1, <2>2, <2>4 DEF ProvisionKept, Idle, BodyPc
  <2> QED BY <1>1, <2>3, <2>4
<1>5. ReadyKept'
  BY LateKeeps DEF Provisioned, ReadyKept
<1> QED BY <1>2, <1>3, <1>4, <1>5 DEF Provisioned, ProvisionsKept

\* A provision is admitted with nothing of it there yet.
LEMMA AdmittedKept ==
    ASSUME TypeOK, Provisioned, NEW c \in Caller, NEW o \in OpId,
           NEW op \in Row, NEW rt \in AttachedRuntime, Admits(c, o, op, rt),
           op.ws \in Workspace, op.kind = "provision"
    PROVE  ProvisionKept(o)'
<1>1. /\ op.step = "create_network_volume" /\ rt.gen = o /\ rt.known = {} /\ rt = NewProvisioning(o)
  BY DEF Admits, ProvisionOf, CleanupOf, NewProvisioning
<1>2. KnownAt("create_network_volume") = {}
  BY DEF KnownAt
<1>3. /\ ops'[o] = op /\ anchor'[op.ws] = rt /\ task'[o] = Entered(op, rt)
      /\ remote' = remote /\ late' = late
  BY DEF Admits, TypeOK, StoreTypeOK, TaskTypeOK
<1>4. \A k : NoneOf(o, k)'
  BY <1>3
  DEF Provisioned, Originated, ResourcesAreProvisions, NoneOf, IsOf, Admits, NoOperation
<1>5. ExactlyBut(o, {}, Target(op.step))'
  BY <1>4 DEF ExactlyBut
<1>6. task'[o].pc = "create" /\ task'[o].rt = rt
  BY <1>1, <1>3 DEF Entered, EntryPc, CreateStep
<1>7. NoneOf(o, Target(op.step))'
  BY <1>4
<1> QED BY <1>1, <1>2, <1>3, <1>5, <1>6, <1>7 DEF ProvisionKept

\* The rows, the runtimes and the resources of the others are as they were.
LEMMA AdmittedAlone ==
    ASSUME TypeOK, Coupled, NEW c \in Caller, NEW o \in OpId,
           NEW op \in Row, NEW rt \in AttachedRuntime, Admits(c, o, op, rt), op.ws \in Workspace
    PROVE  /\ \A w \in Workspace : w # op.ws => anchor'[w] = anchor[w]
           /\ anchor'[op.ws] = rt /\ ops'[o] = op
           /\ \A h : Same(h)
           /\ \A p \in OpId : p # o =>
                /\ ops'[p] = ops[p] /\ task'[p] = task[p]
                /\ Running(p) => /\ anchor'[ops[p].ws] = anchor[ops[p].ws]
                                 /\ ops[p].ws # op.ws
<1>1. /\ \A w \in Workspace : w # op.ws => anchor'[w] = anchor[w]
      /\ anchor'[op.ws] = rt /\ ops'[o] = op
      /\ \A p \in OpId : p # o => ops'[p] = ops[p] /\ task'[p] = task[p]
  BY DEF Admits, TypeOK, StoreTypeOK, TaskTypeOK
<1>2. \A h : Same(h)
  BY DEF Admits, Same
<1>3. ASSUME NEW p \in OpId, Running(p)
      PROVE  ops[p].ws \in Workspace /\ ops[p].ws # op.ws
  <2>1. ops[p].ws \in Workspace /\ anchor[ops[p].ws].state \in Busy
    BY <1>3, RunningRow DEF BusyState, Busy
  <2>2. anchor[op.ws].state \notin Busy
    BY DEF Admits, Detached, Settled, Busy
  <2> QED BY <2>1, <2>2
<1> QED BY <1>1, <1>2, <1>3

\* The admission of an operation.
LEMMA AdmitKeepsProvisioned ==
    ASSUME TypeOK, Coupled, Provisioned, Next, NEW c \in Caller, NEW o \in OpId,
           ProvisionAdmit(c, o) \/ CleanupAdmit(c, o)
    PROVE  Provisioned'
<1>1. PICK op \in Row, rt \in AttachedRuntime : Admits(c, o, op, rt) /\ op.ws \in Workspace
  BY Admission
<1>2. /\ \A w \in Workspace : w # op.ws => anchor'[w] = anchor[w]
      /\ anchor'[op.ws] = rt /\ ops'[o] = op
      /\ \A h : Same(h)
      /\ \A p \in OpId : p # o =>
           /\ ops'[p] = ops[p] /\ task'[p] = task[p]
           /\ Running(p) => anchor'[ops[p].ws] = anchor[ops[p].ws]
  BY <1>1, AdmittedAlone
<1>3. RequestedOnce'
  BY <1>1 DEF Admits, Provisioned, RequestedOnce
<1>4. Originated'
  BY AdmitKeepsOriginated DEF Provisioned
<1>5. ASSUME NEW p \in OpId
      PROVE  PcFitsStep(p)'
  <2>1. CASE p = o
    <3>1. task'[o] = Entered(op, rt) /\ StepOfKind(op)
      BY <1>1 DEF Admits, TypeOK, TaskTypeOK, StepOfKind, ProvisionOf, CleanupOf,
                  ProvisionStep, CreateStep, CleanupStep
    <3> QED BY <2>1, <3>1, EnteredFits
  <2>2. CASE p # o
    BY <1>2, <2>2 DEF Provisioned, PcFitsStep, Gen, KindOf
  <2> QED BY <2>1, <2>2
<1>6. ASSUME NEW p \in OpId, Running(p)', ops'[p].kind = "provision"
      PROVE  ProvisionKept(p)'
  <2>1. CASE p = o
    BY <1>1, <1>2, <1>6, <2>1, AdmittedKept
  <2>2. CASE p # o
    <3>1. Running(p) /\ ops[p].kind = "provision"
      BY <1>2, <1>6, <2>2 DEF Running
    <3> QED BY <1>2, <2>2, <3>1, ProvisionFramed DEF Provisioned, ProvisionsKept
  <2> QED BY <2>1, <2>2
<1>7. ReadyKept'
  <2> SUFFICES ASSUME NEW w \in Workspace, anchor'[w].state = "ready"
               PROVE  anchor'[w].known = ReadyKinds
                      /\ \A g : g = anchor'[w].gen => Exactly(g, ReadyKinds)'
    <3>1. ASSUME NEW w \in Workspace, \A g : g = anchor'[w].gen => Exactly(g, ReadyKinds)'
          PROVE  Exactly(anchor[w].gen, ReadyKinds)'
      BY <3>1 DEF Exactly, Held, NoneOf, NoneLate
    <3> QED BY <3>1 DEF ReadyKept
  <2>1. w # op.ws
    BY <1>1, <1>2, AdmitKeepsOriginated
    DEF Admits, NewProvisioning, Provisioned, Originated, CallsAreProvisions
  <2>2. anchor'[w] = anchor[w]
    BY <1>2, <2>1
  <2>3. anchor[w].known = ReadyKinds /\ Exactly(anchor[w].gen, ReadyKinds)
    BY <2>2 DEF Provisioned, ReadyKept
  <2>4. ASSUME NEW h, h = anchor[w].gen
        PROVE  Exactly(h, ReadyKinds)'
    BY <1>2, <2>3, <2>4, SameProvision
  <2> QED BY <2>2, <2>3, <2>4
<1> QED BY <1>3, <1>4, <1>5, <1>6, <1>7 DEF Provisioned, ProvisionsKept

\* Every step.
LEMMA StepKeepsProvisioned == TypeOK /\ Coupled /\ Provisioned /\ [Next]_vars => Provisioned'
<1> SUFFICES ASSUME TypeOK, Coupled, Provisioned, [Next]_vars
             PROVE  Provisioned'
  OBVIOUS
<1>1. Originated'
  BY StepKeepsOriginated DEF Provisioned
<1>2. CASE UNCHANGED vars
  BY <1>1, <1>2, QuietKeepsProvisioned DEF vars, store, process
<1>3. CASE Next
  BY <1>1, <1>3, OtherSteps, TaskKeepsProvisioned, AdmitKeepsProvisioned, QuietKeepsProvisioned
<1> QED BY <1>2, <1>3

\* Nothing is provisioned at first.
LEMMA InitIsProvisioned == Init => Provisioned
<1> SUFFICES ASSUME Init PROVE Provisioned
  OBVIOUS
<1>1. /\ remote = {} /\ late = {}
      /\ \A o \in OpId : ~Running(o) /\ task[o].pc = "idle"
      /\ \A w \in Workspace : anchor[w].state = "none"
      /\ \A c \in Caller : callers[c].pc = "idle"
  BY DEF Init, Running, NoOperation, Idle, Detached, NoCall
<1>2. RequestedOnce /\ Originated
  BY <1>1 DEF RequestedOnce, Originated, AnchorsAreProvisions, CallsAreProvisions,
              ResourcesAreProvisions
<1>3. \A o \in OpId : PcFitsStep(o)
  BY <1>1 DEF PcFitsStep
<1> QED BY <1>1, <1>2, <1>3 DEF Provisioned, ProvisionsKept, ReadyKept

\* At every moment the resources of a provision are those its durable record
\* implies, and perhaps some of the kind its current step is creating.
THEOREM AlwaysProvisioned == Spec => []Provisioned
BY TypeCorrect, AlwaysCoupled, InitIsProvisioned, StepKeepsProvisioned, PTL DEF Spec

\* A runtime is ready only when the volume, the template and the endpoint it
\* names exist and its provisioner pod is gone, whatever requests were lost,
\* repeated or executed late, and whatever crashed, while it was provisioned.
THEOREM ReadyStaysWhole == Spec => []ReadyIsWhole
<1>1. Provisioned => ReadyIsWhole
  <2> SUFFICES ASSUME Provisioned, NEW w \in Workspace, anchor[w].state = "ready"
               PROVE  LET Has(k) == [gen |-> anchor[w].gen, kind |-> k, copy |-> Good] \in remote
                      IN /\ anchor[w].known = {"volume", "template", "endpoint"}
                         /\ \A k \in anchor[w].known : Has(k)
                         /\ ~Has("pod")
    BY DEF ReadyIsWhole
  <2>1. anchor[w].known = ReadyKinds /\ Exactly(anchor[w].gen, ReadyKinds)
    BY DEF Provisioned, ReadyKept
  <2>2. ReadyKinds \subseteq ResourceKind \ {"pod"} /\ "pod" \in ResourceKind
    BY DEF ReadyKinds, ResourceKind
  <2>3. \A k \in ReadyKinds : [gen |-> anchor[w].gen, kind |-> k, copy |-> Good] \in remote
    BY <2>1, <2>2 DEF Exactly, Held
  <2>4. [gen |-> anchor[w].gen, kind |-> "pod", copy |-> Good] \notin remote
    BY <2>1, <2>2 DEF Exactly, NoneOf, IsOf
  <2> QED BY <2>1, <2>3, <2>4 DEF ReadyKinds
<1> QED BY <1>1, AlwaysProvisioned, PTL

-----------------------------------------------------------------------------
(* Every resource can be found from the record of its runtime.               *)

\* Located asks only for the provision of rt and the ids it holds.
LEMMA LocatedByKnown ==
    ASSUME NEW rt, NEW other, other.gen = rt.gen, other.known = rt.known, Located(rt)
    PROVE  Located(other)
BY DEF Located

\* What is found stays found when nothing is added.
LEMMA LocatedShrinks ==
    ASSUME remote' \cup late' \subseteq remote \cup late, NEW rt, Located(rt)
    PROVE  Located(rt)'
BY DEF Located

\* A step of a task leaves what is found from a record findable, if the step
\* does not create or the record is the one of its step.
LEMMA TaskLeavesLocated ==
    ASSUME TypeOK, Coupled, Provisioned, NEW o \in OpId, TaskStep(o), NEW rt, Located(rt),
           task[o].pc = "create" /\ rt.gen = o => rt.known = KnownAt(ops[o].step)
    PROVE  Located(rt)'
<1>1. CASE remote' \subseteq remote /\ late' = late
  BY <1>1, LocatedShrinks
<1>2. CASE task[o].pc = "create"
  <2> DEFINE k == Target(ops[o].step)
  <2>1. /\ Running(o) /\ ops[o].kind = "provision" /\ ops[o].step \in CreateStep
        /\ Gen(o) = o /\ KindOf(o) = k
    BY <1>2, CreatorIsProvision
  <2>2. k \notin KnownAt(ops[o].step) /\ ObservedThrough(k) \subseteq KnownAt(ops[o].step)
    BY <2>1, ProvisionStepKnows DEF ProvisionStep
  <2>3. Touches(o, k)
    BY <2>1, TaskTouches DEF Provisioned
  <2>4. \A r \in remote' \cup late' : r \in remote \cup late \/ IsOf(r, o, k)
    BY <2>3 DEF Touches
  <2> QED BY <1>2, <2>2, <2>4 DEF Located, IsOf
<1> QED BY <1>1, <1>2, TouchersHold

\* A body that learns the id of the resource it created.
LEMMA CreateLocates ==
    ASSUME TypeOK, Coupled, Provisioned, NEW o \in OpId, task[o].pc = "create",
           Located(task[o].rt), remote' = remote \cup {Wanted(o)}, UNCHANGED late,
           NEW rt, rt = Knowing(task[o].rt, KindOf(o))
    PROVE  Located(rt)'
<1> DEFINE k == KindOf(o)
           g == Gen(o)
<1>1. task[o].rt \in AttachedRuntime /\ k \in ResourceKind
  BY TaskHolds DEF TypeOK, BodyPc
<1>2. rt.gen = g /\ rt.known = task[o].rt.known \cup {k}
  BY <1>1 DEF Knowing, AttachedRuntime, Gen
<1>3. NoneOf(g, k)
  BY CreatorIsProvision
<1>4. Wanted(o) = [gen |-> g, kind |-> k, copy |-> Good]
  BY DEF Wanted
<1> QED BY <1>2, <1>3, <1>4 DEF Located, NoneOf, IsOf, Gen

\* A body or a recovery that learns the id an observation found.
LEMMA ObserveLocates ==
    ASSUME Provisioned, NEW o \in OpId, task[o].rt \in AttachedRuntime,
           Located(task[o].rt), Listed(o) = {Wanted(o)}, UNCHANGED cloud,
           NEW rt, rt = Knowing(task[o].rt, KindOf(o))
    PROVE  Located(rt)'
<1> DEFINE k == KindOf(o)
           g == Gen(o)
<1>1. rt.gen = g /\ rt.known = task[o].rt.known \cup {k}
  BY DEF Knowing, AttachedRuntime, Gen
<1>2. /\ Wanted(o) \in remote /\ IsOf(Wanted(o), g, k) /\ Wanted(o).copy = Good
      /\ \A r \in remote : IsOf(r, g, k) => r = Wanted(o)
  BY DEF Listed, IsOf, Wanted
<1>3. \A r \in late : ~IsOf(r, g, k)
  BY <1>2 DEF Provisioned, RequestedOnce, IsOf
<1>4. remote' = remote /\ late' = late
  BY DEF cloud
<1>5. \A r \in remote \cup late : r.gen = g => IF r.kind \in task[o].rt.known THEN r.copy = Good
                                 ELSE ObservedThrough(r.kind) \subseteq task[o].rt.known
  BY DEF Located, Gen
<1> QED BY <1>1, <1>2, <1>3, <1>4, <1>5 DEF Located, IsOf

\* Of a resource that is deleted nothing is left.
LEMMA DeleteLeavesNone ==
    ASSUME TypeOK, NEW o \in OpId, KindOf(o) \in task[o].rt.known, Located(task[o].rt),
           NoneLate(Gen(o), KindOf(o)), remote' = remote \ {Wanted(o)}, UNCHANGED late,
           NEW g, g = Gen(o), NEW k, k = KindOf(o)
    PROVE  NoneOf(g, k)'
<1>1. \A r \in remote : IsOf(r, g, k) => r = Wanted(o)
  <2>1. \A r \in remote : IsOf(r, g, k) => r.copy = Good
    BY DEF Located, IsOf, Gen
  <2>2. remote \subseteq Resource
    BY DEF TypeOK, CloudTypeOK
  <2> QED BY <2>1, <2>2 DEF Wanted, IsOf, Resource
<1> QED BY <1>1 DEF NoneOf, NoneLate

\* A body that forgets the id of a resource that is gone, when no observation
\* of what is left needs it.
LEMMA DeleteLocates ==
    ASSUME NEW o \in OpId, task[o].rt \in AttachedRuntime, Located(task[o].rt),
           remote' \subseteq remote, late' = late, NEW g, g = Gen(o), NEW k, k = KindOf(o),
           NoneOf(g, k)', \A r \in remote \cup late :
              r.gen = g => k \notin ObservedThrough(r.kind),
           NEW rt, rt = Forgetting(task[o].rt, KindOf(o))
    PROVE  Located(rt)'
<1>1. rt.gen = g /\ rt.known = task[o].rt.known \ {k}
  BY DEF Forgetting, AttachedRuntime, Gen
<1>2. \A r \in remote' \cup late' : r.gen = g => r.kind # k
  BY DEF NoneOf, IsOf
<1>3. \A r \in remote' \cup late' : r.gen = g => k \notin ObservedThrough(r.kind)
  OBVIOUS
<1>4. \A r \in remote' \cup late' : r.gen = g =>
         IF r.kind \in task[o].rt.known THEN r.copy = Good
                                        ELSE ObservedThrough(r.kind) \subseteq task[o].rt.known
  BY DEF Located, Gen
<1> QED BY <1>1, <1>2, <1>3, <1>4 DEF Located

-----------------------------------------------------------------------------
(* A cleanup.                                                                *)

\* A body that has entered a step of a cleanup deletes a resource whose id it
\* holds, looks for one whose id it does not, and skips what is not there.
LEMMA EnteredCleans ==
    ASSUME TypeOK, NEW op \in Row, NEW rt, StepOfKind(op), op.kind = "cleanup", Located(rt),
           NEW o \in OpId, task'[o] = Entered(op, rt)
    PROVE  /\ task'[o].pc \in {"delete", "observe", "save"}
           /\ task'[o].pc = "delete" => Target(op.step) \in rt.known
           /\ task'[o].pc = "save" => NoneOf(rt.gen, Target(op.step))
<1> DEFINE k == Target(op.step)
<1>1. op.step \in CleanupStep
  BY DEF StepOfKind
<1>2. /\ op.step \notin CreateStep /\ op.step # "poll_provisioner"
      /\ op.step # "terminate_provisioner_pod"
  BY <1>1 DEF CleanupStep, CreateStep
<1>3. /\ k \in rt.known => task'[o].pc = "delete"
      /\ k \notin rt.known /\ ObservedThrough(k) \subseteq rt.known => task'[o].pc = "observe"
      /\ k \notin rt.known /\ ~(ObservedThrough(k) \subseteq rt.known) => task'[o].pc = "save"
  BY <1>2 DEF Entered, EntryPc
<1>4. ~(k \in rt.known) /\ ~(ObservedThrough(k) \subseteq rt.known) => NoneOf(rt.gen, k)
  BY DEF Located, NoneOf, IsOf
<1> QED BY <1>3, <1>4

\* A running cleanup is kept, and what its task holds is its runtime.
LEMMA RunningCleanup ==
    ASSUME TypeOK, Coupled, Cleanable, NEW o \in OpId, Running(o), ops[o].kind = "cleanup"
    PROVE  /\ CleanupKept(o) /\ ops[o].step \in CleanupStep
           /\ task[o].pc \in HoldsAnchor =>
                /\ task[o].op = ops[o] /\ KindOf(o) = Target(ops[o].step)
                /\ Gen(o) = anchor[ops[o].ws].gen /\ Located(task[o].rt)
                /\ task[o].rt \in AttachedRuntime
<1>1. CleanupKept(o) /\ ops[o].step \in CleanupStep
  BY RunningRow DEF Cleanable, CleanupsKept
<1>2. task[o].pc \in HoldsAnchor => Located(task[o].rt)
  BY DEF Cleanable, AllLocated
<1> QED BY <1>1, <1>2, HolderGen

\* A task that deletes a resource leaves none of its kind, and none that only
\* its id would find.
LEMMA DeleterClears ==
    ASSUME TypeOK, Coupled, Provisioned, Cleanable, NEW o \in OpId, task[o].pc = "delete"
    PROVE  /\ task[o].rt \in AttachedRuntime /\ Located(task[o].rt)
           /\ KindOf(o) \in task[o].rt.known /\ NoneLate(Gen(o), KindOf(o))
           /\ \A r \in remote \cup late :
                 r.gen = Gen(o) => KindOf(o) \notin ObservedThrough(r.kind)
<1> DEFINE s == ops[o].step
           k == Target(s)
<1>1. task[o].pc \in HoldsAnchor
  BY DEF HoldsAnchor, BodyPc
<1>2. /\ Running(o) /\ task[o].op = ops[o] /\ task[o].rt \in AttachedRuntime
      /\ KindOf(o) = k /\ Gen(o) = anchor[ops[o].ws].gen
  BY <1>1, HolderGen
<1>3. Located(task[o].rt)
  BY <1>1 DEF Cleanable, AllLocated
<1>4. \A r \in remote \cup late : r.kind \in ResourceKind
  BY DEF TypeOK, CloudTypeOK, Resource
<1>5. CASE ops[o].kind = "provision"
  <2>1. s = "terminate_provisioner_pod"
    BY <1>2, <1>5 DEF Provisioned, PcFitsStep
  <2>2. /\ ExactlyBut(o, KnownAt(s), k) /\ task[o].rt.known = KnownAt(s) /\ Gen(o) = o
        /\ s \in ProvisionStep
    BY <1>1, <1>2, <1>5, RunningProvision DEF ProvisionKept, BodyPc
  <2>3. k = "pod" /\ k \in KnownAt(s)
    BY <2>1, <2>2, ProvisionStepKnows
  <2>4. NoneLate(o, k)
    BY <2>2, <2>3 DEF ExactlyBut, Held, ResourceKind
  <2>5. \A j : "pod" \notin ObservedThrough(j)
    BY DEF ObservedThrough
  <2> QED BY <1>2, <1>3, <2>2, <2>3, <2>4, <2>5
<1>6. CASE ops[o].kind = "cleanup"
  <2>1. CleanupKept(o) /\ s \in CleanupStep
    BY <1>2, <1>6, RunningCleanup
  <2>2. k \in task[o].rt.known /\ (\A r \in late : r.gen # Gen(o))
        /\ \A j \in GoneAt(s) : NoneOf(Gen(o), j)
    BY <1>2, <2>1 DEF CleanupKept
  <2>3. \A j \in ResourceKind : k \in ObservedThrough(j) => j \in GoneAt(s)
    BY <2>1, CleanupStepLeadsOn
  <2>4. \A r \in remote \cup late : r.gen = Gen(o) => k \notin ObservedThrough(r.kind)
    BY <1>4, <2>2, <2>3 DEF NoneOf, IsOf
  <2> QED BY <1>2, <1>3, <2>2, <2>4 DEF NoneLate, IsOf
<1> QED BY <1>2, <1>5, <1>6, RunningRow

\* The record a task holds after its step still finds every resource.
LEMMA OwnLocated ==
    ASSUME TypeOK, Coupled, Provisioned, Cleanable, NEW o \in OpId, TaskStep(o),
           task'[o].pc \in HoldsAnchor, NEW rt, rt = task'[o].rt
    PROVE  Located(rt)'
<1> DEFINE t == task[o]
<1>1. t \in Task /\ task \in [OpId -> Task]
  BY DEF TypeOK, TaskTypeOK
<1>2. ASSUME t.pc \in HoldsAnchor, rt.gen = t.rt.gen, rt.known = t.rt.known
      PROVE  Located(rt)'
  <2>1. Located(t.rt)
    BY <1>2 DEF Cleanable, AllLocated
  <2>2. Located(rt)
    BY <1>2, <2>1, LocatedByKnown
  <2>3. ASSUME t.pc = "create"
        PROVE  t.rt.known = KnownAt(ops[o].step)
    BY <2>3, CreatorIsProvision DEF ProvisionKept, BodyPc
  <2> QED BY <1>2, <2>2, <2>3, TaskLeavesLocated
<1>3. ASSUME NEW w \in Workspace, rt = anchor[w], t.pc # "create"
      PROVE  Located(rt)'
  <2>1. Located(rt)
    BY <1>3 DEF Cleanable, AllLocated
  <2> QED BY <1>3, <2>1, TaskLeavesLocated
<1>4. /\ BodyFails(o) => task'[o].pc \notin HoldsAnchor
      /\ TaskEnds(o) => task'[o].pc \notin HoldsAnchor
      /\ \A pc : Goto(o, pc) => task'[o].rt = t.rt
  BY <1>1 DEF BodyFails, TaskEnds, Idle, Goto, Task, HoldsAnchor, BodyPc, RecoveryPc
<1>5. CASE Create(o)
  <2>1. t.pc = "create" /\ t.pc \in HoldsAnchor
    BY <1>5, Effects DEF CreateEffect, HoldsAnchor, BodyPc
  <2>2. CASE remote' = remote \cup {Wanted(o)} /\ Learns(o) /\ UNCHANGED late
    <3>1. rt = Knowing(t.rt, KindOf(o))
      BY <1>1, <2>2 DEF Learns, Task
    <3>2. Located(t.rt)
      BY <2>1 DEF Cleanable, AllLocated
    <3> QED BY <2>1, <2>2, <3>1, <3>2, CreateLocates
  <2> QED BY <1>2, <1>4, <1>5, <2>1, <2>2, Effects DEF CreateEffect
<1>6. CASE Observe(o) \/ RecoverObserve(o)
  <2>1. /\ t.pc \in HoldsAnchor /\ t.pc \in HoldsRuntime /\ UNCHANGED cloud
    BY <1>6, Effects
    DEF ObserveEffect, RecoverObserveEffect, HoldsAnchor, HoldsRuntime, BodyPc, RecoveryPc
  <2>2. t.rt \in AttachedRuntime /\ Located(t.rt)
    BY <2>1 DEF TypeOK, TaskTypeOK, Cleanable, AllLocated
  <2>3. \/ rt = t.rt
        \/ Listed(o) = {Wanted(o)} /\ rt = Knowing(t.rt, KindOf(o))
    <3>1. ObserveEffect(o) \/ RecoverObserveEffect(o)
      BY <1>6, Effects
    <3> QED BY <1>1, <1>4, <3>1 DEF ObserveEffect, RecoverObserveEffect, Task
  <2> QED BY <1>2, <2>1, <2>2, <2>3, ObserveLocates
<1>7. CASE Delete(o)
  <2>1. /\ t.pc = "delete" /\ remote' = remote \ {Wanted(o)} /\ UNCHANGED late
        /\ rt = Forgetting(t.rt, KindOf(o))
    BY <1>1, <1>4, <1>7, Effects DEF DeleteEffect, Task
  <2>2. /\ t.rt \in AttachedRuntime /\ Located(t.rt)
        /\ KindOf(o) \in t.rt.known /\ NoneLate(Gen(o), KindOf(o))
        /\ \A r \in remote \cup late :
              r.gen = Gen(o) => KindOf(o) \notin ObservedThrough(r.kind)
    BY <2>1, DeleterClears
  <2>3. ASSUME NEW g, g = Gen(o), NEW k, k = KindOf(o)
        PROVE  NoneOf(g, k)'
    BY <2>1, <2>2, <2>3, DeleteLeavesNone
  <2>4. remote' \subseteq remote /\ late' = late
    BY <2>1
  <2> QED BY <2>1, <2>2, <2>3, <2>4, DeleteLocates
<1>8. CASE Purge(o) \/ Wait(o) \/ Adopt(o) \/ Undo(o) \/ Deadline(o) \/ DeadlineInCommit(o)
           \/ RecoverPurge(o)
  <2>1. t.pc \in HoldsAnchor
    BY <1>8, Effects
    DEF Purge, Wait, Adopt, UndoEffect, Deadline, DeadlineInCommit, RecoverPurge,
        HoldsAnchor, BodyPc, RecoveryPc
  <2>2. rt = t.rt
    BY <1>1, <1>4, <1>8, Effects
    DEF Purge, Wait, Adopt, UndoEffect, Deadline, DeadlineInCommit, RecoverPurge, Task
  <2> QED BY <1>2, <2>1, <2>2
<1>9. CASE Save(o)
  <2>1. t.pc = "save" /\ t.pc \in HoldsAnchor
    BY <1>9 DEF Save, HoldsAnchor, BodyPc
  <2>2. rt = t.rt
    <3>1. ASSUME t.op.step \notin LastStep,
                 task' = [task EXCEPT ![o] = Entered(NextOperation(o), NextRuntime(o))]
          PROVE  rt = t.rt
      BY <1>1, <2>1, <3>1, NextIsEntered DEF Entered
    <3> QED BY <1>4, <1>9, <3>1 DEF Save
  <2> QED BY <1>2, <2>1, <2>2
<1>10. CASE SupervisorStep(o)
  <2>1. task'[o].pc # "fail_save" => task'[o].pc \notin HoldsAnchor
    BY <1>1, <1>4, <1>10
    DEF SupervisorStep, FailLoadOp, FailLoadWs, FailSave, Abandon, HoldsAnchor, BodyPc,
        RecoveryPc, Task
  <2>2. t.pc = "fail_load_ws" /\ rt = anchor[t.op.ws]
    BY <1>1, <1>4, <1>10, <2>1
    DEF SupervisorStep, FailLoadOp, FailLoadWs, FailSave, Abandon, Task
  <2>3. t.op.ws \in Workspace
    BY <2>2 DEF TypeOK, TaskTypeOK, HoldsRow, Row
  <2> QED BY <1>3, <2>2, <2>3
<1>11. CASE RecoverLoad(o)
  <2>1. t.pc = "idle" /\ ops[o].ws \in Workspace
    BY <1>11 DEF RecoverLoad, Idle, TypeOK, ProcessTypeOK, Row
  <2>2. rt = anchor[ops[o].ws]
    BY <1>1, <1>4, <1>11 DEF RecoverLoad, Abandon
  <2> QED BY <1>3, <2>1, <2>2
<1>12. CASE RecoverSave(o)
  BY <1>4, <1>12 DEF RecoverSave, Abandon
<1> QED
  BY <1>5, <1>6, <1>7, <1>8, <1>9, <1>10, <1>11, <1>12
  DEF TaskStep, BodyStep, RecoveryStep

\* The record of an attached runtime after a step of a task.
LEMMA AnchorLocated ==
    ASSUME TypeOK, Coupled, Provisioned, Cleanable, NEW o \in OpId, TaskStep(o),
           NEW w \in Workspace, NEW rt, rt = anchor'[w]
    PROVE  Located(rt)'
<1>1. CASE rt = anchor[w]
  <2>1. Located(rt)
    BY <1>1 DEF Cleanable, AllLocated
  <2>2. ASSUME task[o].pc = "create", rt.gen = o
        PROVE  rt.known = KnownAt(ops[o].step)
    <3>1. /\ Running(o) /\ ProvisionKept(o)
      BY <2>2, CreatorIsProvision
    <3>2. anchor[ops[o].ws].gen = o /\ anchor[ops[o].ws].known = KnownAt(ops[o].step)
      BY <3>1 DEF ProvisionKept
    <3>3. w = ops[o].ws
      BY <1>1, <2>2, <3>1, <3>2, RunningGen DEF Provisioned
    <3> QED BY <1>1, <3>2, <3>3
  <2> QED BY <2>1, <2>2, TaskLeavesLocated
<1>2. CASE rt # anchor[w]
  <2>1. w = ops[o].ws /\ ~UNCHANGED store
    BY <1>2, OthersAreStored DEF store
  <2>2. \A state, x : Stores(o, state, x) => rt = x
    BY <2>1 DEF Stores, TypeOK, StoreTypeOK
  <2>3. CASE Stays(o)
    <3>1. /\ rt.gen = anchor[w].gen /\ rt.known = task[o].rt.known
          /\ task[o].pc \in {"save", "adopt", "fail_save", "recover_save"}
      BY <2>1, <2>2, <2>3 DEF Stays
    <3>2. task[o].pc \in HoldsAnchor /\ task[o].pc # "create"
      BY <3>1 DEF HoldsAnchor, BodyPc, RecoveryPc
    <3>3. Located(task[o].rt) /\ rt.gen = task[o].rt.gen
      BY <2>1, <3>1, <3>2, HolderGen DEF Cleanable, AllLocated, Gen
    <3>4. Located(rt)
      BY <3>1, <3>3, LocatedByKnown
    <3> QED BY <3>2, <3>4, TaskLeavesLocated
  <2>4. CASE Detaches(o)
    <3>1. rt = Detached /\ task[o].pc = "save"
      BY <2>2, <2>4 DEF Detaches
    <3>2. \A r \in remote' \cup late' : r.gen \in OpId
      BY <3>1, SaversTouchNothing DEF cloud, TypeOK, CloudTypeOK, Resource
    <3> QED BY <3>1, <3>2, PlaceholderAssumption DEF Located, Detached
  <2> QED BY <2>1, <2>3, <2>4, TaskStores
<1> QED BY <1>1, <1>2

\* Whatever a task does, every resource can be found from each record of its
\* runtime: the one attached, the one a pending cleanup has read, and the one a
\* task holds.
LEMMA TaskKeepsLocated ==
    ASSUME TypeOK, Coupled, Provisioned, Cleanable, NEW o \in OpId, TaskStep(o)
    PROVE  AllLocated'
<1>1. \A rt : \A w \in Workspace : rt = anchor'[w] => Located(rt)'
  BY AnchorLocated
<1>2. ASSUME NEW c \in Caller, callers'[c].pc = "cleanup", NEW rt, rt = callers'[c].rt
      PROVE  Located(rt)'
  <2>1. callers' = callers
    BY Effects
    DEF TaskStep, BodyStep, SupervisorStep, RecoveryStep, CreateEffect, ObserveEffect,
        Purge, Wait, DeleteEffect, Adopt, Save, UndoEffect, FailLoadOp, FailLoadWs,
        FailSave, RecoverLoad, RecoverObserveEffect, RecoverPurge, RecoverSave, Deadline,
        DeadlineInCommit
  <2>2. Located(rt) /\ ~Running(rt.gen)
    BY <1>2, <2>1 DEF Cleanable, AllLocated, Provisioned, Originated, CallsAreProvisions
  <2>3. task[o].pc = "create" => rt.gen # o
    BY <2>2, CreatorIsProvision
  <2> QED BY <2>2, <2>3, TaskLeavesLocated
<1>3. ASSUME NEW p \in OpId, task'[p].pc \in HoldsAnchor, NEW rt, rt = task'[p].rt
      PROVE  Located(rt)'
  <2>1. CASE p = o
    BY <1>3, <2>1, OwnLocated
  <2>2. CASE p # o
    <3>1. rt = task[p].rt /\ task[p].pc \in HoldsAnchor
      BY <1>3, <2>2, TaskIsAlone
    <3>2. Located(rt) /\ Running(p) /\ rt.gen = anchor[ops[p].ws].gen
      BY <3>1, HolderGen DEF Cleanable, AllLocated, Gen
    <3>3. ASSUME task[o].pc = "create"
          PROVE  rt.gen # o
      <4>1. Running(o) /\ ProvisionKept(o)
        BY <3>3, CreatorIsProvision
      <4>2. anchor[ops[o].ws].gen = o
        BY <4>1 DEF ProvisionKept
      <4> QED BY <2>2, <3>2, <4>1, <4>2, RunningGen DEF Provisioned
    <3> QED BY <3>2, <3>3, TaskLeavesLocated
  <2> QED BY <2>1, <2>2
<1>4. ASSUME NEW w \in Workspace
      PROVE  Located(anchor[w])'
  BY <1>1, <1>4 DEF Located
<1>5. ASSUME NEW c \in Caller, callers'[c].pc = "cleanup"
      PROVE  Located(callers[c].rt)'
  BY <1>2, <1>5 DEF Located
<1>6. ASSUME NEW p \in OpId, task'[p].pc \in HoldsAnchor
      PROVE  Located(task[p].rt)'
  BY <1>3, <1>6 DEF Located
<1> QED BY <1>4, <1>5, <1>6 DEF AllLocated

\* A cleanup whose row, runtime, task and resources are as they were is kept.
LEMMA CleanupFramed ==
    ASSUME NEW p \in OpId, CleanupKept(p), ops'[p] = ops[p], task'[p] = task[p],
           anchor'[ops[p].ws] = anchor[ops[p].ws], NEW g, g = anchor[ops[p].ws].gen, Same(g)
    PROVE  CleanupKept(p)'
<1>1. /\ \A r \in late' : r.gen # g
      /\ \A r \in remote' : r.gen = g => r \in remote
      /\ \A k : NoneOf(g, k) => NoneOf(g, k)'
  <2>1. \A k : NoneOf(g, k) => NoneOf(g, k)'
    BY SameProvision
  <2> QED BY <2>1 DEF CleanupKept, Same
<1>2. \A k : NoneOf(g, k)' => NoneOf(anchor[ops[p].ws].gen, k)'
  BY DEF NoneOf
<1> QED BY <1>1, <1>2 DEF CleanupKept, IsOf

\* The cleanup of another operation than the task's is kept.
LEMMA OtherCleanupsKept ==
    ASSUME TypeOK, Coupled, Provisioned, Cleanable, NEW o \in OpId, TaskStep(o),
           NEW p \in OpId, p # o, Running(p)', ops'[p].kind = "cleanup"
    PROVE  CleanupKept(p)'
<1>1. /\ task'[p] = task[p] /\ ops'[p] = ops[p]
      /\ Running(p) /\ ops[p].kind = "cleanup"
  BY TaskIsAlone, OthersAreStored DEF Running
<1>2. anchor'[ops[p].ws] = anchor[ops[p].ws]
  BY <1>1, OthersAreStored
<1>3. ASSUME NEW g, g = anchor[ops[p].ws].gen, task[o].pc \in HoldsAnchor
      PROVE  Gen(o) # g
  BY <1>1, <1>3, HolderGen, RunningGen DEF Provisioned
<1>4. ASSUME NEW g, g = anchor[ops[p].ws].gen
      PROVE  Same(g)
  BY <1>3, <1>4, OthersAreSame DEF Provisioned
<1> QED BY <1>1, <1>2, <1>4, CleanupFramed DEF Cleanable, CleanupsKept

\* A cleanup only deletes, and nothing of its runtime comes late.
LEMMA CleanupShrinks ==
    ASSUME TypeOK, Coupled, Provisioned, Cleanable, NEW o \in OpId, TaskStep(o), Running(o),
           ops[o].kind = "cleanup", NEW g, g = anchor[ops[o].ws].gen
    PROVE  /\ remote' \subseteq remote /\ late' = late
           /\ \A r \in late : r.gen # g
           /\ \A k : NoneOf(g, k) => NoneOf(g, k)'
           /\ \A j \in GoneAt(ops[o].step) : NoneOf(g, j)
<1>1. task[o].pc # "create"
  BY CreatorIsProvision
<1>2. remote' \subseteq remote /\ late' = late
  BY <1>1, TouchersHold
<1> QED BY <1>2, Shrinking, RunningCleanup DEF CleanupKept

\* A cleanup that goes on with the step it is at is kept, if its task is.
LEMMA CleanupGoesOn ==
    ASSUME TypeOK, Coupled, Provisioned, Cleanable, NEW o \in OpId, TaskStep(o), Running(o),
           ops[o].kind = "cleanup", NEW s, s = ops[o].step,
           NEW g, g = anchor[ops[o].ws].gen,
           ops'[o].step = s, anchor'[ops'[o].ws].gen = g,
           task'[o].pc = "save" => NoneOf(g, Target(s))',
           task'[o].pc = "purge" =>
              \A r \in remote' : IsOf(r, g, Target(s)) => r \in task'[o].ids,
           task'[o].pc \in {"adopt", "delete"} => Target(s) \in task'[o].rt.known
    PROVE  CleanupKept(o)'
<1>1. /\ \A r \in late' : r.gen # g
      /\ \A j \in GoneAt(s) : NoneOf(g, j)'
  BY CleanupShrinks
<1>2. \A k : NoneOf(g, k)' => NoneOf(anchor[ops[o].ws].gen, k)'
  BY DEF NoneOf
<1> QED BY <1>1, <1>2 DEF CleanupKept, IsOf

\* A cleanup that has saved its step enters the next one, or is aborted there.
LEMMA CleanupAdvances ==
    ASSUME TypeOK, Coupled, Provisioned, Cleanable, NEW o \in OpId, TaskStep(o), Running(o)',
           ops[o].kind = "cleanup", task[o].pc = "save",
           Saved(o, NextOperation(o), NextRuntime(o)),
           \/ task'[o].pc \in {"idle", "fail_load_op"}
           \/ task'[o] = Entered(NextOperation(o), NextRuntime(o)),
           NEW g, g = Gen(o), NEW s, s = ops[o].step, NEW t, t = NextStep(s)
    PROVE  CleanupKept(o)'
<1>1. task[o].pc \in HoldsAnchor
  BY DEF HoldsAnchor, BodyPc
<1>2. /\ Running(o) /\ task[o].op = ops[o] /\ ops[o] \in Row /\ ops[o].ws \in Workspace
      /\ s \in CleanupStep /\ CleanupKept(o)
      /\ task[o].rt \in AttachedRuntime /\ Located(task[o].rt)
      /\ Gen(o) = anchor[ops[o].ws].gen
  BY <1>1, HolderGen, RunningCleanup, RunningRow
<1>3. ops' = [ops EXCEPT ![o] = NextOperation(o)]
      /\ anchor' = [anchor EXCEPT ![NextOperation(o).ws] = NextRuntime(o)]
  BY DEF Saved
<1>4. s # "delete_network_volume"
  <2>1. s \in LastStep => NextOperation(o).state = "succeeded"
    BY <1>2 DEF NextOperation, Advance, Row
  <2>2. NextOperation(o).state = "running"
    BY <1>3 DEF Running, TypeOK, StoreTypeOK
  <2> QED BY <2>1, <2>2 DEF LastStep
<1>5. s \notin LastStep
  BY <1>2, <1>4 DEF LastStep, CleanupStep
<1>6. /\ NextOperation(o) \in Row /\ StepOfKind(NextOperation(o))
      /\ NextOperation(o) = [ops[o] EXCEPT !.step = t]
      /\ NextRuntime(o) = task[o].rt
  BY <1>2, <1>5, NextIsEntered
<1>7. /\ NextOperation(o).step = t /\ NextOperation(o).kind = "cleanup"
      /\ NextOperation(o).ws = ops[o].ws
  BY <1>2, <1>6 DEF Row
<1>8. /\ ops'[o] = NextOperation(o) /\ anchor'[ops[o].ws] = task[o].rt
  BY <1>2, <1>3, <1>6, <1>7 DEF TypeOK, StoreTypeOK
<1>9. UNCHANGED cloud
  BY SaversTouchNothing
<1>10. /\ \A r \in late' : r.gen # g
       /\ \A j \in GoneAt(t) : NoneOf(g, j)'
  <2>1. /\ \A r \in late : r.gen # g
        /\ \A j \in GoneAt(s) \cup {Target(s)} : NoneOf(g, j)
    BY <1>2 DEF CleanupKept
  <2>2. GoneAt(t) \subseteq GoneAt(s) \cup {Target(s)}
    BY <1>2, <1>4, CleanupStepLeadsOn
  <2> QED BY <1>9, <2>1, <2>2 DEF cloud, NoneOf
<1>11. /\ task'[o].pc = "save" => NoneOf(g, Target(t))'
       /\ task'[o].pc # "purge" /\ task'[o].pc # "adopt"
       /\ task'[o].pc = "delete" => Target(t) \in task'[o].rt.known
  <2>1. CASE task'[o].pc \in {"idle", "fail_load_op"}
    BY <2>1
  <2>2. CASE task'[o] = Entered(NextOperation(o), NextRuntime(o))
    <3>1. /\ NextOperation(o) \in Row /\ StepOfKind(NextOperation(o))
          /\ NextRuntime(o) = task[o].rt
      BY <1>6
    <3>2. /\ task'[o].pc \in {"delete", "observe", "save"}
          /\ task'[o].pc = "delete" => Target(t) \in task[o].rt.known
          /\ task'[o].pc = "save" => NoneOf(task[o].rt.gen, Target(t))
      BY <1>2, <1>7, <2>2, <3>1, EnteredCleans
    <3>3. task'[o].rt = task[o].rt
      BY <2>2, <3>1 DEF Entered
    <3>4. NoneOf(g, Target(t)) => NoneOf(g, Target(t))'
      BY <1>9 DEF cloud, NoneOf
    <3> QED BY <3>2, <3>3, <3>4 DEF Gen
  <2> QED BY <2>1, <2>2
<1>12. \A k : NoneOf(g, k)' => NoneOf(anchor[ops[o].ws].gen, k)'
  <2>1. anchor'[ops'[o].ws].gen = g
    BY <1>7, <1>8 DEF Gen
  <2> QED BY <2>1 DEF NoneOf
<1> QED BY <1>7, <1>8, <1>10, <1>11, <1>12 DEF CleanupKept, Gen

\* A cleanup that has looked for what has no id knows whether there is any.
LEMMA CleanupObserves ==
    ASSUME TypeOK, Coupled, Provisioned, Cleanable, NEW o \in OpId, Observe(o), Running(o),
           ops[o].kind = "cleanup", NEW s, s = ops[o].step, NEW g, g = anchor[ops[o].ws].gen
    PROVE  CleanupKept(o)'
<1> DEFINE k == Target(s)
<1>1. /\ task[o].pc = "observe" /\ task[o].pc \in HoldsAnchor /\ TaskStep(o)
      /\ UNCHANGED store /\ UNCHANGED cloud
  BY Effects DEF ObserveEffect, HoldsAnchor, BodyPc, TaskStep, BodyStep
<1>2. /\ task[o].op = ops[o] /\ KindOf(o) = k /\ Gen(o) = g
      /\ task[o].rt \in AttachedRuntime
  BY <1>1, RunningCleanup
<1>3. task \in [OpId -> Task] /\ task[o] \in Task
  BY DEF TypeOK, TaskTypeOK
<1>4. \A r \in late : r.gen # g
  BY CleanupShrinks, <1>1
<1>5. Listed(o) = {r \in remote : IsOf(r, g, k)}
  BY <1>2 DEF Listed, IsOf
<1>6. ops'[o].step = s /\ anchor'[ops'[o].ws].gen = g
  BY <1>1 DEF store
<1>7. CASE Listed(o) = {} /\ Goto(o, "save")
  <2>1. task'[o].pc = "save"
    BY <1>3, <1>7 DEF Goto, Task
  <2>2. NoneOf(g, k)'
    BY <1>1, <1>4, <1>5, <1>7 DEF cloud, NoneOf, IsOf
  <2> QED BY <1>1, <1>6, <2>1, <2>2, CleanupGoesOn
<1>8. CASE task' = [task EXCEPT ![o].rt = Knowing(@, KindOf(o)), ![o].pc = "adopt"]
  <2>1. task'[o].pc = "adopt" /\ task'[o].rt = Knowing(task[o].rt, k)
    BY <1>2, <1>3, <1>8 DEF Task
  <2>2. k \in Knowing(task[o].rt, k).known
    BY <1>2 DEF Knowing, AttachedRuntime
  <2> QED BY <1>1, <1>6, <2>1, <2>2, CleanupGoesOn
<1>9. CASE task' = [task EXCEPT ![o].ids = Listed(o), ![o].pc = "purge"]
  <2>1. task'[o].pc = "purge" /\ task'[o].ids = Listed(o)
    BY <1>3, <1>9 DEF Task
  <2>2. \A r \in remote' : IsOf(r, g, k) => r \in task'[o].ids
    BY <1>1, <1>5, <2>1 DEF cloud
  <2> QED BY <1>1, <1>6, <2>1, <2>2, CleanupGoesOn
<1>10. CASE BodyFails(o)
  <2>1. task'[o].pc = "fail_load_op"
    BY <1>3, <1>10 DEF BodyFails, Idle
  <2> QED BY <1>1, <1>6, <2>1, CleanupGoesOn
<1>11. task[o].op.kind = "cleanup"
  BY <1>2
<1> QED BY <1>7, <1>8, <1>9, <1>10, <1>11, Effects DEF ObserveEffect

\* A cleanup that has deleted what it found, or what it had the id of, has
\* nothing of that kind left.
LEMMA CleanupDeletes ==
    ASSUME TypeOK, Coupled, Provisioned, Cleanable, NEW o \in OpId, Purge(o) \/ Delete(o),
           Running(o), ops[o].kind = "cleanup", NEW s, s = ops[o].step,
           NEW g, g = anchor[ops[o].ws].gen
    PROVE  CleanupKept(o)'
<1> DEFINE k == Target(s)
<1>1. /\ task[o].pc \in {"purge", "delete"} /\ task[o].pc \in HoldsAnchor /\ TaskStep(o)
      /\ UNCHANGED store
  BY Effects DEF Purge, DeleteEffect, HoldsAnchor, BodyPc, TaskStep, BodyStep
<1>2. /\ task[o].op = ops[o] /\ KindOf(o) = k /\ Gen(o) = g
      /\ task[o].rt \in AttachedRuntime /\ CleanupKept(o)
  BY <1>1, RunningCleanup
<1>3. task \in [OpId -> Task] /\ task[o] \in Task
  BY DEF TypeOK, TaskTypeOK
<1>4. \A r \in late : r.gen # g
  BY CleanupShrinks, <1>1
<1>5. ops'[o].step = s /\ anchor'[ops'[o].ws].gen = g
  BY <1>1 DEF store
<1>6. CASE BodyFails(o)
  <2>1. task'[o].pc = "fail_load_op"
    BY <1>3, <1>6 DEF BodyFails, Idle
  <2> QED BY <1>1, <1>5, <2>1, CleanupGoesOn
<1>7. ASSUME Purge(o), ~BodyFails(o)
      PROVE  CleanupKept(o)'
  <2>1. /\ task[o].pc = "purge" /\ remote' = remote \ task[o].ids /\ late' = late
        /\ task' = [task EXCEPT ![o].ids = {}, ![o].pc = "save"]
    BY <1>2, <1>7 DEF Purge
  <2>2. \A r \in remote : IsOf(r, g, k) => r \in task[o].ids
    BY <1>2, <2>1 DEF CleanupKept
  <2>3. NoneOf(g, k)'
    BY <1>4, <2>1, <2>2 DEF NoneOf, IsOf
  <2>4. task'[o].pc = "save"
    BY <1>3, <2>1 DEF Task
  <2> QED BY <1>1, <1>5, <2>3, <2>4, CleanupGoesOn
<1>8. ASSUME Delete(o), ~BodyFails(o)
      PROVE  CleanupKept(o)'
  <2>1. /\ task[o].pc = "delete" /\ remote' = remote \ {Wanted(o)} /\ late' = late
        /\ task' = [task EXCEPT ![o].rt = Forgetting(@, KindOf(o)), ![o].pc = "save"]
    BY <1>8, Effects DEF DeleteEffect
  <2>2. KindOf(o) \in task[o].rt.known /\ Located(task[o].rt) /\ NoneLate(Gen(o), KindOf(o))
    BY <2>1, DeleterClears
  <2>3. NoneOf(g, k)'
    BY <1>2, <2>1, <2>2, DeleteLeavesNone
  <2>4. task'[o].pc = "save"
    BY <1>3, <2>1 DEF Task
  <2> QED BY <1>1, <1>5, <2>3, <2>4, CleanupGoesOn
<1> QED BY <1>6, <1>7, <1>8

\* The cleanup of the task itself is kept.
LEMMA OwnCleanupKept ==
    ASSUME TypeOK, Coupled, Provisioned, Cleanable, NEW o \in OpId, TaskStep(o), Running(o)',
           ops'[o].kind = "cleanup", NEW s, s = ops[o].step, NEW g, g = anchor[ops[o].ws].gen
    PROVE  CleanupKept(o)'
<1> DEFINE t == task[o]
<1>1. /\ Running(o) /\ ops[o].kind = "cleanup" /\ ops[o].ws \in Workspace
      /\ anchor'[ops'[o].ws].gen = g
  <2>1. CASE UNCHANGED store
    BY <2>1, RunningRow DEF store, Running
  <2>2. CASE Stays(o) \/ Detaches(o)
    <3>1. Running(o) /\ ops[o].ws \in Workspace
      BY <2>2, RunningRow DEF Stays, Detaches, Stores
    <3>2. ~Detaches(o)
      BY DEF Detaches, Stores, Running, TypeOK, StoreTypeOK
    <3>3. \A state, x : Stores(o, state, x) =>
             /\ anchor'[ops[o].ws] = x
             /\ ops'[o].ws = ops[o].ws /\ ops'[o].kind = ops[o].kind
      BY <3>1 DEF Stores, TypeOK, StoreTypeOK
    <3> QED BY <2>2, <3>1, <3>2, <3>3 DEF Stays
  <2> QED BY <2>1, <2>2, TaskStores
<1>2. CleanupKept(o) /\ s \in CleanupStep
  BY <1>1, RunningCleanup
<1>3. task \in [OpId -> Task] /\ t \in Task
  BY DEF TypeOK, TaskTypeOK
<1>4. /\ BodyFails(o) => task'[o].pc = "fail_load_op"
      /\ TaskEnds(o) => task'[o].pc = "idle"
      /\ \A pc : Goto(o, pc) => task'[o].pc = pc /\ task'[o].rt = t.rt
  BY <1>3 DEF BodyFails, TaskEnds, Goto, Idle, Task
<1>5. ASSUME ops'[o].step = s, task'[o].pc \notin {"save", "purge", "adopt", "delete"}
      PROVE  CleanupKept(o)'
  BY <1>1, <1>5, CleanupGoesOn
<1>6. CASE Observe(o) \/ Purge(o) \/ Delete(o)
  BY <1>1, <1>6, CleanupObserves, CleanupDeletes
<1>7. t.pc \in HoldsAnchor => t.op = ops[o]
  BY HolderGen
<1>8. ASSUME Saved(o, t.op, t.rt), t.pc = "adopt"
      PROVE  ops'[o].step = s
  <2>1. t.op = ops[o]
    BY <1>7, <1>8 DEF HoldsAnchor, BodyPc
  <2> QED BY <1>8, <2>1 DEF Saved, TypeOK, StoreTypeOK
<1>9. UNCHANGED store => ops'[o].step = s
  BY DEF store
<1>10. CASE Adopt(o)
  <2>1. ops'[o].step = s
    BY <1>8, <1>9, <1>10 DEF Adopt, SaveRefused
  <2>2. CASE Goto(o, "delete")
    <3>1. Target(s) \in t.rt.known
      BY <1>2, <1>10 DEF CleanupKept, Adopt
    <3>2. task'[o].pc = "delete" /\ task'[o].rt = t.rt
      BY <1>4, <2>2
    <3>3. Target(s) \in task'[o].rt.known
      BY <3>1, <3>2
    <3> QED BY <1>1, <2>1, <3>2, <3>3, CleanupGoesOn
  <2> QED BY <1>4, <1>5, <1>10, <2>1, <2>2 DEF Adopt
<1>11. CASE Save(o)
  <2>1. t.pc = "save" /\ t.pc \in HoldsAnchor
    BY <1>11 DEF Save, HoldsAnchor, BodyPc
  <2>2. CASE /\ Saved(o, NextOperation(o), NextRuntime(o))
             /\ \/ TaskEnds(o)
                \/ task' = [task EXCEPT ![o] = Entered(NextOperation(o), NextRuntime(o))]
    <3>1. \/ task'[o].pc = "idle"
          \/ task'[o] = Entered(NextOperation(o), NextRuntime(o))
      BY <1>3, <1>4, <2>2
    <3> QED BY <1>1, <2>1, <2>2, <3>1, CleanupAdvances
  <2>3. CASE UNCHANGED store /\ (Goto(o, "undo") \/ BodyFails(o))
    <3>1. task'[o].pc \in {"undo", "fail_load_op"}
      BY <1>4, <2>3
    <3> QED BY <1>5, <1>9, <2>3, <3>1
  <2> QED BY <1>11, <2>2, <2>3 DEF Save, SaveRefused
<1>12. CASE Deadline(o)
  BY <1>4, <1>5, <1>9, <1>12 DEF Deadline
<1>13. CASE DeadlineInCommit(o)
  BY <1>1, <1>4, <1>5, <1>8, <1>13, CleanupAdvances DEF DeadlineInCommit
<1>14. CASE Create(o) \/ Wait(o)
  <2>1. t.pc \in HoldsAnchor /\ t.pc \in {"create", "wait"}
    BY <1>14, Effects DEF CreateEffect, Wait, HoldsAnchor, BodyPc
  <2>2. t.op.step \in CreateStep \cup {"poll_provisioner"}
    BY <2>1 DEF Provisioned, PcFitsStep
  <2> QED BY <1>2, <1>7, <2>1, <2>2 DEF CreateStep, CleanupStep
<1>15. CASE Undo(o)
  BY <1>4, <1>5, <1>9, <1>15, Effects DEF UndoEffect
<1>16. CASE SupervisorStep(o)
  <2>1. task'[o].pc \in {"idle", "fail_load_ws", "fail_save"}
    BY <1>3, <1>4, <1>16
    DEF SupervisorStep, FailLoadOp, FailLoadWs, FailSave, Abandon, Task
  <2>2. UNCHANGED store
    <3>1. ~FailureSaved(o)
      BY DEF FailureSaved, Saved, Fail, Running, TypeOK, StoreTypeOK, TaskTypeOK, Task,
             Operation, Row, NoOperation
    <3> QED BY <1>16, <3>1
    DEF SupervisorStep, FailLoadOp, FailLoadWs, FailSave, FailureRefused, SaveRefused
  <2> QED BY <1>5, <1>9, <2>1, <2>2
<1>17. CASE RecoveryStep(o)
  <2>1. task'[o].pc \in {"idle", "recover_observe", "recover_purge", "recover_save"}
    <3>1. CASE RecoverObserve(o)
      <4>1. RecoverObserveEffect(o)
        BY <3>1, Effects
      <4> QED BY <1>3, <1>4, <4>1 DEF RecoverObserveEffect, Task
    <3> QED
      BY <1>3, <1>4, <1>17, <3>1
      DEF RecoveryStep, RecoverLoad, RecoverPurge, RecoverSave, Abandon, Task
  <2>2. UNCHANGED store
    <3>1. ~FailureSaved(o)
      BY DEF FailureSaved, Saved, Fail, Running, TypeOK, StoreTypeOK, TaskTypeOK, Task,
             Operation, Row, NoOperation
    <3> QED BY <1>17, <3>1, Effects
    DEF RecoveryStep, RecoverLoad, RecoverObserveEffect, RecoverPurge, RecoverSave,
        FailureRefused, SaveRefused
  <2> QED BY <1>5, <1>9, <2>1, <2>2
<1> QED
  BY <1>6, <1>10, <1>11, <1>12, <1>13, <1>14, <1>15, <1>16, <1>17 DEF TaskStep, BodyStep

\* A step of a task.
LEMMA TaskKeepsCleanable ==
    ASSUME TypeOK, Coupled, Provisioned, Cleanable, NEW o \in OpId, TaskStep(o)
    PROVE  Cleanable'
BY TaskKeepsLocated, OwnCleanupKept, OtherCleanupsKept DEF Cleanable, CleanupsKept

\* A step that changes no row or runtime, and no task but to end them all.
LEMMA QuietKeepsCleanable ==
    ASSUME TypeOK, Cleanable, UNCHANGED <<anchor, ops>>,
           UNCHANGED cloud \/ \E r \in late : LateCreate(r),
           UNCHANGED task \/ task' = [o \in OpId |-> Idle],
           \A c \in Caller : \/ callers'[c] = callers[c] \/ callers'[c].pc # "cleanup"
                             \/ \E w \in Workspace : CleanupBegin(c, w)
    PROVE  Cleanable'
<1>1. /\ remote' \cup late' \subseteq remote \cup late /\ late' \subseteq late
      /\ \A r \in remote' : r \in remote \cup late
  BY DEF LateCreate, cloud
<1>2. \A o \in OpId : task'[o] = task[o] \/ task'[o] = Idle
  OBVIOUS
<1>3. \A rt : Located(rt) => Located(rt)'
  BY <1>1, LocatedShrinks
<1>4. \A w \in Workspace : Located(anchor[w])'
  BY <1>3 DEF Cleanable, AllLocated
<1>5. ASSUME NEW c \in Caller, callers'[c].pc = "cleanup", NEW rt, rt = callers'[c].rt
      PROVE  Located(rt)'
  <2>1. CASE callers'[c] = callers[c]
    BY <1>3, <1>5, <2>1 DEF Cleanable, AllLocated
  <2>2. ASSUME NEW w \in Workspace, CleanupBegin(c, w)
        PROVE  Located(rt)'
    <3>1. rt = BeginCleanup(anchor[w]) /\ anchor[w].state \in Settled
      BY <1>5, <2>2 DEF CleanupBegin, TypeOK, CallTypeOK
    <3>2. anchor[w] \in AttachedRuntime
      BY <3>1, AttachedByState DEF TypeOK, StoreTypeOK, Settled
    <3>3. rt.gen = anchor[w].gen /\ rt.known = anchor[w].known
      BY <3>1, <3>2 DEF BeginCleanup, AttachedRuntime
    <3>4. Located(rt)
      BY <3>3, LocatedByKnown DEF Cleanable, AllLocated
    <3> QED BY <1>3, <3>4
  <2> QED BY <1>5, <2>1, <2>2
<1>6. ASSUME NEW o \in OpId, task'[o].pc \in HoldsAnchor
      PROVE  Located(task[o].rt)'
  <2>1. task'[o] = task[o]
    BY <1>2, <1>6 DEF Idle, HoldsAnchor, BodyPc, RecoveryPc
  <2>2. Located(task[o].rt)
    BY <1>6, <2>1 DEF Cleanable, AllLocated
  <2>3. \A rt : rt = task[o].rt => Located(rt)'
    BY <1>3, <2>2
  <2> QED BY <2>1, <2>3 DEF Located
<1>7. ASSUME NEW c \in Caller, callers'[c].pc = "cleanup"
      PROVE  Located(callers[c].rt)'
  BY <1>5, <1>7 DEF Located
<1>8. ASSUME NEW o \in OpId, Running(o)', ops'[o].kind = "cleanup"
      PROVE  CleanupKept(o)'
  <2>1. CleanupKept(o)
    BY <1>8 DEF Running, Cleanable, CleanupsKept
  <2>2. ASSUME NEW g
        PROVE  /\ (\A r \in late : r.gen # g) => \A r \in late' : r.gen # g
               /\ \A k : NoneOf(g, k) => NoneOf(g, k)'
    BY <1>1 DEF NoneOf
  <2>3. CASE task'[o] = task[o]
    BY <1>1, <2>1, <2>2, <2>3 DEF CleanupKept, IsOf
  <2>4. CASE task'[o] = Idle
    BY <2>1, <2>2, <2>4 DEF CleanupKept, Idle
  <2> QED BY <1>2, <2>3, <2>4
<1> QED BY <1>4, <1>6, <1>7, <1>8 DEF Cleanable, AllLocated, CleanupsKept

\* The admission of an operation, when no request of a runtime that is cleaned
\* up is still to be executed.
LEMMA AdmitKeepsCleanable ==
    ASSUME Timely, TypeOK, Coupled, Provisioned, Cleanable, NEW c \in Caller, NEW o \in OpId,
           ProvisionAdmit(c, o) \/ CleanupAdmit(c, o)
    PROVE  Cleanable'
<1>1. PICK op \in Row, rt \in AttachedRuntime : Admits(c, o, op, rt) /\ op.ws \in Workspace
  BY Admission
<1>2. /\ \A w \in Workspace : w # op.ws => anchor'[w] = anchor[w]
      /\ anchor'[op.ws] = rt /\ ops'[o] = op
      /\ \A h : Same(h)
      /\ \A p \in OpId : p # o =>
           /\ ops'[p] = ops[p] /\ task'[p] = task[p]
           /\ Running(p) => anchor'[ops[p].ws] = anchor[ops[p].ws]
  BY <1>1, AdmittedAlone
<1>3. /\ remote' = remote /\ late' = late /\ task'[o] = Entered(op, rt)
      /\ \A d \in Caller : callers'[d] = callers[d] \/ callers'[d] = NoCall
  BY <1>1 DEF Admits, TypeOK, TaskTypeOK, CallTypeOK
<1>4. \A x : Located(x) => Located(x)'
  BY <1>3, LocatedShrinks
<1>5. Located(rt) /\ (op.kind = "cleanup" => \A r \in late : r.gen # rt.gen)
  <2>1. CASE op = ProvisionOf(op.ws) /\ rt = NewProvisioning(o)
    <3>1. \A r \in remote \cup late : r.gen # o
      BY <1>1 DEF Admits, Provisioned, Originated, ResourcesAreProvisions, NoOperation
    <3>2. op.kind = "provision" /\ rt.gen = o
      BY <2>1 DEF ProvisionOf, NewProvisioning
    <3> QED BY <3>1, <3>2 DEF Located
  <2>2. CASE callers[c].pc = "cleanup" /\ rt = callers[c].rt
             /\ \A r \in late : r.gen # rt.gen
    BY <2>2 DEF Cleanable, AllLocated
  <2> QED BY <1>1, <2>1, <2>2 DEF Admits
<1>6. ASSUME NEW w \in Workspace
      PROVE  Located(anchor[w])'
  <2>1. \A x : x = anchor'[w] => Located(x)'
    BY <1>2, <1>4, <1>5 DEF Cleanable, AllLocated
  <2> QED BY <2>1 DEF Located
<1>7. ASSUME NEW d \in Caller, callers'[d].pc = "cleanup"
      PROVE  Located(callers[d].rt)'
  <2>1. callers'[d] = callers[d]
    BY <1>3, <1>7 DEF NoCall
  <2>2. \A x : x = callers'[d].rt => Located(x)'
    BY <1>4, <1>7, <2>1 DEF Cleanable, AllLocated
  <2> QED BY <2>2 DEF Located
<1>8. ASSUME NEW p \in OpId, task'[p].pc \in HoldsAnchor
      PROVE  Located(task[p].rt)'
  <2>1. p = o => task'[p].rt = rt
    BY <1>3 DEF Entered
  <2>2. \A x : x = task'[p].rt => Located(x)'
    BY <1>2, <1>4, <1>5, <1>8, <2>1 DEF Cleanable, AllLocated
  <2> QED BY <2>2 DEF Located
<1>9. ASSUME NEW p \in OpId, Running(p)', ops'[p].kind = "cleanup"
      PROVE  CleanupKept(p)'
  <2>1. CASE p = o
    <3>1. op.step = "delete_endpoint" /\ op.kind = "cleanup" /\ StepOfKind(op)
      BY <1>1, <1>2, <1>9, <2>1
      DEF Admits, ProvisionOf, CleanupOf, StepOfKind, CleanupStep
    <3>2. /\ task'[o].pc \in {"delete", "observe", "save"}
          /\ task'[o].pc = "delete" => Target(op.step) \in rt.known
          /\ task'[o].pc = "save" => NoneOf(rt.gen, Target(op.step))
      BY <1>3, <1>5, <3>1, EnteredCleans
    <3>3. task'[o].rt = rt /\ GoneAt(op.step) = {}
      BY <1>3, <3>1 DEF Entered, GoneAt
    <3>4. NoneOf(rt.gen, Target(op.step)) => NoneOf(rt.gen, Target(op.step))'
      BY <1>3 DEF NoneOf
    <3> QED BY <1>2, <1>3, <1>5, <2>1, <3>1, <3>2, <3>3, <3>4 DEF CleanupKept, NoneOf
  <2>2. CASE p # o
    <3>1. Running(p) /\ CleanupKept(p)
      BY <1>2, <1>9, <2>2 DEF Running, Cleanable, CleanupsKept
    <3> QED BY <1>2, <2>2, <3>1, CleanupFramed
  <2> QED BY <2>1, <2>2
<1> QED BY <1>6, <1>7, <1>8, <1>9 DEF Cleanable, AllLocated, CleanupsKept

\* Every step, when no request is executed after the cleanup of its runtime
\* began.
LEMMA StepKeepsCleanable ==
    ASSUME Timely
    PROVE  TypeOK /\ Coupled /\ Provisioned /\ Cleanable /\ [Next]_vars => Cleanable'
<1> SUFFICES ASSUME TypeOK, Coupled, Provisioned, Cleanable, [Next]_vars
             PROVE  Cleanable'
  OBVIOUS
<1>1. CASE UNCHANGED vars
  BY <1>1, QuietKeepsCleanable DEF vars, store, process
<1>2. CASE Next
  BY <1>2, OtherSteps, TaskKeepsCleanable, AdmitKeepsCleanable, QuietKeepsCleanable
<1> QED BY <1>1, <1>2

\* At first there is nothing to find.
LEMMA InitIsCleanable == Init => Cleanable
BY DEF Init, Cleanable, AllLocated, CleanupsKept, Located, Running, NoOperation

\* When RunPod executes a request late only before the cleanup of its runtime
\* begins, a cleanup finds all it is there to find, step by step.
THEOREM AlwaysCleanable == Timely => (Spec => []Cleanable)
<1> SUFFICES ASSUME Timely
             PROVE  Spec => []Cleanable
  OBVIOUS
<1>1. TypeOK /\ Coupled /\ Provisioned /\ Cleanable /\ [Next]_vars => Cleanable'
  BY StepKeepsCleanable
<1> QED BY <1>1, TypeCorrect, AlwaysCoupled, AlwaysProvisioned, InitIsCleanable, PTL
DEF Spec

\* Whatever step failed, was aborted or repeated, and whatever crashed, the
\* durable record of a runtime suffices to find each of its resources.
THEOREM ResourcesStayLocatable == Timely => (Spec => []ResourcesAreLocatable)
<1> SUFFICES ASSUME Timely
             PROVE  Spec => []ResourcesAreLocatable
  OBVIOUS
<1>1. Cleanable => ResourcesAreLocatable
  BY DEF Cleanable, AllLocated, Located, ResourcesAreLocatable
<1> QED BY <1>1, AlwaysCleanable, PTL

-----------------------------------------------------------------------------
(* Nothing is orphaned.                                                      *)

\* What a task's step leaves of the runtime attached to its workspace.
LEMMA TaskKeepsAttached ==
    ASSUME TypeOK, Coupled, NEW o \in OpId, TaskStep(o), NEW w \in Workspace
    PROVE  \/ anchor'[w].gen = anchor[w].gen
              /\ (anchor'[w].state # "none" <=> anchor[w].state # "none")
           \/ Detaches(o) /\ w = ops[o].ws /\ anchor'[w] = Detached
<1>1. CASE UNCHANGED store
  BY <1>1 DEF store
<1>2. CASE w # ops[o].ws
  BY <1>2, OthersAreStored
<1>3. ASSUME w = ops[o].ws, Stays(o) \/ Detaches(o)
      PROVE  \/ anchor'[w].gen = anchor[w].gen
                /\ (anchor'[w].state # "none" <=> anchor[w].state # "none")
             \/ Detaches(o) /\ anchor'[w] = Detached
  <2>1. Running(o)
    BY <1>3 DEF Stays, Detaches, Stores
  <2>2. anchor[w].state = BusyState(ops[o].kind)
    BY <1>3, <2>1, RunningRow
  <2>3. \A state, x : Stores(o, state, x) => anchor'[w] = x
    BY <1>3 DEF Stores, TypeOK, StoreTypeOK
  <2> QED BY <1>3, <2>2, <2>3 DEF Stays, Detaches, BusyState
<1> QED BY <1>1, <1>2, <1>3, TaskStores

\* When a cleanup is at its end, nothing is left of its runtime.
LEMMA DetachedIsGone ==
    ASSUME TypeOK, Coupled, Provisioned, Cleanable, NEW o \in OpId, TaskStep(o), Detaches(o)
    PROVE  \A r \in remote' \cup late' : r.gen # anchor[ops[o].ws].gen
<1> DEFINE s == ops[o].step
           g == anchor[ops[o].ws].gen
<1>1. /\ Running(o) /\ ops[o].kind = "cleanup" /\ s = "delete_network_volume"
      /\ task[o].pc = "save"
  BY DEF Detaches, Stores
<1>2. CleanupKept(o) /\ s \in CleanupStep
  BY <1>1, RunningCleanup
<1>3. \A j \in ResourceKind : NoneOf(g, j)
  <2>1. ResourceKind = GoneAt(s) \cup {Target(s)}
    BY <1>1, <1>2, CleanupStepLeadsOn
  <2> QED BY <1>1, <1>2, <2>1 DEF CleanupKept
<1>4. UNCHANGED cloud
  BY <1>1, SaversTouchNothing
<1> QED BY <1>3, <1>4 DEF cloud, NoneOf, IsOf, TypeOK, CloudTypeOK, Resource

\* Every step that cleans the attached runtime.
LEMMA StepOrphansNothing ==
    ASSUME TypeOK, Coupled, Provisioned, Cleanable, NoOrphan, [Next]_vars,
           [\A w \in Workspace :
              anchor'[w].state = "cleaning_up" => anchor'[w].gen = anchor[w].gen]_vars
    PROVE  NoOrphan'
<1> SUFFICES ASSUME NEW r \in remote' \cup late'
             PROVE  \E w \in Workspace : anchor'[w].state # "none" /\ anchor'[w].gen = r.gen
  BY DEF NoOrphan
<1>1. ASSUME r \in remote \cup late, UNCHANGED anchor
      PROVE  \E w \in Workspace : anchor'[w].state # "none" /\ anchor'[w].gen = r.gen
  BY <1>1 DEF NoOrphan
<1>2. CASE UNCHANGED vars
  BY <1>1, <1>2 DEF vars, store, cloud
<1>3. ASSUME NEW o \in OpId, TaskStep(o)
      PROVE  \E w \in Workspace : anchor'[w].state # "none" /\ anchor'[w].gen = r.gen
  <2>1. PICK w \in Workspace : anchor[w].state # "none" /\ anchor[w].gen = r.gen
    <3>1. CASE r \in remote \cup late
      BY <3>1 DEF NoOrphan
    <3>2. CASE r \notin remote \cup late
      <4>1. task[o].pc = "create"
        BY <1>3, <3>2, TouchersHold
      <4>2. Running(o) /\ Gen(o) = o /\ ProvisionKept(o)
        BY <4>1, CreatorIsProvision
      <4>3. /\ ops[o].ws \in Workspace /\ anchor[ops[o].ws].state # "none"
            /\ anchor[ops[o].ws].gen = o
        BY <4>2, RunningRow DEF ProvisionKept, BusyState
      <4>4. r.gen = o
        BY <1>3, <3>2, <4>2, TaskTouches DEF Touches, IsOf, Provisioned
      <4> QED BY <4>3, <4>4
    <3> QED BY <3>1, <3>2
  <2>2. ~(Detaches(o) /\ w = ops[o].ws)
    BY <1>3, <2>1, DetachedIsGone
  <2> QED BY <1>3, <2>1, <2>2, TaskKeepsAttached
<1>4. ASSUME NEW c \in Caller, NEW o \in OpId, ProvisionAdmit(c, o) \/ CleanupAdmit(c, o)
      PROVE  \E w \in Workspace : anchor'[w].state # "none" /\ anchor'[w].gen = r.gen
  <2>1. PICK op \in Row, rt \in AttachedRuntime : Admits(c, o, op, rt) /\ op.ws \in Workspace
    BY <1>4, Admission
  <2>2. PICK w \in Workspace : anchor[w].state # "none" /\ anchor[w].gen = r.gen
    BY <2>1 DEF Admits, NoOrphan
  <2>3. \A v \in Workspace : v # op.ws => anchor'[v] = anchor[v]
    BY <2>1, AdmittedAlone
  <2>4. anchor'[op.ws] = rt /\ ops' # ops
    <3>1. anchor'[op.ws] = rt /\ ops'[o] = op
      BY <2>1, AdmittedAlone
    <3> QED BY <2>1, <3>1 DEF Admits, NoOperation
  <2>5. ASSUME w = op.ws
        PROVE  rt.state = "cleaning_up"
    BY <2>1, <2>2, <2>5
    DEF Admits, Detached, Provisioned, Originated, CallsAreProvisions
  <2>6. ASSUME w = op.ws
        PROVE  anchor'[w].gen = anchor[w].gen /\ anchor'[w].state # "none"
    BY <2>4, <2>5, <2>6 DEF vars, store
  <2> QED BY <2>2, <2>3, <2>6
<1>5. CASE UNCHANGED anchor /\ (UNCHANGED cloud \/ \E q \in late : LateCreate(q))
  BY <1>1, <1>5 DEF cloud, LateCreate
<1> QED BY <1>2, <1>3, <1>4, <1>5, OtherSteps

\* When RunPod executes a request late only before the cleanup of its runtime
\* begins, and every cleanup is one of the attached runtime, nothing is left at
\* RunPod that no cleanup will find.
THEOREM NothingIsOrphaned == Timely => (Spec /\ CleansTheAttachedRuntime => []NoOrphan)
<1> SUFFICES ASSUME Timely
             PROVE  Spec /\ CleansTheAttachedRuntime => []NoOrphan
  OBVIOUS
<1>1. Init => NoOrphan
  BY DEF Init, NoOrphan
<1>2. TypeOK /\ Coupled /\ Provisioned /\ Cleanable /\ NoOrphan /\ [Next]_vars
      /\ [\A w \in Workspace :
            anchor'[w].state = "cleaning_up" => anchor'[w].gen = anchor[w].gen]_vars
      => NoOrphan'
  BY StepOrphansNothing
<1> QED
  BY <1>1, <1>2, TypeCorrect, AlwaysCoupled, AlwaysProvisioned, AlwaysCleanable, PTL
  DEF Spec, CleansTheAttachedRuntime

-----------------------------------------------------------------------------
(* Commands that do not overlap on a workspace.                              *)

\* The runtime a pending cleanup has read is settled, so only a command changes
\* it, and no other command is pending.
LEMMA StepKeepsFresh ==
    ASSUME TypeOK, Coupled, OneCommandPerWorkspace, CallsAreFresh, [Next]_vars
    PROVE  CallsAreFresh'
<1> SUFFICES ASSUME NEW c \in Caller, callers'[c].pc = "cleanup",
                    NEW v, v = callers'[c].ws, NEW rt, rt = callers'[c].rt
             PROVE  anchor'[v].state \in Settled /\ rt.gen = anchor'[v].gen
  BY DEF CallsAreFresh
<1>1. CASE UNCHANGED vars
  BY <1>1 DEF vars, store, process, CallsAreFresh
<1>2. ASSUME callers'[c] = callers[c]
      PROVE  /\ callers[c].pc = "cleanup" /\ v \in Workspace
             /\ anchor[v].state \in Settled /\ rt.gen = anchor[v].gen
  BY <1>2 DEF CallsAreFresh, TypeOK, CallTypeOK
<1>3. ASSUME NEW o \in OpId, TaskStep(o)
      PROVE  anchor'[v].state \in Settled /\ rt.gen = anchor'[v].gen
  <2>1. callers' = callers
    BY <1>3, Effects
    DEF TaskStep, BodyStep, SupervisorStep, RecoveryStep, CreateEffect, ObserveEffect,
        Purge, Wait, DeleteEffect, Adopt, Save, UndoEffect, FailLoadOp, FailLoadWs,
        FailSave, RecoverLoad, RecoverObserveEffect, RecoverPurge, RecoverSave, Deadline,
        DeadlineInCommit
  <2>2. anchor[v].state \in Settled /\ rt.gen = anchor[v].gen /\ v \in Workspace
    BY <1>2, <2>1
  <2>3. Running(o) => v # ops[o].ws
    BY <2>2, RunningRow DEF Settled, BusyState
  <2>4. anchor'[v] = anchor[v]
    BY <1>3, <2>2, <2>3, OthersAreStored DEF store
  <2> QED BY <2>2, <2>4
<1>4. ASSUME NEW d \in Caller, NEW o \in OpId, ProvisionAdmit(d, o) \/ CleanupAdmit(d, o)
      PROVE  anchor'[v].state \in Settled /\ rt.gen = anchor'[v].gen
  <2>1. PICK op \in Row, x \in AttachedRuntime : Admits(d, o, op, x) /\ op.ws \in Workspace
    BY <1>4, Admission
  <2>2. callers'[c] = callers[c] /\ c # d /\ op.ws = callers[d].ws
    BY <2>1 DEF Admits, NoCall, TypeOK, CallTypeOK
  <2>3. callers[d].pc # "idle"
    BY <1>4 DEF ProvisionAdmit, CleanupAdmit
  <2>4. v # op.ws /\ v \in Workspace
    BY <1>2, <2>2, <2>3 DEF OneCommandPerWorkspace
  <2>5. anchor'[v] = anchor[v]
    BY <2>1, <2>4, AdmittedAlone
  <2> QED BY <1>2, <2>2, <2>5
<1>5. ASSUME UNCHANGED <<anchor, ops>>,
             \/ callers'[c] = callers[c]
             \/ \E w \in Workspace : CleanupBegin(c, w)
      PROVE  anchor'[v].state \in Settled /\ rt.gen = anchor'[v].gen
  <2>1. CASE callers'[c] = callers[c]
    BY <1>2, <1>5, <2>1
  <2>2. ASSUME NEW w \in Workspace, CleanupBegin(c, w)
        PROVE  anchor'[v].state \in Settled /\ rt.gen = anchor'[v].gen
    <3>1. v = w /\ rt = BeginCleanup(anchor[w]) /\ anchor[w].state \in Settled
      BY <2>2 DEF CleanupBegin, TypeOK, CallTypeOK
    <3>2. anchor[w] \in AttachedRuntime
      BY <3>1, AttachedByState DEF TypeOK, StoreTypeOK, Settled
    <3>3. rt.gen = anchor[w].gen
      BY <3>1, <3>2 DEF BeginCleanup, AttachedRuntime
    <3> QED BY <1>5, <3>1, <3>3
  <2> QED BY <1>5, <2>1, <2>2
<1> QED BY <1>1, <1>3, <1>4, <1>5, OtherSteps

\* A step that makes a runtime cleaning_up leaves it that of the same provision.
LEMMA StepCleansTheAttached ==
    ASSUME TypeOK, Coupled, CallsAreFresh, Next, NEW w \in Workspace,
           anchor'[w].state = "cleaning_up"
    PROVE  anchor'[w].gen = anchor[w].gen
<1>1. ASSUME NEW o \in OpId, TaskStep(o)
      PROVE  anchor'[w].gen = anchor[w].gen
  BY <1>1, TaskKeepsAttached DEF Detached
<1>2. ASSUME NEW c \in Caller, NEW o \in OpId, ProvisionAdmit(c, o) \/ CleanupAdmit(c, o)
      PROVE  anchor'[w].gen = anchor[w].gen
  <2>1. PICK op \in Row, rt \in AttachedRuntime : Admits(c, o, op, rt) /\ op.ws \in Workspace
    BY <1>2, Admission
  <2>2. /\ w # op.ws => anchor'[w] = anchor[w]
        /\ anchor'[op.ws] = rt
    BY <2>1, AdmittedAlone
  <2>3. ASSUME w = op.ws
        PROVE  callers[c].pc = "cleanup" /\ rt = callers[c].rt /\ op.ws = callers[c].ws
    BY <2>1, <2>2, <2>3 DEF Admits, NewProvisioning
  <2> QED BY <2>2, <2>3 DEF CallsAreFresh
<1> QED BY <1>1, <1>2, OtherSteps

\* When commands on a workspace do not overlap, a cleanup is that of the runtime
\* attached when it is admitted, whatever the bodies, supervisors and recoveries
\* of earlier operations are still doing.
THEOREM SerialCommandsCleanTheAttached ==
    Spec /\ []OneCommandPerWorkspace => CleansTheAttachedRuntime
<1>1. Init => CallsAreFresh
  BY DEF Init, CallsAreFresh, NoCall
<1>2. TypeOK /\ Coupled /\ OneCommandPerWorkspace /\ CallsAreFresh /\ [Next]_vars
      => CallsAreFresh'
  BY StepKeepsFresh
<1>3. TypeOK /\ Coupled /\ CallsAreFresh /\ [Next]_vars =>
        [\A w \in Workspace :
           anchor'[w].state = "cleaning_up" => anchor'[w].gen = anchor[w].gen]_vars
  BY StepCleansTheAttached
<1> QED
  BY <1>1, <1>2, <1>3, TypeCorrect, AlwaysCoupled, PTL DEF Spec, CleansTheAttachedRuntime

\* When moreover RunPod executes a request late only before the cleanup of its
\* runtime begins, nothing is ever orphaned.
THEOREM SerialCommandsOrphanNothing ==
    Timely => (Spec /\ []OneCommandPerWorkspace => []NoOrphan)
BY NothingIsOrphaned, SerialCommandsCleanTheAttached, PTL

\* With a single caller, commands never overlap.
LEMMA SingleCallersAreSerial ==
    ASSUME \A c, d \in Caller : c = d
    PROVE  Spec => []OneCommandPerWorkspace
<1>1. OneCommandPerWorkspace
  BY DEF OneCommandPerWorkspace
<1> QED BY <1>1, PTL

-----------------------------------------------------------------------------
(* The promise of WorkspaceLifecycle.                                        *)

\* What the promise sees of the tables.
Status(w) ==
    IF anchor[w].state # "none" THEN anchor[w].state
    ELSE IF workspaces[w] = "present" THEN "idle" ELSE workspaces[w]
Recorded(o) == [state |-> ops[o].state, ws |-> ops[o].ws, kind |-> ops[o].kind]

\* One workspace moves to a status, with the runtime of a provision.
Moves(v, status, gen) ==
    /\ Status(v)' = status /\ anchor'[v].gen = gen
    /\ \A w \in Workspace : w # v => Status(w)' = Status(w) /\ anchor'[w].gen = anchor[w].gen

\* One operation is recorded as rec.
Records(o, rec) ==
    /\ Recorded(o)' = rec
    /\ \A p \in OpId : p # o => Recorded(p)' = Recorded(p)

\* A step the promise does not see.
LEMMA UnseenIsStutter ==
    ASSUME \A w \in Workspace : Status(w)' = Status(w) /\ anchor'[w].gen = anchor[w].gen,
           \A o \in OpId : Recorded(o)' = Recorded(o)
    PROVE  UNCHANGED Promise!vars
BY DEF Promise!vars, Status, Recorded

\* The end of an operation, as the promise sees it.
LEMMA EndIsSeen ==
    ASSUME TypeOK, NEW o \in OpId, Running(o), NEW v \in Workspace, v = ops[o].ws,
           NEW kind, kind = ops[o].kind, NEW state, NEW status, NEW gen,
           Records(o, [state |-> state, ws |-> v, kind |-> kind]), Moves(v, status, gen)
    PROVE  /\ kind = "provision" /\ state = "succeeded" /\ status = "ready"
              /\ gen = anchor[v].gen => Promise!Provisioned(o)
           /\ kind = "cleanup" /\ state = "succeeded" /\ status = "idle" /\ gen = NoGen
              => Promise!Cleaned(o)
           /\ kind \in {"provision", "cleanup"} /\ state = "failed" /\ status = "failed"
              /\ gen = anchor[v].gen => Promise!Failed(o)
<1> DEFINE S == [w \in Workspace |-> Status(w)]
           G == [w \in Workspace |-> anchor[w].gen]
           P == [p \in OpId |-> Recorded(p)]
<1>1. S' = [S EXCEPT ![v] = status] /\ G' = [G EXCEPT ![v] = gen]
  BY DEF Moves
<1>2. P' = [P EXCEPT ![o].state = state]
  BY DEF Records, Recorded
<1>3. P[o].state = "running" /\ P[o].kind = kind /\ P[o].ws = v
  BY DEF Recorded, Running
<1>4. gen = anchor[v].gen => G' = G
  BY <1>1
<1> QED
  BY <1>1, <1>2, <1>3, <1>4
  DEF Promise!Provisioned, Promise!Cleaned, Promise!Failed, Promise!End, Status, Recorded

\* What a task stores is unseen or the end of its operation.
LEMMA TaskIsSeen ==
    ASSUME TypeOK, Coupled, NEW o \in OpId, TaskStep(o)
    PROVE  [Promise!Next]_(Promise!vars)
<1> SUFFICES ASSUME NEW v, v = ops[o].ws, NEW kind, kind = ops[o].kind,
                    NEW g, g = anchor[v].gen
             PROVE  [Promise!Next]_(Promise!vars)
  OBVIOUS
<1>1. CASE UNCHANGED store
  BY <1>1, UnseenIsStutter DEF store, Status, Recorded
<1>2. ASSUME NEW state, NEW rt, Stores(o, state, rt)
      PROVE  /\ Running(o) /\ v \in Workspace /\ kind \in {"provision", "cleanup"}
             /\ anchor[v].state = BusyState(kind) /\ workspaces[v] = "present"
             /\ Records(o, [state |-> state, ws |-> v, kind |-> kind])
             /\ \A status, gen :
                  /\ status = IF rt.state # "none" THEN rt.state ELSE "idle"
                  /\ gen = rt.gen
                  => Moves(v, status, gen)
  <2>1. Running(o) /\ v \in Workspace /\ kind \in {"provision", "cleanup"}
        /\ anchor[v].state = BusyState(kind) /\ workspaces[v] = "present"
    BY <1>2, RunningRow DEF Stores, Coupled, StoreCoupled, RunningIsAnchored
  <2>2. /\ ops'[o].state = state /\ ops'[o].ws = v /\ ops'[o].kind = kind
        /\ \A p \in OpId : p # o => ops'[p] = ops[p]
    BY <1>2 DEF Stores, TypeOK, StoreTypeOK
  <2>3. /\ anchor'[v] = rt /\ workspaces' = workspaces
        /\ \A w \in Workspace : w # v => anchor'[w] = anchor[w]
    BY <1>2, <2>1 DEF Stores, TypeOK, StoreTypeOK
  <2>4. Records(o, [state |-> state, ws |-> v, kind |-> kind])
    BY <2>2 DEF Records, Recorded
  <2>5. ASSUME NEW status, NEW gen, gen = rt.gen,
               status = IF rt.state # "none" THEN rt.state ELSE "idle"
        PROVE  Moves(v, status, gen)
    BY <2>1, <2>3, <2>5 DEF Moves, Status
  <2> QED BY <2>1, <2>4, <2>5
<1>3. ASSUME NEW rt \in AttachedRuntime, rt.gen = g, rt.state = anchor[v].state,
             Stores(o, "running", rt)
      PROVE  UNCHANGED Promise!vars
  <2>1. /\ Records(o, [state |-> "running", ws |-> v, kind |-> kind])
        /\ \A status : status = rt.state => Moves(v, status, g)
        /\ Running(o) /\ anchor[v].state = BusyState(kind)
    BY <1>2, <1>3 DEF BusyState
  <2>2. Status(v) = rt.state
    BY <1>3, <2>1 DEF Status, BusyState
  <2>3. \A w \in Workspace : Status(w)' = Status(w) /\ anchor'[w].gen = anchor[w].gen
    BY <2>1, <2>2 DEF Moves
  <2>4. \A p \in OpId : Recorded(p)' = Recorded(p)
    BY <2>1 DEF Records, Recorded, Running
  <2> QED BY <2>3, <2>4, UnseenIsStutter
<1>4. ASSUME NEW rt \in AttachedRuntime, rt.gen = g, rt.state = "failed",
             Stores(o, "failed", rt)
      PROVE  Promise!Failed(o)
  <2>1. /\ Records(o, [state |-> "failed", ws |-> v, kind |-> kind])
        /\ Moves(v, "failed", g)
        /\ Running(o) /\ v \in Workspace /\ kind \in {"provision", "cleanup"}
    BY <1>2, <1>4
  <2> QED BY <2>1, EndIsSeen
<1>5. ASSUME NEW rt \in AttachedRuntime, rt.gen = g, rt.state = "ready",
             kind = "provision", Stores(o, "succeeded", rt)
      PROVE  Promise!Provisioned(o)
  <2>1. /\ Records(o, [state |-> "succeeded", ws |-> v, kind |-> kind])
        /\ Moves(v, "ready", g)
        /\ Running(o) /\ v \in Workspace
    BY <1>2, <1>5
  <2> QED BY <1>5, <2>1, EndIsSeen
<1>6. ASSUME kind = "cleanup", Stores(o, "succeeded", Detached)
      PROVE  Promise!Cleaned(o)
  <2>1. /\ Records(o, [state |-> "succeeded", ws |-> v, kind |-> kind])
        /\ Moves(v, "idle", NoGen)
        /\ Running(o) /\ v \in Workspace
    BY <1>2, <1>6 DEF Detached
  <2> QED BY <1>6, <2>1, EndIsSeen
<1>7. Stays(o) => UNCHANGED Promise!vars \/ Promise!Failed(o) \/ Promise!Provisioned(o)
  BY <1>3, <1>4, <1>5 DEF Stays
<1>8. Detaches(o) => Promise!Cleaned(o)
  BY <1>6 DEF Detaches
<1> QED BY <1>1, <1>7, <1>8, TaskStores DEF Promise!Next

\* The admission of an operation is its start, and a cleanup keeps the runtime
\* it cleans.
LEMMA AdmissionIsSeen ==
    ASSUME TypeOK, Coupled, Originated, NEW c \in Caller, NEW o \in OpId,
           ProvisionAdmit(c, o) \/ CleanupAdmit(c, o),
           \A w \in Workspace :
              anchor'[w].state = "cleaning_up" => anchor'[w].gen = anchor[w].gen
    PROVE  Promise!Next
<1>1. PICK op \in Row, rt \in AttachedRuntime, v \in Workspace :
         Admits(c, o, op, rt) /\ v = op.ws
  BY Admission
<1> DEFINE S == [w \in Workspace |-> Status(w)]
           G == [w \in Workspace |-> anchor[w].gen]
           P == [p \in OpId |-> Recorded(p)]
<1>2. /\ \A w \in Workspace : w # v => anchor'[w] = anchor[w]
      /\ anchor'[v] = rt /\ ops'[o] = op
      /\ \A p \in OpId : p # o => ops'[p] = ops[p]
  BY <1>1, AdmittedAlone
<1>3. /\ workspaces' = workspaces /\ workspaces[v] = "present"
      /\ ops[o] = NoOperation /\ op.state = "running"
  BY <1>1 DEF Admits
<1>4. rt.state # "none"
  BY DEF AttachedRuntime, RuntimeState
<1>5. ASSUME NEW status, status = rt.state
      PROVE  S' = [S EXCEPT ![v] = status]
  BY <1>2, <1>3, <1>4, <1>5 DEF Status
<1>6. ASSUME NEW g, g = rt.gen
      PROVE  G' = [G EXCEPT ![v] = g]
  BY <1>2, <1>6
<1>7. ASSUME NEW kind, kind = op.kind
      PROVE  /\ P' = [P EXCEPT ![o] = [state |-> "running", ws |-> v, kind |-> kind]]
             /\ P[o] = Promise!None
  <2>1. /\ ops'[o].state = "running" /\ ops'[o].ws = v /\ ops'[o].kind = kind
    BY <1>1, <1>2, <1>3, <1>7
  <2>2. P' = [P EXCEPT ![o] = [state |-> "running", ws |-> v, kind |-> kind]]
    BY <1>2, <2>1 DEF Recorded
  <2>3. P[o] = Promise!None
    BY <1>3 DEF Recorded, NoOperation, Promise!None
  <2> QED BY <2>2, <2>3
<1>8. CASE op.kind = "provision" /\ rt = NewProvisioning(o) /\ anchor[v] = Detached
  <2>1. rt.state = "provisioning" /\ rt.gen = o
    BY <1>8 DEF NewProvisioning
  <2>2. S[v] = "idle"
    BY <1>3, <1>8 DEF Status, Detached
  <2>3. S' = [S EXCEPT ![v] = "provisioning"] /\ G' = [G EXCEPT ![v] = o]
        /\ P' = [P EXCEPT ![o] = [state |-> "running", ws |-> v, kind |-> "provision"]]
        /\ P[o] = Promise!None
    BY <1>5, <1>6, <1>7, <1>8, <2>1
  <2>4. Promise!Provision(v, o)
    BY <2>2, <2>3 DEF Promise!Provision, Promise!Start, Status, Recorded
  <2> QED BY <2>4 DEF Promise!Next
<1>9. CASE op.kind = "cleanup" /\ rt.state = "cleaning_up" /\ anchor[v].state \in Settled
  <2>1. S[v] \in {"ready", "failed"}
    BY <1>9 DEF Status, Settled
  <2>2. \A w \in Workspace : anchor'[w].gen = anchor[w].gen
    BY <1>2, <1>9
  <2>3. S' = [S EXCEPT ![v] = "cleaning_up"] /\ G' = G
        /\ P' = [P EXCEPT ![o] = [state |-> "running", ws |-> v, kind |-> "cleanup"]]
        /\ P[o] = Promise!None
    BY <1>5, <1>7, <1>9, <2>2
  <2>4. Promise!Cleanup(v, o)
    BY <2>1, <2>3 DEF Promise!Cleanup, Promise!Start, Status, Recorded
  <2> QED BY <2>4 DEF Promise!Next
<1>10. \/ op.kind = "provision" /\ rt = NewProvisioning(o) /\ anchor[v] = Detached
       \/ op.kind = "cleanup" /\ rt.state = "cleaning_up" /\ anchor[v].state \in Settled
  BY <1>1 DEF Admits, ProvisionOf, CleanupOf, Originated, CallsAreProvisions
<1> QED BY <1>8, <1>9, <1>10

\* A workspace is created, and deleted when nothing is attached to it.
LEMMA WorkspaceIsSeen ==
    ASSUME TypeOK, Coupled, NEW v \in Workspace, CreateWorkspace(v) \/ DeleteWorkspace(v)
    PROVE  Promise!Next
<1> DEFINE S == [w \in Workspace |-> Status(w)]
<1>1. UNCHANGED <<anchor, ops>>
  BY DEF CreateWorkspace, DeleteWorkspace
<1>2. anchor[v].state = "none"
  BY
  DEF CreateWorkspace, DeleteWorkspace, Detached, Coupled, StoreCoupled, AttachedIsPresent
<1>3. \A w \in Workspace : w # v => workspaces'[w] = workspaces[w]
  BY DEF CreateWorkspace, DeleteWorkspace, TypeOK, StoreTypeOK
<1>4. CASE CreateWorkspace(v)
  <2>1. workspaces[v] = "unborn" /\ workspaces'[v] = "present"
    BY <1>4 DEF CreateWorkspace, TypeOK, StoreTypeOK
  <2>2. S[v] = "unborn" /\ S' = [S EXCEPT ![v] = "idle"]
    BY <1>1, <1>2, <1>3, <2>1 DEF Status
  <2>3. Promise!Create(v)
    BY <1>1, <2>2 DEF Promise!Create, Status
  <2> QED BY <2>3 DEF Promise!Next
<1>5. CASE DeleteWorkspace(v)
  <2>1. workspaces[v] = "present" /\ workspaces'[v] = "deleted"
    BY <1>5 DEF DeleteWorkspace, TypeOK, StoreTypeOK
  <2>2. S[v] = "idle" /\ S' = [S EXCEPT ![v] = "deleted"]
    BY <1>1, <1>2, <1>3, <2>1 DEF Status
  <2>3. Promise!Delete(v)
    BY <1>1, <2>2 DEF Promise!Delete, Status
  <2> QED BY <2>3 DEF Promise!Next
<1> QED BY <1>4, <1>5

\* Every step that cleans the attached runtime is a step of the promise, or one
\* it does not see.
LEMMA StepKeepsThePromise ==
    ASSUME TypeOK, Coupled, Provisioned, [Next]_vars,
           [\A w \in Workspace :
              anchor'[w].state = "cleaning_up" => anchor'[w].gen = anchor[w].gen]_vars
    PROVE  [Promise!Next]_(Promise!vars)
<1>1. CASE UNCHANGED store
  BY <1>1, UnseenIsStutter DEF store, Status, Recorded
<1>2. ASSUME NEW o \in OpId, TaskStep(o)
      PROVE  [Promise!Next]_(Promise!vars)
  BY <1>2, TaskIsSeen
<1>3. ASSUME NEW c \in Caller, NEW o \in OpId, ProvisionAdmit(c, o) \/ CleanupAdmit(c, o)
      PROVE  [Promise!Next]_(Promise!vars)
  <2>1. PICK op \in Row, rt \in AttachedRuntime : Admits(c, o, op, rt) /\ op.ws \in Workspace
    BY <1>3, Admission
  <2>2. ops'[o] = op
    BY <2>1, AdmittedAlone
  <2>3. ops[o].state = "none" /\ op.state = "running"
    BY <2>1 DEF Admits, NoOperation
  <2>4. ~UNCHANGED vars
    BY <2>2, <2>3 DEF vars, store
  <2> QED BY <1>3, <2>4, AdmissionIsSeen DEF Provisioned
<1>4. ASSUME NEW w \in Workspace, CreateWorkspace(w) \/ DeleteWorkspace(w)
      PROVE  [Promise!Next]_(Promise!vars)
  BY <1>4, WorkspaceIsSeen
<1>5. ASSUME Next
      PROVE  \/ UNCHANGED store
             \/ \E o \in OpId : TaskStep(o)
             \/ \E c \in Caller, o \in OpId : ProvisionAdmit(c, o) \/ CleanupAdmit(c, o)
             \/ \E w \in Workspace : CreateWorkspace(w) \/ DeleteWorkspace(w)
  <2>1. \A c \in Caller, w \in Workspace :
           ProvisionBegin(c, w) \/ CleanupBegin(c, w) => UNCHANGED store
    BY DEF ProvisionBegin, CleanupBegin
  <2>2. \A c \in Caller : CallerGivesUp(c) => UNCHANGED store
    BY DEF CallerGivesUp
  <2>3. \A r \in late : LateCreate(r) => UNCHANGED store
    BY DEF LateCreate
  <2>4. Exit \/ Boot \/ Serve => UNCHANGED store
    BY DEF Exit, Boot, Serve
  <2> QED BY <1>5, <2>1, <2>2, <2>3, <2>4 DEF Next, Command, TaskStep
<1>6. UNCHANGED vars => UNCHANGED store
  BY DEF vars
<1> QED BY <1>1, <1>2, <1>3, <1>4, <1>5, <1>6

\* At first every workspace is unborn.
LEMMA InitKeepsThePromise == Init => Promise!Init
BY DEF Init, Promise!Init, Promise!None, Detached, NoOperation

\* RuntimeLifecycle implements WorkspaceLifecycle as long as every cleanup is
\* one of the attached runtime: the status of a workspace, the provision it is
\* from and the outcome of the operation on it change together, in one step of
\* the diagram, whatever fails and whoever commits last.
THEOREM AttachedCleanupsKeepThePromise == Spec /\ CleansTheAttachedRuntime => KeepsThePromise
<1>1. Init => Promise!Init
  BY InitKeepsThePromise
<1>2. TypeOK /\ Coupled /\ Provisioned /\ [Next]_vars
      /\ [\A w \in Workspace :
            anchor'[w].state = "cleaning_up" => anchor'[w].gen = anchor[w].gen]_vars
      => [Promise!Next]_(Promise!vars)
  BY StepKeepsThePromise
<1> QED
  BY <1>1, <1>2, TypeCorrect, AlwaysCoupled, AlwaysProvisioned, PTL
  DEF Spec, CleansTheAttachedRuntime, KeepsThePromise, Promise!Spec

\* So it does when commands on a workspace do not overlap.
THEOREM SerialCommandsKeepThePromise == Spec /\ []OneCommandPerWorkspace => KeepsThePromise
BY AttachedCleanupsKeepThePromise, SerialCommandsCleanTheAttached, PTL

\* With a single caller, whatever else goes on, a workspace stays on the diagram
\* and a cleanup is that of the attached runtime.
THEOREM SingleCallerKeepsThePromise ==
    (\A c, d \in Caller : c = d) => (Spec => KeepsThePromise /\ CleansTheAttachedRuntime)
<1> SUFFICES ASSUME \A c, d \in Caller : c = d
             PROVE  Spec => KeepsThePromise /\ CleansTheAttachedRuntime
  OBVIOUS
<1>1. Spec => []OneCommandPerWorkspace
  BY SingleCallersAreSerial
<1> QED BY <1>1, SerialCommandsKeepThePromise, SerialCommandsCleanTheAttached, PTL

\* With a single caller and requests that are not executed after the cleanup of
\* their runtime began, nothing is ever orphaned.
THEOREM SingleCallerOrphansNothing ==
    Timely /\ (\A c, d \in Caller : c = d) => (Spec => []NoOrphan)
<1> SUFFICES ASSUME Timely, \A c, d \in Caller : c = d
             PROVE  Spec => []NoOrphan
  OBVIOUS
<1>1. Spec => []OneCommandPerWorkspace
  BY SingleCallersAreSerial
<1>2. Spec /\ []OneCommandPerWorkspace => []NoOrphan
  BY SerialCommandsOrphanNothing
<1> QED BY <1>1, <1>2, PTL
=============================================================================
