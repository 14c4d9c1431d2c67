------------------------ MODULE RuntimeCouplingProofs ------------------------
(* Proofs about RuntimeLifecycle for every number of workspaces, operations, *)
(* callers and failures: its types, that Coupled is an inductive invariant,  *)
(* and the safety properties that follow from it.                            *)
EXTENDS Commands, WellFoundedInduction, TLAPS

-----------------------------------------------------------------------------
(* The operators of RuntimeModels return records of the right type.          *)

\* A step that is recorded next is a step, whatever it follows.
LEMMA NextStepIsStep ==
    \A s : NextStep(s) \in Step
BY DEF NextStep, Step, ProvisionStep, CreateStep, CleanupStep

\* Every step works on a kind of resource.
LEMMA TargetIsKind ==
    \A s : Target(s) \in ResourceKind
BY DEF Target, ResourceKind

\* Advancing or failing a row yields a row of the same workspace and kind.
LEMMA RowsStayRows ==
    ASSUME NEW op \in Row
    PROVE  /\ Advance(op) \in Row
           /\ Fail(op) \in Row
           /\ Advance(op).ws = op.ws /\ Advance(op).kind = op.kind
           /\ Fail(op).ws = op.ws /\ Fail(op).kind = op.kind
BY NextStepIsStep DEF Advance, Fail, Row, Finished

\* So does every change to an attached runtime that leaves it attached.
LEMMA AttachedStaysAttached ==
    ASSUME NEW rt \in AttachedRuntime, NEW k \in ResourceKind
    PROVE  /\ Knowing(rt, k) \in AttachedRuntime
           /\ Forgetting(rt, k) \in AttachedRuntime
           /\ MarkFailed(rt) \in AttachedRuntime
           /\ BeginCleanup(rt) \in AttachedRuntime
<1>1. Knowing(rt, k) \in AttachedRuntime
  BY DEF Knowing, AttachedRuntime
<1>2. Forgetting(rt, k) \in AttachedRuntime
  BY DEF Forgetting, AttachedRuntime
<1>3. MarkFailed(rt) \in AttachedRuntime /\ BeginCleanup(rt) \in AttachedRuntime
  BY DEF MarkFailed, BeginCleanup, AttachedRuntime, RuntimeState
<1> QED BY <1>1, <1>2, <1>3

\* What a body stores with its row is an attached runtime or none.
LEMMA AdvancedIsRuntime ==
    ASSUME NEW op, NEW rt \in AttachedRuntime
    PROVE  /\ AdvancedRuntime(op, rt) \in Runtime
           /\ op.step \notin LastStep => AdvancedRuntime(op, rt) = rt
BY DEF AdvancedRuntime, AttachedRuntime, Runtime, RuntimeState, LastStep

\* A runtime is attached exactly when it has a state.
LEMMA AttachedByState ==
    ASSUME NEW rt \in Runtime
    PROVE  rt \in AttachedRuntime <=> rt.state # "none"
BY DEF Runtime, AttachedRuntime, RuntimeState, Detached

-----------------------------------------------------------------------------
(* The answers to the requests are told apart.                               *)

\* A create request counts as failed only when RunPod refused to carry it out,
\* and its resource as known only on a whole success: whatever else happens to
\* the request or to its answer, the outcome is unknown.
THEOREM CreatedIsCertain ==
    ASSUME NEW a \in Answer
    PROVE  /\ Created(a) \in {"created", "unauthorized", "unavailable",
                              "create_outcome_unknown"}
           /\ Created(a) = "created" <=> a.status = "success" /\ a.body = "whole"
           /\ Created(a) \in {"unauthorized", "unavailable"} <=> a.status \in Refusal
<1>1. a.status \in StatusClass \cup Unanswered /\ a.body \in Body
  BY DEF Answer
<1>2. a.status # "success" => a.body = "unreadable"
  BY DEF Answer
<1> QED
  BY <1>1, <1>2
  DEF Created, IntoJson, IntoResponse, TransportError, StatusError, MapCreateError,
      StatusClass, Unanswered, Body, Refusal

\* A resource counts as deleted only if RunPod deleted it or does not have it.
LEMMA DeletedIsCertain ==
    ASSUME NEW a \in Answer
    PROVE  Deleted(a) = "deleted" <=> a.status \in {"success", "not_found"}
<1>1. a.status \in StatusClass \cup Unanswered
  BY DEF Answer
<1> QED
  BY <1>1
  DEF Deleted, IntoResponse, TransportError, StatusError, MapError, StatusClass,
      Unanswered

\* An observation of the task's resource is found exactly when the resource is
\* alone of its name and absent exactly when nothing has its name.
LEMMA ObservationIsExact ==
    ASSUME NEW o
    PROVE  /\ Observation(o) = "absent" <=> Listed(o) = {}
           /\ Observation(o) = "found" <=> Listed(o) = {Wanted(o)}
           /\ Observation(o) \in {"absent", "found", "ambiguous"}
BY DEF Observation, ClassifyObservation

\* The effects of the requests, whatever the answers to them are.
LEMMA CreateHasEffect ==
    ASSUME NEW o
    PROVE  Create(o) => CreateEffect(o)
<1> SUFFICES ASSUME Create(o)
             PROVE  CreateEffect(o)
  OBVIOUS
<1>1. PICK a \in Answer :
         /\ Requested(o, a)
         /\ \/ Created(a) = "created" /\ Learns(o)
            \/ Created(a) = "create_outcome_unknown" /\ Goto(o, "observe")
            \/ Created(a) \in {"unauthorized", "unavailable"} /\ BodyFails(o)
  BY DEF Create
<1>2. a.status \in Refusal => a.status # "success"
  BY DEF Refusal
<1> QED BY <1>1, <1>2, CreatedIsCertain DEF Create, CreateEffect, Requested, cloud

LEMMA ObserveHasEffect ==
    ASSUME NEW o
    PROVE  Observe(o) => ObserveEffect(o)
BY ObservationIsExact DEF Observe, ObserveEffect

LEMMA RecoverObserveHasEffect ==
    ASSUME NEW o
    PROVE  RecoverObserve(o) => RecoverObserveEffect(o)
BY ObservationIsExact DEF RecoverObserve, RecoverObserveEffect

LEMMA DroppedHasEffect ==
    ASSUME NEW o, NEW a \in Answer, Dropped(o, a)
    PROVE  \/ /\ Deleted(a) = "deleted"
              /\ remote' = remote \ {Wanted(o)}
              /\ UNCHANGED faults
           \/ /\ Deleted(a) # "deleted"
              /\ remote' \in {remote, remote \ {Wanted(o)}}
              /\ Fault
BY DeletedIsCertain DEF Dropped, Refusal

LEMMA DeleteHasEffect ==
    ASSUME NEW o
    PROVE  Delete(o) => DeleteEffect(o)
BY DroppedHasEffect DEF Delete, DeleteEffect

LEMMA UndoHasEffect ==
    ASSUME NEW o
    PROVE  Undo(o) => UndoEffect(o)
BY DroppedHasEffect DEF Undo, UndoEffect

\* All of them, in the form in which the proofs below cite them.
LEMMA Effects ==
    \A o : /\ Create(o) => CreateEffect(o)
           /\ Observe(o) => ObserveEffect(o)
           /\ RecoverObserve(o) => RecoverObserveEffect(o)
           /\ Delete(o) => DeleteEffect(o)
           /\ Undo(o) => UndoEffect(o)
BY CreateHasEffect, ObserveHasEffect, RecoverObserveHasEffect, DeleteHasEffect,
   UndoHasEffect

-----------------------------------------------------------------------------
(* The requests and the observations fit together.                           *)

\* The resource that a create request asks for, listed by RunPod, has the name
\* that the observation of the same place looks for.
LEMMA MadeHasName ==
    ASSUME NEW place, NEW kind \in ResourceKind, NEW key, NEW image, NEW assets,
           NEW hugging_face_key, NEW id
    PROVE  LET asked == CreateRequest(kind, key, place, image, assets, hugging_face_key)
           IN /\ Made(kind, id, asked.content).name = ResourceName(place, kind)
              /\ ObserveCommand(kind, place).name = ResourceName(place, kind)
<1>1. CASE kind = "volume"
  BY <1>1
  DEF Made, NetworkVolumeSummary, CreateRequest, CreatesNetworkVolume, PostNetworkVolume,
      NetworkVolumeCreateInput, Request, CreateNetworkVolume, ObserveCommand
<1>2. CASE kind = "pod"
  BY <1>2
  DEF Made, PodSummary, CreateRequest, StartsProvisionerPod, PostPod, PodCreateInput,
      Request, StartProvisionerPod, ObserveCommand
<1>3. CASE kind = "template"
  BY <1>3
  DEF Made, TemplateSummary, CreateRequest, CreatesTemplate, PostTemplate,
      TemplateCreateInput, Request, CreateTemplate, ObserveCommand
<1>4. CASE kind = "endpoint"
  BY <1>4
  DEF Made, EndpointSummary, CreateRequest, CreatesEndpoint, PostEndpoint,
      EndpointCreateInput, Request, CreateEndpoint, ObserveCommand
<1> QED BY <1>1, <1>2, <1>3, <1>4 DEF ResourceKind

\* Alone of its name, it is found.
LEMMA MadeIsFound ==
    ASSUME NEW place, NEW kind \in ResourceKind, NEW key, NEW image, NEW assets,
           NEW hugging_face_key, NEW id, NEW account, NEW bound, NEW c, NEW made,
           c = ObserveCommand(kind, place),
           made = Made(kind, id, CreateRequest(kind, key, place, image, assets,
                                               hugging_face_key).content),
           OfName(account, ResourceName(place, kind)) = {made}
    PROVE  ObservationOf(kind, key, account, bound, c) = "found"
<1>1. OfName(account, c.name) = {made}
  BY MadeHasName
<1>2. CASE kind = "volume"
  <2>1. NetworkVolumeIsValid(made, c)
    BY <1>2
    DEF NetworkVolumeIsValid, Made, NetworkVolumeSummary, CreateRequest,
        CreatesNetworkVolume, PostNetworkVolume, NetworkVolumeCreateInput, Request,
        CreateNetworkVolume, ObserveCommand
  <2>2. Shown(ListNetworkVolumes(key), account, bound) = account
    BY DEF Shown, ListNetworkVolumes, Request
  <2> QED
    BY <1>1, <1>2, <2>1, <2>2 DEF ObservationOf, ObserveNetworkVolume, ClassifyObservation
<1>3. CASE kind = "pod"
  <2>1. ProvisionerPodIsValid(made, c)
    BY <1>3
    DEF ProvisionerPodIsValid, Made, PodSummary, CreateRequest, StartsProvisionerPod,
        PostPod, PodCreateInput, Request, StartProvisionerPod, ObserveCommand
  <2>2. Shown(ListPods(key, c.name), account, bound) = account
    BY DEF Shown, ListPods, Request
  <2> QED
    BY <1>1, <1>3, <2>1, <2>2 DEF ObservationOf, ObserveProvisionerPod, ClassifyObservation
<1>4. CASE kind = "template"
  <2>1. TemplateIsValid(made)
    BY <1>4
    DEF TemplateIsValid, Made, TemplateSummary, CreateRequest, CreatesTemplate,
        PostTemplate, TemplateCreateInput, Request, CreateTemplate
  <2>2. Shown(ListTemplates(key), account, bound) = account
    BY DEF Shown, ListTemplates, Request
  <2> QED
    BY <1>1, <1>4, <2>1, <2>2 DEF ObservationOf, ObserveTemplate, ClassifyObservation
<1>5. CASE kind = "endpoint"
  <2>1. EndpointIsValid(made, c)
    BY <1>5
    DEF EndpointIsValid, Made, EndpointSummary, CreateRequest, CreatesEndpoint,
        PostEndpoint, EndpointCreateInput, Request, CreateEndpoint, ObserveCommand
  <2>2. Shown(ListEndpoints(key), account, bound) = account
    BY DEF Shown, ListEndpoints, Request
  <2> QED
    BY <1>1, <1>5, <2>1, <2>2 DEF ObservationOf, ObserveEndpoint, ClassifyObservation
<1> QED BY <1>2, <1>3, <1>4, <1>5 DEF ResourceKind

\* Whatever a workspace and its runtime keep of a provision is enough to find
\* its resources again: an observation by a recovery or a cleanup, made with
\* the stored configuration and the stored ids, recognises the resource that the
\* request of the body created, provided that it is alone of its name, wherever
\* the body was interrupted and whoever else has resources in the account.
THEOREM OwnResourceIsFound ==
    ASSUME NEW command, NEW operation_id, NEW ids, NEW kind \in ResourceKind,
           NEW key, NEW image, NEW assets, NEW hugging_face_key, NEW id,
           NEW account, NEW bound
    PROVE  LET place  == ProvisionPlace(command, operation_id, ids)
               stored == StoredPlace(command.workspace_id,
                                     [StoredRuntime(command, operation_id)
                                          EXCEPT !.resources = ids])
               asked  == CreateRequest(kind, key, place, image, assets, hugging_face_key)
               made   == Made(kind, id, asked.content)
           IN (made \in account /\ \A r \in account : r.name = made.name => r = made)
                => ObservationOf(kind, key, account, bound,
                                 ObserveCommand(kind, stored)) = "found"
<1> DEFINE place  == ProvisionPlace(command, operation_id, ids)
           stored == StoredPlace(command.workspace_id,
                                 [StoredRuntime(command, operation_id)
                                      EXCEPT !.resources = ids])
           asked  == CreateRequest(kind, key, place, image, assets, hugging_face_key)
           made   == Made(kind, id, asked.content)
<1> SUFFICES ASSUME made \in account, \A r \in account : r.name = made.name => r = made
             PROVE  ObservationOf(kind, key, account, bound,
                                  ObserveCommand(kind, stored)) = "found"
  OBVIOUS
<1>1. stored = place
  BY DEF StoredPlace, StoredRuntime, ProvisionPlace
<1> HIDE DEF place, stored
<1>2. made.name = ResourceName(place, kind)
  BY MadeHasName
<1>3. OfName(account, ResourceName(place, kind)) = {made}
  <2> HIDE DEF made
  <2> QED BY <1>2 DEF OfName
<1> QED BY <1>1, <1>3, MadeIsFound

\* An observation finds a volume or an endpoint only if the account shows no other
\* of its name and the stored configuration describes it: nobody else's, and none
\* that was made for another configuration, is taken for the runtime's.
THEOREM FoundIsOwn ==
    ASSUME NEW kind \in {"volume", "endpoint"}, NEW key, NEW account, NEW bound, NEW place,
           ObservationOf(kind, key, account, bound, ObserveCommand(kind, place)) = "found"
    PROVE  \E r \in account :
              /\ OfName(account, ResourceName(place, kind)) = {r}
              /\ kind = "volume" => /\ r.data_center_id = place.config.datacenter_id
                                    /\ r.size = place.config.volume_size_gb
              /\ kind = "endpoint" => /\ r.gpu_type_ids = <<place.config.gpu_id>>
                                      /\ r.network_volume_id = {Volume(place)}
                                      /\ r.template_id = {Template(place)}
<1> DEFINE c == ObserveCommand(kind, place)
<1>1. CASE kind = "volume"
  <2>1. /\ c.name = ResourceName(place, "volume")
        /\ c.datacenter_id = place.config.datacenter_id
        /\ c.size_gb = place.config.volume_size_gb
    BY <1>1 DEF ObserveCommand, CreateNetworkVolume
  <2>2. Shown(ListNetworkVolumes(key), account, bound) = account
    BY DEF Shown, ListNetworkVolumes, Request
  <2> HIDE DEF c
  <2>3. PICK r \in account : OfName(account, c.name) = {r} /\ NetworkVolumeIsValid(r, c)
    BY <1>1, <2>2 DEF ObservationOf, ObserveNetworkVolume, ClassifyObservation, OfName, c
  <2> QED BY <1>1, <2>1, <2>3 DEF NetworkVolumeIsValid
<1>2. CASE kind = "endpoint"
  <2>1. /\ c.name = ResourceName(place, "endpoint")
        /\ c.gpu_id = place.config.gpu_id
        /\ c.network_volume_id = Volume(place)
        /\ c.template_id = Template(place)
    BY <1>2 DEF ObserveCommand
  <2>2. Shown(ListEndpoints(key), account, bound) = account
    BY DEF Shown, ListEndpoints, Request
  <2> HIDE DEF c
  <2>3. PICK r \in account : OfName(account, c.name) = {r} /\ EndpointIsValid(r, c)
    BY <1>2, <2>2 DEF ObservationOf, ObserveEndpoint, ClassifyObservation, OfName, c
  <2> QED BY <1>2, <2>1, <2>3 DEF EndpointIsValid
<1> QED BY <1>1, <1>2

-----------------------------------------------------------------------------
(* The placement.                                                            *)

\* Of the positions of an id in the list of GPU types there is a last one.
LEMMA LastPosition ==
    ASSUME NEW n \in Nat, NEW S, S \subseteq 1 .. n, S # {}
    PROVE  \E i \in S : \A j \in S : j <= i
<1> DEFINE R == {n - i : i \in S}
           Less == OpToRel(<, Nat)
<1>1. R \subseteq Nat /\ R # {}
  <2>1. \A i \in S : n - i \in Nat
    OBVIOUS
  <2>2. PICK i : i \in S
    OBVIOUS
  <2>3. n - i \in R
    BY <2>2
  <2> QED BY <2>1, <2>3
<1>2. PICK m \in R : \A k \in R : m <= k
  <2>1. PICK m \in R : \A k \in R : ~(<<k, m>> \in Less)
    BY <1>1, NatLessThanWellFounded, WFMin
  <2>2. ASSUME NEW k \in R
        PROVE  m <= k
    <3>1. m \in Nat /\ k \in Nat
      BY <1>1
    <3>2. k < m => <<k, m>> \in Less
      BY <3>1 DEF OpToRel
    <3>3. ~(k < m)
      BY <2>1, <3>2
    <3> QED BY <3>1, <3>3
  <2> QED BY <2>2
<1>3. PICK i \in S : m = n - i
  BY <1>2
<1>4. ASSUME NEW j \in S
      PROVE  j <= i
  <2>1. n - j \in R
    OBVIOUS
  <2> QED BY <1>2, <1>3, <2>1
<1> QED BY <1>3, <1>4

\* What the user chooses from is whole or nothing: every data centre of the
\* response is there with every GPU type it offers, and each is described by an
\* entry of the list of GPU types, with an amount of memory that is not negative.
THEOREM PlacementIsWhole ==
    ASSUME NEW response \in PlacementResponse, NEW placement \in NormalizePlacement(response)
    PROVE  LET types == Some(response.gpu_types)
               datacenters == Some(response.datacenters)
           IN /\ DOMAIN placement.datacenters = DOMAIN datacenters
              /\ \A i \in DOMAIN datacenters :
                    LET offers == Offers(datacenters, i)
                        gpus   == placement.datacenters[i].gpus
                    IN /\ placement.datacenters[i].id = Field(datacenters, i, "id")
                       /\ DOMAIN gpus = DOMAIN offers
                       /\ \A j \in DOMAIN offers : \E k \in DOMAIN types :
                             /\ gpus[j].id = Field(offers, j, "gpu_type_id")
                             /\ gpus[j].id = Field(types, k, "id")
                             /\ gpus[j].name = Field(types, k, "display_name")
                             /\ gpus[j].vram_gb = Field(types, k, "memory_gb")
                             /\ gpus[j].vram_gb >= 0
<1> DEFINE types == Some(response.gpu_types)
           datacenters == Some(response.datacenters)
           Described(gpu, id) ==
               \E k \in DOMAIN types :
                  /\ gpu.id = id /\ gpu.id = Field(types, k, "id")
                  /\ gpu.name = Field(types, k, "display_name")
                  /\ gpu.vram_gb = Field(types, k, "memory_gb")
                  /\ gpu.vram_gb >= 0
<1> PICK n \in Nat : DOMAIN types = 1 .. n
  <2>1. types \in Seq(Option(PlacementGpuType))
    BY DEF NormalizePlacement, PlacementResponse, Option, Some
  <2> QED BY <2>1
<1>1. /\ Normalizable(types, datacenters)
      /\ placement.datacenters =
            [i \in DOMAIN datacenters |->
               [id   |-> Field(datacenters, i, "id"),
                name |-> Field(datacenters, i, "name"),
                gpus |-> [j \in DOMAIN Offers(datacenters, i) |->
                            GpusById(types)[Field(Offers(datacenters, i), j, "gpu_type_id")]]]]
  BY DEF NormalizePlacement
<1>2. ASSUME NEW id \in DOMAIN GpusById(types)
      PROVE  Described(GpusById(types)[id], id)
  <2> DEFINE S == {i \in DOMAIN types : Field(types, i, "id") = id}
             Last(i) == /\ Field(types, i, "id") = id
                        /\ \A j \in DOMAIN types : Field(types, j, "id") = id => j <= i
             last == CHOOSE i \in DOMAIN types : Last(i)
  <2>1. id \in {Field(types, i, "id") : i \in DOMAIN types}
    BY DEF GpusById
  <2>2. S # {} /\ S \subseteq 1 .. n
    BY <2>1
  <2>3. \E i \in DOMAIN types : Last(i)
    <3>1. PICK i \in S : \A j \in S : j <= i
      BY <2>2, LastPosition
    <3> QED BY <3>1
  <2>4. last \in DOMAIN types /\ Field(types, last, "id") = id
    BY <2>3
  <2>5. GpusById(types)[id] = [id      |-> id,
                               name    |-> Field(types, last, "display_name"),
                               vram_gb |-> Field(types, last, "memory_gb")]
    BY <2>1 DEF GpusById
  <2>6. Field(types, last, "memory_gb") >= 0
    BY <1>1, <2>4 DEF Normalizable
  <2> HIDE DEF last, types
  <2> QED BY <2>4, <2>5, <2>6
<1>3. ASSUME NEW i \in DOMAIN datacenters, NEW j \in DOMAIN Offers(datacenters, i)
      PROVE  Field(Offers(datacenters, i), j, "gpu_type_id") \in DOMAIN GpusById(types)
  BY <1>1 DEF Normalizable
<1> HIDE DEF types, datacenters, Described
<1>4. DOMAIN placement.datacenters = DOMAIN datacenters
  BY <1>1
<1>5. ASSUME NEW i \in DOMAIN datacenters
      PROVE  /\ placement.datacenters[i].id = Field(datacenters, i, "id")
             /\ DOMAIN placement.datacenters[i].gpus = DOMAIN Offers(datacenters, i)
             /\ \A j \in DOMAIN Offers(datacenters, i) :
                   Described(placement.datacenters[i].gpus[j],
                             Field(Offers(datacenters, i), j, "gpu_type_id"))
  <2>1. placement.datacenters[i] =
           [id   |-> Field(datacenters, i, "id"),
            name |-> Field(datacenters, i, "name"),
            gpus |-> [j \in DOMAIN Offers(datacenters, i) |->
                        GpusById(types)[Field(Offers(datacenters, i), j, "gpu_type_id")]]]
    BY <1>1
  <2> QED BY <1>2, <1>3, <2>1
<1> QED BY <1>4, <1>5 DEF types, datacenters, Described

-----------------------------------------------------------------------------
(* Type correctness.                                                         *)

\* The empty store and the process that is not running are typed.
LEMMA InitIsTyped == Init => TypeOK
BY MaxFaultsAssumption
DEF Init, TypeOK, StoreTypeOK, TaskTypeOK, CallTypeOK, ProcessTypeOK, CloudTypeOK,
    Runtime, Operation, Task, Idle, Call, NoCall, HoldsRow, HoldsRuntime, BodyPc,
    RecoveryPc

\* A committed pair of rows leaves the tables typed, and no row disappears.
LEMMA SavedIsTyped ==
    ASSUME StoreTypeOK, NEW o \in OpId, NEW op \in Row, NEW rt \in Runtime,
           Saved(o, op, rt)
    PROVE  /\ StoreTypeOK'
           /\ \A p \in OpId : ops[p] \in Row => ops'[p] \in Row
           /\ workspaces' = workspaces
<1>1. op.ws \in Workspace
  BY DEF Row
<1>2. /\ ops' = [ops EXCEPT ![o] = op]
      /\ anchor' = [anchor EXCEPT ![op.ws] = rt]
      /\ workspaces' = workspaces
  BY DEF Saved
<1>3. ops' \in [OpId -> Operation] /\ anchor' \in [Workspace -> Runtime]
  BY <1>1, <1>2 DEF StoreTypeOK, Operation
<1>4. \A p \in OpId : ops[p] \in Row => ops'[p] \in Row
  BY <1>2 DEF StoreTypeOK
<1> QED BY <1>2, <1>3, <1>4 DEF StoreTypeOK

\* A task that is replaced by a typed one leaves all tasks typed.
LEMMA TaskReplaced ==
    ASSUME TaskTypeOK, NEW o \in OpId, NEW t \in Task,
           t.pc \in HoldsRow => t.op \in Row,
           t.pc \in HoldsRuntime => t.rt \in AttachedRuntime,
           task' = [task EXCEPT ![o] = t]
    PROVE  TaskTypeOK'
BY DEF TaskTypeOK

\* A task that ends, or that its supervisor takes over, leaves all tasks typed.
LEMMA TaskOver ==
    ASSUME TaskTypeOK, NEW o \in OpId, TaskEnds(o) \/ BodyFails(o)
    PROVE  TaskTypeOK'
<1>1. Idle \in Task /\ [Idle EXCEPT !.pc = "fail_load_op"] \in Task
  BY DEF Idle, Task, Operation, Runtime, SupervisorPc
<1>2. Idle.pc \notin HoldsRow \cup HoldsRuntime
  BY DEF Idle, HoldsRow, HoldsRuntime, BodyPc, RecoveryPc
<1>3. [Idle EXCEPT !.pc = "fail_load_op"].pc \notin HoldsRow \cup HoldsRuntime
  BY DEF Idle, HoldsRow, HoldsRuntime, BodyPc, RecoveryPc
<1>4. CASE TaskEnds(o)
  BY <1>1, <1>2, <1>4 DEF TaskTypeOK, TaskEnds
<1>5. CASE BodyFails(o)
  BY <1>1, <1>3, <1>5 DEF TaskTypeOK, BodyFails
<1> QED BY <1>4, <1>5

\* What a body, a supervisor and a recovery hold.
LEMMA TaskHolds ==
    ASSUME TaskTypeOK, NEW o \in OpId
    PROVE  /\ task[o] \in Task
           /\ task[o].pc \in BodyPc =>
                task[o].op \in Row /\ task[o].rt \in AttachedRuntime
           /\ task[o].pc \in RecoveryPc => task[o].op \in Row
           /\ KindOf(o) \in ResourceKind
BY TargetIsKind DEF TaskTypeOK, HoldsRow, HoldsRuntime, KindOf

\* The resources named after an attached runtime are resources.
LEMMA NamedAreResources ==
    ASSUME NEW rt \in AttachedRuntime, NEW k \in ResourceKind
    PROVE  \A C \in SUBSET Copy : Named(rt.gen, k, C) \subseteq Resource
BY DEF AttachedRuntime, Named, Resource

\* What an action leaves unchanged stays typed.
LEMMA UnchangedIsTyped ==
    /\ StoreTypeOK /\ UNCHANGED store => StoreTypeOK'
    /\ TaskTypeOK /\ UNCHANGED task => TaskTypeOK'
    /\ CallTypeOK /\ UNCHANGED callers => CallTypeOK'
    /\ CloudTypeOK /\ UNCHANGED cloud => CloudTypeOK'
BY DEF StoreTypeOK, store, TaskTypeOK, CallTypeOK, CloudTypeOK, cloud

\* Faults stay within their bound.
LEMMA FaultsBounded ==
    ASSUME faults \in 0 .. MaxFaults, Fault \/ UNCHANGED faults
    PROVE  faults' \in 0 .. MaxFaults
BY MaxFaultsAssumption DEF Fault

\* The body leaves the variables typed, whatever step it takes.
LEMMA BodyIsTyped ==
    ASSUME TypeOK, NEW o \in OpId, BodyStep(o) \/ Deadline(o) \/ DeadlineInCommit(o)
    PROVE  TypeOK'
<1> DEFINE t == task[o]
<1> USE DEF TypeOK
<1>1. CallTypeOK'
  BY UnchangedIsTyped, Effects
  DEF BodyStep, CreateEffect, ObserveEffect, Purge, Wait, DeleteEffect, Adopt, Save,
      UndoEffect, Deadline, DeadlineInCommit
<1>2. UNCHANGED <<phase, queue, lost>> /\ (Fault \/ UNCHANGED faults)
  BY Effects
  DEF BodyStep, CreateEffect, ObserveEffect, Purge, Wait, DeleteEffect, Adopt, Save,
      UndoEffect, Deadline, DeadlineInCommit, SaveRefused
<1>3. /\ t \in Task
      /\ t.pc \in BodyPc => t.op \in Row /\ t.rt \in AttachedRuntime
      /\ KindOf(o) \in ResourceKind
  BY TaskHolds
<1>4. t.pc \in BodyPc
  BY Effects
  DEF BodyStep, CreateEffect, ObserveEffect, Purge, Wait, DeleteEffect, Adopt, Save,
      UndoEffect, Deadline, DeadlineInCommit, BodyPc
<1>5. t.op \in Row /\ t.rt \in AttachedRuntime
  BY <1>3, <1>4
<1>6. /\ NextOperation(o) \in Row
      /\ NextRuntime(o) \in Runtime
      /\ t.op.step \notin LastStep => NextRuntime(o) \in AttachedRuntime
  BY <1>5, RowsStayRows, AdvancedIsRuntime DEF NextOperation, NextRuntime
<1>7. /\ StoreTypeOK'
      /\ \A p \in OpId : ops[p] \in Row => ops'[p] \in Row
  <2>1. \/ Saved(o, NextOperation(o), NextRuntime(o))
        \/ Saved(o, t.op, t.rt)
        \/ UNCHANGED store
    BY Effects
    DEF BodyStep, CreateEffect, ObserveEffect, Purge, Wait, DeleteEffect, Adopt, Save,
        UndoEffect, Deadline, DeadlineInCommit, SaveRefused
  <2>2. t.rt \in Runtime
    BY <1>5 DEF Runtime
  <2>3. CASE UNCHANGED store
    BY <2>3, UnchangedIsTyped DEF store
  <2> QED BY <1>5, <1>6, <2>1, <2>2, <2>3, SavedIsTyped
<1>8. ProcessTypeOK'
  BY <1>2, <1>7, FaultsBounded DEF ProcessTypeOK
<1>9. CloudTypeOK'
  <2>1. \A C \in SUBSET Copy : Named(Gen(o), KindOf(o), C) \subseteq Resource
    BY <1>3, <1>5, NamedAreResources DEF Gen
  <2>2. Wanted(o) \in Resource
    BY <1>3, <1>5, CopyAssumption DEF Wanted, Gen, Resource, AttachedRuntime
  <2>3. CASE Create(o)
    <3>1. CASE remote' = remote \cup {Wanted(o)} /\ UNCHANGED late
      BY <3>1, <2>2 DEF CloudTypeOK
    <3>2. ASSUME NEW C \in SUBSET Copy,
                 remote' = remote \cup Named(Gen(o), KindOf(o), C), UNCHANGED late
          PROVE  CloudTypeOK'
      BY <3>2, <2>1 DEF CloudTypeOK
    <3>3. ASSUME NEW c \in Copy,
                 late' = late \cup Named(Gen(o), KindOf(o), {c}), UNCHANGED remote
          PROVE  CloudTypeOK'
      <4>1. Named(Gen(o), KindOf(o), {c}) \subseteq Resource
        BY <2>1, {c} \in SUBSET Copy
      <4> QED BY <3>3, <4>1 DEF CloudTypeOK
    <3>4. CASE UNCHANGED cloud
      BY <3>4, UnchangedIsTyped
    <3> QED BY <2>3, <3>1, <3>2, <3>3, <3>4, Effects DEF CreateEffect
  <2>4. CASE Purge(o) \/ Delete(o) \/ Undo(o)
    <3>1. remote' \subseteq remote /\ late' = late
      BY <2>4, Effects DEF Purge, DeleteEffect, UndoEffect
    <3> QED BY <3>1 DEF CloudTypeOK
  <2>5. CASE UNCHANGED cloud
    BY <2>5, UnchangedIsTyped
  <2> QED
    BY <2>3, <2>4, <2>5, Effects
    DEF BodyStep, ObserveEffect, Wait, Adopt, Save, Deadline, DeadlineInCommit
<1>10. TaskTypeOK'
  <2>1. CASE BodyFails(o) \/ TaskEnds(o)
    BY <2>1, TaskOver
  <2>2. ASSUME NEW pc \in BodyPc, Goto(o, pc)
        PROVE  TaskTypeOK'
    <3>1. [t EXCEPT !.pc = pc] \in Task
      BY <1>3 DEF Task
    <3> QED BY <1>5, <2>2, <3>1, TaskReplaced DEF Goto, Task
  <2>3. ASSUME NEW pc \in BodyPc, NEW rt \in AttachedRuntime,
               task' = [task EXCEPT ![o].rt = rt, ![o].pc = pc]
        PROVE  TaskTypeOK'
    <3>1. [t EXCEPT !.rt = rt, !.pc = pc] \in Task
      BY <1>3 DEF Task, Runtime
    <3> QED BY <1>5, <2>3, <3>1, TaskReplaced DEF Task, TaskTypeOK
  <2>4. ASSUME NEW pc \in BodyPc, NEW ids \in SUBSET Resource,
               task' = [task EXCEPT ![o].ids = ids, ![o].pc = pc]
        PROVE  TaskTypeOK'
    <3>1. [t EXCEPT !.ids = ids, !.pc = pc] \in Task
      BY <1>3 DEF Task
    <3> QED BY <1>5, <2>4, <3>1, TaskReplaced DEF Task, TaskTypeOK
  <2>5. Knowing(t.rt, KindOf(o)) \in AttachedRuntime
        /\ Forgetting(t.rt, KindOf(o)) \in AttachedRuntime
    BY <1>3, <1>5, AttachedStaysAttached
  <2>6. Listed(o) \in SUBSET Resource
    BY DEF Listed, CloudTypeOK
  <2>7. {} \in SUBSET Resource
    OBVIOUS
  <2>8. CASE Create(o)
    BY <2>8, <2>1, <2>2, <2>3, <2>5, Effects DEF CreateEffect, Learns, BodyPc
  <2>9. CASE Observe(o)
    BY <2>9, <2>1, <2>2, <2>3, <2>4, <2>5, <2>6, Effects DEF ObserveEffect, BodyPc
  <2>10. CASE Purge(o)
    BY <2>10, <2>1, <2>4, <2>7 DEF Purge, BodyPc
  <2>11. CASE Wait(o) \/ Adopt(o)
    BY <2>11, <2>1, <2>2 DEF Wait, Adopt, BodyPc
  <2>12. CASE Delete(o)
    BY <2>12, <2>1, <2>3, <2>5, Effects DEF DeleteEffect, BodyPc
  <2>13. CASE Save(o)
    <3>1. ASSUME t.op.step \notin LastStep
          PROVE  Entered(NextOperation(o), NextRuntime(o)) \in Task
      BY <3>1, <1>6 DEF Entered, EntryPc, Task, BodyPc, Operation, Runtime
    <3>2. ASSUME task' = [task EXCEPT ![o] = Entered(NextOperation(o), NextRuntime(o))],
                 t.op.step \notin LastStep
          PROVE  TaskTypeOK'
      BY <3>1, <3>2, <1>6, TaskReplaced DEF Entered
    <3> QED BY <2>13, <2>1, <2>2, <3>2 DEF Save, BodyPc
  <2>14. CASE Undo(o) \/ Deadline(o) \/ DeadlineInCommit(o)
    BY <2>14, <2>1, Effects DEF UndoEffect, Deadline, DeadlineInCommit
  <2> QED
    BY <2>8, <2>9, <2>10, <2>11, <2>12, <2>13, <2>14 DEF BodyStep
<1> QED BY <1>1, <1>7, <1>8, <1>9, <1>10

\* The save of a failed operation leaves the tables typed, committed or not.
LEMMA FailureIsTyped ==
    ASSUME TypeOK, NEW o \in OpId, task[o].op \in Row,
           FailureSaved(o) \/ FailureRefused(o) \/ UNCHANGED store
    PROVE  /\ StoreTypeOK'
           /\ \A p \in OpId : ops[p] \in Row => ops'[p] \in Row
<1> USE DEF TypeOK
<1>1. CASE FailureSaved(o)
  <2>1. task[o].rt \in Runtime /\ task[o].rt.state \in Busy
    BY <1>1 DEF TaskTypeOK, Task, FailureSaved, CanFail
  <2>2. MarkFailed(task[o].rt) \in Runtime
    BY <2>1 DEF MarkFailed, Runtime, AttachedRuntime, RuntimeState, Detached, Busy
  <2> QED BY <1>1, <2>2, RowsStayRows, SavedIsTyped DEF FailureSaved
<1>2. CASE UNCHANGED store
  BY <1>2, UnchangedIsTyped DEF store
<1>3. FailureRefused(o) => UNCHANGED store
  BY DEF FailureRefused, SaveRefused
<1> QED BY <1>1, <1>2, <1>3

\* So does a supervisor that fails an operation or gives it up.
LEMMA SupervisorIsTyped ==
    ASSUME TypeOK, NEW o \in OpId, SupervisorStep(o)
    PROVE  TypeOK'
<1> DEFINE t == task[o]
<1> USE DEF TypeOK
<1>1. CallTypeOK' /\ CloudTypeOK'
  BY UnchangedIsTyped DEF SupervisorStep, FailLoadOp, FailLoadWs, FailSave
<1>2. /\ UNCHANGED <<phase, queue>>
      /\ Fault \/ UNCHANGED faults
      /\ lost' \in {lost, lost \cup {o}}
  BY DEF SupervisorStep, FailLoadOp, FailLoadWs, FailSave, FailureRefused, SaveRefused,
         Abandon
<1>3. t \in Task /\ (t.pc \in {"fail_load_ws", "fail_save"} => t.op \in Row)
  BY DEF TaskTypeOK, HoldsRow
<1>4. /\ StoreTypeOK'
      /\ \A p \in OpId : ops[p] \in Row => ops'[p] \in Row
  <2>1. FailLoadOp(o) \/ FailLoadWs(o) => UNCHANGED store
    BY DEF FailLoadOp, FailLoadWs
  <2>2. CASE FailSave(o)
    BY <2>2, <1>3, FailureIsTyped DEF FailSave
  <2>3. CASE UNCHANGED store
    BY <2>3, UnchangedIsTyped DEF store
  <2> QED BY <2>1, <2>2, <2>3 DEF SupervisorStep
<1>5. ProcessTypeOK'
  BY <1>2, <1>4, FaultsBounded DEF ProcessTypeOK
<1>6. TaskTypeOK'
  <2>1. CASE TaskEnds(o)
    BY <2>1, TaskOver
  <2>2. CASE /\ Running(o)
             /\ task' = [task EXCEPT ![o].op = ops[o], ![o].pc = "fail_load_ws"]
    <3>1. ops[o] \in Row
      BY <2>2 DEF Running, StoreTypeOK, Operation, NoOperation
    <3>2. [t EXCEPT !.op = ops[o], !.pc = "fail_load_ws"] \in Task
      BY <1>3, <3>1 DEF Task, Operation, SupervisorPc
    <3> QED
      BY <2>2, <3>1, <3>2, <1>3, TaskReplaced
      DEF Task, TaskTypeOK, HoldsRuntime, BodyPc
  <2>3. CASE /\ t.pc = "fail_load_ws"
             /\ task' = [task EXCEPT ![o].rt = anchor[t.op.ws], ![o].pc = "fail_save"]
    <3>1. t.op \in Row /\ anchor[t.op.ws] \in Runtime
      BY <1>3, <2>3 DEF Row, StoreTypeOK
    <3>2. [t EXCEPT !.rt = anchor[t.op.ws], !.pc = "fail_save"] \in Task
      BY <1>3, <3>1 DEF Task, SupervisorPc
    <3> QED
      BY <2>3, <3>1, <3>2, <1>3, TaskReplaced
      DEF Task, TaskTypeOK, HoldsRuntime, BodyPc
  <2> QED
    BY <2>1, <2>2, <2>3
    DEF SupervisorStep, FailLoadOp, FailLoadWs, FailSave, Abandon
<1> QED BY <1>1, <1>4, <1>5, <1>6

\* So does recover_one, which keeps a row it has loaded from the queue.
LEMMA RecoveryIsTyped ==
    ASSUME TypeOK, NEW o \in OpId, RecoveryStep(o)
    PROVE  TypeOK'
<1> DEFINE t == task[o]
<1> USE DEF TypeOK
<1>1. CallTypeOK'
  BY UnchangedIsTyped, Effects
  DEF RecoveryStep, RecoverLoad, RecoverObserveEffect, RecoverPurge, RecoverSave
<1>2. /\ phase' = phase
      /\ queue' \subseteq queue
      /\ Fault \/ UNCHANGED faults
      /\ lost' \in {lost, lost \cup {o}}
  BY Effects
  DEF RecoveryStep, RecoverLoad, RecoverObserveEffect, RecoverPurge, RecoverSave,
      FailureRefused, SaveRefused, Abandon
<1>3. t \in Task /\ (t.pc \in RecoveryPc => t.op \in Row)
  BY TaskHolds
<1>4. /\ StoreTypeOK'
      /\ \A p \in OpId : ops[p] \in Row => ops'[p] \in Row
  <2>1. RecoverLoad(o) \/ RecoverObserve(o) \/ RecoverPurge(o) => UNCHANGED store
    BY Effects DEF RecoverLoad, RecoverObserveEffect, RecoverPurge
  <2>2. CASE RecoverSave(o)
    BY <2>2, <1>3, FailureIsTyped DEF RecoverSave, RecoveryPc
  <2>3. CASE UNCHANGED store
    BY <2>3, UnchangedIsTyped DEF store
  <2> QED BY <2>1, <2>2, <2>3 DEF RecoveryStep
<1>5. ProcessTypeOK'
  BY <1>2, <1>4, FaultsBounded DEF ProcessTypeOK
<1>6. CloudTypeOK'
  <2>1. remote' \subseteq remote /\ late' = late
    BY Effects
    DEF RecoveryStep, RecoverLoad, RecoverObserveEffect, RecoverPurge, RecoverSave, cloud
  <2> QED BY <2>1 DEF CloudTypeOK
<1>7. TaskTypeOK'
  <2>1. CASE TaskEnds(o)
    BY <2>1, TaskOver
  <2>2. CASE RecoverLoad(o) /\ ~TaskEnds(o)
    <3> DEFINE rt == anchor[ops[o].ws]
               u == [pc  |-> IF Looks(ops[o], rt) THEN "recover_observe"
                                                  ELSE "recover_save",
                     op  |-> ops[o], rt |-> rt, ids |-> {}]
    <3>1. ops[o] \in Row /\ task' = [task EXCEPT ![o] = u]
      BY <2>2 DEF RecoverLoad, Abandon, ProcessTypeOK
    <3>2. rt \in Runtime
      BY <3>1 DEF Row, StoreTypeOK
    <3>3. Looks(ops[o], rt) => rt \in AttachedRuntime
      BY <3>2 DEF Looks, Runtime
    <3>4. u \in Task
      BY <3>1, <3>2 DEF Task, Operation, RecoveryPc
    <3>5. u.pc \in HoldsRuntime => u.rt \in AttachedRuntime
      BY <3>3 DEF HoldsRuntime, BodyPc
    <3> HIDE DEF u
    <3>6. u.op \in Row
      BY <3>1 DEF u
    <3> QED BY <3>1, <3>4, <3>5, <3>6, TaskReplaced
  <2>3. CASE RecoverObserve(o)
    <3>1. t.op \in Row /\ t.rt \in AttachedRuntime /\ KindOf(o) \in ResourceKind
      BY <2>3, <1>3, TaskHolds, Effects
      DEF RecoverObserveEffect, RecoveryPc, TaskTypeOK, HoldsRuntime
    <3>2. Knowing(t.rt, KindOf(o)) \in AttachedRuntime
      BY <3>1, AttachedStaysAttached
    <3>3. Listed(o) \in SUBSET Resource
      BY DEF Listed, CloudTypeOK
    <3>4. \/ task' = [task EXCEPT ![o].pc = "recover_save"]
          \/ task' = [task EXCEPT ![o].rt = Knowing(t.rt, KindOf(o)),
                                  ![o].pc = "recover_save"]
          \/ task' = [task EXCEPT ![o].ids = Listed(o), ![o].pc = "recover_purge"]
      BY <2>3, Effects DEF RecoverObserveEffect, Goto
    <3>5. /\ [t EXCEPT !.pc = "recover_save"] \in Task
          /\ [t EXCEPT !.rt = Knowing(t.rt, KindOf(o)), !.pc = "recover_save"] \in Task
          /\ [t EXCEPT !.ids = Listed(o), !.pc = "recover_purge"] \in Task
      BY <1>3, <3>2, <3>3 DEF Task, RecoveryPc, Runtime
    <3>6. ASSUME NEW u \in Task, u.op = t.op, u.rt \in AttachedRuntime,
                 task' = [task EXCEPT ![o] = u]
          PROVE  TaskTypeOK'
      BY <3>1, <3>6, TaskReplaced
    <3>7. CASE task' = [task EXCEPT ![o].pc = "recover_save"]
      BY <3>1, <3>5, <3>6, <3>7, <1>3 DEF Task
    <3>8. CASE task' = [task EXCEPT ![o].rt = Knowing(t.rt, KindOf(o)),
                                    ![o].pc = "recover_save"]
      BY <3>2, <3>5, <3>6, <3>8, <1>3 DEF Task, TaskTypeOK
    <3>9. CASE task' = [task EXCEPT ![o].ids = Listed(o), ![o].pc = "recover_purge"]
      BY <3>1, <3>5, <3>6, <3>9, <1>3 DEF Task, TaskTypeOK
    <3> QED BY <3>4, <3>7, <3>8, <3>9
  <2>4. CASE RecoverPurge(o)
    <3>1. t.op \in Row
      BY <2>4, <1>3 DEF RecoverPurge, RecoveryPc
    <3>2. [t EXCEPT !.ids = {}, !.pc = "recover_save"] \in Task
      BY <1>3 DEF Task, RecoveryPc
    <3>3. "recover_save" \notin HoldsRuntime
      BY DEF HoldsRuntime, BodyPc
    <3> QED BY <2>4, <3>1, <3>2, <3>3, <1>3, TaskReplaced
            DEF RecoverPurge, Task, TaskTypeOK
  <2>5. CASE RecoverSave(o)
    BY <2>5, <2>1 DEF RecoverSave, Abandon
  <2> QED
    BY <2>1, <2>2, <2>3, <2>4, <2>5 DEF RecoveryStep
<1> QED BY <1>1, <1>4, <1>5, <1>6, <1>7

\* So do the commands and the admissions of their operations.
LEMMA CommandIsTyped ==
    ASSUME TypeOK, Command
    PROVE  TypeOK'
<1> USE DEF TypeOK
<1>1. ASSUME NEW w \in Workspace, CreateWorkspace(w) \/ DeleteWorkspace(w)
      PROVE  TypeOK'
  <2>1. workspaces' \in [Workspace -> {"unborn", "present", "deleted"}]
    BY <1>1 DEF CreateWorkspace, DeleteWorkspace, StoreTypeOK
  <2> QED
    BY <1>1, <2>1, UnchangedIsTyped
    DEF CreateWorkspace, DeleteWorkspace, StoreTypeOK, process, ProcessTypeOK
<1>2. ASSUME NEW c \in Caller, NEW w \in Workspace,
             ProvisionBegin(c, w) \/ CleanupBegin(c, w)
      PROVE  TypeOK'
  <2>1. CallTypeOK'
    <3>1. CASE ProvisionBegin(c, w)
      BY <3>1 DEF ProvisionBegin, CallTypeOK, Call, Runtime
    <3>2. CASE CleanupBegin(c, w)
      <4>1. anchor[w] \in AttachedRuntime
        BY <3>2 DEF CleanupBegin, StoreTypeOK, Runtime, Settled, Detached
      <4>2. BeginCleanup(anchor[w]) \in AttachedRuntime
        BY <4>1 DEF BeginCleanup, AttachedRuntime, RuntimeState
      <4> QED BY <3>2, <4>2 DEF CleanupBegin, CallTypeOK, Call, Runtime
    <3> QED BY <1>2, <3>1, <3>2
  <2> QED
    BY <1>2, <2>1, UnchangedIsTyped
    DEF ProvisionBegin, CleanupBegin, ProcessTypeOK, store
<1>3. ASSUME NEW c \in Caller, NEW o \in OpId, NEW op \in Row, NEW rt \in AttachedRuntime,
             Admit(c, o, op, rt)
      PROVE  TypeOK'
  <2>1. /\ StoreTypeOK'
        /\ \A p \in OpId : ops[p] \in Row => ops'[p] \in Row
    BY <1>3, SavedIsTyped DEF Admit, Runtime
  <2>2. ProcessTypeOK'
    BY <1>3, <2>1 DEF Admit, ProcessTypeOK
  <2>3. CallTypeOK'
    BY <1>3 DEF Admit, CallTypeOK, NoCall, Call, Runtime
  <2>4. Entered(op, rt) \in Task
    BY DEF Entered, EntryPc, Task, BodyPc, Operation, Runtime
  <2>5. TaskTypeOK'
    BY <1>3, <2>4, TaskReplaced DEF Admit, Entered
  <2> QED BY <1>3, <2>1, <2>2, <2>3, <2>5, UnchangedIsTyped DEF Admit
<1>4. ASSUME NEW c \in Caller, NEW o \in OpId, ProvisionAdmit(c, o) \/ CleanupAdmit(c, o)
      PROVE  TypeOK'
  <2>1. callers[c].ws \in Workspace
    BY <1>4 DEF ProvisionAdmit, CleanupAdmit, CallTypeOK
  <2>2. ProvisionOf(callers[c].ws) \in Row /\ CleanupOf(callers[c].ws) \in Row
    BY <2>1 DEF ProvisionOf, CleanupOf, Row, Step, ProvisionStep, CreateStep, CleanupStep
  <2>3. NewProvisioning(o) \in AttachedRuntime
    BY DEF NewProvisioning, AttachedRuntime, RuntimeState
  <2>4. CleanupAdmit(c, o) => callers[c].rt \in AttachedRuntime
    BY DEF CleanupAdmit, CallTypeOK
  <2> QED BY <1>3, <1>4, <2>2, <2>3, <2>4 DEF ProvisionAdmit, CleanupAdmit
<1>5. ASSUME NEW c \in Caller, CallerGivesUp(c)
      PROVE  TypeOK'
  <2>1. CallTypeOK'
    BY <1>5 DEF CallerGivesUp, CallTypeOK, NoCall, Call, Runtime
  <2> QED BY <1>5, <2>1, UnchangedIsTyped DEF CallerGivesUp, ProcessTypeOK, store
<1> QED BY <1>1, <1>2, <1>4, <1>5 DEF Command

\* So do the start, the end and the restart of the process, and RunPod.
LEMMA ProcessIsTyped ==
    ASSUME TypeOK, Exit \/ Boot \/ Serve \/ \E r \in late : LateCreate(r)
    PROVE  TypeOK'
<1> USE DEF TypeOK
<1>1. CASE Exit
  <2>1. TaskTypeOK'
    BY <1>1
    DEF Exit, TaskTypeOK, Idle, Task, Operation, Runtime, HoldsRow, HoldsRuntime, BodyPc,
        RecoveryPc
  <2>2. CallTypeOK'
    BY <1>1 DEF Exit, CallTypeOK, NoCall, Call, Runtime
  <2>3. faults' \in 0 .. MaxFaults
    BY <1>1, FaultsBounded DEF Exit, ProcessTypeOK
  <2> QED BY <1>1, <2>1, <2>2, <2>3, UnchangedIsTyped DEF Exit, ProcessTypeOK
<1>2. CASE Boot
  <2>1. \A o \in OpId : Running(o) => ops[o] \in Row
    BY DEF Running, StoreTypeOK, Operation, NoOperation
  <2> QED BY <1>2, <2>1, UnchangedIsTyped DEF Boot, ProcessTypeOK, store
<1>3. CASE Serve
  BY <1>3, UnchangedIsTyped DEF Serve, ProcessTypeOK, store
<1>4. ASSUME NEW r \in late, LateCreate(r)
      PROVE  TypeOK'
  <2>1. CloudTypeOK'
    BY <1>4 DEF LateCreate, CloudTypeOK
  <2> QED BY <1>4, <2>1, UnchangedIsTyped DEF LateCreate, process, ProcessTypeOK, store
<1> QED BY <1>1, <1>2, <1>3, <1>4

\* TypeOK is inductive.
LEMMA StepIsTyped == TypeOK /\ [Next]_vars => TypeOK'
<1> SUFFICES ASSUME TypeOK, [Next]_vars
             PROVE  TypeOK'
  OBVIOUS
<1>1. CASE UNCHANGED vars
  BY <1>1, UnchangedIsTyped DEF vars, store, cloud, process, TypeOK, ProcessTypeOK
<1> QED
  BY <1>1, BodyIsTyped, SupervisorIsTyped, RecoveryIsTyped, CommandIsTyped, ProcessIsTyped
  DEF Next

\* Every table, task and call always holds a value of its type: in particular a
\* body always holds a row and an attached runtime, so that `runpod(&workspace)`
\* and `runpod_mut(&mut workspace)` never fail inside run_provision or
\* run_cleanup.
THEOREM TypeCorrect == Spec => []TypeOK
BY InitIsTyped, StepIsTyped, PTL DEF Spec

-----------------------------------------------------------------------------
(* The tables.                                                               *)

\* What validate_transition lets through: the runtime is busy exactly while the
\* operation runs, and then in the state of the operation's kind.
LEMMA ValidPairs ==
    ASSUME NEW op \in Row, NEW rt, ValidTransition(op, rt)
    PROVE  /\ op.state = "running" => rt.state = BusyState(op.kind)
           /\ rt.state \in Busy => op.state = "running"
           /\ StepOfKind(op)
BY DEF ValidTransition, Row, BusyState, StepOfKind, Busy, Finished

\* A task that saves its own running operation, or admits a new one, is the only
\* one on its workspace: nobody else's rows change.
LEMMA SaverIsAlone ==
    ASSUME StoreTypeOK, StoreCoupled, NEW o \in OpId, NEW op \in Row, NEW rt \in Runtime,
           Saved(o, op, rt), Running(o) \/ (ops[o] = NoOperation /\ op.state = "running"),
           NEW p \in OpId, p # o
    PROVE  /\ ops'[p] = ops[p]
           /\ Running(p) => /\ ops[p].ws # op.ws
                            /\ ops[p].ws \in Workspace
                            /\ anchor'[ops[p].ws] = anchor[ops[p].ws]
<1>1. /\ ops' = [ops EXCEPT ![o] = op]
      /\ anchor' = [anchor EXCEPT ![op.ws] = rt]
      /\ Admissible(o, op, rt)
  BY DEF Saved
<1>2. op.ws \in Workspace /\ ops[p] \in Operation
  BY DEF Row, StoreTypeOK
<1>3. ASSUME Running(p)
      PROVE  ops[p].ws # op.ws /\ ops[p].ws \in Workspace
  <2>1. ops[p].ws \in Workspace
    BY <1>2, <1>3 DEF Running, Operation, Row, NoOperation
  <2>2. CASE Running(o)
    <3>1. ops[o].ws = op.ws
      BY <1>1, <2>2 DEF Admissible, Running, NoOperation
    <3> QED BY <1>3, <2>1, <2>2, <3>1 DEF StoreCoupled, OneRunningPerWorkspace
  <2>3. CASE ops[o] = NoOperation /\ op.state = "running"
    <3>1. anchor[op.ws].state \notin Busy
      BY <1>1, <2>3 DEF Admissible, Busy, Settled, Detached
    <3>2. anchor[ops[p].ws].state \in Busy
      BY <1>3 DEF StoreCoupled, RunningIsAnchored, BusyState, Busy
    <3> QED BY <2>1, <3>1, <3>2
  <2> QED BY <2>2, <2>3
<1>4. ops'[p] = ops[p]
  BY <1>1 DEF StoreTypeOK
<1>5. Running(p) => anchor'[ops[p].ws] = anchor[ops[p].ws]
  BY <1>1, <1>2, <1>3 DEF StoreTypeOK
<1> QED BY <1>3, <1>4, <1>5

\* Such a save leaves the tables in agreement.
LEMMA SaveKeepsStore ==
    ASSUME StoreTypeOK, StoreCoupled, NEW o \in OpId, NEW op \in Row, NEW rt \in Runtime,
           Saved(o, op, rt), Running(o) \/ (ops[o] = NoOperation /\ op.state = "running")
    PROVE  StoreCoupled'
<1>1. /\ ops' = [ops EXCEPT ![o] = op]
      /\ anchor' = [anchor EXCEPT ![op.ws] = rt]
      /\ workspaces' = workspaces
      /\ Admissible(o, op, rt)
      /\ ValidTransition(op, rt)
  BY DEF Saved, Admissible
<1>2. op.ws \in Workspace
  BY DEF Row
<1>3. ops'[o] = op /\ anchor'[op.ws] = rt
  BY <1>1, <1>2 DEF StoreTypeOK
<1>4. \A w \in Workspace : w # op.ws => anchor'[w] = anchor[w]
  BY <1>1 DEF StoreTypeOK
<1>5. \A p \in OpId : p # o =>
         /\ ops'[p] = ops[p]
         /\ Running(p) => /\ ops[p].ws # op.ws
                          /\ ops[p].ws \in Workspace
                          /\ anchor'[ops[p].ws] = anchor[ops[p].ws]
  BY SaverIsAlone
<1>6. /\ op.state = "running" => rt.state = BusyState(op.kind)
      /\ rt.state \in Busy => op.state = "running"
      /\ StepOfKind(op)
  BY <1>1, ValidPairs
<1>7. rt.state # "none" => workspaces[op.ws] = "present"
  BY <1>1, <1>2 DEF Admissible, Detached, Settled, StoreCoupled, AttachedIsPresent
<1>8. OneRunningPerWorkspace'
  BY <1>3, <1>5 DEF OneRunningPerWorkspace, Running, StoreCoupled
<1>9. RunningIsAnchored'
  <2> SUFFICES ASSUME NEW p \in OpId, Running(p)'
               PROVE  /\ workspaces'[ops'[p].ws] = "present"
                      /\ anchor'[ops'[p].ws].state = BusyState(ops'[p].kind)
                      /\ StepOfKind(ops'[p])
    BY DEF RunningIsAnchored, StepOfKind
  <2>1. CASE p = o
    <3>1. rt.state # "none"
      BY <1>3, <1>6, <2>1 DEF Running, BusyState
    <3> QED BY <1>1, <1>3, <1>6, <1>7, <2>1, <3>1 DEF Running
  <2>2. CASE p # o
    BY <1>1, <1>5, <2>2 DEF StoreCoupled, RunningIsAnchored, Running
  <2> QED BY <2>1, <2>2
<1>10. BusyIsRunning'
  <2> SUFFICES ASSUME NEW w \in Workspace, anchor'[w].state \in Busy
               PROVE  \E q \in OpId : Running(q)' /\ ops'[q].ws = w
    BY DEF BusyIsRunning
  <2>1. CASE w = op.ws
    BY <1>3, <1>6, <2>1 DEF Running
  <2>2. CASE w # op.ws
    <3>1. PICK q \in OpId : Running(q) /\ ops[q].ws = w
      BY <1>4, <2>2 DEF StoreCoupled, BusyIsRunning
    <3>2. q # o
      BY <1>1, <2>2, <3>1 DEF Admissible, Running, NoOperation
    <3> QED BY <1>5, <3>1, <3>2 DEF Running
  <2> QED BY <2>1, <2>2
<1>11. AttachedIsPresent'
  BY <1>1, <1>3, <1>4, <1>7 DEF AttachedIsPresent, StoreCoupled
<1> QED BY <1>8, <1>9, <1>10, <1>11 DEF StoreCoupled

-----------------------------------------------------------------------------
(* Frames: what a step of one task has to show.                              *)

\* A task that holds an anchor holds a row, and an idle one neither.
LEMMA HoldingMeansRow == HoldsAnchor \subseteq HoldsRow /\ "idle" \notin HoldsRow
BY DEF HoldsAnchor, HoldsRow, BodyPc, RecoveryPc

\* A task that saves at most its own pair and stays coupled itself leaves the
\* tables and every other task coupled.
LEMMA TaskMoves ==
    ASSUME StoreTypeOK, StoreCoupled, TasksCoupled, NEW o \in OpId,
           \A p \in OpId : p # o => task'[p] = task[p],
           \/ UNCHANGED store
           \/ \E op \in Row, rt \in Runtime :
                 /\ Saved(o, op, rt)
                 /\ Running(o) \/ (ops[o] = NoOperation /\ op.state = "running"),
           TaskCoupled(o)'
    PROVE  /\ StoreCoupled' /\ TasksCoupled'
           /\ \A p \in OpId : p # o => ops'[p] = ops[p]
<1>1. CASE UNCHANGED store
  <2>1. StoreCoupled'
    BY <1>1
    DEF store, StoreCoupled, OneRunningPerWorkspace, RunningIsAnchored, BusyIsRunning,
        AttachedIsPresent, Running
  <2>2. \A p \in OpId : p # o => TaskCoupled(p)'
    BY <1>1 DEF TasksCoupled, TaskCoupled, store, Running
  <2> QED BY <1>1, <2>1, <2>2 DEF TasksCoupled, store
<1>2. ASSUME NEW op \in Row, NEW rt \in Runtime, Saved(o, op, rt),
             Running(o) \/ (ops[o] = NoOperation /\ op.state = "running")
      PROVE  /\ StoreCoupled' /\ TasksCoupled'
             /\ \A p \in OpId : p # o => ops'[p] = ops[p]
  <2>1. StoreCoupled'
    BY <1>2, SaveKeepsStore
  <2>2. ASSUME NEW p \in OpId, p # o
        PROVE  TaskCoupled(p)'
    <3>1. /\ ops'[p] = ops[p] /\ task'[p] = task[p]
          /\ Running(p) => anchor'[ops[p].ws] = anchor[ops[p].ws]
      BY <1>2, <2>2, SaverIsAlone
    <3> QED BY <3>1, HoldingMeansRow DEF TasksCoupled, TaskCoupled, Running
  <2>3. \A p \in OpId : p # o => ops'[p] = ops[p]
    BY <1>2, SaverIsAlone
  <2> QED BY <2>1, <2>2, <2>3 DEF TasksCoupled
<1> QED BY <1>1, <1>2

\* A step of one task that finishes its operation, keeps it attended or reports
\* it lost leaves the process coupled.
LEMMA ProcessMoves ==
    ASSUME ProcessCoupled, queue \subseteq OpId, NEW o \in OpId,
           \A p \in OpId : p # o => task'[p] = task[p] /\ ops'[p] = ops[p],
           UNCHANGED <<phase, callers>>, queue' \in {queue, queue \ {o}},
           lost \subseteq lost', phase # "down",
           Running(o)' => task'[o].pc # "idle" \/ o \in lost',
           o \in queue' => Running(o)' /\ task'[o].pc \in {"idle"} \cup RecoveryPc
    PROVE  ProcessCoupled'
<1>1. DownIsIdle' /\ CommandsAreServed'
  BY DEF ProcessCoupled, DownIsIdle, CommandsAreServed
<1>2. QueuedIsRunning'
  BY DEF ProcessCoupled, QueuedIsRunning, Running
<1>3. Attended'
  <2> SUFFICES ASSUME NEW p \in OpId, Running(p)'
               PROVE  task'[p].pc # "idle" \/ p \in lost' \/ (phase' = "recovering" /\ p \in queue')
    BY DEF Attended
  <2>1. CASE p = o
    BY <2>1
  <2>2. CASE p # o
    <3>1. task[p].pc # "idle" \/ p \in lost \/ (phase = "recovering" /\ p \in queue)
      BY <2>2 DEF ProcessCoupled, Attended, Running
    <3> QED BY <2>2, <3>1
  <2> QED BY <2>1, <2>2
<1> QED BY <1>1, <1>2, <1>3 DEF ProcessCoupled

-----------------------------------------------------------------------------
(* The actors.                                                               *)

\* A task that has no row to hold is coupled.
LEMMA RowlessIsCoupled ==
    ASSUME NEW o \in OpId, (task[o].pc \notin HoldsRow)'
    PROVE  TaskCoupled(o)'
BY HoldingMeansRow DEF TaskCoupled

\* A body that goes on with the row and the runtime it has, or learns or forgets
\* an id, stays coupled.
LEMMA BodyGoesOn ==
    ASSUME TypeOK, NEW o \in OpId, TaskCoupled(o), task[o].pc \in BodyPc, UNCHANGED store,
           task'[o].op = task[o].op, task'[o].rt.state = task[o].rt.state,
           task'[o].rt.gen = task[o].rt.gen
    PROVE  TaskCoupled(o)'
BY DEF TaskCoupled, store, Running, HoldsRow, HoldsAnchor

\* The body, and the supervisor that aborts it.
LEMMA BodyIsCoupled ==
    ASSUME TypeOK, Coupled, NEW o \in OpId, BodyStep(o) \/ Deadline(o) \/ DeadlineInCommit(o)
    PROVE  Coupled'
<1> DEFINE t == task[o]
<1>1. t.pc \in BodyPc
  BY Effects
  DEF BodyStep, CreateEffect, ObserveEffect, Purge, Wait, DeleteEffect, Adopt, Save,
      UndoEffect, Deadline, DeadlineInCommit, BodyPc
<1>2. /\ t \in Task /\ t.op \in Row /\ t.rt \in AttachedRuntime /\ t.rt \in Runtime
      /\ KindOf(o) \in ResourceKind
  BY <1>1, TaskHolds DEF TypeOK, Runtime
<1>3. /\ Running(o) /\ t.op = ops[o]
      /\ t.rt.state = anchor[t.op.ws].state
  BY <1>1 DEF Coupled, TasksCoupled, TaskCoupled, HoldsRow, HoldsAnchor
<1>4. /\ NextOperation(o) \in Row
      /\ NextRuntime(o) \in Runtime
      /\ t.op.step \in LastStep => NextOperation(o).state = "succeeded"
      /\ t.op.step \notin LastStep => NextOperation(o).state = "running"
  BY <1>2, <1>3, RowsStayRows, AdvancedIsRuntime
  DEF NextOperation, NextRuntime, Advance, Row, Running
<1>5. UNCHANGED <<callers, phase, queue, lost>>
  BY Effects
  DEF BodyStep, CreateEffect, ObserveEffect, Purge, Wait, DeleteEffect, Adopt, Save,
      UndoEffect, Deadline, DeadlineInCommit
<1>6. task \in [OpId -> Task]
  BY DEF TypeOK, TaskTypeOK
<1>7. /\ BodyFails(o) => task'[o].pc = "fail_load_op"
      /\ TaskEnds(o) => task'[o].pc = "idle"
  BY <1>6 DEF BodyFails, TaskEnds, Idle
<1>8. /\ \A p \in OpId : p # o => task'[p] = task[p]
      /\ TaskCoupled(o)'
      /\ Running(o)' => task'[o].pc # "idle"
      /\ \/ UNCHANGED store
         \/ \E op \in Row, rt \in Runtime : Saved(o, op, rt)
  <2> DEFINE Fine == TaskCoupled(o)' /\ (Running(o)' => task'[o].pc # "idle")
  <2>1. \A p \in OpId : p # o => task'[p] = task[p]
    BY <1>6, Effects
    DEF BodyStep, CreateEffect, ObserveEffect, Purge, Wait, DeleteEffect, Adopt, Save,
        UndoEffect, Deadline, DeadlineInCommit, Goto, Learns, BodyFails, TaskEnds
  <2>2. \/ UNCHANGED store
        \/ \E op \in Row, rt \in Runtime : Saved(o, op, rt)
    <3>1. \/ Saved(o, NextOperation(o), NextRuntime(o))
          \/ Saved(o, t.op, t.rt)
          \/ UNCHANGED store
      BY Effects
      DEF BodyStep, CreateEffect, ObserveEffect, Purge, Wait, DeleteEffect, Adopt, Save,
          UndoEffect, Deadline, DeadlineInCommit, SaveRefused
    <3> QED BY <1>2, <1>4, <3>1
  <2>3. ASSUME BodyFails(o)
        PROVE  Fine
    BY <1>7, <2>3, RowlessIsCoupled DEF HoldsRow, BodyPc, RecoveryPc
  <2>4. ASSUME UNCHANGED store, task'[o].op = t.op, task'[o].rt.state = t.rt.state,
               task'[o].rt.gen = t.rt.gen, task'[o].pc # "idle"
        PROVE  Fine
    BY <1>1, <2>4, BodyGoesOn DEF Coupled, TasksCoupled
  <2>5. ASSUME NEW pc \in BodyPc, Goto(o, pc), UNCHANGED store
        PROVE  Fine
    BY <1>2, <1>6, <2>4, <2>5 DEF Goto, Task, BodyPc
  <2>6. ASSUME NEW pc \in BodyPc, UNCHANGED store,
               \/ task' = [task EXCEPT ![o].rt = Knowing(t.rt, KindOf(o)), ![o].pc = pc]
               \/ task' = [task EXCEPT ![o].rt = Forgetting(t.rt, KindOf(o)), ![o].pc = pc]
        PROVE  Fine
    <3>1. /\ task'[o].pc # "idle" /\ task'[o].op = t.op
          /\ \/ task'[o].rt = Knowing(t.rt, KindOf(o))
             \/ task'[o].rt = Forgetting(t.rt, KindOf(o))
      BY <1>2, <1>6, <2>6 DEF Task, BodyPc
    <3>2. /\ task'[o].rt.state = t.rt.state
          /\ task'[o].rt.gen = t.rt.gen
      BY <1>2, <3>1 DEF Knowing, Forgetting, AttachedRuntime
    <3> QED BY <2>4, <2>6, <3>1, <3>2
  <2>7. ASSUME NEW pc \in BodyPc, NEW ids \in SUBSET Resource, UNCHANGED store,
               task' = [task EXCEPT ![o].ids = ids, ![o].pc = pc]
        PROVE  Fine
    BY <1>2, <1>6, <2>4, <2>7 DEF Task, BodyPc
  <2>8. ASSUME Create(o)
        PROVE  Fine
    BY <2>8, <2>3, <2>5, <2>6, Effects DEF CreateEffect, Learns, BodyPc
  <2>9. ASSUME Observe(o)
        PROVE  Fine
    <3>1. Listed(o) \in SUBSET Resource
      BY DEF Listed, TypeOK, CloudTypeOK
    <3> QED BY <2>9, <2>3, <2>5, <2>6, <2>7, <3>1, Effects DEF ObserveEffect, BodyPc
  <2>10. ASSUME Purge(o)
         PROVE  Fine
    BY <2>10, <2>3, <2>7 DEF Purge, BodyPc
  <2>11. ASSUME Wait(o) \/ Undo(o) \/ Deadline(o) \/ DeadlineInCommit(o)
         PROVE  Fine
    BY <2>11, <2>3, <2>5, Effects DEF Wait, UndoEffect, Deadline, DeadlineInCommit, BodyPc
  <2>12. ASSUME Delete(o)
         PROVE  Fine
    BY <2>12, <2>3, <2>6, Effects DEF DeleteEffect, BodyPc
  <2>13. ASSUME Adopt(o)
         PROVE  Fine
    <3>1. CASE Saved(o, t.op, t.rt) /\ Goto(o, "delete")
      <4>1. ops'[o] = t.op /\ anchor'[t.op.ws] = t.rt
        BY <1>2, <3>1 DEF Saved, TypeOK, StoreTypeOK, Row
      <4>2. task'[o].op = t.op /\ task'[o].rt = t.rt /\ task'[o].pc = "delete"
        BY <1>2, <1>6, <3>1 DEF Goto, Task
      <4> QED BY <1>3, <4>1, <4>2 DEF TaskCoupled, Running
    <3> QED BY <2>13, <2>3, <3>1 DEF Adopt
  <2>14. ASSUME Save(o)
         PROVE  Fine
    <3>1. CASE Saved(o, NextOperation(o), NextRuntime(o)) /\ t.op.step \in LastStep
                /\ TaskEnds(o)
      <4>1. ops'[o].state = "succeeded"
        BY <1>4, <3>1 DEF Saved, TypeOK, StoreTypeOK
      <4>2. task'[o].pc = "idle"
        BY <1>7, <3>1
      <4> QED
        BY <4>1, <4>2, RowlessIsCoupled DEF Running, HoldsRow, BodyPc, RecoveryPc
    <3>2. CASE Saved(o, NextOperation(o), NextRuntime(o)) /\ t.op.step \notin LastStep
                /\ task' = [task EXCEPT ![o] = Entered(NextOperation(o), NextRuntime(o))]
      <4>1. ops'[o] = NextOperation(o) /\ anchor'[NextOperation(o).ws] = NextRuntime(o)
        BY <1>4, <3>2 DEF Saved, TypeOK, StoreTypeOK, Row
      <4>2. /\ task'[o].op = NextOperation(o) /\ task'[o].rt = NextRuntime(o)
            /\ task'[o].pc # "idle"
        BY <1>6, <3>2 DEF Entered, EntryPc
      <4> QED BY <1>4, <3>2, <4>1, <4>2 DEF TaskCoupled, Running
    <3>3. CASE UNCHANGED store /\ (Goto(o, "undo") \/ BodyFails(o))
      BY <2>3, <2>5, <3>3 DEF BodyPc
    <3> QED BY <2>14, <3>1, <3>2, <3>3 DEF Save, SaveRefused
  <2> QED
    BY <2>1, <2>2, <2>8, <2>9, <2>10, <2>11, <2>12, <2>13, <2>14 DEF BodyStep
<1> QED
  <2>1. StoreCoupled' /\ TasksCoupled' /\ \A p \in OpId : p # o => ops'[p] = ops[p]
    BY <1>3, <1>8, TaskMoves DEF TypeOK, Coupled
  <2>2. phase # "down" /\ o \notin queue
    BY <1>1 DEF Coupled, ProcessCoupled, DownIsIdle, QueuedIsRunning, BodyPc, RecoveryPc
  <2>3. ProcessCoupled'
    BY <1>5, <1>8, <2>1, <2>2, ProcessMoves DEF TypeOK, ProcessTypeOK, Coupled
  <2> QED BY <2>1, <2>3 DEF Coupled

\* The save that fails an operation stores the task's own pair, and with it the
\* operation is over.
LEMMA FailureMoves ==
    ASSUME TypeOK, Coupled, NEW o \in OpId, task[o].pc \in {"fail_save", "recover_save"},
           FailureSaved(o) \/ FailureRefused(o)
    PROVE  /\ \/ UNCHANGED store
              \/ \E op \in Row, rt \in Runtime : Saved(o, op, rt) /\ Running(o)
           /\ FailureSaved(o) => ~Running(o)'
<1> DEFINE t == task[o]
<1>1. /\ Running(o) /\ t.op \in Row /\ t.rt \in Runtime
  BY
  DEF Coupled, TasksCoupled, TaskCoupled, TypeOK, TaskTypeOK, Task, HoldsRow, RecoveryPc
<1>2. FailureRefused(o) => UNCHANGED store
  BY DEF FailureRefused, SaveRefused, store
<1>3. ASSUME FailureSaved(o)
      PROVE  /\ Saved(o, Fail(t.op), MarkFailed(t.rt))
             /\ Fail(t.op) \in Row /\ MarkFailed(t.rt) \in Runtime
             /\ ~Running(o)'
  <2>1. Saved(o, Fail(t.op), MarkFailed(t.rt)) /\ t.rt.state \in Busy
    BY <1>3 DEF FailureSaved, CanFail
  <2>2. t.rt \in AttachedRuntime
    BY <1>1, <2>1, AttachedByState DEF Busy
  <2>3. Fail(t.op) \in Row /\ MarkFailed(t.rt) \in Runtime
    <3>1. MarkFailed(t.rt) \in AttachedRuntime
      BY <2>2 DEF MarkFailed, AttachedRuntime, RuntimeState
    <3> QED BY <1>1, <3>1, RowsStayRows DEF Runtime
  <2>4. Fail(t.op).state = "failed"
    BY <1>1 DEF Fail, Row
  <2>5. ops'[o] = Fail(t.op)
    BY <2>1 DEF Saved, TypeOK, StoreTypeOK
  <2> QED BY <2>1, <2>3, <2>4, <2>5 DEF Running
<1> QED BY <1>1, <1>2, <1>3

\* The supervisor of a body that failed or was aborted.
LEMMA SupervisorIsCoupled ==
    ASSUME TypeOK, Coupled, NEW o \in OpId, SupervisorStep(o)
    PROVE  Coupled'
<1> DEFINE t == task[o]
<1>1. t.pc \in SupervisorPc
  BY DEF SupervisorStep, FailLoadOp, FailLoadWs, FailSave, SupervisorPc
<1>2. task \in [OpId -> Task] /\ t \in Task
  BY DEF TypeOK, TaskTypeOK
<1>3. /\ UNCHANGED <<callers, phase, queue>> /\ lost \subseteq lost'
      /\ \A p \in OpId : p # o => task'[p] = task[p]
  BY <1>2 DEF SupervisorStep, FailLoadOp, FailLoadWs, FailSave, Abandon, TaskEnds
<1>4. TaskEnds(o) => TaskCoupled(o)' /\ task'[o].pc = "idle"
  BY <1>2, RowlessIsCoupled DEF TaskEnds, Idle, HoldsRow, BodyPc, RecoveryPc
<1>5. /\ \/ UNCHANGED store
         \/ \E op \in Row, rt \in Runtime : Saved(o, op, rt) /\ Running(o)
      /\ TaskCoupled(o)'
      /\ Running(o)' => task'[o].pc # "idle" \/ o \in lost'
  <2>1. CASE FailLoadOp(o)
    <3>1. CASE Running(o) /\ task' = [task EXCEPT ![o].op = ops[o], ![o].pc = "fail_load_ws"]
      <4>1. task'[o].op = ops[o] /\ task'[o].pc = "fail_load_ws"
        BY <1>2, <3>1 DEF Task
      <4>2. UNCHANGED store
        BY <2>1 DEF FailLoadOp
      <4> QED
        BY <3>1, <4>1, <4>2
        DEF TaskCoupled, Running, store, HoldsAnchor, BodyPc, RecoveryPc
    <3>2. CASE ~Running(o) /\ TaskEnds(o)
      BY <1>4, <2>1, <3>2 DEF FailLoadOp, Running, store
    <3>3. CASE Abandon(o)
      BY <1>4, <2>1, <3>3 DEF FailLoadOp, Abandon
    <3> QED BY <2>1, <3>1, <3>2, <3>3 DEF FailLoadOp
  <2>2. CASE FailLoadWs(o)
    <3>1. CASE task' = [task EXCEPT ![o].rt = anchor[t.op.ws], ![o].pc = "fail_save"]
      <4>1. /\ task'[o].op = t.op /\ task'[o].rt = anchor[t.op.ws]
            /\ task'[o].pc = "fail_save"
        BY <1>2, <3>1 DEF Task
      <4>2. UNCHANGED store
        BY <2>2 DEF FailLoadWs
      <4>3. Running(o) /\ t.op = ops[o]
        BY <2>2 DEF FailLoadWs, Coupled, TasksCoupled, TaskCoupled, HoldsRow
      <4> QED BY <4>1, <4>2, <4>3 DEF TaskCoupled, Running, store
    <3>2. CASE Abandon(o)
      BY <1>4, <2>2, <3>2 DEF FailLoadWs, Abandon
    <3> QED BY <2>2, <3>1, <3>2 DEF FailLoadWs
  <2>3. CASE FailSave(o)
    BY <1>4, <2>3, FailureMoves DEF FailSave, Abandon
  <2> QED BY <2>1, <2>2, <2>3 DEF SupervisorStep
<1> QED
  <2>1. StoreCoupled' /\ TasksCoupled' /\ \A p \in OpId : p # o => ops'[p] = ops[p]
    BY <1>3, <1>5, TaskMoves DEF TypeOK, Coupled
  <2>2. phase # "down" /\ o \notin queue
    BY <1>1
    DEF Coupled, ProcessCoupled, DownIsIdle, QueuedIsRunning, SupervisorPc, RecoveryPc
  <2>3. ProcessCoupled'
    BY <1>3, <1>5, <2>1, <2>2, ProcessMoves DEF TypeOK, ProcessTypeOK, Coupled
  <2> QED BY <2>1, <2>3 DEF Coupled

\* The recovery of an interrupted operation.
LEMMA RecoveryIsCoupled ==
    ASSUME TypeOK, Coupled, NEW o \in OpId, RecoveryStep(o)
    PROVE  Coupled'
<1> DEFINE t == task[o]
<1>1. phase # "down" /\ (t.pc \in RecoveryPc \/ (o \in queue /\ t = Idle))
  BY Effects
  DEF RecoveryStep, RecoverLoad, RecoverObserveEffect, RecoverPurge, RecoverSave,
      RecoveryPc, Coupled, ProcessCoupled, DownIsIdle
<1>2. task \in [OpId -> Task] /\ t \in Task
  BY DEF TypeOK, TaskTypeOK
<1>3. /\ UNCHANGED <<callers, phase>> /\ queue' \in {queue, queue \ {o}}
      /\ lost \subseteq lost'
      /\ \A p \in OpId : p # o => task'[p] = task[p]
  BY <1>2, Effects
  DEF RecoveryStep, RecoverLoad, RecoverObserveEffect, RecoverPurge, RecoverSave, Goto,
      Abandon, TaskEnds
<1>4. TaskEnds(o) => TaskCoupled(o)' /\ task'[o].pc = "idle"
  BY <1>2, RowlessIsCoupled DEF TaskEnds, Idle, HoldsRow, BodyPc, RecoveryPc
<1>5. ASSUME t.pc \in RecoveryPc, UNCHANGED store, task'[o].pc \in RecoveryPc,
             task'[o].op = t.op, task'[o].rt.state = t.rt.state,
             task'[o].rt.gen = t.rt.gen
      PROVE  TaskCoupled(o)' /\ Running(o)'
  BY <1>5
  DEF Coupled, TasksCoupled, TaskCoupled, store, Running, HoldsRow, HoldsAnchor
<1>6. /\ \/ UNCHANGED store
         \/ \E op \in Row, rt \in Runtime : Saved(o, op, rt) /\ Running(o)
      /\ TaskCoupled(o)'
      /\ Running(o)' => task'[o].pc # "idle" \/ o \in lost'
      /\ o \in queue' => Running(o)' /\ task'[o].pc \in {"idle"} \cup RecoveryPc
  <2>1. CASE RecoverLoad(o)
    <3>1. UNCHANGED store
      BY <2>1 DEF RecoverLoad
    <3>2. CASE Abandon(o) /\ queue' = queue \ {o}
      BY <1>4, <3>1, <3>2 DEF Abandon
    <3>3. CASE /\ task'[o].pc \in {"recover_observe", "recover_save"}
               /\ task'[o].op = ops[o] /\ task'[o].rt = anchor[ops[o].ws]
      <4>1. Running(o)
        BY <2>1 DEF RecoverLoad, Coupled, ProcessCoupled, QueuedIsRunning
      <4> QED BY <3>1, <3>3, <4>1 DEF TaskCoupled, Running, store, RecoveryPc
    <3> QED BY <1>2, <2>1, <3>2, <3>3 DEF RecoverLoad
  <2>2. CASE RecoverObserve(o)
    <3>1. t.pc \in RecoveryPc /\ UNCHANGED store
      BY <2>2, Effects DEF RecoverObserveEffect, RecoveryPc
    <3>2. t.rt \in AttachedRuntime
      BY <2>2, Effects DEF RecoverObserveEffect, TypeOK, TaskTypeOK, HoldsRuntime
    <3>3. /\ task'[o].pc \in RecoveryPc /\ task'[o].op = t.op
          /\ task'[o].rt \in {t.rt, Knowing(t.rt, KindOf(o))}
      <4>1. RecoverObserveEffect(o)
        BY <2>2, Effects
      <4> QED BY <1>2, <4>1 DEF RecoverObserveEffect, Goto, Task, RecoveryPc
    <3>4. task'[o].rt.state = t.rt.state /\ task'[o].rt.gen = t.rt.gen
      BY <3>2, <3>3 DEF Knowing, AttachedRuntime
    <3> QED BY <1>5, <3>1, <3>3, <3>4 DEF RecoveryPc
  <2>3. CASE RecoverPurge(o)
    <3>1. t.pc \in RecoveryPc /\ UNCHANGED store
      BY <2>3 DEF RecoverPurge, RecoveryPc
    <3>2. task'[o].pc = "recover_save" /\ task'[o].op = t.op /\ task'[o].rt = t.rt
      BY <1>2, <2>3 DEF RecoverPurge, Task
    <3> QED BY <1>5, <3>1, <3>2 DEF RecoveryPc
  <2>4. CASE RecoverSave(o)
    BY <1>4, <2>4, FailureMoves DEF RecoverSave, Abandon
  <2> QED BY <2>1, <2>2, <2>3, <2>4 DEF RecoveryStep
<1> QED
  <2>1. StoreCoupled' /\ TasksCoupled' /\ \A p \in OpId : p # o => ops'[p] = ops[p]
    BY <1>3, <1>6, TaskMoves DEF TypeOK, Coupled
  <2>2. ProcessCoupled'
    BY <1>1, <1>3, <1>6, <2>1, ProcessMoves DEF TypeOK, ProcessTypeOK, Coupled
  <2> QED BY <2>1, <2>2 DEF Coupled

\* Tables and tasks that a step leaves alone stay coupled.
LEMMA StoreStays ==
    ASSUME StoreCoupled, TasksCoupled, UNCHANGED store, UNCHANGED task
    PROVE  StoreCoupled' /\ TasksCoupled'
<1>1. StoreCoupled'
  BY DEF store, StoreCoupled, OneRunningPerWorkspace, RunningIsAnchored, BusyIsRunning,
         AttachedIsPresent, Running
<1>2. TasksCoupled'
  BY DEF store, TasksCoupled, TaskCoupled, Running
<1> QED BY <1>1, <1>2

\* A command admitted as operation o.
LEMMA AdmitIsCoupled ==
    ASSUME TypeOK, Coupled, NEW c \in Caller, NEW o \in OpId, NEW op \in Row,
           NEW rt \in AttachedRuntime, op.state = "running", callers[c] # NoCall,
           Admit(c, o, op, rt)
    PROVE  Coupled'
<1>1. task \in [OpId -> Task] /\ rt \in Runtime
  BY DEF TypeOK, TaskTypeOK, Runtime
<1>2. phase = "serving" /\ callers' = [callers EXCEPT ![c] = NoCall]
  BY DEF Coupled, ProcessCoupled, CommandsAreServed, Admit
<1>3. /\ ops[o] = NoOperation /\ Saved(o, op, rt)
      /\ task' = [task EXCEPT ![o] = Entered(op, rt)]
      /\ UNCHANGED <<phase, queue, lost>>
  BY DEF Admit
<1>4. /\ task'[o].op = op /\ task'[o].rt = rt /\ task'[o].pc # "idle"
      /\ \A p \in OpId : p # o => task'[p] = task[p]
  BY <1>1, <1>3 DEF Entered, EntryPc
<1>5. ops'[o] = op /\ anchor'[op.ws] = rt
  BY <1>3 DEF Saved, TypeOK, StoreTypeOK, Row
<1>6. TaskCoupled(o)'
  BY <1>4, <1>5 DEF TaskCoupled, Running
<1>7. StoreCoupled' /\ TasksCoupled' /\ \A p \in OpId : p # o => ops'[p] = ops[p]
  BY <1>1, <1>3, <1>4, <1>6, TaskMoves DEF TypeOK, Coupled
<1>8. o \notin queue
  BY <1>3 DEF Coupled, ProcessCoupled, QueuedIsRunning, Running, NoOperation
<1>9. DownIsIdle' /\ CommandsAreServed' /\ QueuedIsRunning'
  BY <1>2, <1>3, <1>4, <1>7, <1>8
  DEF DownIsIdle, CommandsAreServed, QueuedIsRunning, Running, Coupled, ProcessCoupled,
      TypeOK, ProcessTypeOK
<1>10. Attended'
  BY <1>2, <1>3, <1>4, <1>7 DEF Attended, Running, Coupled, ProcessCoupled
<1> QED BY <1>7, <1>9, <1>10 DEF Coupled, ProcessCoupled

\* Commands, whether they read, are admitted or only concern a workspace.
LEMMA CommandIsCoupled ==
    ASSUME TypeOK, Coupled, Command
    PROVE  Coupled'
<1>1. ASSUME NEW w \in Workspace, CreateWorkspace(w) \/ DeleteWorkspace(w)
      PROVE  Coupled'
  <2>1. /\ UNCHANGED <<anchor, ops, task, callers, phase, queue, lost>>
        /\ \A v \in Workspace : v # w => workspaces'[v] = workspaces[v]
    BY <1>1 DEF CreateWorkspace, DeleteWorkspace, process, TypeOK, StoreTypeOK
  <2>2. \/ workspaces'[w] = "present"
        \/ anchor[w] = Detached /\ \A o \in OpId : ~(Running(o) /\ ops[o].ws = w)
    BY <1>1 DEF CreateWorkspace, DeleteWorkspace, TypeOK, StoreTypeOK
  <2>3. \A o \in OpId : Running(o) => ops[o].ws \in Workspace
    BY DEF Running, TypeOK, StoreTypeOK, Operation, Row, NoOperation
  <2>4. OneRunningPerWorkspace' /\ BusyIsRunning'
    BY <2>1
    DEF Coupled, StoreCoupled, OneRunningPerWorkspace, BusyIsRunning, Running
  <2>5. RunningIsAnchored'
    BY <2>1, <2>2, <2>3 DEF Coupled, StoreCoupled, RunningIsAnchored, Running, StepOfKind
  <2>6. AttachedIsPresent'
    BY <2>1, <2>2 DEF Coupled, StoreCoupled, AttachedIsPresent, Detached
  <2>7. TasksCoupled' /\ ProcessCoupled'
    BY <2>1
    DEF Coupled, TasksCoupled, TaskCoupled, ProcessCoupled, DownIsIdle, CommandsAreServed,
        QueuedIsRunning, Attended, Running
  <2> QED BY <2>4, <2>5, <2>6, <2>7 DEF Coupled, StoreCoupled
<1>2. ASSUME NEW c \in Caller,
             CallerGivesUp(c) \/ \E w \in Workspace : ProvisionBegin(c, w) \/ CleanupBegin(c, w)
      PROVE  Coupled'
  <2>1. UNCHANGED store /\ UNCHANGED <<task, phase, queue, lost>>
    BY <1>2 DEF CallerGivesUp, ProvisionBegin, CleanupBegin
  <2>2. phase = "serving"
    BY <1>2
    DEF CallerGivesUp, ProvisionBegin, CleanupBegin, Coupled, ProcessCoupled,
        CommandsAreServed
  <2>3. ProcessCoupled'
    BY <2>1, <2>2
    DEF Coupled, ProcessCoupled, DownIsIdle, CommandsAreServed, QueuedIsRunning, Attended,
        Running, store
  <2> QED BY <2>1, <2>3, StoreStays DEF Coupled
<1>3. ASSUME NEW c \in Caller, NEW o \in OpId, ProvisionAdmit(c, o) \/ CleanupAdmit(c, o)
      PROVE  Coupled'
  <2>1. callers[c] # NoCall /\ callers[c].ws \in Workspace
    BY <1>3 DEF ProvisionAdmit, CleanupAdmit, NoCall, TypeOK, CallTypeOK
  <2>2. CASE ProvisionAdmit(c, o)
    <3>1. /\ ProvisionOf(callers[c].ws) \in Row
          /\ ProvisionOf(callers[c].ws).state = "running"
      BY <2>1 DEF ProvisionOf, Row, Step, ProvisionStep, CreateStep
    <3>2. NewProvisioning(o) \in AttachedRuntime
      BY DEF NewProvisioning, AttachedRuntime, RuntimeState
    <3> QED BY <2>1, <2>2, <3>1, <3>2, AdmitIsCoupled DEF ProvisionAdmit
  <2>3. CASE CleanupAdmit(c, o)
    <3>1. /\ CleanupOf(callers[c].ws) \in Row
          /\ CleanupOf(callers[c].ws).state = "running"
      BY <2>1 DEF CleanupOf, Row, Step, CleanupStep
    <3>2. callers[c].rt \in AttachedRuntime
      BY <2>3 DEF CleanupAdmit, TypeOK, CallTypeOK
    <3> QED BY <2>1, <2>3, <3>1, <3>2, AdmitIsCoupled DEF CleanupAdmit
  <2> QED BY <1>3, <2>2, <2>3
<1> QED BY <1>1, <1>2, <1>3 DEF Command

\* The end and the start of the process, and what RunPod does late.
LEMMA ProcessIsCoupled ==
    ASSUME TypeOK, Coupled, Exit \/ Boot \/ Serve \/ \E r \in late : LateCreate(r)
    PROVE  Coupled'
<1>1. CASE Exit
  <2>1. /\ UNCHANGED store /\ phase' = "down" /\ queue' = {}
        /\ task' = [o \in OpId |-> Idle] /\ callers' = [c \in Caller |-> NoCall]
    BY <1>1 DEF Exit
  <2>2. StoreCoupled'
    BY <2>1
    DEF store, Coupled, StoreCoupled, OneRunningPerWorkspace, RunningIsAnchored,
        BusyIsRunning, AttachedIsPresent, Running
  <2>3. \A o \in OpId : task'[o].pc = "idle"
    BY <2>1 DEF Idle
  <2>4. TasksCoupled'
    BY <2>3, HoldingMeansRow DEF TasksCoupled, TaskCoupled
  <2>5. ProcessCoupled'
    BY <2>1, <2>3
    DEF ProcessCoupled, DownIsIdle, CommandsAreServed, QueuedIsRunning, Attended
  <2> QED BY <2>2, <2>4, <2>5 DEF Coupled
<1>2. CASE Boot
  <2>1. /\ UNCHANGED store /\ UNCHANGED <<task, callers, lost>>
        /\ phase = "down" /\ phase' = "recovering" /\ queue' = {o \in OpId : Running(o)}
    BY <1>2 DEF Boot
  <2>2. ProcessCoupled'
    BY <2>1
    DEF Coupled, ProcessCoupled, DownIsIdle, CommandsAreServed, QueuedIsRunning, Attended,
        Running, store
  <2> QED BY <2>1, <2>2, StoreStays DEF Coupled
<1>3. CASE Serve
  <2>1. /\ UNCHANGED store /\ UNCHANGED <<task, callers, lost, queue>>
        /\ phase = "recovering" /\ phase' = "serving" /\ queue = {}
    BY <1>3 DEF Serve
  <2>2. ProcessCoupled'
    BY <2>1
    DEF Coupled, ProcessCoupled, DownIsIdle, CommandsAreServed, QueuedIsRunning, Attended,
        Running, store
  <2> QED BY <2>1, <2>2, StoreStays DEF Coupled
<1>4. ASSUME NEW r \in late, LateCreate(r)
      PROVE  Coupled'
  <2>1. UNCHANGED store /\ UNCHANGED <<task, callers, phase, queue, lost>>
    BY <1>4 DEF LateCreate, process
  <2>2. ProcessCoupled'
    BY <2>1
    DEF Coupled, ProcessCoupled, DownIsIdle, CommandsAreServed, QueuedIsRunning, Attended,
        Running, store
  <2> QED BY <2>1, <2>2, StoreStays DEF Coupled
<1> QED BY <1>1, <1>2, <1>3, <1>4

-----------------------------------------------------------------------------
(* The invariant.                                                            *)

\* The empty store is coupled to the process that is not running.
LEMMA InitIsCoupled == Init => Coupled
<1> SUFFICES ASSUME Init PROVE Coupled
  OBVIOUS
<1>1. /\ \A o \in OpId : ~Running(o) /\ task[o].pc = "idle"
      /\ \A w \in Workspace : anchor[w].state = "none"
      /\ \A c \in Caller : callers[c] = NoCall
      /\ phase = "down" /\ queue = {}
  BY DEF Init, Running, NoOperation, Idle, Detached
<1>2. StoreCoupled
  BY <1>1
  DEF StoreCoupled, OneRunningPerWorkspace, RunningIsAnchored, BusyIsRunning,
      AttachedIsPresent, Busy
<1>3. TasksCoupled
  BY <1>1, HoldingMeansRow DEF TasksCoupled, TaskCoupled
<1>4. ProcessCoupled
  BY <1>1 DEF ProcessCoupled, DownIsIdle, CommandsAreServed, QueuedIsRunning, Attended
<1> QED BY <1>2, <1>3, <1>4 DEF Coupled

\* No step of any actor uncouples them.
LEMMA StepIsCoupled == TypeOK /\ Coupled /\ [Next]_vars => Coupled'
<1> SUFFICES ASSUME TypeOK, Coupled, [Next]_vars
             PROVE  Coupled'
  OBVIOUS
<1>1. CASE UNCHANGED vars
  <2>1. UNCHANGED store /\ UNCHANGED <<task, callers, phase, queue, lost>>
    BY <1>1 DEF vars, process
  <2>2. ProcessCoupled'
    BY <2>1
    DEF Coupled, ProcessCoupled, DownIsIdle, CommandsAreServed, QueuedIsRunning, Attended,
        Running, store
  <2> QED BY <2>1, <2>2, StoreStays DEF Coupled
<1> QED
  BY <1>1, BodyIsCoupled, SupervisorIsCoupled, RecoveryIsCoupled, CommandIsCoupled,
     ProcessIsCoupled DEF Next

\* In every execution, with any number of workspaces, operations, callers and
\* failures, the tables, the tasks and the process agree.
THEOREM AlwaysCoupled == Spec => []Coupled
BY TypeCorrect, InitIsCoupled, StepIsCoupled, PTL DEF Spec

-----------------------------------------------------------------------------
(* What follows.                                                             *)

\* Two operations never run on one workspace, however admissions, deadlines,
\* failed saves and restarts interleave.
THEOREM OneRunsAtATime == Spec => []OneRunningPerWorkspace
<1>1. Coupled => OneRunningPerWorkspace
  BY DEF Coupled, StoreCoupled
<1> QED BY <1>1, AlwaysCoupled, PTL

\* A runtime is being provisioned or cleaned up exactly while an operation of
\* that kind is running on its workspace.
THEOREM AnchorsFollow == Spec => []AnchorFollowsOperation
<1>1. TypeOK /\ Coupled => AnchorFollowsOperation
  <2> SUFFICES ASSUME TypeOK, Coupled, NEW w \in Workspace, NEW kind \in {"provision", "cleanup"}
               PROVE  anchor[w].state = BusyState(kind) <=>
                        \E o \in OpId : Running(o) /\ ops[o].ws = w /\ ops[o].kind = kind
    BY DEF AnchorFollowsOperation, BusyState
  <2>1. ASSUME NEW o \in OpId, Running(o)
        PROVE  /\ ops[o].kind \in {"provision", "cleanup"}
               /\ anchor[ops[o].ws].state = BusyState(ops[o].kind)
    BY <2>1
    DEF TypeOK, StoreTypeOK, Operation, Row, NoOperation, Running, Coupled, StoreCoupled,
        RunningIsAnchored
  <2>2. ASSUME anchor[w].state = BusyState(kind)
        PROVE  \E o \in OpId : Running(o) /\ ops[o].ws = w /\ ops[o].kind = kind
    <3>1. PICK o \in OpId : Running(o) /\ ops[o].ws = w
      BY <2>2 DEF Coupled, StoreCoupled, BusyIsRunning, BusyState, Busy
    <3>2. ops[o].kind = kind
      BY <2>1, <2>2, <3>1 DEF BusyState
    <3> QED BY <3>1, <3>2
  <2> QED BY <2>1, <2>2
<1> QED BY <1>1, TypeCorrect, AlwaysCoupled, PTL

\* A workspace that does not exist has neither a runtime nor a running
\* operation.
THEOREM DeletedStaysBare == Spec => []DeletedIsBare
<1>1. TypeOK /\ Coupled => DeletedIsBare
  <2> SUFFICES ASSUME TypeOK, Coupled, NEW w \in Workspace, workspaces[w] # "present"
               PROVE  /\ anchor[w] = Detached
                      /\ \A o \in OpId : Running(o) => ops[o].ws # w
    BY DEF DeletedIsBare
  <2>1. anchor[w] \in Runtime /\ anchor[w].state = "none"
    BY DEF TypeOK, StoreTypeOK, Coupled, StoreCoupled, AttachedIsPresent
  <2>2. anchor[w] = Detached
    BY <2>1, AttachedByState DEF Runtime
  <2>3. \A o \in OpId : Running(o) => ops[o].ws # w
    BY DEF Coupled, StoreCoupled, RunningIsAnchored
  <2> QED BY <2>2, <2>3
<1> QED BY <1>1, TypeCorrect, AlwaysCoupled, PTL

\* While commands are served, every running operation has a body or a
\* supervisor, or its process has failed to terminalise it.
THEOREM RunningStaysAttended == Spec => []RunningIsAttended
<1>1. Coupled => RunningIsAttended
  BY DEF Coupled, ProcessCoupled, Attended, RunningIsAttended
<1> QED BY <1>1, AlwaysCoupled, PTL

\* What is known of a task that is about to store its operation.
LEMMA HolderKnows ==
    ASSUME TypeOK, Coupled, NEW o \in OpId, task[o].pc \in HoldsAnchor
    PROVE  /\ Running(o) /\ ops[o] \in Row /\ task[o].op = ops[o] /\ ops[o] # NoOperation
           /\ StepOfKind(ops[o])
           /\ workspaces[ops[o].ws] = "present"
           /\ anchor[ops[o].ws] # Detached
           /\ task[o].rt \in AttachedRuntime
           /\ task[o].rt.state = BusyState(ops[o].kind)
<1>1. /\ Running(o) /\ task[o].op \in Row /\ task[o].op = ops[o]
      /\ task[o].rt.state = anchor[ops[o].ws].state
      /\ task[o].rt \in Runtime
  BY HoldingMeansRow
  DEF TypeOK, TaskTypeOK, Task, Coupled, TasksCoupled, TaskCoupled
<1>2. /\ StepOfKind(ops[o]) /\ workspaces[ops[o].ws] = "present"
      /\ anchor[ops[o].ws].state = BusyState(ops[o].kind)
  BY <1>1 DEF Coupled, StoreCoupled, RunningIsAnchored
<1>3. task[o].rt \in AttachedRuntime
  BY <1>1, <1>2, AttachedByState DEF BusyState
<1> QED BY <1>1, <1>2, <1>3 DEF Running, NoOperation, BusyState, Detached

\* The next step of an operation belongs to its kind.
LEMMA NextStepKeepsKind ==
    ASSUME NEW op \in Row, StepOfKind(op), op.step \notin LastStep
    PROVE  /\ op.kind = "provision" => NextStep(op.step) \in ProvisionStep
           /\ op.kind = "cleanup" => NextStep(op.step) \in CleanupStep
BY DEF StepOfKind, NextStep, ProvisionStep, CreateStep, CleanupStep, LastStep

\* What a body, a supervisor or a recovery is about to store, the store accepts:
\* save_transition never finds the pair invalid, the row or the anchor changed,
\* so recovery never meets the CorruptData that would stop the start-up.
THEOREM SavesStayAdmissible == Spec => []SavesAreAdmissible
<1>1. TypeOK /\ Coupled => SavesAreAdmissible
  <2> SUFFICES ASSUME TypeOK, Coupled, NEW o \in OpId
               PROVE  /\ task[o].pc = "save" => Admissible(o, NextOperation(o), NextRuntime(o))
                      /\ task[o].pc = "adopt" => Admissible(o, task[o].op, task[o].rt)
                      /\ task[o].pc \in {"fail_save", "recover_save"} =>
                           CanFail(o) /\ Admissible(o, Fail(task[o].op), MarkFailed(task[o].rt))
    BY DEF SavesAreAdmissible
  <2> DEFINE op == ops[o]
             rt == task[o].rt
             Known == /\ op \in Row /\ op.state = "running" /\ op # NoOperation
                      /\ task[o].op = op
                      /\ StepOfKind(op)
                      /\ workspaces[op.ws] = "present" /\ anchor[op.ws] # Detached
                      /\ rt \in AttachedRuntime /\ rt.state = BusyState(op.kind)
  <2>1. task[o].pc \in HoldsAnchor => Known
    BY HolderKnows DEF Running
  <2>2. ASSUME Known, NEW op2 \in Row, NEW rt2 \in Runtime, ValidTransition(op2, rt2),
               op2.ws = op.ws, op2.kind = op.kind
        PROVE  Admissible(o, op2, rt2)
    BY <2>2 DEF Admissible
  <2>3. ASSUME task[o].pc = "save"
        PROVE  Admissible(o, NextOperation(o), NextRuntime(o))
    <3>1. Known
      BY <2>1, <2>3 DEF HoldsAnchor, BodyPc
    <3>2. /\ Advance(op) \in Row /\ AdvancedRuntime(op, rt) \in Runtime
          /\ Advance(op).ws = op.ws /\ Advance(op).kind = op.kind
      BY <3>1, RowsStayRows, AdvancedIsRuntime
    <3>3. CASE op.step = "create_endpoint"
      <4>1. /\ op.kind = "provision" /\ Advance(op).state = "succeeded"
            /\ Advance(op).step = "create_endpoint"
        BY <3>1, <3>3 DEF StepOfKind, CleanupStep, Advance, LastStep, Row
      <4>2. AdvancedRuntime(op, rt).state = "ready"
        BY <3>1, <3>3 DEF AdvancedRuntime, AttachedRuntime
      <4>3. ValidTransition(Advance(op), AdvancedRuntime(op, rt))
        BY <3>2, <4>1, <4>2 DEF ValidTransition, ProvisionStep, CreateStep
      <4> QED BY <2>2, <3>1, <3>2, <4>3 DEF NextOperation, NextRuntime
    <3>4. CASE op.step = "delete_network_volume"
      <4>1. /\ op.kind = "cleanup" /\ Advance(op).state = "succeeded"
            /\ Advance(op).step = "delete_network_volume"
        BY <3>1, <3>4 DEF StepOfKind, ProvisionStep, CreateStep, Advance, LastStep, Row
      <4>2. AdvancedRuntime(op, rt).state = "none"
        BY <3>4 DEF AdvancedRuntime, Detached
      <4>3. ValidTransition(Advance(op), AdvancedRuntime(op, rt))
        BY <3>2, <4>1, <4>2 DEF ValidTransition, CleanupStep
      <4> QED BY <2>2, <3>1, <3>2, <4>3 DEF NextOperation, NextRuntime
    <3>5. CASE op.step \notin LastStep
      <4>1. Advance(op).state = "running" /\ Advance(op).step = NextStep(op.step)
        BY <3>1, <3>5 DEF Advance, Row
      <4>2. AdvancedRuntime(op, rt) = rt
        BY <3>1, <3>5, AdvancedIsRuntime
      <4>3. ValidTransition(Advance(op), AdvancedRuntime(op, rt))
        BY <3>1, <3>2, <3>5, <4>1, <4>2, NextStepKeepsKind
        DEF ValidTransition, BusyState, Row
      <4> QED BY <2>2, <3>1, <3>2, <4>3 DEF NextOperation, NextRuntime
    <3> QED BY <3>3, <3>4, <3>5 DEF LastStep
  <2>4. ASSUME task[o].pc = "adopt"
        PROVE  Admissible(o, task[o].op, task[o].rt)
    <3>1. Known
      BY <2>1, <2>4 DEF HoldsAnchor, BodyPc
    <3>2. ValidTransition(op, rt)
      BY <3>1 DEF ValidTransition, StepOfKind, BusyState, Row
    <3> QED BY <2>2, <3>1, <3>2 DEF Runtime
  <2>5. ASSUME task[o].pc \in {"fail_save", "recover_save"}
        PROVE  CanFail(o) /\ Admissible(o, Fail(task[o].op), MarkFailed(task[o].rt))
    <3>1. Known
      BY <2>1, <2>5 DEF HoldsAnchor, RecoveryPc
    <3>2. /\ MarkFailed(rt) \in Runtime /\ MarkFailed(rt).state = "failed"
          /\ Fail(op) \in Row /\ Fail(op).state = "failed" /\ Fail(op).step = op.step
          /\ Fail(op).kind = op.kind /\ Fail(op).ws = op.ws
      BY <3>1 DEF MarkFailed, AttachedRuntime, RuntimeState, Runtime, Fail, Row, Finished
    <3>3. ValidTransition(Fail(op), MarkFailed(rt))
      BY <3>1, <3>2 DEF ValidTransition, StepOfKind, Row
    <3> QED BY <2>2, <3>1, <3>2, <3>3 DEF CanFail, BusyState, Busy
  <2> QED BY <2>3, <2>4, <2>5
<1> QED BY <1>1, TypeCorrect, AlwaysCoupled, PTL

\* Only running and new operations are ever written.
LEMMA OnlyUnfinishedAreSaved ==
    ASSUME TypeOK, Coupled, Next
    PROVE  \/ UNCHANGED ops
           \/ \E o \in OpId : \E op, rt : Saved(o, op, rt) /\ (Running(o) \/ ops[o] = NoOperation)
<1>1. \A o \in OpId : task[o].pc \in BodyPc \cup RecoveryPc \cup {"fail_save"} => Running(o)
  BY DEF Coupled, TasksCoupled, TaskCoupled, HoldsRow
<1>2. ASSUME NEW o \in OpId, BodyStep(o) \/ Deadline(o) \/ DeadlineInCommit(o)
      PROVE  UNCHANGED ops \/ \E op, rt : Saved(o, op, rt) /\ Running(o)
  <2>1. /\ task[o].pc \in BodyPc
        /\ UNCHANGED store \/ \E op, rt : Saved(o, op, rt)
    BY <1>2, Effects
    DEF BodyStep, CreateEffect, ObserveEffect, Purge, Wait, DeleteEffect, Adopt, Save,
        UndoEffect, Deadline, DeadlineInCommit, SaveRefused, BodyPc
  <2> QED BY <1>1, <2>1 DEF store
<1>3. ASSUME NEW o \in OpId, SupervisorStep(o) \/ RecoveryStep(o)
      PROVE  UNCHANGED ops \/ \E op, rt : Saved(o, op, rt) /\ Running(o)
  <2>1. CASE UNCHANGED store
    BY <2>1 DEF store
  <2>2. CASE FailSave(o) \/ RecoverSave(o)
    BY <2>2, FailureMoves DEF FailSave, RecoverSave, store
  <2> QED
    BY <1>3, <2>1, <2>2, Effects
    DEF SupervisorStep, RecoveryStep, FailLoadOp, FailLoadWs, RecoverLoad,
        RecoverObserveEffect, RecoverPurge
<1>4. ASSUME Command
      PROVE  UNCHANGED ops \/ \E o \in OpId : \E op, rt : Saved(o, op, rt) /\ ops[o] = NoOperation
  BY <1>4
  DEF Command, CreateWorkspace, DeleteWorkspace, ProvisionBegin, CleanupBegin,
      ProvisionAdmit, CleanupAdmit, Admit, CallerGivesUp, store
<1>5. ASSUME Exit \/ Boot \/ Serve \/ \E r \in late : LateCreate(r)
      PROVE  UNCHANGED ops
  BY <1>5 DEF Exit, Boot, Serve, LateCreate, store
<1> QED BY <1>2, <1>3, <1>4, <1>5 DEF Next

\* No late body, supervisor, recovery or admission rewrites an operation that is
\* over.
THEOREM FinishedStaysFinal == Spec => FinishedIsFinal
<1>1. TypeOK /\ Coupled /\ [Next]_vars =>
        [\A o \in OpId : ops[o].state \in Finished => ops'[o] = ops[o]]_vars
  <2> SUFFICES ASSUME TypeOK, Coupled, Next, NEW o \in OpId, ops[o].state \in Finished
               PROVE  ops'[o] = ops[o]
    OBVIOUS
  <2>1. CASE UNCHANGED ops
    BY <2>1
  <2>2. ASSUME NEW p \in OpId, NEW op, NEW rt, Saved(p, op, rt),
               Running(p) \/ ops[p] = NoOperation
        PROVE  ops'[o] = ops[o]
    <3>1. p # o
      BY <2>2 DEF Running, NoOperation, Finished
    <3> QED BY <2>2, <3>1 DEF Saved, TypeOK, StoreTypeOK
  <2> QED BY <2>1, <2>2, OnlyUnfinishedAreSaved
<1> QED BY <1>1, TypeCorrect, AlwaysCoupled, PTL DEF Spec, FinishedIsFinal

-----------------------------------------------------------------------------
(* What is stored of an operation.                                           *)

\* The family of a step is the kind of the operations that take it.
LEMMA FamilyIsKind ==
    ASSUME NEW op \in Row
    PROVE  StepOfKind(op) <=> op.kind = Family(op.step)
<1>1. /\ op.kind \in {"provision", "cleanup"}
      /\ op.step \in ProvisionStep \cup CleanupStep
      /\ ProvisionStep \cap CleanupStep = {}
  BY DEF Row, Step, ProvisionStep, CreateStep, CleanupStep
<1> QED BY <1>1 DEF StepOfKind, Family

\* Within a family no two steps have the same text, although the families share
\* one.
LEMMA StepsAreSpeltApart ==
    ASSUME NEW s \in Step, NEW t \in Step,
           Family(s) = Family(t), StepValue(s) = StepValue(t)
    PROVE  s = t
<1>1. s = "cleanup_provisioner_pod" => t \notin ProvisionStep
  BY DEF Family, ProvisionStep, CreateStep
<1>2. t = "cleanup_provisioner_pod" => s \notin ProvisionStep
  BY DEF Family, ProvisionStep, CreateStep
<1> QED
  BY <1>1, <1>2 DEF StepValue, Step, ProvisionStep, CreateStep, CleanupStep

\* A row can be read exactly if its progress is of its kind, and is read as
\* what was stored: save_transition, which tests the first, stores nothing that
\* a listing or a recovery could not read.
THEOREM ReadAsStored ==
    ASSUME NEW op \in Row
    PROVE  MapOperation(OperationRow(op)) = IF StepOfKind(op) THEN {op} ELSE {}
<1> DEFINE row == OperationRow(op)
<1>1. /\ row.workspace_id = op.ws /\ row.operation_kind = op.kind /\ row.state = op.state
      /\ row.progress_payload.operation = Family(op.step)
      /\ row.progress_payload.step = StepValue(op.step)
  BY DEF OperationRow
<1>2. ASSUME NEW q \in Row, Family(q.step) = Family(op.step),
             StepValue(q.step) = StepValue(op.step)
      PROVE  q.step = op.step
  BY <1>2, StepsAreSpeltApart DEF Row
<1>3. ASSUME NEW q \in Row, q.ws = op.ws, q.kind = op.kind, q.state = op.state, q.step = op.step
      PROVE  q = op
  BY <1>3 DEF Row
<1>4. ASSUME NEW q \in MapOperation(row)
      PROVE  q = op /\ StepOfKind(op)
  <2>1. /\ q \in Row /\ q.ws = op.ws /\ q.kind = op.kind /\ q.state = op.state
        /\ Family(q.step) = Family(op.step)
        /\ StepValue(q.step) = StepValue(op.step)
        /\ q.kind = Family(q.step)
    BY <1>1, <1>4 DEF MapOperation
  <2> QED BY <1>2, <1>3, <2>1, FamilyIsKind
<1>5. StepOfKind(op) => op \in MapOperation(row)
  BY <1>1, FamilyIsKind DEF MapOperation
<1> QED BY <1>4, <1>5

\* Every row stays at a step of its kind: only save_transition writes rows.
LEMMA RowsStayOfTheirKind ==
    TypeOK /\ Coupled /\ RowsAreOfTheirKind /\ [Next]_vars => RowsAreOfTheirKind'
<1> SUFFICES ASSUME TypeOK, Coupled, RowsAreOfTheirKind, [Next]_vars
             PROVE  RowsAreOfTheirKind'
  OBVIOUS
<1>1. CASE UNCHANGED ops
  BY <1>1 DEF RowsAreOfTheirKind, StepOfKind
<1>2. ASSUME NEW o \in OpId, NEW op, NEW rt, Saved(o, op, rt)
      PROVE  RowsAreOfTheirKind'
  <2>1. ops' = [ops EXCEPT ![o] = op] /\ StepOfKind(op)
    BY <1>2 DEF Saved, Admissible, ValidTransition, StepOfKind
  <2> QED BY <2>1 DEF RowsAreOfTheirKind, StepOfKind, TypeOK, StoreTypeOK
<1>3. CASE UNCHANGED vars
  BY <1>1, <1>3 DEF vars, store
<1> QED BY <1>1, <1>2, <1>3, OnlyUnfinishedAreSaved

\* Every row that is ever stored can be read again, and is read as what was
\* stored: no listing and no recovery at start-up meets a row it cannot read.
THEOREM RowsStayReadable == Spec => []RowsAreReadable
<1>1. Init => RowsAreOfTheirKind
  BY DEF Init, RowsAreOfTheirKind
<1>2. TypeOK /\ RowsAreOfTheirKind => RowsAreReadable
  BY ReadAsStored DEF TypeOK, StoreTypeOK, Operation, RowsAreOfTheirKind, RowsAreReadable
<1> QED BY <1>1, <1>2, RowsStayOfTheirKind, TypeCorrect, AlwaysCoupled, PTL DEF Spec

\* So the listing of any rows is never an error because of one of them.
LEMMA ListingsAreReadable ==
    ASSUME RowsAreReadable,
           NEW ids \in Seq(OpId), \A i \in 1 .. Len(ids) : ops[ids[i]] # NoOperation
    PROVE  Readable([i \in 1 .. Len(ids) |-> OperationRow(ops[ids[i]])])
<1> DEFINE rows == [i \in 1 .. Len(ids) |-> OperationRow(ops[ids[i]])]
<1>1. Len(rows) = Len(ids) /\ \A i \in 1 .. Len(ids) : ids[i] \in OpId
  OBVIOUS
<1>2. \A i \in 1 .. Len(ids) : MapOperation(rows[i]) = {ops[ids[i]]}
  BY <1>1 DEF RowsAreReadable
<1> QED BY <1>1, <1>2 DEF Readable

-----------------------------------------------------------------------------
(* What the store refuses.                                                   *)

\* The store names a reason exactly when it does not commit, as long as a
\* runtime is attached to present workspaces only.
THEOREM StoreRefusesExactly ==
    ASSUME StoreTypeOK, AttachedIsPresent, NEW o \in OpId, NEW op \in Row, NEW rt \in Runtime
    PROVE  SaveError(o, op, rt) = "none" <=> Admissible(o, op, rt)
<1>1. anchor[op.ws] \in Runtime /\ op.ws \in Workspace /\ op.kind \in {"provision", "cleanup"}
  BY DEF StoreTypeOK, Row
<1>2. anchor[op.ws] # Detached => workspaces[op.ws] = "present"
  BY <1>1, AttachedByState DEF AttachedIsPresent, Runtime
<1>3. /\ anchor[op.ws].state \in Settled <=> anchor[op.ws] # Detached
                                            /\ anchor[op.ws].state \notin Busy
      /\ Detached.state \notin Settled
  BY <1>1, AttachedByState DEF Runtime, AttachedRuntime, RuntimeState, Settled, Busy, Detached
<1>4. AdmissionError(op.kind, op.ws) = "none" <=>
        IF op.kind = "provision"
        THEN workspaces[op.ws] = "present" /\ anchor[op.ws] = Detached
        ELSE anchor[op.ws].state \in Settled
  BY <1>1, <1>2, <1>3 DEF AdmissionError
<1>5. AnchorError(op.ws, rt) = "none" <=>
        IF rt = Detached THEN anchor[op.ws] # Detached ELSE workspaces[op.ws] = "present"
  BY <1>2 DEF AnchorError
<1> QED BY <1>4, <1>5 DEF SaveError, Admissible

\* A call keeps what it has read.
LEMMA CallsKeepWhatTheyRead ==
    TypeOK /\ CallsHoldWhatTheyRead /\ [Next]_vars => CallsHoldWhatTheyRead'
<1> SUFFICES ASSUME TypeOK, CallsHoldWhatTheyRead, [Next]_vars
             PROVE  CallsHoldWhatTheyRead'
  OBVIOUS
<1> DEFINE Ahead(c) == callers'[c] = callers[c] \/ callers'[c].pc = "idle"
<1>1. ASSUME \A c \in Caller : Ahead(c),
             \A w \in Workspace : workspaces[w] # "unborn" => workspaces'[w] # "unborn"
      PROVE  CallsHoldWhatTheyRead'
  BY <1>1 DEF CallsHoldWhatTheyRead, TypeOK, CallTypeOK
<1>2. ASSUME NEW c \in Caller, NEW w \in Workspace, ProvisionBegin(c, w) \/ CleanupBegin(c, w)
      PROVE  CallsHoldWhatTheyRead'
  <2>1. /\ workspaces' = workspaces /\ workspaces[w] = "present"
        /\ \A d \in Caller : d # c => callers'[d] = callers[d]
        /\ callers'[c].ws = w
    BY <1>2 DEF ProvisionBegin, CleanupBegin, store, TypeOK, CallTypeOK
  <2>2. callers'[c].pc = "cleanup" => callers'[c].rt.state = "cleaning_up"
    <3>1. CASE ProvisionBegin(c, w)
      BY <3>1 DEF ProvisionBegin, TypeOK, CallTypeOK
    <3>2. CASE CleanupBegin(c, w)
      <4>1. anchor[w] \in AttachedRuntime
        BY <3>2, AttachedByState DEF CleanupBegin, TypeOK, StoreTypeOK, Settled
      <4>2. callers'[c].rt = BeginCleanup(anchor[w])
        BY <3>2 DEF CleanupBegin, TypeOK, CallTypeOK
      <4> QED BY <4>1, <4>2 DEF BeginCleanup, AttachedRuntime
    <3> QED BY <1>2, <3>1, <3>2
  <2> QED BY <2>1, <2>2 DEF CallsHoldWhatTheyRead
<1>3. ASSUME NEW o \in OpId,
             BodyStep(o) \/ SupervisorStep(o) \/ RecoveryStep(o) \/ Deadline(o)
               \/ DeadlineInCommit(o)
      PROVE  UNCHANGED <<workspaces, callers>>
  BY <1>3, Effects
  DEF BodyStep, CreateEffect, ObserveEffect, Purge, Wait, DeleteEffect, Adopt, Save, UndoEffect,
      SupervisorStep, FailLoadOp, FailLoadWs, FailSave, RecoveryStep, RecoverLoad,
      RecoverObserveEffect, RecoverPurge, RecoverSave, Deadline, DeadlineInCommit,
      FailureSaved, FailureRefused, Saved, SaveRefused, store
<1>4. ASSUME Command, ~ \E c \in Caller, w \in Workspace : ProvisionBegin(c, w) \/ CleanupBegin(c, w)
      PROVE  CallsHoldWhatTheyRead'
  <2>1. ASSUME NEW w \in Workspace, CreateWorkspace(w) \/ DeleteWorkspace(w)
        PROVE  CallsHoldWhatTheyRead'
    BY <1>1, <2>1 DEF CreateWorkspace, DeleteWorkspace, process, TypeOK, StoreTypeOK
  <2>2. ASSUME NEW c \in Caller, callers' = [callers EXCEPT ![c] = NoCall], UNCHANGED workspaces
        PROVE  CallsHoldWhatTheyRead'
    BY <1>1, <2>2 DEF NoCall, TypeOK, CallTypeOK
  <2> QED
    BY <1>4, <2>1, <2>2
    DEF Command, ProvisionAdmit, CleanupAdmit, Admit, Saved, CallerGivesUp, store
<1>5. CASE Exit \/ Boot \/ Serve \/ \E r \in late : LateCreate(r)
  BY <1>1, <1>5 DEF Exit, Boot, Serve, LateCreate, store, process, NoCall
<1>6. CASE UNCHANGED vars
  BY <1>1, <1>6 DEF vars, store, process
<1> QED BY <1>1, <1>2, <1>3, <1>4, <1>5, <1>6 DEF Next

\* A command refused at its admission is told the truth, whatever happened
\* since it read the workspace: a provision that a runtime is attached by now or
\* that the workspace is gone, a cleanup that an operation is running on it or
\* that its runtime is gone.
THEOREM RefusalsStayExplained == Spec => []RefusalsAreExplained
<1>1. Init => CallsHoldWhatTheyRead
  BY DEF Init, CallsHoldWhatTheyRead, NoCall
<1>2. TypeOK /\ Coupled /\ CallsHoldWhatTheyRead => RefusalsAreExplained
  <2> SUFFICES ASSUME TypeOK, Coupled, CallsHoldWhatTheyRead, NEW c \in Caller, NEW o \in OpId,
                      ops[o] = NoOperation
               PROVE  LET w == callers[c].ws IN
                      /\ callers[c].pc = "provision" =>
                            LET e == SaveError(o, ProvisionOf(w), NewProvisioning(o)) IN
                            /\ e \in {"none", "operation_already_running", "unavailable"}
                            /\ e = "operation_already_running" <=> anchor[w] # Detached
                            /\ e = "unavailable" <=> workspaces[w] = "deleted"
                      /\ callers[c].pc = "cleanup" =>
                            LET e == SaveError(o, CleanupOf(w), callers[c].rt) IN
                            /\ e \in {"none", "operation_already_running", "not_found"}
                            /\ e = "operation_already_running" <=>
                                  \E p \in OpId : Running(p) /\ ops[p].ws = w
                            /\ e = "not_found" <=> anchor[w] = Detached
    BY DEF RefusalsAreExplained
  <2> DEFINE w == callers[c].ws
  <2>1. CASE callers[c].pc = "provision"
    <3>1. /\ w \in Workspace /\ workspaces[w] \in {"present", "deleted"}
          /\ anchor[w] \in Runtime
      BY <2>1 DEF CallsHoldWhatTheyRead, TypeOK, StoreTypeOK, CallTypeOK
    <3>2. anchor[w] # Detached => workspaces[w] = "present"
      BY <3>1, AttachedByState DEF Coupled, StoreCoupled, AttachedIsPresent, Runtime
    <3>3. ValidTransition(ProvisionOf(w), NewProvisioning(o))
      BY DEF ValidTransition, ProvisionOf, NewProvisioning, ProvisionStep, CreateStep
    <3>4. SaveError(o, ProvisionOf(w), NewProvisioning(o)) = AdmissionError("provision", w)
      BY <3>3 DEF SaveError, ProvisionOf
    <3> QED BY <2>1, <3>1, <3>2, <3>4 DEF AdmissionError
  <2>2. CASE callers[c].pc = "cleanup"
    <3>1. w \in Workspace /\ anchor[w] \in Runtime /\ callers[c].rt.state = "cleaning_up"
      BY <2>2 DEF CallsHoldWhatTheyRead, TypeOK, StoreTypeOK, CallTypeOK
    <3>2. ValidTransition(CleanupOf(w), callers[c].rt)
      BY <3>1 DEF ValidTransition, CleanupOf, CleanupStep
    <3>3. SaveError(o, CleanupOf(w), callers[c].rt) = AdmissionError("cleanup", w)
      BY <3>2 DEF SaveError, CleanupOf
    <3>4. anchor[w].state \in Busy => \E p \in OpId : Running(p) /\ ops[p].ws = w
      BY <3>1 DEF Coupled, StoreCoupled, BusyIsRunning
    <3>5. ASSUME NEW p \in OpId, Running(p), ops[p].ws = w
          PROVE  anchor[w].state \in Busy
      BY <3>5 DEF Coupled, StoreCoupled, RunningIsAnchored, BusyState, Busy
    <3>6. anchor[w].state \in Busy => anchor[w] # Detached
      BY DEF Busy, Detached
    <3> QED BY <2>2, <3>3, <3>4, <3>5, <3>6 DEF AdmissionError
  <2> QED BY <2>1, <2>2
<1> QED BY <1>1, <1>2, CallsKeepWhatTheyRead, TypeCorrect, AlwaysCoupled, PTL DEF Spec

-----------------------------------------------------------------------------
(* The codes of the commands.                                                *)

\* A command has a code for every error its service can answer it with, except
\* that the placement of a key that cannot be read is a command_error, and two
\* errors of a command never share a code.
THEOREM ErrorsKeepTheirNames ==
    ASSUME NEW command \in FacadeCommand, NEW e \in ServiceErrors(command)
    PROVE  /\ ErrorCode(command, e) = "command_error" <=>
                 command = "get_runpod_placement" /\ e = "persistence_unavailable"
           /\ \A f \in ServiceErrors(command) :
                 ErrorCode(command, f) = ErrorCode(command, e) => f = e
<1>1. CASE command = "get_workflows"
  BY <1>1
  DEF ErrorCode, WorkspaceCode, ErrorCodes, ServiceErrors, ListingWorkflows
<1>2. CASE command = "get_workspaces"
  BY <1>2
  DEF ErrorCode, WorkspaceCode, ErrorCodes, ServiceErrors, ListingWorkspaces
<1>3. CASE command = "create_workspace"
  BY <1>3
  DEF ErrorCode, WorkspaceCode, ErrorCodes, ServiceErrors, CreatingWorkspace, FromCreate, WorkspaceRepositoryError
<1>4. CASE command = "delete_workspace"
  BY <1>4
  DEF ErrorCode, WorkspaceCode, ErrorCodes, ServiceErrors, DeletingWorkspace, FromDelete, WorkspaceRepositoryError
<1>5. CASE command = "provision_workspace"
  BY <1>5
  DEF ErrorCode, WorkspaceCode, ErrorCodes, ServiceErrors, StartingProvision,
      ProvisionConflict, RuntimeState, FromPersistence, AdmissionErrors, PersistenceError
<1>6. CASE command = "cleanup_workspace"
  BY <1>6
  DEF ErrorCode, WorkspaceCode, ErrorCodes, ServiceErrors, StartingCleanup,
      CleanupConflict, Settled, RuntimeState, FromPersistence, AdmissionErrors, PersistenceError
<1>7. CASE command = "get_runtime_operations"
  BY <1>7
  DEF ErrorCode, WorkspaceCode, ErrorCodes, ServiceErrors, ListingOperations
<1>8. CASE command = "get_runpod_placement"
  BY <1>8
  DEF ErrorCode, WorkspaceCode, ErrorCodes, ServiceErrors, AskingPlacement, FromProvider, ProviderError
<1>9. CASE command = "setup_api_key"
  BY <1>9
  DEF ErrorCode, WorkspaceCode, ErrorCodes, ServiceErrors, SettingSecret, IdentityErrors, FromInsert, SecretStoreError
<1>10. CASE command = "get_identity"
  BY <1>10
  DEF ErrorCode, WorkspaceCode, ErrorCodes, ServiceErrors, AskingIdentity, IdentityErrors
<1>11. CASE command = "delete_api_key"
  BY <1>11
  DEF ErrorCode, WorkspaceCode, ErrorCodes, ServiceErrors, DeletingSecret, FromRemove, SecretStoreError
<1> QED BY <1>1, <1>2, <1>3, <1>4, <1>5, <1>6, <1>7, <1>8, <1>9, <1>10, <1>11 DEF FacadeCommand

\* A listing is refused for its page exactly when the page is none, whatever the
\* service would have answered.
THEOREM OnlyBadPagesAreRefused ==
    ASSUME NEW command \in FacadeCommand, NEW limit \in Nat
    PROVE  "invalid_pagination" \in CommandErrors(command, limit)
              <=> command \in Paged /\ ~ValidPage(limit)
<1>1. ASSUME NEW e \in ServiceErrors(command)
      PROVE  ErrorCode(command, e) # "invalid_pagination"
  <2>1. CASE command \in Paged
    <3>1. e \in {"catalog_unavailable", "persistence_unavailable"}
      BY <2>1 DEF Paged, ServiceErrors, ListingWorkflows, ListingWorkspaces, ListingOperations
    <3> QED BY <3>1 DEF ErrorCode, WorkspaceCode
  <2>2. CASE command \notin Paged
    BY <2>2 DEF Paged, FacadeCommand, ErrorCode, ErrorCodes
  <2> QED BY <2>1, <2>2
<1> QED BY <1>1 DEF CommandErrors
=============================================================================
