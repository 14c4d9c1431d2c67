---------------------------- MODULE RuntimeModels ----------------------------
(* The records the runtime services pass around: the Runtime anchored to a   *)
(* Workspace, the RuntimeOperation row, the RunPod resources they name, and  *)
(* the rule that says which pairs of the two may be stored together.         *)
(* Names, sizes, regions, timestamps and trace ids are left out: no decision *)
(* of the lifecycle reads them.                                              *)
EXTENDS RunpodRequests, FiniteSets

CONSTANTS
    Workspace,    \* the workspace ids that may ever be created
    OpId,         \* the UUIDs operations may ever be given
    NoWorkspace,  \* placeholder of a row or a caller that has no workspace
    NoGen,        \* placeholder of a runtime that is not attached
    Copy          \* the resources one create request can leave behind

\* The resource a create request is meant to leave behind; every other copy
\* bears the right name but fails the observation's validity check.
Good == "good"

ASSUME PlaceholderAssumption == NoWorkspace \notin Workspace /\ NoGen \notin OpId
ASSUME CopyAssumption == Good \in Copy

-----------------------------------------------------------------------------
(* RunPod resources. `resource_name` joins the workspace, the id of the      *)
(* provision operation and the kind: the provision operation's id, `gen`,    *)
(* already determines the workspace.                                         *)

Resource == [gen : OpId, kind : ResourceKind, copy : Copy]

Named(g, k, C) == {[gen |-> g, kind |-> k, copy |-> c] : c \in C}

\* The resource ids an observation of a kind must be given.
ObservedThrough(k) ==
    CASE k = "endpoint" -> {"volume", "template"}
      [] k = "pod"      -> {"volume"}
      [] OTHER          -> {}

-----------------------------------------------------------------------------
(* The Runtime of a Workspace. `known` is the set of kinds whose id field of *)
(* RunpodRuntimeResources is Some; the id it holds is that of the Good copy. *)

RuntimeState == {"provisioning", "ready", "cleaning_up", "failed"}

AttachedRuntime == [state : RuntimeState, gen : OpId, known : SUBSET ResourceKind]

\* workspace.runtime = None
Detached == [state |-> "none", gen |-> NoGen, known |-> {}]

Runtime == AttachedRuntime \cup {Detached}

NewProvisioning(o) == [state |-> "provisioning", gen |-> o, known |-> {}]

Knowing(rt, k) == [rt EXCEPT !.known = @ \cup {k}]
Forgetting(rt, k) == [rt EXCEPT !.known = @ \ {k}]

\* mark_failed and begin_cleanup refuse every other state.
Busy == {"provisioning", "cleaning_up"}
Settled == {"ready", "failed"}
MarkFailed(rt) == [rt EXCEPT !.state = "failed"]
BeginCleanup(rt) == [rt EXCEPT !.state = "cleaning_up"]

-----------------------------------------------------------------------------
(* RuntimeOperation and its progress. The cleanup step the code also spells  *)
(* terminate_provisioner_pod is "cleanup_provisioner_pod" here, so that a    *)
(* step determines the kind of its operation.                                *)

CreateStep == {"create_network_volume", "start_provisioner_pod",
               "create_template", "create_endpoint"}
ProvisionStep == CreateStep \cup {"poll_provisioner", "terminate_provisioner_pod"}
CleanupStep == {"delete_endpoint", "delete_template",
                "cleanup_provisioner_pod", "delete_network_volume"}
Step == ProvisionStep \cup CleanupStep

\* The resource a step works on.
Target(s) ==
    CASE s \in {"create_network_volume", "delete_network_volume"} -> "volume"
      [] s \in {"create_template", "delete_template"}             -> "template"
      [] s \in {"create_endpoint", "delete_endpoint"}             -> "endpoint"
      [] OTHER                                                    -> "pod"

\* Mutated form of NextStep: the pod is left running when it has succeeded.
NextStepLeavingThePod(s) ==
    CASE s = "create_network_volume" -> "start_provisioner_pod"
      [] s = "start_provisioner_pod" -> "poll_provisioner"
      [] s = "poll_provisioner"      -> "create_template"
      [] s = "create_template"       -> "create_endpoint"
      [] s = "delete_endpoint"       -> "delete_template"
      [] s = "delete_template"       -> "cleanup_provisioner_pod"
      [] OTHER                       -> "delete_network_volume"

\* The step run_provision or run_cleanup records when this one is done.
NextStep(s) ==
    CASE s = "create_network_volume"     -> "start_provisioner_pod"
      [] s = "start_provisioner_pod"     -> "poll_provisioner"
      [] s = "poll_provisioner"          -> "terminate_provisioner_pod"
      [] s = "terminate_provisioner_pod" -> "create_template"
      [] s = "create_template"           -> "create_endpoint"
      [] s = "delete_endpoint"           -> "delete_template"
      [] s = "delete_template"           -> "cleanup_provisioner_pod"
      [] OTHER                           -> "delete_network_volume"

LastStep == {"create_endpoint", "delete_network_volume"}

Finished == {"succeeded", "failed"}

Row == [state : {"running"} \cup Finished,
        ws    : Workspace,
        kind  : {"provision", "cleanup"},
        step  : Step]

\* No row of this id.
NoOperation == [state |-> "none", ws |-> NoWorkspace, kind |-> "none", step |-> "none"]

Operation == Row \cup {NoOperation}

ProvisionOf(w) == [state |-> "running", ws |-> w, kind |-> "provision",
                   step |-> "create_network_volume"]
CleanupOf(w) == [state |-> "running", ws |-> w, kind |-> "cleanup",
                 step |-> "delete_endpoint"]
Fail(op) == [op EXCEPT !.state = "failed"]

\* validate_transition: the states of an operation and of its workspace's
\* runtime that may be stored together.
ValidTransition(op, rt) ==
    /\ op.kind = "provision" => op.step \in ProvisionStep
    /\ op.kind = "cleanup" => op.step \in CleanupStep
    /\ <<op.kind, op.state, rt.state>> \in
         { <<"provision", "running",   "provisioning">>,
           <<"provision", "succeeded", "ready">>,
           <<"provision", "failed",    "failed">>,
           <<"cleanup",   "running",   "cleaning_up">>,
           <<"cleanup",   "succeeded", "none">>,
           <<"cleanup",   "failed",    "failed">> }

-----------------------------------------------------------------------------
(* What a lifecycle body stores when its current step is done.               *)

Advance(op) ==
    IF op.step \in LastStep THEN [op EXCEPT !.state = "succeeded"]
                            ELSE [op EXCEPT !.step = NextStep(op.step)]

AdvancedRuntime(op, rt) ==
    CASE op.step = "create_endpoint"       -> [rt EXCEPT !.state = "ready"]
      [] op.step = "delete_network_volume" -> Detached
      [] OTHER                             -> rt
=============================================================================
