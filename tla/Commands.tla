------------------------------ MODULE Commands -------------------------------
(* What the commands of the facade answer: the rows an operation is stored   *)
(* in and read from, the error of every step a service takes, and the code   *)
(* each command gives it.                                                    *)
EXTENDS RuntimeCoupling

-----------------------------------------------------------------------------
(* The rows of runtime_operations.                                           *)

\* Both kinds of operation spell the step that terminates the pod alike.
StepValue(s) == IF s = "cleanup_provisioner_pod" THEN "terminate_provisioner_pod" ELSE s

Family(s) == IF s \in ProvisionStep THEN "provision" ELSE "cleanup"

OperationRow(op) ==
    [workspace_id     |-> op.ws,
     operation_kind   |-> op.kind,
     state            |-> op.state,
     progress_payload |-> [operation |-> Family(op.step), step |-> StepValue(op.step)]]

\* The operation a row is read as: none if a text is not one of those that are
\* written, or the progress is of the other kind.
MapOperation(model) ==
    {op \in Row :
        /\ op.ws = model.workspace_id
        /\ op.kind = model.operation_kind
        /\ op.state = model.state
        /\ Family(op.step) = model.progress_payload.operation
        /\ StepValue(op.step) = model.progress_payload.step
        /\ op.kind = Family(op.step)}

\* One row that cannot be read makes the listing it is in an error.
Readable(rows) == \A i \in 1 .. Len(rows) : MapOperation(rows[i]) # {}

-----------------------------------------------------------------------------
(* The pages of a listing that the facade lets through.                      *)

MAX_PAGE == 100

ValidPage(limit) == limit \in 1 .. MAX_PAGE

-----------------------------------------------------------------------------
(* What the store refuses, and why.                                          *)

PersistenceError == {"already_exists", "operation_already_running", "not_found",
                     "unavailable", "corrupt_data"}

\* insert_anchor and claim_cleanup_anchor, for an operation that is new. That
\* the workspace is gone violates the foreign key of the anchor.
AdmissionError(kind, w) ==
    CASE kind = "provision" /\ anchor[w] # Detached        -> "operation_already_running"
      [] kind = "provision" /\ anchor[w] = Detached
         /\ workspaces[w] # "present"                      -> "unavailable"
      [] kind = "cleanup" /\ anchor[w] = Detached          -> "not_found"
      [] kind = "cleanup" /\ anchor[w].state \in Busy      -> "operation_already_running"
      [] OTHER                                             -> "none"

\* upsert_anchor and delete_anchor.
AnchorError(w, rt) ==
    CASE rt = Detached /\ anchor[w] = Detached             -> "not_found"
      [] /\ rt # Detached /\ anchor[w] = Detached
         /\ workspaces[w] # "present"                      -> "unavailable"
      [] OTHER                                             -> "none"

\* The error of save_transition while the database works; "none" if it commits.
SaveError(o, op, rt) ==
    IF \/ ~ValidTransition(op, rt)
       \/ ops[o] # NoOperation /\ (ops[o].ws # op.ws \/ ops[o].kind # op.kind)
    THEN "corrupt_data"
    ELSE IF ops[o] = NoOperation /\ op.state = "running"
         THEN AdmissionError(op.kind, op.ws)
         ELSE AnchorError(op.ws, rt)

-----------------------------------------------------------------------------
(* The errors of the ports, as the services return them.                     *)

FromPersistence(e) ==
    CASE e = "already_exists"            -> "already_provisioned"
      [] e = "operation_already_running" -> "operation_in_progress"
      [] OTHER                           -> "persistence_unavailable"

FromProvider(e) == IF e = "unauthorized" THEN "invalid_credential" ELSE "provider_unavailable"

ProvisionConflict(state) ==
    CASE state = "ready"  -> "already_provisioned"
      [] state = "failed" -> "runtime_failed"
      [] OTHER            -> "operation_in_progress"

CleanupConflict(state) == IF state \in Settled THEN "none" ELSE "operation_in_progress"

WorkspaceRepositoryError ==
    {"already_exists", "runtime_attached", "operation_running", "unavailable", "corrupt_data"}

FromCreate(e) == IF e = "already_exists" THEN e ELSE "persistence_unavailable"

FromDelete(e) ==
    IF e \in {"runtime_attached", "operation_running"} THEN e ELSE "persistence_unavailable"

SecretStoreError == {"already_exists", "not_found", "unavailable"}

FromInsert(e) == IF e = "already_exists" THEN "already_configured" ELSE "storage_unavailable"

FromRemove(e) == IF e = "not_found" THEN "not_configured" ELSE "storage_unavailable"

IdentityErrors == {"invalid_credential", "identity_unavailable"}

-----------------------------------------------------------------------------
(* Every error a service can answer a command with.                          *)

ListingWorkflows == {"catalog_unavailable"}

ListingWorkspaces == {"persistence_unavailable"}

CreatingWorkspace ==
    {"catalog_unavailable", "workflow_not_found"} \cup
    {FromCreate(e) : e \in WorkspaceRepositoryError}

DeletingWorkspace == {"not_found"} \cup {FromDelete(e) : e \in WorkspaceRepositoryError}

\* A new provision that finds an anchor is told that an operation is running, and
\* a new cleanup inserts none.
AdmissionErrors == PersistenceError \ {"already_exists"}

\* A volume that is too large is refused as an invalid transition.
StartingProvision ==
    {"invalid_transition", "persistence_unavailable", "workspace_not_found"} \cup
    {ProvisionConflict(s) : s \in RuntimeState} \cup
    {"catalog_unavailable", "workflow_not_found", "credential_missing"} \cup
    {FromPersistence(e) : e \in AdmissionErrors}

StartingCleanup ==
    {"persistence_unavailable", "workspace_not_found", "not_provisioned"} \cup
    {"credential_missing"} \cup
    ({CleanupConflict(s) : s \in RuntimeState} \ {"none"}) \cup
    {FromPersistence(e) : e \in AdmissionErrors}

ListingOperations == {"persistence_unavailable"}

AskingPlacement ==
    {"persistence_unavailable", "credential_missing"} \cup
    {FromProvider(e) : e \in ProviderError}

SettingSecret ==
    {"storage_unavailable", "already_configured"} \cup IdentityErrors \cup
    {FromInsert(e) : e \in SecretStoreError}

AskingIdentity == {"storage_unavailable", "not_configured"} \cup IdentityErrors

DeletingSecret == {FromRemove(e) : e \in SecretStoreError}

-----------------------------------------------------------------------------
(* The commands. Those of the two keys are alike.                            *)

FacadeCommand == {"get_workflows", "get_workspaces", "create_workspace", "delete_workspace",
                  "provision_workspace", "cleanup_workspace", "get_runtime_operations",
                  "get_runpod_placement", "setup_api_key", "get_identity", "delete_api_key"}

Paged == {"get_workflows", "get_workspaces", "get_runtime_operations"}

\* The errors of the service each command calls.
ServiceErrors(command) ==
    CASE command = "get_workflows"          -> ListingWorkflows
      [] command = "get_workspaces"         -> ListingWorkspaces
      [] command = "create_workspace"       -> CreatingWorkspace
      [] command = "delete_workspace"       -> DeletingWorkspace
      [] command = "provision_workspace"    -> StartingProvision
      [] command = "cleanup_workspace"      -> StartingCleanup
      [] command = "get_runtime_operations" -> ListingOperations
      [] command = "get_runpod_placement"   -> AskingPlacement
      [] command = "setup_api_key"          -> SettingSecret
      [] command = "get_identity"           -> AskingIdentity
      [] command = "delete_api_key"         -> DeletingSecret

\* The codes a command has of its own; every command has command_error too.
ErrorCodes(command) ==
    CASE command = "get_workflows" -> {"invalid_pagination", "catalog_unavailable"}
      [] command \in {"get_workspaces", "get_runtime_operations"} ->
             {"invalid_pagination", "persistence_unavailable"}
      [] command = "create_workspace" ->
             {"workflow_not_found", "workspace_already_exists", "catalog_unavailable",
              "persistence_unavailable"}
      [] command = "delete_workspace" ->
             {"workspace_not_found", "runtime_attached", "operation_running",
              "persistence_unavailable"}
      [] command = "provision_workspace" ->
             {"workspace_not_found", "workflow_not_found", "already_provisioned",
              "runtime_failed", "operation_in_progress", "credential_missing",
              "catalog_unavailable", "persistence_unavailable", "invalid_transition"}
      [] command = "cleanup_workspace" ->
             {"workspace_not_found", "not_provisioned", "operation_in_progress",
              "credential_missing", "persistence_unavailable", "invalid_transition"}
      [] command = "get_runpod_placement" ->
             {"credential_missing", "invalid_credential", "provider_unavailable"}
      [] command = "setup_api_key" ->
             {"already_configured", "invalid_credential", "identity_unavailable",
              "storage_unavailable"}
      [] command = "get_identity" ->
             {"not_configured", "invalid_credential", "identity_unavailable",
              "storage_unavailable"}
      [] command = "delete_api_key" -> {"not_configured", "storage_unavailable"}

\* The errors of the workspace service that have another name outside.
WorkspaceCode(e) ==
    CASE e = "not_found"      -> "workspace_not_found"
      [] e = "already_exists" -> "workspace_already_exists"
      [] OTHER                -> e

ErrorCode(command, e) ==
    IF WorkspaceCode(e) \in ErrorCodes(command) THEN WorkspaceCode(e) ELSE "command_error"

\* A page is asked of the service only if its limit is one; what the service
\* returns may hold a time that cannot be shown.
CommandErrors(command, limit) ==
    IF command \in Paged /\ ~ValidPage(limit)
    THEN {"invalid_pagination"}
    ELSE {ErrorCode(command, e) : e \in ServiceErrors(command)} \cup
         IF command = "delete_workspace" THEN {} ELSE {"command_error"}

-----------------------------------------------------------------------------
(* Properties.                                                               *)

\* Whatever is stored of an operation can be read again, and is read as what
\* was stored: no listing and no recovery meets a row it cannot read.
RowsAreReadable ==
    \A o \in OpId : ops[o] # NoOperation => MapOperation(OperationRow(ops[o])) = {ops[o]}

\* Why a command that has read a workspace is refused when it is admitted: a
\* provision because the workspace has a runtime by now or is gone, a cleanup
\* because an operation is running on it or its runtime is gone.
RefusalsAreExplained ==
    \A c \in Caller, o \in OpId : ops[o] = NoOperation =>
        LET w == callers[c].ws IN
        /\ callers[c].pc = "provision" =>
              LET e == SaveError(o, ProvisionOf(w), NewProvisioning(o)) IN
              /\ e \in {"none", "operation_already_running", "unavailable"}
              /\ e = "operation_already_running" <=> anchor[w] # Detached
              /\ e = "unavailable" <=> workspaces[w] = "deleted"
        /\ callers[c].pc = "cleanup" =>
              LET e == SaveError(o, CleanupOf(w), callers[c].rt) IN
              /\ e \in {"none", "operation_already_running", "not_found"}
              /\ e = "operation_already_running" <=> \E p \in OpId : Running(p) /\ ops[p].ws = w
              /\ e = "not_found" <=> anchor[w] = Detached

-----------------------------------------------------------------------------
(* The inductive invariants behind them.                                     *)

\* Every row, finished or not, is at a step of its kind.
RowsAreOfTheirKind == \A o \in OpId : ops[o] # NoOperation => StepOfKind(ops[o])

\* A command that has read a workspace has read one that was created, and a
\* cleanup goes on with the runtime begin_cleanup has changed.
CallsHoldWhatTheyRead ==
    \A c \in Caller :
        /\ callers[c].pc # "idle" => workspaces[callers[c].ws] # "unborn"
        /\ callers[c].pc = "cleanup" => callers[c].rt.state = "cleaning_up"
=============================================================================
