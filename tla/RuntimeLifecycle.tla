-------------------------- MODULE RuntimeLifecycle ---------------------------
(* Provisioning, cleanup and recovery of RunPod runtimes: the durable rows,  *)
(* the commands that admit an operation, the detached body that carries it   *)
(* out against RunPod, the supervisor that fails it when the body does not   *)
(* finish, and the recovery of interrupted operations at start-up.           *)
(*                                                                           *)
(* A create request, a database transaction, an abort and a process crash    *)
(* may each go wrong; MaxFaults bounds how often. Time is not modelled: a    *)
(* deadline may pass whenever a body is alive.                               *)
EXTENDS RuntimeModels

CONSTANTS
    Caller,     \* commands that may be in flight at the same time
    MaxFaults,  \* bound: failures of RunPod, of the store and of the process
    Timely      \* TRUE: a create request RunPod executes after its client gave
                \* up is executed before a cleanup of its runtime begins

ASSUME MaxFaultsAssumption == MaxFaults \in Nat
ASSUME TimelyAssumption == Timely \in BOOLEAN

VARIABLES
    workspaces,  \* table workspaces: unborn, present or deleted
    anchor,      \* table workspace_runtimes: the runtime of each workspace
    ops,         \* table runtime_operations
    task,        \* the body, supervisor or recovery that works on an operation
    callers,     \* start_provision and start_cleanup calls before admission
    phase,       \* the process: down, recovering or serving
    queue,       \* operations recover_interrupted has still to recover
    remote,      \* RunPod resources that exist
    late,        \* create requests RunPod has yet to execute, given up here
    lost,        \* operations this process failed to terminalise
    faults       \* failures so far

store == <<workspaces, anchor, ops>>
cloud == <<remote, late>>
process == <<task, callers, phase, queue, lost>>
vars == <<store, cloud, process, faults>>

\* Before each await of run_provision and run_cleanup a body is at one of these.
BodyPc == {"create", "observe", "purge", "save", "undo", "wait", "delete", "adopt"}
SupervisorPc == {"fail_load_op", "fail_load_ws", "fail_save"}
RecoveryPc == {"recover_observe", "recover_purge", "recover_save"}

\* op and rt are the task's own copies of the row and of workspace.runtime,
\* ids the resources an ambiguous observation returned.
Task == [pc  : {"idle"} \cup BodyPc \cup SupervisorPc \cup RecoveryPc,
         op  : Operation,
         rt  : Runtime,
         ids : SUBSET Resource]

Call == [pc : {"idle", "provision", "cleanup"},
         ws : Workspace \cup {NoWorkspace},
         rt : Runtime]

\* Where a task holds a row, and where it holds an attached runtime.
HoldsRow == BodyPc \cup RecoveryPc \cup {"fail_load_ws", "fail_save"}
HoldsRuntime == BodyPc \cup {"recover_observe", "recover_purge"}

Idle == [pc |-> "idle", op |-> NoOperation, rt |-> Detached, ids |-> {}]
NoCall == [pc |-> "idle", ws |-> NoWorkspace, rt |-> Detached]

StoreTypeOK ==
    /\ workspaces \in [Workspace -> {"unborn", "present", "deleted"}]
    /\ anchor \in [Workspace -> Runtime]
    /\ ops \in [OpId -> Operation]

TaskTypeOK ==
    /\ task \in [OpId -> Task]
    /\ \A o \in OpId : /\ task[o].pc \in HoldsRow => task[o].op \in Row
                       /\ task[o].pc \in HoldsRuntime => task[o].rt \in AttachedRuntime

CallTypeOK ==
    /\ callers \in [Caller -> Call]
    /\ \A c \in Caller : /\ callers[c].pc # "idle" => callers[c].ws \in Workspace
                         /\ callers[c].pc = "cleanup" => callers[c].rt \in AttachedRuntime

ProcessTypeOK ==
    /\ phase \in {"down", "recovering", "serving"}
    /\ queue \in SUBSET OpId
    /\ \A o \in queue : ops[o] \in Row
    /\ lost \in SUBSET OpId
    /\ faults \in 0 .. MaxFaults

CloudTypeOK ==
    /\ remote \in SUBSET Resource
    /\ late \in SUBSET Resource

TypeOK == StoreTypeOK /\ TaskTypeOK /\ CallTypeOK /\ ProcessTypeOK /\ CloudTypeOK

Init ==
    /\ workspaces = [w \in Workspace |-> "unborn"]
    /\ anchor = [w \in Workspace |-> Detached]
    /\ ops = [o \in OpId |-> NoOperation]
    /\ task = [o \in OpId |-> Idle]
    /\ callers = [c \in Caller |-> NoCall]
    /\ phase = "down"
    /\ queue = {}
    /\ remote = {}
    /\ late = {}
    /\ lost = {}
    /\ faults = 0

-----------------------------------------------------------------------------
(* The store.                                                                *)

Running(o) == ops[o].state = "running"

\* Mutated forms of Admissible: claim_cleanup_anchor without its state filter,
\* and the anchor without its foreign key.
AdmissibleUnfiltered(o, op, rt) ==
    /\ ValidTransition(op, rt)
    /\ IF ops[o] = NoOperation /\ op.kind = "provision"
       THEN workspaces[op.ws] = "present" /\ anchor[op.ws] = Detached
       ELSE anchor[op.ws] # Detached

AdmissibleUnkeyed(o, op, rt) ==
    /\ ValidTransition(op, rt)
    /\ ops[o] = NoOperation =>
          IF op.kind = "provision" THEN anchor[op.ws] = Detached
                                   ELSE anchor[op.ws].state \in Settled

\* The condition on which save_transition commits: the pair is valid, and the
\* anchor is the one the kind of write needs. A new provision inserts it, a new
\* cleanup claims it, any other write updates it, and Detached deletes it.
Admissible(o, op, rt) ==
    /\ ValidTransition(op, rt)
    /\ IF ops[o] = NoOperation /\ op.state = "running"
       THEN IF op.kind = "provision"
            THEN workspaces[op.ws] = "present" /\ anchor[op.ws] = Detached
            ELSE anchor[op.ws].state \in Settled
       ELSE /\ ops[o] # NoOperation => ops[o].ws = op.ws /\ ops[o].kind = op.kind
            /\ IF rt = Detached THEN anchor[op.ws] # Detached
                                ELSE workspaces[op.ws] = "present"

\* Mutated form of Saved: the rows are written without a transaction.
SavedInTwo(o, op, rt) ==
    /\ Admissible(o, op, rt)
    /\ ops' = [ops EXCEPT ![o] = op]
    /\ anchor' \in {anchor, [anchor EXCEPT ![op.ws] = rt]}
    /\ UNCHANGED workspaces

\* save_transition as one transaction.
Saved(o, op, rt) ==
    /\ Admissible(o, op, rt)
    /\ ops' = [ops EXCEPT ![o] = op]
    /\ anchor' = [anchor EXCEPT ![op.ws] = rt]
    /\ UNCHANGED workspaces

Fault == faults < MaxFaults /\ faults' = faults + 1

\* save_transition returns an error: it always does when the write is not
\* admissible, and otherwise when the database is unavailable.
SaveRefused(o, op, rt) ==
    /\ Admissible(o, op, rt) => Fault
    /\ ~Admissible(o, op, rt) => UNCHANGED faults
    /\ UNCHANGED store

-----------------------------------------------------------------------------
(* Steps of a task.                                                          *)

Goto(o, pc) == task' = [task EXCEPT ![o].pc = pc]

\* The body is over without success and its supervisor takes the operation.
BodyFails(o) == task' = [task EXCEPT ![o] = [Idle EXCEPT !.pc = "fail_load_op"]]

TaskEnds(o) == task' = [task EXCEPT ![o] = Idle]

\* Mutated form of EntryPc: a cleanup does not look for what has no id.
EntryPcUnseeing(op, rt) ==
    CASE op.step \in CreateStep                                  -> "create"
      [] op.step = "poll_provisioner"                            -> "wait"
      [] op.step = "terminate_provisioner_pod"                   -> "delete"
      [] op.kind = "cleanup" /\ Target(op.step) \in rt.known     -> "delete"
      [] OTHER                                                   -> "save"

\* Where a body is once it has entered the step of op with the resources known.
\* run_cleanup looks for a resource whose id it lacks only when it has the ids
\* the observation needs; otherwise it goes on to the next step.
EntryPc(op, rt) ==
    LET k == Target(op.step) IN
    CASE op.step \in CreateStep                -> "create"
      [] op.step = "poll_provisioner"          -> "wait"
      [] op.step = "terminate_provisioner_pod" -> "delete"
      [] op.kind = "cleanup" /\ k \in rt.known -> "delete"
      [] op.kind = "cleanup" /\ k \notin rt.known /\ ObservedThrough(k) \subseteq rt.known
                                               -> "observe"
      [] OTHER                                 -> "save"

Entered(op, rt) == [pc |-> EntryPc(op, rt), op |-> op, rt |-> rt, ids |-> {}]

KindOf(o) == Target(task[o].op.step)
Gen(o) == task[o].rt.gen

\* What an observation by name of the task's resource lists.
Listed(o) == {r \in remote : r.gen = Gen(o) /\ r.kind = KindOf(o)}
Wanted(o) == [gen |-> Gen(o), kind |-> KindOf(o), copy |-> Good]
Observation(o) == ClassifyObservation(Listed(o), Listed(o) \cap {Wanted(o)})

\* The pair a body stores at "save".
NextOperation(o) == Advance(task[o].op)
NextRuntime(o) == AdvancedRuntime(task[o].op, task[o].rt)

\* Mutated form of Learns: the id is not in the workspace when it is saved.
LearnsTooLate(o) == Goto(o, "save")

Learns(o) == task' = [task EXCEPT ![o].rt = Knowing(@, KindOf(o)), ![o].pc = "save"]

\* What RunPod does with a create request to which it gives answer a: it refuses
\* it, creates the resource and says so, or creates anything, now or later.
Requested(o, a) ==
    \/ /\ a.status \in Refusal
       /\ Fault
       /\ UNCHANGED cloud
    \/ /\ a.status = "success" /\ a.body = "whole"
       /\ remote' = remote \cup {Wanted(o)}
       /\ UNCHANGED <<late, faults>>
    \/ /\ a.status \notin Refusal /\ a.body # "whole"
       /\ Fault
       /\ \/ \E C \in SUBSET Copy :
                remote' = remote \cup Named(Gen(o), KindOf(o), C) /\ UNCHANGED late
          \/ \E c \in Copy :
                late' = late \cup Named(Gen(o), KindOf(o), {c}) /\ UNCHANGED remote

\* create_*: the body knows the id, or that nothing was created, or neither.
Create(o) ==
    /\ task[o].pc = "create"
    /\ \E a \in Answer :
          /\ Requested(o, a)
          /\ \/ Created(a) = "created" /\ Learns(o)
             \/ Created(a) = "create_outcome_unknown" /\ Goto(o, "observe")
             \/ Created(a) \in {"unauthorized", "unavailable"} /\ BodyFails(o)
    /\ UNCHANGED <<store, callers, phase, queue, lost>>

\* observe_*, by a body whose create request has an unknown outcome or by a
\* cleanup that does not have the id.
Observe(o) ==
    /\ task[o].pc = "observe"
    /\ \E a \in Answer :
          \/ /\ Observed(a) = "listed"
             /\ \/ /\ Observation(o) = "absent"
                   /\ IF task[o].op.kind = "cleanup" THEN Goto(o, "save") ELSE BodyFails(o)
                \/ /\ Observation(o) = "found"
                   /\ task' = [task EXCEPT ![o].rt = Knowing(@, KindOf(o)),
                                           ![o].pc = IF task[o].op.kind = "cleanup"
                                                     THEN "adopt" ELSE "save"]
                \/ /\ Observation(o) = "ambiguous"
                   /\ task' = [task EXCEPT ![o].ids = Listed(o), ![o].pc = "purge"]
             /\ UNCHANGED faults
          \/ Observed(a) # "listed" /\ Fault /\ BodyFails(o)
    /\ UNCHANGED <<store, cloud, callers, phase, queue, lost>>

\* Delete every resource an ambiguous observation returned. run_provision
\* ignores what fails and returns an error in any case; run_cleanup goes on to
\* the next step if nothing failed.
Purge(o) ==
    /\ task[o].pc = "purge"
    /\ \/ /\ remote' = remote \ task[o].ids
          /\ IF task[o].op.kind = "cleanup"
             THEN task' = [task EXCEPT ![o].ids = {}, ![o].pc = "save"]
             ELSE BodyFails(o)
          /\ UNCHANGED faults
       \/ /\ Fault
          /\ \E D \in SUBSET task[o].ids : remote' = remote \ D
          /\ BodyFails(o)
    /\ UNCHANGED <<store, late, callers, phase, queue, lost>>

\* wait_for_provisioner.
Wait(o) ==
    /\ task[o].pc = "wait"
    /\ \/ Goto(o, "save") /\ UNCHANGED faults
       \/ Fault /\ BodyFails(o)
    /\ UNCHANGED <<store, cloud, callers, phase, queue, lost>>

\* What RunPod does with a request to delete the task's resource to which it
\* gives answer a.
Dropped(o, a) ==
    /\ \/ a.status = "success" /\ remote' = remote \ {Wanted(o)}
       \/ a.status = "not_found" /\ Wanted(o) \notin remote /\ UNCHANGED remote
       \/ a.status \in Refusal \ {"not_found"} /\ Fault /\ UNCHANGED remote
       \/ /\ a.status \notin Refusal \cup {"success"}
          /\ Fault
          /\ remote' \in {remote, remote \ {Wanted(o)}}
    /\ a.status \in {"success", "not_found"} => UNCHANGED faults

\* delete_* and terminate_provisioner_pod of a resource whose id is known.
Delete(o) ==
    /\ task[o].pc = "delete"
    /\ \E a \in Answer :
          /\ Dropped(o, a)
          /\ IF Deleted(a) = "deleted"
             THEN task' = [task EXCEPT ![o].rt = Forgetting(@, KindOf(o)), ![o].pc = "save"]
             ELSE BodyFails(o)
    /\ UNCHANGED <<store, late, callers, phase, queue, lost>>

\* A cleanup stores the id it found before it deletes the resource.
Adopt(o) ==
    /\ task[o].pc = "adopt"
    /\ \/ Saved(o, task[o].op, task[o].rt) /\ Goto(o, "delete") /\ UNCHANGED faults
       \/ SaveRefused(o, task[o].op, task[o].rt) /\ BodyFails(o)
    /\ UNCHANGED <<cloud, callers, phase, queue, lost>>

\* set_provision_step, set_cleanup_step and the final save of either body. A
\* create step whose save is refused first deletes what it created.
Save(o) ==
    /\ task[o].pc = "save"
    /\ \/ /\ Saved(o, NextOperation(o), NextRuntime(o))
          /\ IF task[o].op.step \in LastStep
             THEN TaskEnds(o)
             ELSE task' = [task EXCEPT ![o] = Entered(NextOperation(o), NextRuntime(o))]
          /\ UNCHANGED faults
       \/ /\ SaveRefused(o, NextOperation(o), NextRuntime(o))
          /\ IF task[o].op.step \in CreateStep THEN Goto(o, "undo") ELSE BodyFails(o)
    /\ UNCHANGED <<cloud, callers, phase, queue, lost>>

\* The compensating delete, whose result is ignored.
Undo(o) ==
    /\ task[o].pc = "undo"
    /\ \E a \in Answer : Dropped(o, a)
    /\ BodyFails(o)
    /\ UNCHANGED <<store, late, callers, phase, queue, lost>>

\* Mutated form of Deadline: nobody fails the operation of an aborted body.
DeadlineUnsupervised(o) ==
    /\ task[o].pc \in BodyPc
    /\ TaskEnds(o)
    /\ UNCHANGED <<store, cloud, callers, phase, queue, lost, faults>>

\* The deadline of the operation passes and the supervisor aborts its body.
Deadline(o) ==
    /\ task[o].pc \in BodyPc
    /\ BodyFails(o)
    /\ UNCHANGED <<store, cloud, callers, phase, queue, lost, faults>>

\* Mutated form of DeadlineInCommit: the supervisor does not wait for the end of
\* the aborted body and has loaded the operation as it was before the COMMIT.
DeadlineBeforeCommit(o) ==
    /\ task[o].pc = "save"
    /\ Saved(o, NextOperation(o), NextRuntime(o))
    /\ task' = [task EXCEPT ![o].pc = "fail_load_ws"]
    /\ UNCHANGED <<cloud, callers, phase, queue, lost, faults>>

\* The same while the body awaits a COMMIT that has been sent: the transaction
\* lands although nothing is left of the body that asked for it.
DeadlineInCommit(o) ==
    /\ \/ task[o].pc = "save" /\ Saved(o, NextOperation(o), NextRuntime(o))
       \/ task[o].pc = "adopt" /\ Saved(o, task[o].op, task[o].rt)
    /\ BodyFails(o)
    /\ UNCHANGED <<cloud, callers, phase, queue, lost, faults>>

-----------------------------------------------------------------------------
(* The supervisor of a body that did not end well.                           *)

Abandon(o) == TaskEnds(o) /\ lost' = lost \cup {o}

\* mark_failed and operation.fail, one after the other.
CanFail(o) == task[o].rt.state \in Busy /\ task[o].op.state = "running"

\* The save of a failed operation, and its error.
FailureSaved(o) == CanFail(o) /\ Saved(o, Fail(task[o].op), MarkFailed(task[o].rt))

FailureRefused(o) ==
    /\ CanFail(o) => SaveRefused(o, Fail(task[o].op), MarkFailed(task[o].rt))
    /\ ~CanFail(o) => UNCHANGED <<store, faults>>

\* Mutated form of FailLoadOp: it does not ask whether the operation is running.
FailLoadOpUnasked(o) ==
    /\ task[o].pc = "fail_load_op"
    /\ \/ /\ task' = [task EXCEPT ![o].op = ops[o], ![o].pc = "fail_load_ws"]
          /\ UNCHANGED <<faults, lost>>
       \/ Fault /\ Abandon(o)
    /\ UNCHANGED <<store, cloud, callers, phase, queue>>

\* supervise loads the operation and is done if it is no longer running.
FailLoadOp(o) ==
    /\ task[o].pc = "fail_load_op"
    /\ \/ /\ Running(o)
          /\ task' = [task EXCEPT ![o].op = ops[o], ![o].pc = "fail_load_ws"]
          /\ UNCHANGED <<faults, lost>>
       \/ ~Running(o) /\ TaskEnds(o) /\ UNCHANGED <<faults, lost>>
       \/ Fault /\ Abandon(o)
    /\ UNCHANGED <<store, cloud, callers, phase, queue>>

FailLoadWs(o) ==
    /\ task[o].pc = "fail_load_ws"
    /\ \/ /\ task' = [task EXCEPT ![o].rt = anchor[task[o].op.ws], ![o].pc = "fail_save"]
          /\ UNCHANGED <<faults, lost>>
       \/ Fault /\ Abandon(o)
    /\ UNCHANGED <<store, cloud, callers, phase, queue>>

\* terminalize_supervised_operation: fail the runtime and the operation
\* together; whatever goes wrong leaves the operation running.
FailSave(o) ==
    /\ task[o].pc = "fail_save"
    /\ \/ FailureSaved(o) /\ TaskEnds(o) /\ UNCHANGED <<faults, lost>>
       \/ FailureRefused(o) /\ Abandon(o)
    /\ UNCHANGED <<cloud, callers, phase, queue>>

-----------------------------------------------------------------------------
(* Commands.                                                                 *)

CreateWorkspace(w) ==
    /\ phase = "serving"
    /\ workspaces[w] = "unborn"
    /\ workspaces' = [workspaces EXCEPT ![w] = "present"]
    /\ UNCHANGED <<anchor, ops, cloud, process, faults>>

\* Mutated form of DeleteWorkspace: the DELETE has no conditions.
DeleteWorkspaceAlways(w) ==
    /\ phase = "serving"
    /\ workspaces[w] = "present"
    /\ workspaces' = [workspaces EXCEPT ![w] = "deleted"]
    /\ UNCHANGED <<anchor, ops, cloud, process, faults>>

\* One DELETE that requires that no runtime and no running operation exist.
DeleteWorkspace(w) ==
    /\ phase = "serving"
    /\ workspaces[w] = "present"
    /\ anchor[w] = Detached
    /\ \A o \in OpId : ~(Running(o) /\ ops[o].ws = w)
    /\ workspaces' = [workspaces EXCEPT ![w] = "deleted"]
    /\ UNCHANGED <<anchor, ops, cloud, process, faults>>

\* start_provision reads a workspace and goes on only if it has no runtime.
ProvisionBegin(c, w) ==
    /\ phase = "serving"
    /\ callers[c] = NoCall
    /\ workspaces[w] = "present"
    /\ anchor[w] = Detached
    /\ callers' = [callers EXCEPT ![c] = [pc |-> "provision", ws |-> w, rt |-> Detached]]
    /\ UNCHANGED <<store, cloud, task, phase, queue, lost, faults>>

\* Mutated form of CleanupBegin: begin_cleanup accepts any runtime.
CleanupBeginAlways(c, w) ==
    /\ phase = "serving"
    /\ callers[c] = NoCall
    /\ workspaces[w] = "present"
    /\ callers' = [callers EXCEPT ![c] = [pc |-> "cleanup", ws |-> w,
                                          rt |-> BeginCleanup(anchor[w])]]
    /\ UNCHANGED <<store, cloud, task, phase, queue, lost, faults>>

\* start_cleanup reads a workspace; begin_cleanup tests and changes the copy.
CleanupBegin(c, w) ==
    /\ phase = "serving"
    /\ callers[c] = NoCall
    /\ workspaces[w] = "present"
    /\ anchor[w].state \in Settled
    /\ callers' = [callers EXCEPT ![c] = [pc |-> "cleanup", ws |-> w,
                                          rt |-> BeginCleanup(anchor[w])]]
    /\ UNCHANGED <<store, cloud, task, phase, queue, lost, faults>>

\* The admission of the call of c as operation o, which starts its body.
Admit(c, o, op, rt) ==
    /\ ops[o] = NoOperation
    /\ Saved(o, op, rt)
    /\ task' = [task EXCEPT ![o] = Entered(op, rt)]
    /\ callers' = [callers EXCEPT ![c] = NoCall]
    /\ UNCHANGED <<cloud, phase, queue, lost, faults>>

ProvisionAdmit(c, o) ==
    /\ callers[c].pc = "provision"
    /\ Admit(c, o, ProvisionOf(callers[c].ws), NewProvisioning(o))

CleanupAdmit(c, o) ==
    /\ callers[c].pc = "cleanup"
    /\ Timely => \A r \in late : r.gen # callers[c].rt.gen
    /\ Admit(c, o, CleanupOf(callers[c].ws), callers[c].rt)

\* The call returns an error: no credential, no catalog entry, a refused save.
CallerGivesUp(c) ==
    /\ callers[c] # NoCall
    /\ callers' = [callers EXCEPT ![c] = NoCall]
    /\ UNCHANGED <<store, cloud, task, phase, queue, lost, faults>>

-----------------------------------------------------------------------------
(* RunPod executes, or loses, a request whose client gave up.                *)

LateCreate(r) ==
    /\ late' = late \ {r}
    /\ remote' \in {remote, remote \cup {r}}
    /\ UNCHANGED <<store, process, faults>>

-----------------------------------------------------------------------------
(* The process.                                                              *)

\* The process ends: the user quits it while nothing is going on, or it dies.
Exit ==
    /\ phase # "down"
    /\ IF /\ \A o \in OpId : task[o] = Idle
          /\ \A c \in Caller : callers[c] = NoCall
       THEN UNCHANGED faults ELSE Fault
    /\ phase' = "down"
    /\ task' = [o \in OpId |-> Idle]
    /\ callers' = [c \in Caller |-> NoCall]
    /\ queue' = {}
    /\ lost' = {}
    /\ UNCHANGED <<store, cloud>>

\* bootstrap loads the running operations before any command is served.
Boot ==
    /\ phase = "down"
    /\ phase' = "recovering"
    /\ queue' = {o \in OpId : Running(o)}
    /\ UNCHANGED <<store, cloud, task, callers, lost, faults>>

\* recover_one looks for the resource of a create step that has no id, if the
\* ids the observation needs are known.
Looks(op, rt) ==
    /\ op.step \in CreateStep
    /\ rt # Detached
    /\ Target(op.step) \notin rt.known
    /\ ObservedThrough(Target(op.step)) \subseteq rt.known

\* Mutated form of RecoverLoad: the first operation that cannot be loaded ends
\* the recovery of all.
RecoverLoadOrStop(o) ==
    /\ phase = "recovering"
    /\ o \in queue
    /\ \A p \in OpId : task[p] = Idle
    /\ \/ /\ LET rt == anchor[ops[o].ws] IN
             task' = [task EXCEPT ![o] =
                        [pc  |-> IF Looks(ops[o], rt) THEN "recover_observe"
                                                      ELSE "recover_save",
                         op  |-> ops[o], rt |-> rt, ids |-> {}]]
          /\ UNCHANGED <<queue, lost, faults>>
       \/ Fault /\ queue' = {} /\ Abandon(o)
    /\ UNCHANGED <<store, cloud, callers, phase>>

\* recover_interrupted takes the next operation and loads its workspace, or
\* skips an operation it cannot load.
RecoverLoad(o) ==
    /\ phase = "recovering"
    /\ o \in queue
    /\ \A p \in OpId : task[p] = Idle
    /\ \/ /\ LET rt == anchor[ops[o].ws] IN
             task' = [task EXCEPT ![o] =
                        [pc  |-> IF Looks(ops[o], rt) THEN "recover_observe"
                                                      ELSE "recover_save",
                         op  |-> ops[o], rt |-> rt, ids |-> {}]]
          /\ UNCHANGED <<queue, lost, faults>>
       \/ /\ Fault
          /\ queue' = queue \ {o}
          /\ Abandon(o)
    /\ UNCHANGED <<store, cloud, callers, phase>>

\* The observation of a recovery adopts what it finds; a missing key and a
\* failed observation are ignored.
RecoverObserve(o) ==
    /\ task[o].pc = "recover_observe"
    /\ \E a \in Answer :
          \/ /\ Observed(a) = "listed"
             /\ \/ Observation(o) = "absent" /\ Goto(o, "recover_save")
                \/ /\ Observation(o) = "found"
                   /\ task' = [task EXCEPT ![o].rt = Knowing(@, KindOf(o)),
                                           ![o].pc = "recover_save"]
                \/ /\ Observation(o) = "ambiguous"
                   /\ task' = [task EXCEPT ![o].ids = Listed(o), ![o].pc = "recover_purge"]
             /\ UNCHANGED faults
          \/ Observed(a) # "listed" /\ Fault /\ Goto(o, "recover_save")
    /\ UNCHANGED <<store, cloud, callers, phase, queue, lost>>

RecoverPurge(o) ==
    /\ task[o].pc = "recover_purge"
    /\ \/ remote' = remote \ task[o].ids /\ UNCHANGED faults
       \/ Fault /\ \E D \in SUBSET task[o].ids : remote' = remote \ D
    /\ task' = [task EXCEPT ![o].ids = {}, ![o].pc = "recover_save"]
    /\ UNCHANGED <<store, late, callers, phase, queue, lost>>

RecoverSave(o) ==
    /\ task[o].pc = "recover_save"
    /\ queue' = queue \ {o}
    /\ \/ FailureSaved(o) /\ TaskEnds(o) /\ UNCHANGED <<faults, lost>>
       \/ FailureRefused(o) /\ Abandon(o)
    /\ UNCHANGED <<cloud, callers, phase>>

\* Mutated form of Serve: commands wait until no operation is running.
ServeWhenSettled ==
    /\ phase = "recovering"
    /\ \A o \in OpId : ~Running(o)
    /\ phase' = "serving"
    /\ UNCHANGED <<store, cloud, task, callers, queue, lost, faults>>

Serve ==
    /\ phase = "recovering"
    /\ queue = {}
    /\ phase' = "serving"
    /\ UNCHANGED <<store, cloud, task, callers, queue, lost, faults>>

-----------------------------------------------------------------------------
BodyStep(o) ==
    \/ Create(o) \/ Observe(o) \/ Purge(o) \/ Wait(o) \/ Delete(o)
    \/ Adopt(o) \/ Save(o) \/ Undo(o)

SupervisorStep(o) == FailLoadOp(o) \/ FailLoadWs(o) \/ FailSave(o)

RecoveryStep(o) ==
    RecoverLoad(o) \/ RecoverObserve(o) \/ RecoverPurge(o) \/ RecoverSave(o)

Command ==
    \/ \E w \in Workspace : CreateWorkspace(w) \/ DeleteWorkspace(w)
    \/ \E c \in Caller, w \in Workspace : ProvisionBegin(c, w) \/ CleanupBegin(c, w)
    \/ \E c \in Caller, o \in OpId : ProvisionAdmit(c, o) \/ CleanupAdmit(c, o)
    \/ \E c \in Caller : CallerGivesUp(c)

Next ==
    \/ \E o \in OpId : \/ BodyStep(o) \/ SupervisorStep(o) \/ RecoveryStep(o)
                       \/ Deadline(o) \/ DeadlineInCommit(o)
    \/ Command
    \/ \E r \in late : LateCreate(r)
    \/ Exit
    \/ Boot
    \/ Serve

Spec == Init /\ [][Next]_vars

-----------------------------------------------------------------------------
(* Safety.                                                                   *)

\* No interleaving of admissions, deadlines, failed saves and restarts leaves
\* two running operations on one workspace.
OneRunningPerWorkspace ==
    \A o, p \in OpId :
        Running(o) /\ Running(p) /\ ops[o].ws = ops[p].ws => o = p

\* A runtime is being provisioned or cleaned up exactly while an operation of
\* that kind is running on its workspace: neither is ever left without the
\* other, whoever commits last.
AnchorFollowsOperation ==
    \A w \in Workspace :
        LET On(kind) == \E o \in OpId : Running(o) /\ ops[o].ws = w /\ ops[o].kind = kind
        IN /\ anchor[w].state = "provisioning" <=> On("provision")
           /\ anchor[w].state = "cleaning_up" <=> On("cleanup")

\* A workspace that was deleted while a provision of it was being admitted
\* keeps neither a runtime nor a running operation.
DeletedIsBare ==
    \A w \in Workspace : workspaces[w] # "present" =>
        /\ anchor[w] = Detached
        /\ \A o \in OpId : Running(o) => ops[o].ws # w

\* Every pair of rows a live task is about to store is one the store accepts:
\* a body, a supervisor or a recovery is never overtaken by another writer, and
\* recovery never meets the CorruptData that would stop the start-up.
SavesAreAdmissible ==
    \A o \in OpId :
        /\ task[o].pc = "save" => Admissible(o, NextOperation(o), NextRuntime(o))
        /\ task[o].pc = "adopt" => Admissible(o, task[o].op, task[o].rt)
        /\ task[o].pc \in {"fail_save", "recover_save"} =>
              CanFail(o) /\ Admissible(o, Fail(task[o].op), MarkFailed(task[o].rt))

\* While commands are served, a running operation has a body or a supervisor,
\* unless the store failed when it was to be terminalised.
RunningIsAttended ==
    phase = "serving" =>
        \A o \in OpId : Running(o) => task[o].pc # "idle" \/ o \in lost

\* A resource that exists at RunPod, or may yet be created there, belongs to
\* the runtime attached to some workspace: nothing is left to be paid for that
\* no cleanup will find.
NoOrphan ==
    \A r \in remote \cup late :
        \E w \in Workspace : anchor[w].state # "none" /\ anchor[w].gen = r.gen

\* Whatever step failed, the durable record of a runtime suffices to find each
\* of its resources: the id is stored, or it is not and an observation can look
\* for it by name.
ResourcesAreLocatable ==
    \A r \in remote \cup late : \A w \in Workspace :
        anchor[w].gen = r.gen =>
            IF r.kind \in anchor[w].known THEN r.copy = Good
            ELSE ObservedThrough(r.kind) \subseteq anchor[w].known

\* A runtime is ready only when the volume, the template and the endpoint whose
\* ids it holds exist, and its provisioner pod is gone.
ReadyIsWhole ==
    \A w \in Workspace : anchor[w].state = "ready" =>
        LET Has(k) == [gen |-> anchor[w].gen, kind |-> k, copy |-> Good] \in remote
        IN /\ anchor[w].known = {"volume", "template", "endpoint"}
           /\ \A k \in anchor[w].known : Has(k)
           /\ ~Has("pod")

\* A finished operation never changes again, by a late body, a supervisor or a
\* recovery.
FinishedIsFinal ==
    [][\A o \in OpId : ops[o].state \in Finished => ops'[o] = ops[o]]_vars

\* The cleanup of a workspace is the cleanup of the runtime attached to it when
\* it is admitted.
CleansTheAttachedRuntime ==
    [][\A w \in Workspace :
          anchor'[w].state = "cleaning_up" => anchor'[w].gen = anchor[w].gen]_vars

-----------------------------------------------------------------------------
(* Liveness. Every call a body, a supervisor or a recovery awaits has a time *)
(* limit or is a local query, except the wait for the provisioner, which the *)
(* deadline of the operation bounds.                                         *)

Fairness ==
    /\ \A o \in OpId :
          /\ WF_vars(BodyStep(o) /\ task[o].pc # "wait")
          /\ WF_vars(Deadline(o))
          /\ WF_vars(SupervisorStep(o))
          /\ WF_vars(RecoveryStep(o))
    /\ WF_vars(Serve)

FairSpec == Spec /\ Fairness

\* An operation served or recovered by the process finishes, unless the process
\* ends or the store fails when the operation is to be terminalised.
OperationsFinish ==
    \A o \in OpId :
        Running(o) /\ phase # "down" ~> ~Running(o) \/ phase = "down" \/ o \in lost

\* Recovery ends, whatever operations it meets: commands are served then, or the
\* process has ended before.
RecoveryEnds == phase = "recovering" ~> phase # "recovering"

-----------------------------------------------------------------------------
(* The abstract lifecycle of a workspace, read off the three tables.         *)

Promise == INSTANCE WorkspaceLifecycle WITH
    status    <- [w \in Workspace |->
                    IF anchor[w].state # "none" THEN anchor[w].state
                    ELSE IF workspaces[w] = "present" THEN "idle" ELSE workspaces[w]],
    attached  <- [w \in Workspace |-> anchor[w].gen],
    operation <- [o \in OpId |-> [state |-> ops[o].state, ws |-> ops[o].ws,
                                  kind |-> ops[o].kind]]

\* With one command at a time, no failure, deadline or restart takes a workspace
\* off the diagram of WorkspaceLifecycle: its status and the outcome of its
\* operation always change together.
KeepsThePromise == Promise!Spec
=============================================================================
