-------------------------- MODULE TransitionEvents ---------------------------
(* RuntimeTransitionContext::save as its parts: take the coordinator, commit,*)
(* emit two events, release. Commands, bodies and supervisors of the         *)
(* operations of one workspace save through it; the workspace service emits  *)
(* the events of a creation and of a deletion without it. A listener keeps   *)
(* the last event it heard about the workspace and about each operation.     *)
(*                                                                           *)
(* Emitting does not await, so an abort takes effect while a save waits for  *)
(* the coordinator or for its COMMIT, and not between the two events.        *)
EXTENDS Naturals

CONSTANTS
    OpId,
    Nobody,        \* holds the free coordinator
    LastProgress   \* bound: progress transitions of an operation

ASSUME NobodyAssumption == Nobody \notin OpId
ASSUME LastProgressAssumption == LastProgress \in Nat

VARIABLES
    workspace,     \* its row: unborn, present or deleted
    runtime,       \* the state of its runtime row
    ops,           \* rows of its operations
    commits,       \* runtime transitions committed so far
    coordinator,   \* the save that holds the mutex
    writer,        \* of each operation: the command, body or supervisor
    announcing,    \* events the workspace service has yet to emit
    heardWorkspace, heardDeleted, heardOp,
    missed         \* operations whose last commit nobody will announce

rows == <<workspace, runtime, ops, commits>>
heard == <<heardWorkspace, heardDeleted, heardOp>>
vars == <<rows, coordinator, writer, announcing, heard, missed>>

Operation == [state    : {"none", "running", "succeeded", "failed"},
              kind     : {"none", "provision", "cleanup"},
              progress : 0 .. LastProgress]

Unknown == [state |-> "none", kind |-> "none", progress |-> 0]

Writer == [who : {"nobody", "command", "body", "supervisor"},
           pc  : {"idle", "lock", "commit", "emit_workspace", "emit_operation", "work", "load"},
           op  : Operation,   \* its copy, which it is about to save
           at  : Nat]         \* the commit it is about to announce

Inactive == [who |-> "nobody", pc |-> "idle", op |-> Unknown, at |-> 0]

RuntimeState == {"none", "provisioning", "ready", "cleaning_up", "failed"}

TypeOK ==
    /\ workspace \in {"unborn", "present", "deleted"}
    /\ runtime \in RuntimeState
    /\ ops \in [OpId -> Operation]
    /\ commits \in Nat
    /\ coordinator \in OpId \cup {Nobody}
    /\ writer \in [OpId -> Writer]
    /\ announcing \in SUBSET {"created", "deleted"}
    /\ heardWorkspace \in [runtime : RuntimeState, at : Nat]
    /\ heardDeleted \in BOOLEAN
    /\ heardOp \in [OpId -> Operation]
    /\ missed \in SUBSET OpId

Init ==
    /\ workspace = "unborn"
    /\ runtime = "none"
    /\ ops = [o \in OpId |-> Unknown]
    /\ commits = 0
    /\ coordinator = Nobody
    /\ writer = [o \in OpId |-> Inactive]
    /\ announcing = {}
    /\ heardWorkspace = [runtime |-> "none", at |-> 0]
    /\ heardDeleted = FALSE
    /\ heardOp = [o \in OpId |-> Unknown]
    /\ missed = {}

-----------------------------------------------------------------------------
(* The workspace service.                                                    *)

CreateWorkspace ==
    /\ workspace = "unborn"
    /\ workspace' = "present"
    /\ announcing' = announcing \cup {"created"}
    /\ UNCHANGED <<runtime, ops, commits, coordinator, writer, heard, missed>>

AnnounceCreated ==
    /\ "created" \in announcing
    /\ announcing' = announcing \ {"created"}
    /\ heardWorkspace' = [runtime |-> "none", at |-> 0]
    /\ UNCHANGED <<rows, coordinator, writer, heardDeleted, heardOp, missed>>

\* Mutated form of DeleteWorkspace: a settled runtime does not prevent it.
DeleteSettled ==
    /\ workspace = "present"
    /\ \A o \in OpId : ops[o].state # "running"
    /\ workspace' = "deleted"
    /\ announcing' = announcing \cup {"deleted"}
    /\ UNCHANGED <<runtime, ops, commits, coordinator, writer, heard, missed>>

DeleteWorkspace ==
    /\ workspace = "present"
    /\ runtime = "none"
    /\ \A o \in OpId : ops[o].state # "running"
    /\ workspace' = "deleted"
    /\ announcing' = announcing \cup {"deleted"}
    /\ UNCHANGED <<runtime, ops, commits, coordinator, writer, heard, missed>>

AnnounceDeleted ==
    /\ "deleted" \in announcing
    /\ announcing' = announcing \ {"deleted"}
    /\ heardDeleted' = TRUE
    /\ UNCHANGED <<rows, coordinator, writer, heardWorkspace, heardOp, missed>>

-----------------------------------------------------------------------------
(* RuntimeTransitionContext::save.                                           *)

\* The state of the runtime that is stored with an operation.
RuntimeWith(op) ==
    CASE op.state = "failed"                             -> "failed"
      [] op.state = "running" /\ op.kind = "provision"   -> "provisioning"
      [] op.state = "running" /\ op.kind = "cleanup"     -> "cleaning_up"
      [] op.state = "succeeded" /\ op.kind = "provision" -> "ready"
      [] OTHER                                           -> "none"

\* save_transition admits a new operation by the state of the runtime row; a
\* running operation is alone on it.
Accepted(o) ==
    ops[o] = Unknown =>
        /\ workspace = "present"
        /\ IF writer[o].op.kind = "provision" THEN runtime = "none"
                                              ELSE runtime \in {"ready", "failed"}

Written(o) ==
    /\ Accepted(o)
    /\ ops' = [ops EXCEPT ![o] = writer[o].op]
    /\ runtime' = RuntimeWith(writer[o].op)
    /\ commits' = commits + 1
    /\ UNCHANGED workspace

\* Mutated form of Lock: nobody waits for the coordinator.
LockAtOnce(o) ==
    /\ writer[o].pc = "lock"
    /\ coordinator' = o
    /\ writer' = [writer EXCEPT ![o].pc = "commit"]
    /\ UNCHANGED <<rows, announcing, heard, missed>>

Lock(o) ==
    /\ writer[o].pc = "lock"
    /\ coordinator = Nobody
    /\ coordinator' = o
    /\ writer' = [writer EXCEPT ![o].pc = "commit"]
    /\ UNCHANGED <<rows, announcing, heard, missed>>

Commit(o) ==
    /\ writer[o].pc = "commit"
    /\ Written(o)
    /\ writer' = [writer EXCEPT ![o].pc = "emit_workspace", ![o].at = commits + 1]
    /\ UNCHANGED <<coordinator, announcing, heard, missed>>

\* The supervisor of a body takes the operation, whatever the body held.
Supervised(o) ==
    /\ writer' = [writer EXCEPT ![o] = [Inactive EXCEPT !.who = "supervisor", !.pc = "load"]]
    /\ coordinator' = IF coordinator = o THEN Nobody ELSE coordinator

\* Mutated form of Refused: the error does not leave save.
RefusedUnnoticed(o) ==
    /\ writer[o].pc = "commit"
    /\ writer' = [writer EXCEPT ![o].pc = "emit_workspace"]
    /\ UNCHANGED <<rows, coordinator, announcing, heard, missed>>

\* The save returns an error: the command returns it, a body ends with it, and
\* a supervisor's is dropped.
Refused(o) ==
    /\ writer[o].pc = "commit"
    /\ IF writer[o].who = "body"
       THEN Supervised(o)
       ELSE writer' = [writer EXCEPT ![o] = Inactive] /\ coordinator' = Nobody
    /\ UNCHANGED <<rows, announcing, heard, missed>>

EmitWorkspace(o) ==
    /\ writer[o].pc = "emit_workspace"
    /\ heardWorkspace' = [runtime |-> RuntimeWith(writer[o].op), at |-> writer[o].at]
    /\ writer' = [writer EXCEPT ![o].pc = "emit_operation"]
    /\ UNCHANGED <<rows, coordinator, announcing, heardDeleted, heardOp, missed>>

\* The second event, the end of save, and what its caller does next: a command
\* spawns the body, a body works on the next step, and who has finished the
\* operation is done.
EmitOperation(o) ==
    /\ writer[o].pc = "emit_operation"
    /\ heardOp' = [heardOp EXCEPT ![o] = writer[o].op]
    /\ missed' = missed \ {o}
    /\ coordinator' = Nobody
    /\ writer' = [writer EXCEPT ![o] =
                    IF writer[o].op.state = "running"
                    THEN [writer[o] EXCEPT !.who = "body", !.pc = "work"]
                    ELSE Inactive]
    /\ UNCHANGED <<rows, announcing, heardWorkspace, heardDeleted>>

-----------------------------------------------------------------------------
(* Those who save.                                                           *)

Saves(o, who, op) ==
    writer' = [writer EXCEPT ![o] = [who |-> who, pc |-> "lock", op |-> op, at |-> 0]]

\* A command has read a workspace that allows the operation.
Request(o, kind) ==
    /\ writer[o] = Inactive
    /\ ops[o] = Unknown
    /\ workspace = "present"
    /\ IF kind = "provision" THEN runtime = "none" ELSE runtime \in {"ready", "failed"}
    /\ Saves(o, "command", [state |-> "running", kind |-> kind, progress |-> 0])
    /\ UNCHANGED <<rows, coordinator, announcing, heard, missed>>

\* Mutated form of Proceed: one step too many.
ProceedPast(o) ==
    /\ writer[o].pc = "work"
    /\ Saves(o, "body", [writer[o].op EXCEPT !.progress = @ + 1])
    /\ UNCHANGED <<rows, coordinator, announcing, heard, missed>>

\* A body has done the work of its step and saves its progress or its success.
Proceed(o) ==
    /\ writer[o].pc = "work"
    /\ Saves(o, "body", IF writer[o].op.progress < LastProgress
                        THEN [writer[o].op EXCEPT !.progress = @ + 1]
                        ELSE [writer[o].op EXCEPT !.state = "succeeded"])
    /\ UNCHANGED <<rows, coordinator, announcing, heard, missed>>

\* Mutated forms of Deadline: as if emitting were awaited, and as if the abort
\* did not release the coordinator.
DeadlineBetweenEvents(o) ==
    /\ writer[o].who = "body"
    /\ Supervised(o)
    /\ UNCHANGED <<rows, announcing, heard, missed>>

DeadlineHolding(o) ==
    /\ writer[o].who = "body"
    /\ writer[o].pc \in {"work", "lock", "commit"}
    /\ writer' = [writer EXCEPT ![o] = [Inactive EXCEPT !.who = "supervisor", !.pc = "load"]]
    /\ UNCHANGED <<rows, coordinator, announcing, heard, missed>>

\* The body fails, or its deadline passes and it is aborted where it awaits.
Deadline(o) ==
    /\ writer[o].who = "body"
    /\ writer[o].pc \in {"work", "lock", "commit"}
    /\ Supervised(o)
    /\ UNCHANGED <<rows, announcing, heard, missed>>

\* The body is aborted at the await of a COMMIT that lands all the same.
DeadlineInCommit(o) ==
    /\ writer[o].who = "body"
    /\ writer[o].pc = "commit"
    /\ Written(o)
    /\ Supervised(o)
    /\ missed' = missed \cup {o}
    /\ UNCHANGED <<announcing, heard>>

\* supervise: fail the operation if it is running, unless it cannot be loaded.
Supervise(o) ==
    /\ writer[o].pc = "load"
    /\ \/ /\ ops[o].state = "running"
          /\ Saves(o, "supervisor", [ops[o] EXCEPT !.state = "failed"])
       \/ writer' = [writer EXCEPT ![o] = Inactive]
    /\ UNCHANGED <<rows, coordinator, announcing, heard, missed>>

-----------------------------------------------------------------------------
SaveStep(o) == Commit(o) \/ Refused(o) \/ EmitWorkspace(o) \/ EmitOperation(o)

Next ==
    \/ CreateWorkspace \/ AnnounceCreated \/ DeleteWorkspace \/ AnnounceDeleted
    \/ \E o \in OpId :
          \/ Lock(o) \/ SaveStep(o)
          \/ \E kind \in {"provision", "cleanup"} : Request(o, kind)
          \/ Proceed(o) \/ Deadline(o) \/ DeadlineInCommit(o) \/ Supervise(o)

Spec == Init /\ [][Next]_vars

-----------------------------------------------------------------------------
(* Properties.                                                               *)

\* How far an operation has come.
Rank(op) ==
    CASE op.state = "none"    -> 0
      [] op.state = "running" -> 1 + op.progress
      [] OTHER                -> 2 + LastProgress

\* Nobody hears of a transition that is not durable.
HeardIsCommitted ==
    /\ \A o \in OpId : Rank(heardOp[o]) <= Rank(ops[o])
    /\ heardWorkspace.at <= commits

\* Outside of a save, what a listener heard last of an operation is its row, and
\* what it heard last of a runtime is the last transition, except after an abort
\* in a COMMIT, and except that the event of the creation may come last.
ListenersAreCurrent ==
    /\ \A o \in OpId :
          \/ writer[o].pc \in {"emit_workspace", "emit_operation"}
          \/ o \in missed
          \/ heardOp[o] = ops[o]
    /\ \/ \E o \in OpId : writer[o].pc = "emit_workspace"
       \/ missed # {}
       \/ heardWorkspace.at \in {commits, 0}

\* Events of several operations never overtake each other: a listener does not
\* go back to an earlier transition of a runtime or of an operation. Only the
\* event of the creation, which is emitted outside the coordinator, may be late.
HeardInOrder ==
    [][/\ heardWorkspace'.at >= heardWorkspace.at \/ heardWorkspace'.at = 0
       /\ \A o \in OpId : Rank(heardOp'[o]) >= Rank(heardOp[o])]_vars

\* A workspace a listener was told is deleted may be announced again, since a
\* deletion does not wait for the coordinator, but never with a runtime.
RevivedOnlyBare ==
    [][heardDeleted /\ heardWorkspace' # heardWorkspace => heardWorkspace'.runtime = "none"]_vars

\* The end of an operation is announced, at the latest by its supervisor.
EndIsAnnounced ==
    \A o \in OpId :
        writer[o] = Inactive /\ ops[o].state \in {"succeeded", "failed"} => heardOp[o] = ops[o]

\* The coordinator is fair (tokio's Mutex is a queue), the database answers, and
\* emitting is a call.
FairSpec ==
    /\ Spec
    /\ \A o \in OpId : SF_vars(Lock(o)) /\ WF_vars(SaveStep(o))

\* No save waits for ever: whoever is aborted, refused or stopped, the
\* coordinator is released.
SavesEnd == \A o \in OpId : writer[o].pc = "lock" ~> writer[o].pc # "lock"
=============================================================================
