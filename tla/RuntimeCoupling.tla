--------------------------- MODULE RuntimeCoupling ---------------------------
(* The inductive invariant behind the safety properties of RuntimeLifecycle: *)
(* the three tables agree with each other, every task's copies agree with    *)
(* the tables, and recovery and the supervisors leave nothing out.           *)
EXTENDS RuntimeLifecycle

-----------------------------------------------------------------------------
(* What the requests come to: the Answers matter by what is made of them.    *)

\* The body knows the id of what it created; or it looks for whatever exists
\* now or will; or it fails and nothing was created.
CreateEffect(o) ==
    /\ task[o].pc = "create"
    /\ \/ /\ remote' = remote \cup {Wanted(o)}
          /\ Learns(o)
          /\ UNCHANGED <<late, faults>>
       \/ /\ Fault
          /\ \/ \E C \in SUBSET Copy :
                   remote' = remote \cup Named(Gen(o), KindOf(o), C) /\ UNCHANGED late
             \/ \E c \in Copy :
                   late' = late \cup Named(Gen(o), KindOf(o), {c}) /\ UNCHANGED remote
          /\ Goto(o, "observe")
       \/ /\ Fault
          /\ BodyFails(o)
          /\ UNCHANGED cloud
    /\ UNCHANGED <<store, callers, phase, queue, lost>>

ObserveEffect(o) ==
    /\ task[o].pc = "observe"
    /\ \/ /\ Listed(o) = {}
          /\ IF task[o].op.kind = "cleanup" THEN Goto(o, "save") ELSE BodyFails(o)
          /\ UNCHANGED faults
       \/ /\ Listed(o) = {Wanted(o)}
          /\ task' = [task EXCEPT ![o].rt = Knowing(@, KindOf(o)),
                                  ![o].pc = IF task[o].op.kind = "cleanup"
                                            THEN "adopt" ELSE "save"]
          /\ UNCHANGED faults
       \/ /\ Listed(o) \notin {{}, {Wanted(o)}}
          /\ task' = [task EXCEPT ![o].ids = Listed(o), ![o].pc = "purge"]
          /\ UNCHANGED faults
       \/ Fault /\ BodyFails(o)
    /\ UNCHANGED <<store, cloud, callers, phase, queue, lost>>

RecoverObserveEffect(o) ==
    /\ task[o].pc = "recover_observe"
    /\ \/ Listed(o) = {} /\ Goto(o, "recover_save") /\ UNCHANGED faults
       \/ /\ Listed(o) = {Wanted(o)}
          /\ task' = [task EXCEPT ![o].rt = Knowing(@, KindOf(o)),
                                  ![o].pc = "recover_save"]
          /\ UNCHANGED faults
       \/ /\ Listed(o) \notin {{}, {Wanted(o)}}
          /\ task' = [task EXCEPT ![o].ids = Listed(o), ![o].pc = "recover_purge"]
          /\ UNCHANGED faults
       \/ Fault /\ Goto(o, "recover_save")
    /\ UNCHANGED <<store, cloud, callers, phase, queue, lost>>

\* What the body forgets is gone, and it forgets nothing else.
DeleteEffect(o) ==
    /\ task[o].pc = "delete"
    /\ \/ /\ remote' = remote \ {Wanted(o)}
          /\ task' = [task EXCEPT ![o].rt = Forgetting(@, KindOf(o)), ![o].pc = "save"]
          /\ UNCHANGED faults
       \/ /\ Fault
          /\ remote' \in {remote, remote \ {Wanted(o)}}
          /\ BodyFails(o)
    /\ UNCHANGED <<store, late, callers, phase, queue, lost>>

UndoEffect(o) ==
    /\ task[o].pc = "undo"
    /\ \/ remote' = remote \ {Wanted(o)} /\ UNCHANGED faults
       \/ Fault /\ remote' \in {remote, remote \ {Wanted(o)}}
    /\ BodyFails(o)
    /\ UNCHANGED <<store, late, callers, phase, queue, lost>>

-----------------------------------------------------------------------------
(* The tables.                                                               *)

BusyState(kind) == IF kind = "provision" THEN "provisioning" ELSE "cleaning_up"

StepOfKind(op) ==
    /\ op.kind = "provision" => op.step \in ProvisionStep
    /\ op.kind = "cleanup" => op.step \in CleanupStep

RunningIsAnchored ==
    \A o \in OpId : Running(o) =>
        /\ workspaces[ops[o].ws] = "present"
        /\ anchor[ops[o].ws].state = BusyState(ops[o].kind)
        /\ StepOfKind(ops[o])

BusyIsRunning ==
    \A w \in Workspace :
        anchor[w].state \in Busy => \E o \in OpId : Running(o) /\ ops[o].ws = w

AttachedIsPresent ==
    \A w \in Workspace : anchor[w].state # "none" => workspaces[w] = "present"

StoreCoupled ==
    /\ OneRunningPerWorkspace
    /\ RunningIsAnchored
    /\ BusyIsRunning
    /\ AttachedIsPresent

-----------------------------------------------------------------------------
(* The copies of a task.                                                     *)

\* Where the state and the provision operation of rt are those of the anchor.
HoldsAnchor == BodyPc \cup RecoveryPc \cup {"fail_save"}

TaskCoupled(o) ==
    /\ task[o].pc \in HoldsRow => Running(o) /\ task[o].op = ops[o]
    /\ task[o].pc \in HoldsAnchor =>
          /\ task[o].rt.state = anchor[task[o].op.ws].state
          /\ task[o].rt.gen = anchor[task[o].op.ws].gen

TasksCoupled == \A o \in OpId : TaskCoupled(o)

-----------------------------------------------------------------------------
(* The process.                                                              *)

DownIsIdle == phase = "down" => \A o \in OpId : task[o].pc = "idle"

CommandsAreServed == phase # "serving" => \A c \in Caller : callers[c] = NoCall

QueuedIsRunning ==
    \A o \in queue : Running(o) /\ task[o].pc \in {"idle"} \cup RecoveryPc

Attended ==
    phase # "down" =>
        \A o \in OpId : Running(o) =>
            \/ task[o].pc # "idle"
            \/ o \in lost
            \/ phase = "recovering" /\ o \in queue

ProcessCoupled == DownIsIdle /\ CommandsAreServed /\ QueuedIsRunning /\ Attended

\* No actor is overtaken: whatever a body, a supervisor or a recovery has read
\* is still what the tables say when it writes, whatever the others did in the
\* meantime, and every running operation has somebody to finish it.
Coupled == StoreCoupled /\ TasksCoupled /\ ProcessCoupled
=============================================================================
