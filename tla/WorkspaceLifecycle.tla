------------------------- MODULE WorkspaceLifecycle --------------------------
(* What the runtime services promise about a workspace, whatever happens to  *)
(* RunPod, the store or the process: its status moves along the diagram      *)
(*                                                                           *)
(*   unborn -> idle -> provisioning -> ready | failed -> cleaning_up -> idle *)
(*                                                   cleaning_up -> failed   *)
(*                                                                           *)
(* every such move is the start or the end of one operation, recorded in the *)
(* same step, and a cleanup ends what the attached provision started.        *)
CONSTANTS Workspace, OpId, NoWorkspace, NoGen

VARIABLES
    status,    \* of each workspace
    attached,  \* the provision operation whose runtime it has
    operation  \* what was recorded of each operation

vars == <<status, attached, operation>>

None == [state |-> "none", ws |-> NoWorkspace, kind |-> "none"]

Init ==
    /\ status = [w \in Workspace |-> "unborn"]
    /\ attached = [w \in Workspace |-> NoGen]
    /\ operation = [o \in OpId |-> None]

Create(w) ==
    /\ status[w] = "unborn"
    /\ status' = [status EXCEPT ![w] = "idle"]
    /\ UNCHANGED <<attached, operation>>

Delete(w) ==
    /\ status[w] = "idle"
    /\ status' = [status EXCEPT ![w] = "deleted"]
    /\ UNCHANGED <<attached, operation>>

Start(w, o, kind) ==
    /\ operation[o] = None
    /\ operation' = [operation EXCEPT ![o] = [state |-> "running", ws |-> w, kind |-> kind]]

Provision(w, o) ==
    /\ status[w] = "idle"
    /\ status' = [status EXCEPT ![w] = "provisioning"]
    /\ attached' = [attached EXCEPT ![w] = o]
    /\ Start(w, o, "provision")

Cleanup(w, o) ==
    /\ status[w] \in {"ready", "failed"}
    /\ status' = [status EXCEPT ![w] = "cleaning_up"]
    /\ Start(w, o, "cleanup")
    /\ UNCHANGED attached

End(o, kind, state) ==
    /\ operation[o].state = "running"
    /\ operation[o].kind = kind
    /\ operation' = [operation EXCEPT ![o].state = state]

Provisioned(o) ==
    /\ End(o, "provision", "succeeded")
    /\ status' = [status EXCEPT ![operation[o].ws] = "ready"]
    /\ UNCHANGED attached

Cleaned(o) ==
    /\ End(o, "cleanup", "succeeded")
    /\ status' = [status EXCEPT ![operation[o].ws] = "idle"]
    /\ attached' = [attached EXCEPT ![operation[o].ws] = NoGen]

Failed(o) ==
    /\ \E kind \in {"provision", "cleanup"} : End(o, kind, "failed")
    /\ status' = [status EXCEPT ![operation[o].ws] = "failed"]
    /\ UNCHANGED attached

Next ==
    \/ \E w \in Workspace : Create(w) \/ Delete(w)
    \/ \E w \in Workspace, o \in OpId : Provision(w, o) \/ Cleanup(w, o)
    \/ \E o \in OpId : Provisioned(o) \/ Cleaned(o) \/ Failed(o)

Spec == Init /\ [][Next]_vars
=============================================================================
