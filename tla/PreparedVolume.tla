--------------------------- MODULE PreparedVolume ----------------------------
(* What a provision is promised while it waits for its provisioner: one      *)
(* answer, which is "ok" only when every model file is on the volume with    *)
(* its whole content, and files that are whole stay so.                      *)
EXTENDS Naturals

CONSTANTS File, Whole

VARIABLES volume, answer

TypeOK ==
    /\ DOMAIN volume = File
    /\ answer \in {"pending", "ok", "error"}

Init ==
    /\ DOMAIN volume = File
    /\ answer = "pending"

\* Files change, those that are whole excepted, for as long as the pod lives.
Prepare ==
    /\ DOMAIN volume' = File
    /\ \A f \in File : volume[f] = Whole => volume'[f] = Whole
    /\ UNCHANGED answer

Succeed ==
    /\ answer = "pending"
    /\ \A f \in File : volume[f] = Whole
    /\ answer' = "ok"
    /\ UNCHANGED volume

GiveUp ==
    /\ answer = "pending"
    /\ answer' = "error"
    /\ UNCHANGED volume

Next == Prepare \/ Succeed \/ GiveUp

Spec == Init /\ [][Next]_<<volume, answer>>
=============================================================================
