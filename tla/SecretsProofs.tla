---------------------------- MODULE SecretsProofs ----------------------------
(* Proofs about Secrets: types, and that a cleanup reaches the account of    *)
(* its provision.                                                            *)
EXTENDS Secrets, TLAPS

Busy == {"provisioning", "cleaning"}

(* Only accepted keys are written, after a look that found none, and only    *)
(* accepted keys are read.                                                   *)
Handled(c) ==
    /\ At(c, "write") => call[c].seen = None
    /\ call[c].pc \in {"insert", "write"} \cup Admitting => call[c].secret \in Valid

(* The key is used: whatever holds a key holds the one in the keyring, and   *)
(* all resources are in its account.                                         *)
OneKey ==
    /\ InUse => entry # None
    /\ \A c \in Call : call[c].pc \in Admitting => call[c].secret = entry
    /\ runtime \in Busy => held = entry
    /\ remote \subseteq {AccountOf[entry]}
    /\ runtime = "absent" => remote = {}

IInv ==
    /\ TypeOK
    /\ \A c \in Call : Handled(c)
    /\ runtime \in Busy => held \in Valid
    /\ ~ disturbed => OneKey

-----------------------------------------------------------------------------
LEMMA InitialInvariant == Init => IInv
<1> SUFFICES ASSUME Init PROVE IInv
  OBVIOUS
<1>1. Idle \in CallState
  BY DEF Idle, CallState
<1>2. TypeOK
  BY <1>1 DEF Init, TypeOK
<1>3. QED
  BY <1>2 DEF Init, IInv, Handled, OneKey, InUse, At, Idle, Busy, Admitting

(* A command that goes on to another point, returns, or starts.              *)
LEMMA CallMoves ==
    ASSUME IInv, NEW c \in Call, NEW r \in CallState,
           call' = [call EXCEPT ![c] = r],
           r.pc = "write" => r.seen = None,
           r.pc \in {"insert", "write"} \cup Admitting => r.secret \in Valid
    PROVE  call' \in [Call -> CallState] /\ \A d \in Call : Handled(d)'
<1>1. call' \in [Call -> CallState]
  BY DEF IInv, TypeOK
<1>2. \A d \in Call : call'[d] = IF d = c THEN r ELSE call[d]
  BY DEF IInv, TypeOK
<1>3. QED
  BY <1>1, <1>2 DEF IInv, Handled, At

LEMMA AdmittingCalls ==
    ASSUME IInv, NEW c \in Call, NEW r \in CallState,
           call' = [call EXCEPT ![c] = r], r.pc \notin Admitting
    PROVE  \A d \in Call : call'[d].pc \in Admitting => call[d].pc \in Admitting /\ call'[d] = call[d]
BY DEF IInv, TypeOK

(* The commands of the secrets service.                                      *)
LEMMA CommandsKeep ==
    ASSUME IInv, NEW c \in Call, NEW r \in CallState,
           call' = [call EXCEPT ![c] = r], r.pc \notin Admitting,
           r.pc = "write" => r.seen = None,
           r.pc = "insert" \/ r.pc = "write" => r.secret \in Valid,
           UNCHANGED <<entry, disturbed, runtime, held, remote>>
    PROVE  IInv'
<1>1. call' \in [Call -> CallState] /\ \A d \in Call : Handled(d)'
  BY CallMoves
<1>2. \A d \in Call : call'[d].pc \in Admitting => call[d].pc \in Admitting /\ call'[d] = call[d]
  BY AdmittingCalls
<1>3. InUse' => InUse
  BY <1>2 DEF InUse
<1>4. OneKey => OneKey'
  BY <1>2, <1>3 DEF OneKey
<1>5. QED
  BY <1>1, <1>4 DEF IInv, TypeOK

LEMMA ReturnKeeps ==
    ASSUME IInv, NEW c \in Call, Return(c),
           UNCHANGED <<entry, disturbed, runtime, held, remote>>
    PROVE  IInv'
<1>1. Idle \in CallState /\ Idle.pc = "idle"
  BY DEF Idle, CallState
<1>2. call' = [call EXCEPT ![c] = Idle]
  BY DEF Return
<1>3. QED
  BY <1>1, <1>2, CommandsKeep DEF Admitting

\* The states a command moves on to.
LEMMA CallStates ==
    ASSUME IInv, NEW c \in Call
    PROVE  /\ \A pc \in {"validate", "insert", "remove"} : [call[c] EXCEPT !.pc = pc] \in CallState
           /\ [call[c] EXCEPT !.pc = "write", !.seen = None] \in CallState
           /\ \A pc \in {"exists", "find"} \cup Reading \cup Admitting, s \in Secret \cup {None} :
                 [Idle EXCEPT !.pc = pc, !.secret = s] \in CallState
<1>1. call[c] \in CallState
  BY DEF IInv, TypeOK
<1>2. QED
  BY <1>1 DEF CallState, Setting, Deleting, Reading, Admitting, Idle

LEMMA GoingOnKeeps ==
    ASSUME IInv, NEW c \in Call, NEW pc \in {"validate", "insert", "remove"}, Goto(c, pc),
           pc = "insert" => call[c].secret \in Valid,
           UNCHANGED <<entry, disturbed, runtime, held, remote>>
    PROVE  IInv'
<1> DEFINE r == [call[c] EXCEPT !.pc = pc]
<1>1. r \in CallState
  BY CallStates
<1>2. call[c] \in CallState
  BY DEF IInv, TypeOK
<1>3. r.pc = pc /\ r.secret = call[c].secret
  BY <1>2 DEF CallState
<1>4. call' = [call EXCEPT ![c] = r]
  BY <1>2 DEF Goto, IInv, TypeOK, CallState
<1> HIDE DEF r
<1>5. QED
  BY <1>1, <1>3, <1>4, CommandsKeep DEF Admitting

LEMMA BeginKeeps ==
    ASSUME IInv, NEW c \in Call, NEW pc \in {"exists", "find"} \cup Reading, NEW s \in Secret \cup {None},
           Begin(c, pc, s), UNCHANGED <<entry, disturbed, runtime, held, remote>>
    PROVE  IInv'
<1> DEFINE r == [Idle EXCEPT !.pc = pc, !.secret = s]
<1>1. r \in CallState
  BY CallStates
<1>2. r.pc = pc
  BY DEF Idle
<1>3. call' = [call EXCEPT ![c] = r]
  BY DEF Begin
<1> HIDE DEF r
<1>4. QED
  BY <1>1, <1>2, <1>3, CommandsKeep DEF Reading, Admitting

LEMMA InsertKeeps ==
    ASSUME IInv, NEW c \in Call, Insert(c)
    PROVE  IInv'
<1> USE DEF keyring, lifecycle
<1>1. CASE Return(c)
  BY <1>1, ReturnKeeps DEF Insert
<1>2. CASE entry = None /\ call' = [call EXCEPT ![c].pc = "write", ![c].seen = entry]
  <2> DEFINE r == [call[c] EXCEPT !.pc = "write", !.seen = None]
  <2>1. r \in CallState
    BY CallStates
  <2>2. call[c] \in CallState /\ call[c].secret \in Valid
    BY DEF IInv, TypeOK, Insert, Handled, At
  <2>3. r.pc = "write" /\ r.seen = None /\ r.secret \in Valid
    BY <2>2 DEF CallState
  <2>4. call' = [call EXCEPT ![c] = r]
    BY <1>2, <2>2 DEF IInv, TypeOK, CallState
  <2> HIDE DEF r
  <2>5. QED
    BY <2>1, <2>3, <2>4, CommandsKeep DEF Insert, Admitting
<1>3. QED
  BY <1>1, <1>2 DEF Insert

(* A key is written: where none was, nothing uses one yet; where one was, it *)
(* is a race.                                                                *)
LEMMA WriteKeeps ==
    ASSUME IInv, NEW c \in Call, Write(c)
    PROVE  IInv'
<1> USE DEF keyring, lifecycle
<1> DEFINE r == Idle
<1>1. r \in CallState /\ r.pc = "idle"
  BY DEF Idle, CallState
<1>2. call' = [call EXCEPT ![c] = r]
  BY DEF Write, Return
<1> HIDE DEF r
<1>3. call' \in [Call -> CallState] /\ \A d \in Call : Handled(d)'
  BY <1>1, <1>2, CallMoves DEF Admitting
<1>4. \A d \in Call : call'[d].pc \in Admitting => call[d].pc \in Admitting /\ call'[d] = call[d]
  BY <1>1, <1>2, AdmittingCalls DEF Admitting
<1>5. /\ entry' = call[c].secret /\ call[c].secret \in Valid /\ call[c].seen = None
      /\ disturbed' = (disturbed \/ entry # None)
      /\ UNCHANGED <<runtime, held, remote>>
  BY DEF Write, IInv, Handled, At
<1>6. ASSUME ~ disturbed'
      PROVE  OneKey'
  <2>1. ~ disturbed /\ entry = None
    BY <1>5, <1>6
  <2>2. ~ InUse
    BY <2>1 DEF IInv, OneKey
  <2>3. runtime = "absent" /\ remote = {} /\ \A d \in Call : call[d].pc \notin Admitting
    BY <2>2 DEF InUse
  <2> QED
    BY <1>4, <1>5, <2>3 DEF OneKey, InUse, Busy
<1>7. disturbed' \in BOOLEAN /\ entry' \in Valid \cup {None}
  BY <1>5 DEF IInv, TypeOK
<1>8. QED
  BY <1>3, <1>5, <1>6, <1>7 DEF IInv, TypeOK

LEMMA RemoveKeeps ==
    ASSUME IInv, NEW c \in Call, Remove(c)
    PROVE  IInv'
<1> USE DEF keyring, lifecycle
<1> DEFINE r == Idle
<1>1. r \in CallState /\ r.pc = "idle"
  BY DEF Idle, CallState
<1>2. call' = [call EXCEPT ![c] = r]
  BY DEF Remove, Return
<1> HIDE DEF r
<1>3. call' \in [Call -> CallState] /\ \A d \in Call : Handled(d)'
  BY <1>1, <1>2, CallMoves DEF Admitting
<1>4. \A d \in Call : call'[d].pc \in Admitting => call[d].pc \in Admitting /\ call'[d] = call[d]
  BY <1>1, <1>2, AdmittingCalls DEF Admitting
<1>5. entry' = None /\ disturbed' = (disturbed \/ InUse) /\ UNCHANGED <<runtime, held, remote>>
  BY DEF Remove
<1>6. ASSUME ~ disturbed'
      PROVE  OneKey'
  <2>1. runtime = "absent" /\ remote = {} /\ \A d \in Call : call[d].pc \notin Admitting
    BY <1>5, <1>6 DEF InUse
  <2> QED
    BY <1>4, <1>5, <2>1 DEF OneKey, InUse, Busy
<1>7. disturbed' \in BOOLEAN
  BY <1>5 DEF IInv, TypeOK, InUse
<1>8. QED
  BY <1>3, <1>5, <1>6, <1>7 DEF IInv, TypeOK

-----------------------------------------------------------------------------
(* The tasks that use the key.                                               *)

LEMMA KeyIsReadAndKept ==
    ASSUME IInv, NEW c \in Call, NEW pc \in Admitting, entry # None,
           call' = [call EXCEPT ![c] = [Idle EXCEPT !.pc = pc, !.secret = entry]],
           disturbed' = (disturbed /\ InUse),
           UNCHANGED <<entry, runtime, held, remote>>
    PROVE  IInv'
<1> DEFINE r == [Idle EXCEPT !.pc = pc, !.secret = entry]
<1>1. entry \in Valid /\ entry \in Secret
  BY SecretsAssumption DEF IInv, TypeOK
<1>2. r \in CallState
  BY <1>1, CallStates
<1>3. r.pc = pc /\ r.secret = entry
  BY DEF Idle
<1>4. call' = [call EXCEPT ![c] = r]
  OBVIOUS
<1> HIDE DEF r
<1>5. call' \in [Call -> CallState] /\ \A d \in Call : Handled(d)'
  BY <1>1, <1>2, <1>3, <1>4, CallMoves DEF Admitting
<1>6. \A d \in Call : call'[d] = IF d = c THEN r ELSE call[d]
  BY <1>4 DEF IInv, TypeOK
<1>7. ASSUME ~ disturbed'
      PROVE  OneKey'
  <2>1. CASE ~ disturbed
    <3>1. OneKey
      BY <2>1 DEF IInv
    <3>2. \A d \in Call : call'[d].pc \in Admitting => call'[d].secret = entry
      BY <1>3, <1>6, <3>1 DEF OneKey
    <3> QED
      BY <3>1, <3>2 DEF OneKey
  <2>2. CASE disturbed
    <3>1. ~ InUse
      BY <1>7, <2>2 DEF IInv, TypeOK
    <3>2. runtime = "absent" /\ remote = {} /\ \A d \in Call : call[d].pc \notin Admitting
      BY <3>1 DEF InUse
    <3>3. \A d \in Call : call'[d].pc \in Admitting => call'[d].secret = entry
      BY <1>3, <1>6, <3>2
    <3> QED
      BY <3>2, <3>3 DEF OneKey, Busy
  <2> QED
    BY <2>1, <2>2
<1>8. disturbed' \in BOOLEAN
  BY DEF IInv, TypeOK, InUse
<1>9. QED
  BY <1>5, <1>7, <1>8 DEF IInv, TypeOK

LEMMA AdmitKeeps ==
    ASSUME IInv, NEW c \in Call, Admit(c)
    PROVE  IInv'
<1> USE DEF keyring, lifecycle
<1> DEFINE r == Idle
<1>1. r \in CallState /\ r.pc = "idle"
  BY DEF Idle, CallState
<1>2. call' = [call EXCEPT ![c] = r]
  BY DEF Admit, Return
<1> HIDE DEF r
<1>3. call' \in [Call -> CallState] /\ \A d \in Call : Handled(d)'
  BY <1>1, <1>2, CallMoves DEF Admitting
<1>4. \A d \in Call : call'[d].pc \in Admitting => call[d].pc \in Admitting /\ call'[d] = call[d]
  BY <1>1, <1>2, AdmittingCalls DEF Admitting
<1>5. /\ runtime' \in Busy
      /\ held' = call[c].secret /\ call[c].secret \in Valid
      /\ UNCHANGED <<entry, disturbed, remote>>
  BY DEF Admit, Busy, IInv, Handled
<1>6. OneKey => OneKey'
  <2> SUFFICES ASSUME OneKey PROVE OneKey'
    OBVIOUS
  <2>1. call[c].pc \in Admitting
    BY DEF Admit
  <2>2. entry # None /\ held' = entry
    BY <1>5, <2>1 DEF OneKey, InUse
  <2> QED
    BY <1>4, <1>5, <2>2 DEF OneKey, Busy
<1>7. held' \in Secret \cup {None} /\ runtime' \in {"absent", "provisioning", "settled", "cleaning"}
  BY <1>5, SecretsAssumption DEF Busy
<1>8. QED
  BY <1>3, <1>5, <1>6, <1>7 DEF IInv, TypeOK

\* A task, of the key in the keyring unless it was disturbed, reaches the one
\* account that has resources.
LEMMA TaskReaches ==
    ASSUME IInv, runtime \in Busy
    PROVE  /\ Reached \in Account
           /\ ~ disturbed => entry # None /\ Reached = AccountOf[entry] /\ remote \subseteq {Reached}
<1>1. held \in Secret
  BY SecretsAssumption DEF IInv
<1>2. ~ disturbed => entry # None /\ held = entry
  BY DEF IInv, OneKey, InUse, Busy
<1>3. QED
  BY <1>1, <1>2, SecretsAssumption DEF Reached, IInv, OneKey

LEMMA TaskKeeps ==
    ASSUME IInv, CreateResource \/ EndProvision \/ EndCleanup \/ FailCleanup
    PROVE  IInv'
<1> USE DEF keyring, lifecycle
<1>1. /\ runtime \in Busy
      /\ UNCHANGED <<entry, disturbed, call>>
      /\ remote' \subseteq remote \cup {Reached}
      /\ runtime' = "absent" => remote' = remote \ {Reached}
      /\ runtime' \in {"absent", "settled"} \/ (runtime' = runtime /\ held' = held)
      /\ held' \in {held, None}
  BY DEF CreateResource, EndProvision, EndCleanup, FailCleanup, Busy
<1>2. TypeOK'
  BY <1>1, TaskReaches DEF IInv, TypeOK, Busy
<1>3. \A d \in Call : Handled(d)'
  BY <1>1 DEF IInv, Handled, At
<1>4. runtime' \in Busy => held' \in Valid
  BY <1>1 DEF IInv, Busy
<1>5. ASSUME ~ disturbed'
      PROVE  OneKey'
  <2>1. OneKey /\ entry # None /\ Reached = AccountOf[entry] /\ remote \subseteq {Reached}
    BY <1>1, <1>5, TaskReaches DEF IInv
  <2>2. remote' \subseteq {AccountOf[entry]} /\ (runtime' = "absent" => remote' = {})
    BY <1>1, <2>1
  <2> QED
    BY <1>1, <2>1, <2>2 DEF OneKey, Busy
<1>6. QED
  BY <1>2, <1>3, <1>4, <1>5 DEF IInv

LEMMA RestartKeeps ==
    ASSUME IInv, Restart
    PROVE  IInv'
<1> USE DEF keyring, lifecycle
<1>1. Idle \in CallState /\ Idle.pc = "idle"
  BY DEF Idle, CallState
<1>2. /\ call' = [c \in Call |-> Idle]
      /\ runtime' = runtime \/ runtime' = "settled"
      /\ runtime' \in {"absent", "settled"}
      /\ held' = None
      /\ remote' \subseteq remote
      /\ runtime' = "settled" => InUse
      /\ UNCHANGED <<entry, disturbed>>
  BY DEF Restart, InUse
<1>3. TypeOK'
  BY <1>1, <1>2 DEF IInv, TypeOK
<1>4. \A d \in Call : Handled(d)'
  BY <1>1, <1>2 DEF Handled, At, Admitting
<1>5. OneKey => OneKey'
  BY <1>1, <1>2 DEF OneKey, InUse, Busy, Admitting
<1>6. QED
  BY <1>2, <1>3, <1>4, <1>5 DEF IInv, Busy

-----------------------------------------------------------------------------
LEMMA StutteringKeeps == IInv /\ UNCHANGED vars => IInv'
BY DEF IInv, TypeOK, Handled, OneKey, InUse, At, vars

\* A key is taken for identified only on a whole answer, which RunPod gives to
\* the keys that it accepts alone.
LEMMA IdentifiedIsValid ==
    ASSUME NEW secret, NEW a \in Answer, Asked(secret, a), Identified(a) = "identified"
    PROVE  secret \in Valid
BY DEF Asked, Identified

LEMMA StepKeeps ==
    ASSUME IInv, [Next]_vars
    PROVE  IInv'
<1> USE DEF keyring, lifecycle
<1>1. CASE UNCHANGED vars
  BY <1>1, StutteringKeeps
<1>2. ASSUME NEW c \in Call, NEW s \in Secret, Set(c, s) PROVE IInv'
  BY <1>2, BeginKeeps DEF Set
<1>3. ASSUME NEW c \in Call, Exists(c) \/ Identity(c) PROVE IInv'
  <2>1. CASE Exists(c)
    BY <2>1, GoingOnKeeps, ReturnKeeps DEF Exists
  <2>2. CASE Identity(c)
    BY <2>2, GoingOnKeeps, ReturnKeeps, IdentifiedIsValid DEF Identity
  <2> QED
    BY <1>3, <2>1, <2>2
<1>4. ASSUME NEW c \in Call, Delete(c) \/ Find(c) \/ Unavailable(c) PROVE IInv'
  <2>1. CASE Delete(c)
    BY <2>1, BeginKeeps DEF Delete
  <2>2. CASE Find(c) \/ Unavailable(c)
    BY <2>2, GoingOnKeeps, ReturnKeeps DEF Find, Unavailable
  <2> QED
    BY <1>4, <2>1, <2>2
<1>5. ASSUME NEW c \in Call, StartProvision(c) \/ StartCleanup(c) PROVE IInv'
  <2>1. CASE StartProvision(c)
    BY <2>1, BeginKeeps DEF StartProvision, Reading
  <2>2. CASE StartCleanup(c)
    BY <2>2, BeginKeeps DEF StartCleanup, Reading
  <2> QED
    BY <1>5, <2>1, <2>2
<1>6. ASSUME NEW c \in Call, NEW from \in Reading, NEW to \in Admitting, ReadKey(c, from, to)
      PROVE  IInv'
  BY <1>6, KeyIsReadAndKept, ReturnKeeps DEF ReadKey
<1>7. QED
  BY <1>1, <1>2, <1>3, <1>4, <1>5, <1>6, InsertKeeps, WriteKeeps, RemoveKeeps, AdmitKeeps,
     TaskKeeps, RestartKeeps DEF Next, Reading, Admitting

LEMMA Invariant == Spec => []IInv
BY InitialInvariant, StepKeeps, PTL DEF Spec

(* Every variable keeps its type; in particular the keyring never holds a    *)
(* key that RunPod has not accepted (set validates before it inserts).       *)
THEOREM TypeCorrect == Spec => []TypeOK
<1>1. IInv => TypeOK
  BY DEF IInv
<1>2. QED
  BY Invariant, <1>1, PTL

(* Whatever commands, validations, tasks and restarts overlap, a runtime     *)
(* that has been cleaned up has left nothing behind in any account, unless   *)
(* its key was deleted meanwhile or two writes of keys raced (set, insert,   *)
(* and the key that start_provision and start_cleanup read).                 *)
THEOREM CleanupReachesEverything == Spec => []NothingLeftBehind
<1>1. IInv => NothingLeftBehind
  BY DEF IInv, OneKey, NothingLeftBehind
<1>2. QED
  BY Invariant, <1>1, PTL
=============================================================================
