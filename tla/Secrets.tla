------------------------------- MODULE Secrets -------------------------------
(***************************************************************************)
(* The RunPod key in the keyring of the operating system, and what it is   *)
(* used for.  SecretsService stores a key after it has looked that there   *)
(* is none and RunPod has accepted it; the store looks again and writes,   *)
(* as two calls to the keyring.  A provision and a cleanup read the key    *)
(* once, before they are admitted, and keep it to their end.  A key        *)
(* reaches the resources of its own account only, and a resource that is   *)
(* not found there counts as deleted.                                      *)
(*                                                                         *)
(* The runtime is the one of RuntimeLifecycle with its states and          *)
(* admissions only: that a cleanup finds every resource in the account of  *)
(* its key is NoOrphan and ResourcesAreLocatable there.                    *)
(***************************************************************************)
EXTENDS HttpAnswers

CONSTANTS
    Secret,
    Valid,       \* the keys RunPod accepts
    Account,
    AccountOf,   \* the account of a key
    Call,        \* the commands under way at once
    None         \* no key

ASSUME SecretsAssumption ==
    /\ None \notin Secret
    /\ Valid \subseteq Secret
    /\ AccountOf \in [Secret -> Account]

VARIABLES
    entry,       \* the key in the keyring
    call,        \* the commands
    runtime,     \* the state of the workspace's runtime
    held,        \* the key of the task that changes the runtime
    remote,      \* the accounts that have resources of the workspace
    disturbed    \* history: the key was removed or raced over while in use

vars == <<entry, call, runtime, held, remote, disturbed>>

Setting == {"exists", "validate", "insert", "write"}
Deleting == {"find", "remove"}
Reading == {"provision_key", "cleanup_key"}
Admitting == {"provision", "cleanup"}

\* secret is the key of the command; seen is what the look before its write
\* found, which is None whenever the code goes on to write.
CallState == [pc : {"idle"} \cup Setting \cup Deleting \cup Reading \cup Admitting,
              secret : Secret \cup {None}, seen : Secret \cup {None}]

Idle == [pc |-> "idle", secret |-> None, seen |-> None]

Init ==
    /\ entry = None
    /\ call = [c \in Call |-> Idle]
    /\ runtime = "absent" /\ held = None /\ remote = {}
    /\ disturbed = FALSE

At(c, pc) == call[c].pc = pc
Goto(c, pc) == call' = [call EXCEPT ![c].pc = pc]
Begin(c, pc, secret) ==
    /\ At(c, "idle")
    /\ call' = [call EXCEPT ![c] = [Idle EXCEPT !.pc = pc, !.secret = secret]]
Return(c) == call' = [call EXCEPT ![c] = Idle]

\* The key in the keyring is, or is about to be, that of a runtime.
InUse == runtime # "absent" \/ remote # {} \/ \E c \in Call : call[c].pc \in Admitting

keyring == <<entry, disturbed>>
lifecycle == <<runtime, held, remote>>
-----------------------------------------------------------------------------
(* SecretsService::set.                                                     *)

Set(c, secret) ==
    /\ Begin(c, "exists", secret)
    /\ UNCHANGED <<keyring, lifecycle>>

Exists(c) ==
    /\ At(c, "exists")
    /\ \/ entry = None /\ Goto(c, "validate")
       \/ entry # None /\ Return(c)                \* AlreadyConfigured
    /\ UNCHANGED <<keyring, lifecycle>>

\* What the service makes of the answer to an identity query. That "myself" is
\* null is as if the reply had no data.
Identified(a) ==
    CASE IntoGraphqlData(a) = "ok"           -> "identified"
      [] IntoGraphqlData(a) = "unauthorized" -> "invalid_credential"
      [] OTHER                               -> "unavailable"

\* RunPod tells nobody who it is whose key it does not accept.
Asked(secret, a) == IntoGraphqlData(a) = "ok" => secret \in Valid

\* Of the answers only a whole one lets the key in.
Identity(c) ==
    /\ At(c, "validate")
    /\ \E a \in Answer :
          /\ Asked(call[c].secret, a)
          /\ IF Identified(a) = "identified" THEN Goto(c, "insert") ELSE Return(c)
    /\ UNCHANGED <<keyring, lifecycle>>

\* Mutated form of Insert: the first look is thought to be enough.
InsertWithoutLooking(c) ==
    /\ At(c, "insert")
    /\ call' = [call EXCEPT ![c].pc = "write", ![c].seen = entry]
    /\ UNCHANGED <<keyring, lifecycle>>

Insert(c) ==
    /\ At(c, "insert")
    /\ \/ /\ entry = None
          /\ call' = [call EXCEPT ![c].pc = "write", ![c].seen = entry]
       \/ entry # None /\ Return(c)                \* AlreadyConfigured
    /\ UNCHANGED <<keyring, lifecycle>>

Write(c) ==
    /\ At(c, "write")
    /\ entry' = call[c].secret
    /\ disturbed' = (disturbed \/ entry # call[c].seen)
    /\ Return(c)
    /\ UNCHANGED lifecycle

(* SecretsService::delete.                                                  *)

Delete(c) ==
    /\ Begin(c, "find", None)
    /\ UNCHANGED <<keyring, lifecycle>>

Find(c) ==
    /\ At(c, "find")
    /\ \/ entry # None /\ Goto(c, "remove")
       \/ entry = None /\ Return(c)                \* NotConfigured
    /\ UNCHANGED <<keyring, lifecycle>>

Remove(c) ==
    /\ At(c, "remove")
    /\ entry' = None
    /\ disturbed' = (disturbed \/ InUse)
    /\ Return(c)
    /\ UNCHANGED lifecycle

\* The keyring, RunPod's identity query or the store cannot be reached, or the
\* store refuses the admission.
Unavailable(c) ==
    /\ ~ At(c, "idle")
    /\ Return(c)
    /\ UNCHANGED <<keyring, lifecycle>>
-----------------------------------------------------------------------------
(* What the key is used for: start_provision and start_cleanup have the      *)
(* workspace as it was, read the key, and are admitted later.               *)

StartProvision(c) ==
    /\ runtime = "absent"
    /\ Begin(c, "provision_key", None)
    /\ UNCHANGED <<keyring, lifecycle>>

StartCleanup(c) ==
    /\ runtime = "settled"
    /\ Begin(c, "cleanup_key", None)
    /\ UNCHANGED <<keyring, lifecycle>>

ReadKey(c, pc, next) ==
    /\ At(c, pc)
    /\ \/ /\ entry # None
          /\ call' = [call EXCEPT ![c] = [Idle EXCEPT !.pc = next, !.secret = entry]]
          /\ disturbed' = (disturbed /\ InUse)
       \/ /\ entry = None /\ Return(c)            \* CredentialMissing
          /\ UNCHANGED disturbed
    /\ UNCHANGED <<entry, lifecycle>>

Admit(c) ==
    /\ call[c].pc \in Admitting
    /\ \/ At(c, "provision") /\ runtime = "absent" /\ runtime' = "provisioning"
       \/ At(c, "cleanup") /\ runtime = "settled" /\ runtime' = "cleaning"
    /\ held' = call[c].secret
    /\ Return(c)
    /\ UNCHANGED <<keyring, remote>>

\* Every request of a task goes to the account of the key it holds.
Reached == AccountOf[held]

CreateResource ==
    /\ runtime = "provisioning"
    /\ remote' = remote \cup {Reached}
    /\ UNCHANGED <<keyring, call, runtime, held>>

\* Ready or failed; a compensating delete may take the only resource away.
EndProvision ==
    /\ runtime = "provisioning"
    /\ remote' \in {remote, remote \ {Reached}}
    /\ runtime' = "settled" /\ held' = None
    /\ UNCHANGED <<keyring, call>>

\* What is not found was deleted before.
EndCleanup ==
    /\ runtime = "cleaning"
    /\ remote' = remote \ {Reached}
    /\ runtime' = "absent" /\ held' = None
    /\ UNCHANGED <<keyring, call>>

\* Some deletes may have been done before the one that fails.
FailCleanup ==
    /\ runtime = "cleaning"
    /\ remote' \in {remote, remote \ {Reached}}
    /\ runtime' = "settled" /\ held' = None
    /\ UNCHANGED <<keyring, call>>

\* The application ends; the next start fails what was running, and deletes
\* what an unfinished step has left in several copies, with the key it finds.
Restart ==
    /\ call' = [c \in Call |-> Idle]
    /\ \/ /\ runtime \in {"absent", "settled"}
          /\ UNCHANGED <<runtime, remote>>
       \/ /\ runtime \in {"provisioning", "cleaning"}
          /\ runtime' = "settled"
          /\ remote' \in {remote} \cup {remote \ {AccountOf[k]} : k \in {entry} \ {None}}
    /\ held' = None
    /\ UNCHANGED keyring

Next ==
    \/ \E c \in Call :
          \/ \E s \in Secret : Set(c, s)
          \/ Exists(c) \/ Identity(c) \/ Insert(c) \/ Write(c)
          \/ Delete(c) \/ Find(c) \/ Remove(c) \/ Unavailable(c)
          \/ StartProvision(c) \/ StartCleanup(c) \/ Admit(c)
          \/ ReadKey(c, "provision_key", "provision")
          \/ ReadKey(c, "cleanup_key", "cleanup")
    \/ CreateResource \/ EndProvision \/ EndCleanup \/ FailCleanup \/ Restart

Spec == Init /\ [][Next]_vars
-----------------------------------------------------------------------------
TypeOK ==
    /\ entry \in Valid \cup {None}
    /\ call \in [Call -> CallState]
    /\ runtime \in {"absent", "provisioning", "settled", "cleaning"}
    /\ held \in Secret \cup {None}
    /\ remote \subseteq Account
    /\ disturbed \in BOOLEAN

(* A runtime that has been cleaned up has left nothing behind in any       *)
(* account, as long as its key was not deleted in the meantime and no two  *)
(* writes of keys raced: a configured key is not replaced ("secret is      *)
(* already configured"), so the cleanup reaches the account of the         *)
(* provision, however commands, restarts and validations overlap.          *)
NothingLeftBehind == runtime = "absent" /\ ~ disturbed => remote = {}
=============================================================================
