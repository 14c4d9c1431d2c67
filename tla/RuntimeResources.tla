-------------------------- MODULE RuntimeResources ---------------------------
(* The inductive invariants behind the properties of RuntimeLifecycle that   *)
(* speak of RunPod: which resources of a provision exist, or may yet be      *)
(* created, at each step of the operation that works on them.                *)
EXTENDS RuntimeCoupling

-----------------------------------------------------------------------------
(* The resources of provision operation g and kind k.                        *)

IsOf(r, g, k) == r.gen = g /\ r.kind = k

NoneOf(g, k) == \A r \in remote \cup late : ~IsOf(r, g, k)

NoneLate(g, k) == \A r \in late : ~IsOf(r, g, k)

\* Those that exist are the one whose id is stored, and it exists unless it is
\* the pod, which its provision may already have deleted.
Held(g, k) ==
    /\ NoneLate(g, k)
    /\ \A r \in remote : IsOf(r, g, k) => r.copy = Good
    /\ k # "pod" => [gen |-> g, kind |-> k, copy |-> Good] \in remote

\* Exactly the kinds of K, or these and perhaps kind k.
Exactly(g, K) == \A j \in ResourceKind : IF j \in K THEN Held(g, j) ELSE NoneOf(g, j)
ExactlyBut(g, K, k) ==
    \A j \in ResourceKind : IF j \in K THEN Held(g, j) ELSE j = k \/ NoneOf(g, j)

\* A provision sends one create request of each kind.
RequestedOnce ==
    \A r \in late :
        /\ \A q \in late : IsOf(q, r.gen, r.kind) => q = r
        /\ \A q \in remote : ~IsOf(q, r.gen, r.kind)

-----------------------------------------------------------------------------
(* Every attached runtime, every pending cleanup and every resource comes    *)
(* from the provision operation its name contains.                           *)

ProvisionOn(g, w) == ops[g].kind = "provision" /\ ops[g].ws = w

AnchorsAreProvisions ==
    \A w \in Workspace : anchor[w].state # "none" =>
        /\ ProvisionOn(anchor[w].gen, w)
        /\ anchor[w].state = "provisioning" <=> Running(anchor[w].gen)

CallsAreProvisions ==
    \A c \in Caller : callers[c].pc = "cleanup" =>
        /\ ProvisionOn(callers[c].rt.gen, callers[c].ws)
        /\ ~Running(callers[c].rt.gen)
        /\ callers[c].rt.state = "cleaning_up"

ResourcesAreProvisions == \A r \in remote \cup late : ops[r.gen].kind = "provision"

Originated == AnchorsAreProvisions /\ CallsAreProvisions /\ ResourcesAreProvisions

-----------------------------------------------------------------------------
(* A provision.                                                              *)

ReadyKinds == {"volume", "template", "endpoint"}

\* The ids stored when a step of a provision begins, and when it is done.
KnownAt(s) ==
    CASE s \in {"start_provisioner_pod", "create_template"}       -> {"volume"}
      [] s \in {"poll_provisioner", "terminate_provisioner_pod"} -> {"volume", "pod"}
      [] s = "create_endpoint"                                   -> {"volume", "template"}
      [] OTHER                                                   -> {}

KnownAfter(s) == IF s = "create_endpoint" THEN ReadyKinds ELSE KnownAt(NextStep(s))

\* What an operation's step says of the place its task is at.
PcFitsStep(o) ==
    LET t == task[o] IN
    /\ t.pc \in {"create", "undo", "recover_observe", "recover_purge"} => t.op.step \in CreateStep
    /\ t.pc = "wait" => t.op.step = "poll_provisioner"
    /\ t.pc = "adopt" => t.op.kind = "cleanup"
    /\ t.pc \in {"observe", "purge"} /\ t.op.kind = "provision" => t.op.step \in CreateStep
    /\ t.pc = "delete" /\ t.op.kind = "provision" => t.op.step = "terminate_provisioner_pod"
    /\ t.pc \in {"purge", "recover_purge"} => \A r \in t.ids : IsOf(r, Gen(o), KindOf(o))

\* At each step of a running provision the earlier ones are done, the later
\* ones have not begun, and the current one may have left anything.
ProvisionKept(o) ==
    LET t == task[o]
        s == ops[o].step
    IN /\ anchor[ops[o].ws].gen = o
       /\ anchor[ops[o].ws].known = KnownAt(s)
       /\ ExactlyBut(o, KnownAt(s), Target(s))
       /\ t.pc \in (BodyPc \ {"save", "undo"}) \cup {"recover_observe", "recover_purge"} =>
             t.rt.known = KnownAt(s)
       /\ t.pc = "create" => NoneOf(o, Target(s))
       /\ t.pc = "save" => t.rt.known = KnownAfter(s) /\ Exactly(o, KnownAfter(s))

ProvisionsKept == \A o \in OpId : Running(o) /\ ops[o].kind = "provision" => ProvisionKept(o)

ReadyKept ==
    \A w \in Workspace : anchor[w].state = "ready" =>
        anchor[w].known = ReadyKinds /\ Exactly(anchor[w].gen, ReadyKinds)

\* Whatever RunPod and the process do, the resources of a provision are those
\* its record implies.
Provisioned ==
    /\ RequestedOnce
    /\ Originated
    /\ \A o \in OpId : PcFitsStep(o)
    /\ ProvisionsKept
    /\ ReadyKept

-----------------------------------------------------------------------------
(* A cleanup, when RunPod executes a request late only before it begins.     *)

\* Every resource of a runtime can be found from what rt says of it.
Located(rt) ==
    \A r \in remote \cup late : r.gen = rt.gen =>
        IF r.kind \in rt.known THEN r.copy = Good
                               ELSE ObservedThrough(r.kind) \subseteq rt.known

AllLocated ==
    /\ \A w \in Workspace : Located(anchor[w])
    /\ \A c \in Caller : callers[c].pc = "cleanup" => Located(callers[c].rt)
    /\ \A o \in OpId : task[o].pc \in HoldsAnchor => Located(task[o].rt)

\* The kinds whose resources are gone when a step of a cleanup begins.
GoneAt(s) ==
    CASE s = "delete_template"         -> {"endpoint"}
      [] s = "cleanup_provisioner_pod" -> {"endpoint", "template"}
      [] s = "delete_network_volume"   -> {"endpoint", "template", "pod"}
      [] OTHER                         -> {}

CleanupKept(o) ==
    LET t == task[o]
        s == ops[o].step
        g == anchor[ops[o].ws].gen
    IN /\ \A r \in late : r.gen # g
       /\ \A j \in GoneAt(s) : NoneOf(g, j)
       /\ t.pc = "save" => NoneOf(g, Target(s))
       /\ t.pc = "purge" => \A r \in remote : IsOf(r, g, Target(s)) => r \in t.ids
       /\ t.pc \in {"adopt", "delete"} => Target(s) \in t.rt.known

CleanupsKept == \A o \in OpId : Running(o) /\ ops[o].kind = "cleanup" => CleanupKept(o)

\* Whatever RunPod and the process do, a cleanup finds what it is there to find.
Cleanable == AllLocated /\ CleanupsKept

-----------------------------------------------------------------------------
(* Commands that do not overlap.                                             *)

\* No two calls on one workspace are pending at the same time.
OneCommandPerWorkspace ==
    \A c, d \in Caller :
        callers[c].pc # "idle" /\ callers[d].pc # "idle" /\ callers[c].ws = callers[d].ws => c = d

\* The runtime a pending cleanup has read is still the one attached.
CallsAreFresh ==
    \A c \in Caller : callers[c].pc = "cleanup" =>
        /\ anchor[callers[c].ws].state \in Settled
        /\ callers[c].rt.gen = anchor[callers[c].ws].gen
=============================================================================
