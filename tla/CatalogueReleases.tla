------------------------- MODULE CatalogueReleases -------------------------
(***************************************************************************)
(* The bundled catalogue, from the release of a worker image to the        *)
(* runtime that is provisioned with it.                                    *)
(*                                                                         *)
(* Catalogue entries are directories <kind>/<id>/<revision>.  A deployment *)
(* run (.github/workflows) checks the repository out, builds and publishes *)
(* an image, lets workers/*/release_tool.py write a runtime contract with  *)
(* the image's digest and workflow revisions that refer to it, and opens a *)
(* pull request with the result.  Several runs may be under way at once,   *)
(* each computing with its own checkout.  The application is built with    *)
(* the catalogue of the default branch; a workspace keeps the reference of *)
(* the workflow revision it was created for, and every provision of it     *)
(* looks that reference up in the catalogue of the application then        *)
(* installed.                                                              *)
(*                                                                         *)
(* Runtime presets and execution schemas are neither promoted nor changed  *)
(* and are taken to exist.  Nothing is removed from the default branch.    *)
(***************************************************************************)
EXTENDS Integers, FiniteSets

CONSTANTS
    Workflow,            \* ids of workflows
    Docs,                \* what the documents of a workflow revision say,
                         \* but for the contracts it requires
    OddName,             \* the name of a directory that is no revision
    Absent,              \* no such directory; no such workspace
    Workspace,
    InitialDocs,         \* the documents of the first revisions
    AuthoredRevisions,   \* what an author may add by hand, and under which name,
    MaxAuthored,         \* and how many of them
    MaxMinor, MaxPatch,  \* bounds on the numbers of revisions
    MaxBuilds,           \* bound on the images that are built
    MaxRuns              \* bound on the deployment runs under way at once

(* Revision 1.m.p is <<m, p>>.                                             *)
Revision == (0 .. MaxMinor) \X (0 .. MaxPatch)
First == <<0, 0>>

Before(q, r) == q[1] < r[1] \/ (q[1] = r[1] /\ q[2] < r[2])
Newest(R) == CHOOSE r \in R : \A q \in R : ~ Before(r, q)
Following(r) == <<r[1], r[2] + 1>>

(* The contract of the provisioner image, and one contract of an endpoint  *)
(* image for each workflow, named by the workflow.                         *)
Provisioner == "provisioner"
ContractId == {Provisioner} \cup Workflow
Reference == ContractId \X Revision

(* What is in an image: the documents baked into it, which for the         *)
(* provisioner's are none, and the build it comes from.                    *)
Image == [baked : Docs \cup {Absent}, build : 0 .. MaxBuilds]

(* The files of a revision are "missing" when one is not there or is a     *)
(* symbolic link, and "malformed" when the application cannot decode one.  *)
FileState == {"whole", "missing", "malformed"}

(* A workflow revision.                                                    *)
Entry == [docs : Docs, provisioner : Reference, endpoint : Reference,
          files : FileState]

WorkflowKey == Workflow \X (Revision \cup {OddName})
Catalogue == [workflows : [WorkflowKey -> Entry \cup {Absent}],
              contracts : [Reference -> Image \cup {Absent}]]

Run == [contract : ContractId, source : WorkflowKey \cup {Absent},
        checkout : Catalogue]

ASSUME CatalogueAssumption ==
    /\ MaxMinor \in Nat /\ MaxPatch \in Nat /\ MaxBuilds \in Nat
    /\ MaxAuthored \in Nat
    /\ InitialDocs \in Docs
    /\ Provisioner \notin Workflow
    /\ OddName \notin Revision
    /\ AuthoredRevisions \subseteq WorkflowKey \X Entry
    /\ Absent \notin Docs \cup WorkflowKey \cup Entry \cup [baked : Docs \cup {Absent}, build : Nat]

Pull == [branch : Reference, base : Catalogue, head : Catalogue]

VARIABLES
    main,        \* the catalogue in the default branch
    runs,        \* the deployment runs under way
    pulls,       \* the open pull requests with promotions
    bundle,      \* the catalogue of the application in use
    workspaces,  \* the workflow revision each workspace was created for
    given,       \* history: the images each workspace was provisioned with
    builds, authored

vars == <<main, runs, pulls, bundle, workspaces, given, builds, authored>>
----------------------------------------------------------------------------
(* Reading a catalogue.                                                    *)

Revisions(c, w) == {r \in Revision : c.workflows[<<w, r>>] # Absent}
ContractRevisions(c, i) == {r \in Revision : c.contracts[<<i, r>>] # Absent}

(* Every directory under the workflow has a number for its name, so that   *)
(* the newest one can be told.                                             *)
Numbered(c, w) == Revisions(c, w) # {} /\ c.workflows[<<w, OddName>>] = Absent
LatestEntry(c, w) == c.workflows[<<w, Newest(Revisions(c, w))>>]
NextRevision(c, w) == Following(Newest(Revisions(c, w)))
NextContract(c, i) ==
    IF ContractRevisions(c, i) = {} THEN First
                                    ELSE Following(Newest(ContractRevisions(c, i)))

(* Catalog::get and Catalog::all of the application: one revision decodes, *)
(* and all of them do, without which none is offered to the user.          *)
Directories(c) == {k \in WorkflowKey : c.workflows[k] # Absent}
Decodes(e) == e.files = "whole"
Readable(c, k) == k \in Directories(c) /\ Decodes(c.workflows[k])
Listable(c) == \A k \in Directories(c) : Decodes(c.workflows[k])
Offered(c) == IF Listable(c) THEN Directories(c) ELSE {}

(* The images a runtime of a workflow revision is built from.              *)
Resolves(c, e) ==
    c.contracts[e.provisioner] # Absent /\ c.contracts[e.endpoint] # Absent
Images(c, e) == <<c.contracts[e.provisioner], c.contracts[e.endpoint]>>
----------------------------------------------------------------------------
(* What the release tools write.                                           *)

(* The tools copy a revision whose files are all there, whatever they say. *)
Copyable(e) == e.files # "missing"

(* The directories the next contract and the next workflow revision are    *)
(* written to: ensure_destination_available, and the bounds of the model.  *)
Available(c, i, w) ==
    /\ NextRevision(c, w) \in Revision
    /\ c.workflows[<<w, NextRevision(c, w)>>] = Absent
    /\ NextContract(c, i) \in Revision
    /\ c.contracts[<<i, NextContract(c, i)>>] = Absent

(* resolve and promote-endpoint-image: the selected revision is copied to  *)
(* the workflow's next one, which refers to the new image.                 *)
EndpointReady(c, k) ==
    LET w == k[1]
        e == c.workflows[k]
    IN /\ e # Absent
       /\ k[2] # OddName
       /\ Numbered(c, w)
       /\ Copyable(e)
       /\ e.endpoint[1] = w
       /\ c.contracts[e.endpoint] # Absent
       /\ Available(c, w, w)

\* Mutated form of EndpointPromotion: the selected revision is baked into the
\* image and the latest one is copied.
EndpointPromotionOfLatest(c, k, b) ==
    LET w == k[1]
        contract == <<w, NextContract(c, w)>>
    IN [workflows |-> [c.workflows EXCEPT ![<<w, NextRevision(c, w)>>] =
                           [LatestEntry(c, w) EXCEPT !.endpoint = contract]],
        contracts |-> [c.contracts EXCEPT ![contract] =
                           [baked |-> c.workflows[k].docs, build |-> b]]]

EndpointPromotion(c, k, b) ==
    LET w == k[1]
        contract == <<w, NextContract(c, w)>>
        source == c.workflows[k]
    IN [workflows |-> [c.workflows EXCEPT ![<<w, NextRevision(c, w)>>] =
                           [source EXCEPT !.endpoint = contract]],
        contracts |-> [c.contracts EXCEPT ![contract] =
                           [baked |-> source.docs, build |-> b]]]

(* promote-provisioner-image: the latest revision of every workflow that   *)
(* refers to the provisioner's contract is copied to its next one; one     *)
(* workflow that cannot be read stops the promotion of all.                *)
Promoted(c) == {w \in Workflow : LatestEntry(c, w).provisioner[1] = Provisioner}

ProvisionerReady(c) ==
    /\ \A w \in Workflow : Numbered(c, w) /\ Copyable(LatestEntry(c, w))
    /\ Promoted(c) # {}
    /\ \A w \in Promoted(c) : /\ c.contracts[LatestEntry(c, w).provisioner] # Absent
                              /\ Available(c, Provisioner, w)
    /\ ContractRevisions(c, Provisioner) # {}

\* Mutated form of ProvisionerPromotion: the first revision is copied.
ProvisionerPromotionOfFirst(c, b) ==
    LET contract == <<Provisioner, NextContract(c, Provisioner)>>
    IN [workflows |->
            [k \in WorkflowKey |->
                IF k[1] \in Promoted(c) /\ k[2] = NextRevision(c, k[1])
                THEN [c.workflows[<<k[1], First>>] EXCEPT !.provisioner = contract]
                ELSE c.workflows[k]],
        contracts |-> [c.contracts EXCEPT ![contract] =
                           [baked |-> Absent, build |-> b]]]

\* Mutated form of ProvisionerPromotion: the changed reference is written back
\* to the latest revision.
ProvisionerPromotionInPlace(c, b) ==
    LET contract == <<Provisioner, NextContract(c, Provisioner)>>
    IN [workflows |->
            [k \in WorkflowKey |->
                IF k[1] \in Promoted(c) /\ k[2] = Newest(Revisions(c, k[1]))
                THEN [c.workflows[k] EXCEPT !.provisioner = contract]
                ELSE c.workflows[k]],
        contracts |-> [c.contracts EXCEPT ![contract] =
                           [baked |-> Absent, build |-> b]]]

ProvisionerPromotion(c, b) ==
    LET contract == <<Provisioner, NextContract(c, Provisioner)>>
    IN [workflows |->
            [k \in WorkflowKey |->
                IF k[1] \in Promoted(c) /\ k[2] = NextRevision(c, k[1])
                THEN [LatestEntry(c, k[1]) EXCEPT !.provisioner = contract]
                ELSE c.workflows[k]],
        contracts |-> [c.contracts EXCEPT ![contract] =
                           [baked |-> Absent, build |-> b]]]
----------------------------------------------------------------------------
Init ==
    /\ main =
         [workflows |->
             [k \in WorkflowKey |->
                 IF k[2] = First
                 THEN [docs |-> InitialDocs, provisioner |-> <<Provisioner, First>>,
                       endpoint |-> <<k[1], First>>, files |-> "whole"]
                 ELSE Absent],
          contracts |->
             [f \in Reference |->
                 IF f[2] = First
                 THEN [baked |-> IF f[1] = Provisioner THEN Absent ELSE InitialDocs,
                       build |-> 0]
                 ELSE Absent]]
    /\ bundle = main
    /\ runs = {} /\ pulls = {}
    /\ workspaces = [s \in Workspace |-> Absent]
    /\ given = [s \in Workspace |-> {}]
    /\ builds = 0 /\ authored = 0

(* A tag is pushed or a deployment is dispatched: the run checks out the   *)
(* default branch.  Runs for different tags share no concurrency group.    *)
StartRun(i, k) ==
    /\ Cardinality(runs) < MaxRuns                                 \* bound
    /\ builds + Cardinality(runs) < MaxBuilds                      \* bound
    /\ runs' = runs \cup {[contract |-> i, source |-> k, checkout |-> main]}
    /\ UNCHANGED <<main, pulls, bundle, workspaces, given, builds, authored>>

DeployEndpoint ==
    \E k \in WorkflowKey : main.workflows[k] # Absent /\ StartRun(k[1], k)
DeployProvisioner == StartRun(Provisioner, Absent)

(* The end of a run: the image is built and published, the release tool    *)
(* promotes it, and a pull request is opened, or the open one of the same  *)
(* branch is replaced.                                                     *)
OpenPull(run, head) ==
    LET branch == <<run.contract, NextContract(run.checkout, run.contract)>>
    IN /\ builds < MaxBuilds                                       \* bound
       /\ builds' = builds + 1
       /\ runs' = runs \ {run}
       /\ pulls' = {p \in pulls : p.branch # branch}
                     \cup {[branch |-> branch, base |-> run.checkout, head |-> head]}
       /\ UNCHANGED <<main, bundle, workspaces, given, authored>>

PublishEndpoint(run) ==
    /\ run.contract # Provisioner
    /\ EndpointReady(run.checkout, run.source)
    /\ OpenPull(run, EndpointPromotion(run.checkout, run.source, builds + 1))

PublishProvisioner(run) ==
    /\ run.contract = Provisioner
    /\ ProvisionerReady(run.checkout)
    /\ OpenPull(run, ProvisionerPromotion(run.checkout, builds + 1))

(* A step of the run fails, the release tool's checks among them.          *)
FailRun(run) ==
    /\ runs' = runs \ {run}
    /\ UNCHANGED <<main, pulls, bundle, workspaces, given, builds, authored>>

(* What a pull request changes. The branch is a commit on the checkout.     *)
Added(p) == {k \in WorkflowKey : p.head.workflows[k] # p.base.workflows[k]}
AddedContracts(p) == {f \in Reference : p.head.contracts[f] # p.base.contracts[f]}

(* The files that are there in a revision's directory are those of another: *)
(* the contract requirements are missing and the documents agree, or one of *)
(* the documents is and the requirements agree, and perhaps the others too. *)
CompletedBy(e, f) ==
    /\ e.files = "missing"
    /\ \/ e.docs = f.docs
       \/ e.provisioner = f.provisioner /\ e.endpoint = f.endpoint

(* A pull request is merged unless a file it changes was changed in another *)
(* way since the run's checkout. A contract is one file, a revision five:   *)
(* some of them alone, added by hand, do not stand in the way if they agree.*)
FitsRevision(p, k) ==
    LET now == main.workflows[k] IN
    \/ now \in {p.base.workflows[k], p.head.workflows[k]}
    \/ now # Absent /\ CompletedBy(now, p.head.workflows[k])
FitsContract(p, f) == main.contracts[f] \in {p.base.contracts[f], p.head.contracts[f]}

Merge(p) ==
    /\ \A k \in Added(p) : FitsRevision(p, k)
    /\ \A f \in AddedContracts(p) : FitsContract(p, f)
    /\ main' = [workflows |-> [k \in WorkflowKey |-> IF k \in Added(p) THEN p.head.workflows[k]
                                                                     ELSE main.workflows[k]],
                contracts |-> [f \in Reference |-> IF f \in AddedContracts(p) THEN p.head.contracts[f]
                                                                              ELSE main.contracts[f]]]
    /\ pulls' = pulls \ {p}
    /\ UNCHANGED <<runs, bundle, workspaces, given, builds, authored>>

ClosePull(p) ==
    /\ pulls' = pulls \ {p}
    /\ UNCHANGED <<main, runs, bundle, workspaces, given, builds, authored>>

(* An author adds a workflow revision by hand.                             *)
Author(k, e) ==
    /\ authored < MaxAuthored                                      \* bound
    /\ main.workflows[k] = Absent
    /\ main' = [main EXCEPT !.workflows[k] = e]
    /\ authored' = authored + 1
    /\ UNCHANGED <<runs, pulls, bundle, workspaces, given, builds>>

(* The application is built from the default branch and updated.           *)
Release ==
    /\ bundle' = main
    /\ UNCHANGED <<main, runs, pulls, workspaces, given, builds, authored>>

(* A workflow revision is picked from the list, and WorkspaceService's     *)
(* create looks it up.                                                     *)
CreateWorkspace(s, k) ==
    /\ k \in Offered(bundle)
    /\ workspaces[s] = Absent
    /\ Readable(bundle, k)
    /\ workspaces' = [workspaces EXCEPT ![s] = k]
    /\ UNCHANGED <<main, runs, pulls, bundle, given, builds, authored>>

(* start_provision: the workspace's revision is read and its contracts are *)
(* resolved.  The runtime it leads to, and its cleanup before the next     *)
(* one, are the subject of module RuntimeLifecycle.                        *)
Provision(s) ==
    /\ workspaces[s] # Absent
    /\ Readable(bundle, workspaces[s])
    /\ LET e == bundle.workflows[workspaces[s]]
       IN /\ Resolves(bundle, e)
          /\ given' = [given EXCEPT ![s] = @ \cup {Images(bundle, e)}]
    /\ UNCHANGED <<main, runs, pulls, bundle, workspaces, builds, authored>>

DeleteWorkspace(s) ==
    /\ workspaces[s] # Absent
    /\ workspaces' = [workspaces EXCEPT ![s] = Absent]
    /\ given' = [given EXCEPT ![s] = {}]
    /\ UNCHANGED <<main, runs, pulls, bundle, builds, authored>>

Next ==
    \/ DeployEndpoint \/ DeployProvisioner
    \/ \E run \in runs : PublishEndpoint(run) \/ PublishProvisioner(run)
                           \/ FailRun(run)
    \/ \E p \in pulls : Merge(p) \/ ClosePull(p)
    \/ \E a \in AuthoredRevisions : Author(a[1], a[2])
    \/ Release
    \/ \E s \in Workspace : \/ \E k \in WorkflowKey : CreateWorkspace(s, k)
                            \/ Provision(s) \/ DeleteWorkspace(s)

Spec == Init /\ [][Next]_vars
----------------------------------------------------------------------------
TypeOK ==
    /\ main \in Catalogue /\ bundle \in Catalogue
    /\ runs \subseteq Run /\ pulls \subseteq Pull
    /\ workspaces \in [Workspace -> WorkflowKey \cup {Absent}]
    /\ given \in [Workspace -> SUBSET (Image \X Image)]
    /\ builds \in 0 .. MaxBuilds /\ authored \in 0 .. MaxAuthored

(* The pull request is merged in this step.                                *)
IsMerged(p) == p \notin pulls' /\ main' # main

(* README.md: a revision that a merged endpoint promotion adds refers to   *)
(* an image with that revision's own documents in it, and one that a       *)
(* provisioner promotion adds to that run's image, whichever runs and      *)
(* merges came between.                                                    *)
PromotionsFit ==
    [][\A p \in pulls : IsMerged(p) =>
          \A k \in Added(p) :
             LET e == main'.workflows[k]
                 image == main'.contracts[p.branch]
             IN IF p.branch[1] = Provisioner
                THEN e.provisioner = p.branch /\ image.baked = Absent
                ELSE e.endpoint = p.branch /\ image.baked = e.docs]_vars

(* "creates a new revision for each catalog workflow whose latest revision *)
(* references that contract" (README.md): when the merge of a provisioner  *)
(* promotion gives a workflow a new latest revision, it is the latest one  *)
(* of before the merge but for the provisioner, although the promotion was *)
(* computed from an older checkout. A latest revision that lacks a file is *)
(* left out: the merge may complete it with what it has computed.          *)
NewestKeepsTheRest ==
    [][\A p \in pulls : IsMerged(p) /\ p.branch[1] = Provisioner =>
          \A w \in Workflow :
             LatestEntry(main, w).files # "missing" => LatestEntry(main', w) \in
               {LatestEntry(main, w),
                [LatestEntry(main, w) EXCEPT !.provisioner = p.branch]}]_vars

(* "Existing Workspaces remain pinned" (workers' README.md): whatever is   *)
(* promoted, released and provisioned again in between, a workspace gets   *)
(* the same images every time.                                             *)
PinnedImages == \A s \in Workspace : Cardinality(given[s]) <= 1
=============================================================================
