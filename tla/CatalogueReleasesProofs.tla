----------------------- MODULE CatalogueReleasesProofs -----------------------
(* Proofs about CatalogueReleases: types, that nothing that was promoted or  *)
(* authored is ever changed, that workspaces stay pinned, and what a merge   *)
(* adds.                                                                     *)
EXTENDS CatalogueReleases, FiniteSetTheorems, WellFoundedInduction, TLAPS

-----------------------------------------------------------------------------
(* The newest of some revisions is one of them, and none is newer.           *)

Less == {p \in Nat \X Nat : p[1] < p[2]}

LEMMA LessIsWellFounded == IsWellFoundedOn(Less, Nat)
BY NatLessThanWellFounded DEF OpToRel, Less

LEMMA SmallestOf ==
    ASSUME NEW T \in SUBSET Nat, T # {}
    PROVE  \E x \in T : \A y \in T : x <= y
<1>1. PICK x \in T : \A y \in T : ~ (<<y, x>> \in Less)
  BY LessIsWellFounded, WFMin
<1>2. ASSUME NEW y \in T, ~ (x <= y)
      PROVE  <<y, x>> \in Less
  BY <1>2 DEF Less
<1>3. QED
  BY <1>1, <1>2

LEMMA LargestOf ==
    ASSUME NEW n \in Nat, NEW S \in SUBSET (0 .. n), S # {}
    PROVE  \E x \in S : \A y \in S : y <= x
<1> DEFINE T == {n - x : x \in S}
<1>1. T \in SUBSET Nat /\ T # {}
  <2>1. \A x \in S : n - x \in Nat
    OBVIOUS
  <2>2. T # {}
    OBVIOUS
  <2> QED
    BY <2>1, <2>2
<1>2. PICK t \in T : \A u \in T : t <= u
  <2> HIDE DEF T
  <2> QED
    BY <1>1, SmallestOf
<1>3. PICK x \in S : t = n - x
  BY <1>2
<1>4. ASSUME NEW y \in S
      PROVE  y <= x
  <2>1. n - y \in T
    OBVIOUS
  <2>2. t <= n - y
    BY <1>2, <2>1
  <2> QED
    BY <1>3, <2>2
<1>5. QED
  BY <1>4

LEMMA NewestIsOneOfThem ==
    ASSUME NEW R \in SUBSET Revision, R # {}
    PROVE  Newest(R) \in R /\ \A q \in R : ~ Before(Newest(R), q)
<1> DEFINE Minors == {r[1] : r \in R}
<1>1. Minors \in SUBSET (0 .. MaxMinor) /\ Minors # {}
  BY DEF Revision
<1>2. PICK m \in Minors : \A n \in Minors : n <= m
  <2> HIDE DEF Minors
  <2> QED
    BY <1>1, LargestOf, CatalogueAssumption
<1> DEFINE Patches == {r[2] : r \in {s \in R : s[1] = m}}
<1>3. Patches \in SUBSET (0 .. MaxPatch) /\ Patches # {}
  BY <1>2 DEF Revision
<1>4. PICK p \in Patches : \A q \in Patches : q <= p
  <2> HIDE DEF Patches
  <2> QED
    BY <1>3, LargestOf, CatalogueAssumption
<1>5. PICK r \in R : r[1] = m /\ r[2] = p
  BY <1>4
<1>6. ASSUME NEW q \in R
      PROVE  ~ Before(r, q)
  <2>1. q[1] \in Minors
    OBVIOUS
  <2>2. q[1] = m => q[2] \in Patches
    OBVIOUS
  <2>3. q[1] \in Nat /\ q[2] \in Nat /\ m \in Nat /\ p \in Nat
    BY <1>5, CatalogueAssumption DEF Revision
  <2>4. q[1] <= m /\ (q[1] = m => q[2] <= p)
    BY <1>2, <1>4, <2>1, <2>2
  <2> QED
    BY <1>5, <2>3, <2>4 DEF Before
<1>7. QED
  BY <1>6 DEF Newest

\* Of two revisions one comes before the other.
LEMMA RevisionsAreOrdered ==
    ASSUME NEW q \in Revision, NEW r \in Revision, ~ Before(q, r), ~ Before(r, q)
    PROVE  q = r
<1>1. q[1] \in Nat /\ q[2] \in Nat /\ r[1] \in Nat /\ r[2] \in Nat
  BY CatalogueAssumption DEF Revision
<1>2. q[1] = r[1] /\ q[2] = r[2]
  BY <1>1 DEF Before
<1>3. QED
  BY <1>2 DEF Revision

\* The newest of more revisions is the newest of fewer, if it is among them.
LEMMA NewestOfFewer ==
    ASSUME NEW S \in SUBSET Revision, NEW R \in SUBSET S, Newest(S) \in R
    PROVE  Newest(R) = Newest(S)
<1>1. Newest(R) \in R /\ ~ Before(Newest(R), Newest(S)) /\ ~ Before(Newest(S), Newest(R))
  BY NewestIsOneOfThem
<1>2. QED
  BY <1>1, RevisionsAreOrdered

\* When the patch that follows an older newest revision becomes the newest one, that older revision
\* is still the newest but for it: there is no revision in between.
LEMMA NothingInBetween ==
    ASSUME NEW S \in SUBSET Revision, NEW R \in SUBSET S, R # {},
           NEW n \in Revision, n = Following(Newest(R)), n \notin S, Newest(S \cup {n}) = n
    PROVE  Newest(S) = Newest(R)
<1> DEFINE b == Newest(R)
           l == Newest(S)
<1>1. b \in R /\ l \in S /\ ~ Before(l, b)
  BY NewestIsOneOfThem
<1>2. ~ Before(n, l)
  <2>1. S \cup {n} \in SUBSET Revision
    OBVIOUS
  <2> QED
    BY <1>1, <2>1, NewestIsOneOfThem
<1>3. /\ b[1] \in Nat /\ b[2] \in Nat /\ l[1] \in Nat /\ l[2] \in Nat
      /\ n[1] = b[1] /\ n[2] = b[2] + 1
  <2>1. b \in Revision /\ l \in Revision
    BY <1>1
  <2> HIDE DEF b, l
  <2>2. b[1] \in Nat /\ b[2] \in Nat /\ l[1] \in Nat /\ l[2] \in Nat
    BY <2>1, CatalogueAssumption DEF Revision
  <2>3. n = <<b[1], b[2] + 1>>
    BY DEF Following, b
  <2> QED
    BY <2>2, <2>3
<1>4. ~ Before(b, l)
  <2> SUFFICES ASSUME Before(b, l) PROVE FALSE
    OBVIOUS
  <2>1. l # n /\ l \in Revision
    BY <1>1
  <2> HIDE DEF b, l
  <2>2. l[1] # n[1] \/ l[2] # n[2]
    BY <2>1 DEF Revision
  <2> QED
    BY <1>2, <1>3, <2>2 DEF Before
<1>5. b \in Revision /\ l \in Revision
  BY <1>1
<1>6. QED
  BY <1>1, <1>4, <1>5, RevisionsAreOrdered

-----------------------------------------------------------------------------
(* Types.                                                                    *)

LEMMA AbsentIsApart ==
    /\ Absent \notin Entry
    /\ Absent \notin Image
BY CatalogueAssumption DEF Image

LEMMA LatestIsEntry ==
    ASSUME NEW c \in Catalogue, NEW w \in Workflow, Numbered(c, w)
    PROVE  LatestEntry(c, w) \in Entry
<1>1. Newest(Revisions(c, w)) \in Revisions(c, w)
  <2>1. Revisions(c, w) \in SUBSET Revision
    BY DEF Revisions
  <2> QED
    BY <2>1, NewestIsOneOfThem DEF Numbered
<1> DEFINE r == Newest(Revisions(c, w))
<1>2. r \in Revision /\ c.workflows[<<w, r>>] # Absent
  BY <1>1 DEF Revisions
<1>3. <<w, r>> \in WorkflowKey
  BY <1>2 DEF WorkflowKey
<1>4. QED
  BY <1>2, <1>3 DEF LatestEntry, Catalogue

\* An entry and a catalogue keep their types when a reference is changed and
\* when an entry is added.
LEMMA ReferencesAreTyped ==
    ASSUME NEW e \in Entry, NEW f \in Reference
    PROVE  /\ [e EXCEPT !.provisioner = f] \in Entry
           /\ [e EXCEPT !.endpoint = f] \in Entry
BY DEF Entry

LEMMA ImageIsTyped ==
    ASSUME NEW d \in Docs \cup {Absent}, NEW b \in 0 .. MaxBuilds
    PROVE  [baked |-> d, build |-> b] \in Image
BY DEF Image

LEMMA CatalogueIsTyped ==
    ASSUME NEW ws \in [WorkflowKey -> Entry \cup {Absent}],
           NEW cs \in [Reference -> Image \cup {Absent}]
    PROVE  [workflows |-> ws, contracts |-> cs] \in Catalogue
BY DEF Catalogue

-----------------------------------------------------------------------------
(* What the release tools write: only directories that were not there.       *)

Kept(old, new) == \A k \in DOMAIN old : old[k] # Absent => new[k] = old[k]
Adds(c, d) == Kept(c.workflows, d.workflows) /\ Kept(c.contracts, d.contracts)

LEMMA EndpointPromotionAdds ==
    ASSUME NEW c \in Catalogue, NEW k \in WorkflowKey, NEW b \in 0 .. MaxBuilds,
           EndpointReady(c, k)
    PROVE  /\ EndpointPromotion(c, k, b) \in Catalogue
           /\ Adds(c, EndpointPromotion(c, k, b))
           /\ <<k[1], NextContract(c, k[1])>> \in Reference
<1> DEFINE w == k[1]
           contract == <<w, NextContract(c, w)>>
           key == <<w, NextRevision(c, w)>>
           entry == [c.workflows[k] EXCEPT !.endpoint = contract]
           image == [baked |-> c.workflows[k].docs, build |-> b]
           ws == [c.workflows EXCEPT ![key] = entry]
           cs == [c.contracts EXCEPT ![contract] = image]
<1>1. /\ w \in Workflow
      /\ NextRevision(c, w) \in Revision /\ c.workflows[key] = Absent
      /\ NextContract(c, w) \in Revision /\ c.contracts[contract] = Absent
  BY DEF EndpointReady, Available, WorkflowKey
<1>2. key \in WorkflowKey /\ contract \in Reference
  BY <1>1 DEF WorkflowKey, Reference, ContractId
<1>3. c.workflows[k] \in Entry
  BY DEF EndpointReady, Catalogue
<1>4. entry \in Entry
  BY <1>2, <1>3, ReferencesAreTyped
<1>5. image \in Image
  <2>1. c.workflows[k].docs \in Docs
    BY <1>3 DEF Entry
  <2> QED
    BY <2>1, ImageIsTyped
<1>6. /\ c.workflows \in [WorkflowKey -> Entry \cup {Absent}]
      /\ c.contracts \in [Reference -> Image \cup {Absent}]
  BY DEF Catalogue
<1>7. EndpointPromotion(c, k, b) = [workflows |-> ws, contracts |-> cs]
  BY DEF EndpointPromotion
<1>8. ws \in [WorkflowKey -> Entry \cup {Absent}] /\ Kept(c.workflows, ws)
  <2> HIDE DEF key, entry
  <2> QED
    BY <1>1, <1>2, <1>4, <1>6 DEF Kept
<1>9. cs \in [Reference -> Image \cup {Absent}] /\ Kept(c.contracts, cs)
  <2> HIDE DEF contract, image
  <2> QED
    BY <1>1, <1>2, <1>5, <1>6 DEF Kept
<1>10. QED
  <2> HIDE DEF ws, cs
  <2> QED
    BY <1>2, <1>7, <1>8, <1>9, CatalogueIsTyped DEF Adds

LEMMA ProvisionerPromotionAdds ==
    ASSUME NEW c \in Catalogue, NEW b \in 0 .. MaxBuilds, ProvisionerReady(c)
    PROVE  /\ ProvisionerPromotion(c, b) \in Catalogue
           /\ Adds(c, ProvisionerPromotion(c, b))
           /\ <<Provisioner, NextContract(c, Provisioner)>> \in Reference
<1> DEFINE contract == <<Provisioner, NextContract(c, Provisioner)>>
           image == [baked |-> Absent, build |-> b]
           Writes(k) == k[1] \in Promoted(c) /\ k[2] = NextRevision(c, k[1])
           Copy(k) == [LatestEntry(c, k[1]) EXCEPT !.provisioner = contract]
           ws == [k \in WorkflowKey |-> IF Writes(k) THEN Copy(k)
                                                     ELSE c.workflows[k]]
           cs == [c.contracts EXCEPT ![contract] = image]
<1>1. \A w \in Promoted(c) : w \in Workflow /\ Available(c, Provisioner, w)
  BY DEF ProvisionerReady, Promoted
<1>2. /\ NextContract(c, Provisioner) \in Revision
      /\ c.contracts[contract] = Absent
  BY <1>1 DEF ProvisionerReady, Available
<1>3. contract \in Reference
  BY <1>2 DEF Reference, ContractId
<1>4. /\ c.workflows \in [WorkflowKey -> Entry \cup {Absent}]
      /\ c.contracts \in [Reference -> Image \cup {Absent}]
  BY DEF Catalogue
<1>5. ASSUME NEW k \in WorkflowKey, Writes(k)
      PROVE  c.workflows[k] = Absent /\ Copy(k) \in Entry
  <2>1. k[1] \in Workflow /\ Available(c, Provisioner, k[1])
    BY <1>1, <1>5
  <2>2. k = <<k[1], NextRevision(c, k[1])>>
    BY <1>5 DEF WorkflowKey
  <2>3. c.workflows[k] = Absent
    BY <2>1, <2>2 DEF Available
  <2>4. LatestEntry(c, k[1]) \in Entry
    BY <2>1, LatestIsEntry DEF ProvisionerReady
  <2> QED
    BY <1>3, <2>3, <2>4, ReferencesAreTyped
<1>6. image \in Image
  BY ImageIsTyped
<1>7. ProvisionerPromotion(c, b) = [workflows |-> ws, contracts |-> cs]
  BY DEF ProvisionerPromotion
<1>8. ws \in [WorkflowKey -> Entry \cup {Absent}] /\ Kept(c.workflows, ws)
  <2> HIDE DEF Writes, Copy
  <2> QED
    BY <1>4, <1>5 DEF Kept
<1>9. cs \in [Reference -> Image \cup {Absent}] /\ Kept(c.contracts, cs)
  <2> HIDE DEF contract, image
  <2> QED
    BY <1>2, <1>3, <1>4, <1>6 DEF Kept
<1>10. QED
  <2> HIDE DEF ws, cs
  <2> QED
    BY <1>3, <1>7, <1>8, <1>9, CatalogueIsTyped DEF Adds

-----------------------------------------------------------------------------
(* The invariant: every pull request only adds to the checkout it was made   *)
(* from, the default branch has only grown since the application was built,  *)
(* and a workspace that was provisioned got what the default branch holds.   *)

\* What a step may make of a catalogue: it adds directories, and the files a revision lacks.
OnlyCompleted(c, d) ==
    /\ \A k \in WorkflowKey : c.workflows[k] # Absent =>
          /\ d.workflows[k] # Absent
          /\ d.workflows[k] = c.workflows[k] \/ CompletedBy(c.workflows[k], d.workflows[k])
    /\ Kept(c.contracts, d.contracts)

\* What many steps may make of it.
Extends(c, d) ==
    /\ \A k \in WorkflowKey : c.workflows[k] # Absent =>
          /\ d.workflows[k] # Absent
          /\ c.workflows[k].files # "missing" => d.workflows[k] = c.workflows[k]
    /\ Kept(c.contracts, d.contracts)

Pinned(s) ==
    given[s] # {} =>
        /\ workspaces[s] \in WorkflowKey
        /\ main.workflows[workspaces[s]] # Absent
        /\ main.workflows[workspaces[s]].files # "missing"
        /\ Resolves(main, main.workflows[workspaces[s]])
        /\ given[s] = {Images(main, main.workflows[workspaces[s]])}

SourceOfItsContract(run) ==
    run.contract # Provisioner =>
        run.source \in WorkflowKey /\ run.source[1] = run.contract

IInv ==
    /\ TypeOK
    /\ \A run \in runs : SourceOfItsContract(run)
    /\ \A p \in pulls : Adds(p.base, p.head)
    /\ Extends(bundle, main)
    /\ \A s \in Workspace : Pinned(s)

LEMMA OnlyCompletedExtends ==
    ASSUME NEW c, NEW d, OnlyCompleted(c, d)
    PROVE  Extends(c, d)
BY DEF OnlyCompleted, Extends, CompletedBy

LEMMA KeptTransitively ==
    ASSUME NEW b \in Catalogue, NEW c \in Catalogue, NEW d \in Catalogue,
           Extends(b, c), Extends(c, d)
    PROVE  Extends(b, d)
<1>1. DOMAIN b.contracts = Reference /\ DOMAIN c.contracts = Reference
  BY DEF Catalogue
<1>2. Kept(b.contracts, d.contracts)
  BY <1>1 DEF Extends, Kept
<1>3. QED
  BY <1>2 DEF Extends

LEMMA KeptByItself ==
    ASSUME NEW c
    PROVE  OnlyCompleted(c, c) /\ Extends(c, c)
BY DEF OnlyCompleted, Extends, Kept

\* What is whole stays as it is when a catalogue is extended.
LEMMA ReadingIsKept ==
    ASSUME NEW c \in Catalogue, NEW d \in Catalogue, Extends(c, d),
           NEW k \in WorkflowKey, c.workflows[k] # Absent, c.workflows[k].files # "missing",
           Resolves(c, c.workflows[k])
    PROVE  /\ d.workflows[k] = c.workflows[k]
           /\ Resolves(d, d.workflows[k])
           /\ Images(d, d.workflows[k]) = Images(c, c.workflows[k])
<1>1. d.workflows[k] = c.workflows[k]
  BY DEF Extends
<1> DEFINE e == c.workflows[k]
<1>2. e \in Entry
  BY DEF Catalogue
<1>3. e.provisioner \in Reference /\ e.endpoint \in Reference
  BY <1>2 DEF Entry
<1>4. c.contracts[e.provisioner] # Absent /\ c.contracts[e.endpoint] # Absent
  BY DEF Resolves
<1>5. /\ d.contracts[e.provisioner] = c.contracts[e.provisioner]
      /\ d.contracts[e.endpoint] = c.contracts[e.endpoint]
  <2>1. DOMAIN c.contracts = Reference
    BY DEF Catalogue
  <2> QED
    BY <1>3, <1>4, <2>1 DEF Extends, Kept
<1>6. QED
  <2> HIDE DEF e
  <2>1. Resolves(d, e) /\ Images(d, e) = Images(c, e)
    BY <1>4, <1>5 DEF Resolves, Images
  <2> QED
    BY <1>1, <2>1 DEF e

LEMMA InitialInvariant == Init => IInv
<1> SUFFICES ASSUME Init PROVE IInv
  OBVIOUS
<1> DEFINE Entry0(k) == [docs |-> InitialDocs, provisioner |-> <<Provisioner, First>>,
                         endpoint |-> <<k[1], First>>, files |-> "whole"]
           Image0(f) == [baked |-> IF f[1] = Provisioner THEN Absent ELSE InitialDocs,
                         build |-> 0]
           ws == [k \in WorkflowKey |-> IF k[2] = First THEN Entry0(k) ELSE Absent]
           cs == [f \in Reference |-> IF f[2] = First THEN Image0(f) ELSE Absent]
<1>1. First \in Revision
  BY CatalogueAssumption DEF First, Revision
<1>2. \A k \in WorkflowKey : Entry0(k) \in Entry
  <2> SUFFICES ASSUME NEW k \in WorkflowKey PROVE Entry0(k) \in Entry
    OBVIOUS
  <2>1. <<Provisioner, First>> \in Reference /\ <<k[1], First>> \in Reference
    BY <1>1 DEF Reference, ContractId, WorkflowKey
  <2> QED
    BY <2>1, CatalogueAssumption DEF Entry, FileState
<1>3. \A f \in Reference : Image0(f) \in Image
  BY CatalogueAssumption DEF Image
<1>4. main = [workflows |-> ws, contracts |-> cs]
  BY DEF Init
<1>5. main \in Catalogue
  <2>1. ws \in [WorkflowKey -> Entry \cup {Absent}]
    <3> HIDE DEF Entry0
    <3> QED
      BY <1>2
  <2>2. cs \in [Reference -> Image \cup {Absent}]
    <3> HIDE DEF Image0
    <3> QED
      BY <1>3
  <2> HIDE DEF ws, cs
  <2> QED
    BY <1>4, <2>1, <2>2, CatalogueIsTyped
<1>6. TypeOK
  BY <1>5, CatalogueAssumption DEF Init, TypeOK
<1>7. Extends(bundle, main)
  BY KeptByItself DEF Init
<1>8. QED
  BY <1>6, <1>7 DEF Init, IInv, Pinned

LEMMA PinnedIsKept ==
    ASSUME TypeOK, main' \in Catalogue, Extends(main, main'),
           NEW s \in Workspace, Pinned(s),
           given'[s] = given[s], workspaces'[s] = workspaces[s]
    PROVE  Pinned(s)'
<1>1. CASE given[s] = {}
  BY <1>1 DEF Pinned
<1>2. CASE given[s] # {}
  <2> DEFINE k == workspaces[s]
  <2>1. /\ k \in WorkflowKey /\ main.workflows[k] # Absent /\ main.workflows[k].files # "missing"
        /\ Resolves(main, main.workflows[k])
        /\ given[s] = {Images(main, main.workflows[k])}
    BY <1>2 DEF Pinned
  <2>2. main \in Catalogue
    BY DEF TypeOK
  <2>3. /\ main'.workflows[k] = main.workflows[k]
        /\ Resolves(main', main'.workflows[k])
        /\ Images(main', main'.workflows[k]) = Images(main, main.workflows[k])
    BY <2>1, <2>2, ReadingIsKept
  <2> QED
    BY <2>1, <2>3 DEF Pinned
<1>3. QED
  BY <1>1, <1>2

LEMMA StartRunKeeps ==
    ASSUME IInv, NEW i \in ContractId, NEW k \in WorkflowKey \cup {Absent},
           i # Provisioner => k \in WorkflowKey /\ k[1] = i, StartRun(i, k)
    PROVE  IInv'
<1> DEFINE run == [contract |-> i, source |-> k, checkout |-> main]
<1>1. run \in Run /\ SourceOfItsContract(run)
  BY DEF IInv, TypeOK, Run, SourceOfItsContract
<1>2. runs' = runs \cup {run} /\ UNCHANGED <<main, pulls, bundle, workspaces, given, builds, authored>>
  BY DEF StartRun
<1>3. TypeOK'
  <2> HIDE DEF run
  <2> QED
    BY <1>1, <1>2 DEF IInv, TypeOK
<1>4. (\A r \in runs : SourceOfItsContract(r))'
  <2> HIDE DEF run
  <2> QED
    BY <1>1, <1>2 DEF IInv, SourceOfItsContract
<1>5. (\A p \in pulls : Adds(p.base, p.head))' /\ Extends(bundle, main)'
  BY <1>2 DEF IInv
<1>6. (\A s \in Workspace : Pinned(s))'
  BY <1>2 DEF IInv, Pinned
<1>7. QED
  BY <1>3, <1>4, <1>5, <1>6 DEF IInv

LEMMA OpenPullKeeps ==
    ASSUME IInv, NEW run \in runs, NEW head \in Catalogue,
           builds < MaxBuilds => Adds(run.checkout, head),
           <<run.contract, NextContract(run.checkout, run.contract)>> \in Reference,
           OpenPull(run, head)
    PROVE  IInv'
<1> DEFINE branch == <<run.contract, NextContract(run.checkout, run.contract)>>
           pull == [branch |-> branch, base |-> run.checkout, head |-> head]
<1>1. run \in Run
  BY DEF IInv, TypeOK
<1>2. pull \in Pull /\ Adds(pull.base, pull.head)
  BY <1>1 DEF OpenPull, Pull, Run
<1>3. /\ builds < MaxBuilds /\ builds' = builds + 1
      /\ runs' \subseteq runs
      /\ pulls' \subseteq pulls \cup {pull}
      /\ UNCHANGED <<main, bundle, workspaces, given, authored>>
  BY DEF OpenPull
<1>4. TypeOK'
  <2>1. builds' \in 0 .. MaxBuilds
    BY <1>3, CatalogueAssumption DEF IInv, TypeOK
  <2> HIDE DEF pull
  <2> QED
    BY <1>2, <1>3, <2>1 DEF IInv, TypeOK
<1>5. (\A r \in runs : SourceOfItsContract(r))'
  BY <1>3 DEF IInv, SourceOfItsContract
<1>6. (\A p \in pulls : Adds(p.base, p.head))' /\ Extends(bundle, main)'
  <2> HIDE DEF pull
  <2> QED
    BY <1>2, <1>3 DEF IInv
<1>7. (\A s \in Workspace : Pinned(s))'
  BY <1>3 DEF IInv, Pinned
<1>8. QED
  BY <1>4, <1>5, <1>6, <1>7 DEF IInv

LEMMA PublishKeeps ==
    ASSUME IInv, NEW run \in runs, PublishEndpoint(run) \/ PublishProvisioner(run)
    PROVE  IInv'
<1> DEFINE c == run.checkout
<1>1. run \in Run /\ c \in Catalogue
  BY DEF IInv, TypeOK, Run
<1>2. builds < MaxBuilds => builds + 1 \in 0 .. MaxBuilds
  BY CatalogueAssumption DEF IInv, TypeOK
<1>3. builds < MaxBuilds
  BY DEF PublishEndpoint, PublishProvisioner, OpenPull
<1>4. CASE PublishEndpoint(run)
  <2>1. run.source \in WorkflowKey /\ run.source[1] = run.contract
    BY <1>4 DEF PublishEndpoint, IInv, SourceOfItsContract
  <2> DEFINE head == EndpointPromotion(c, run.source, builds + 1)
  <2>2. /\ head \in Catalogue /\ Adds(c, head)
        /\ <<run.contract, NextContract(c, run.contract)>> \in Reference
    BY <1>1, <1>2, <1>3, <1>4, <2>1, EndpointPromotionAdds DEF PublishEndpoint
  <2>3. OpenPull(run, head)
    BY <1>4 DEF PublishEndpoint
  <2> HIDE DEF head
  <2> QED
    BY <2>2, <2>3, OpenPullKeeps
<1>5. CASE PublishProvisioner(run)
  <2> DEFINE head == ProvisionerPromotion(c, builds + 1)
  <2>1. /\ head \in Catalogue /\ Adds(c, head)
        /\ <<run.contract, NextContract(c, run.contract)>> \in Reference
    BY <1>1, <1>2, <1>3, <1>5, ProvisionerPromotionAdds DEF PublishProvisioner
  <2>2. OpenPull(run, head)
    BY <1>5 DEF PublishProvisioner
  <2> HIDE DEF head
  <2> QED
    BY <2>1, <2>2, OpenPullKeeps
<1>6. QED
  BY <1>4, <1>5

\* A step that adds to the default branch, and to nothing else but the bounds.
LEMMA GrowthKeeps ==
    ASSUME IInv, main' \in Catalogue, Extends(main, main'),
           pulls' \subseteq pulls, authored' \in 0 .. MaxAuthored,
           UNCHANGED <<runs, bundle, workspaces, given, builds>>
    PROVE  IInv'
<1>1. TypeOK'
  BY DEF IInv, TypeOK
<1>2. (\A r \in runs : SourceOfItsContract(r))'
  BY DEF IInv, SourceOfItsContract
<1>3. (\A p \in pulls : Adds(p.base, p.head))'
  BY DEF IInv
<1>4. Extends(bundle, main)'
  <2>1. Extends(bundle, main')
    BY KeptTransitively DEF IInv, TypeOK
  <2> QED
    BY <2>1
<1>5. (\A s \in Workspace : Pinned(s))'
  <2> SUFFICES ASSUME NEW s \in Workspace PROVE Pinned(s)'
    OBVIOUS
  <2> QED
    BY PinnedIsKept DEF IInv
<1>6. QED
  BY <1>1, <1>2, <1>3, <1>4, <1>5 DEF IInv

LEMMA MergeGrows ==
    ASSUME IInv, NEW p \in pulls, Merge(p)
    PROVE  main' \in Catalogue /\ OnlyCompleted(main, main')
<1>1. p \in Pull /\ Adds(p.base, p.head) /\ main \in Catalogue
  BY DEF IInv, TypeOK
<1> DEFINE W(c) == c.workflows \in [WorkflowKey -> Entry \cup {Absent}]
           C(c) == c.contracts \in [Reference -> Image \cup {Absent}]
<1>2. /\ W(p.base) /\ W(p.head) /\ W(main)
      /\ C(p.base) /\ C(p.head) /\ C(main)
  BY <1>1 DEF Pull, Catalogue
<1> DEFINE ws == [k \in WorkflowKey |-> IF k \in Added(p) THEN p.head.workflows[k]
                                                         ELSE main.workflows[k]]
           cs == [f \in Reference |-> IF f \in AddedContracts(p) THEN p.head.contracts[f]
                                                               ELSE main.contracts[f]]
<1>3. \A k \in Added(p) : p.base.workflows[k] = Absent /\ p.head.workflows[k] # Absent
  BY <1>1, <1>2 DEF Added, Adds, Kept
<1>4. \A f \in AddedContracts(p) : p.base.contracts[f] = Absent
  BY <1>1, <1>2 DEF AddedContracts, Adds, Kept
<1>5. ws \in [WorkflowKey -> Entry \cup {Absent}]
  BY <1>2
<1>6. ASSUME NEW k \in WorkflowKey, main.workflows[k] # Absent
      PROVE  ws[k] # Absent /\ (ws[k] = main.workflows[k] \/ CompletedBy(main.workflows[k], ws[k]))
  <2>1. CASE k \in Added(p)
    <3>1. FitsRevision(p, k)
      BY <2>1 DEF Merge
    <3> QED
      BY <1>3, <1>6, <2>1, <3>1 DEF FitsRevision
  <2>2. CASE k \notin Added(p)
    BY <1>6, <2>2
  <2> QED
    BY <2>1, <2>2
<1>7. cs \in [Reference -> Image \cup {Absent}]
  BY <1>2
<1>8. Kept(main.contracts, cs)
  <2> SUFFICES ASSUME NEW f \in Reference, main.contracts[f] # Absent
               PROVE  cs[f] = main.contracts[f]
    BY <1>2 DEF Kept
  <2>1. f \in AddedContracts(p) => FitsContract(p, f)
    BY DEF Merge
  <2> QED
    BY <1>4, <2>1 DEF FitsContract
<1>9. main' = [workflows |-> ws, contracts |-> cs]
  BY DEF Merge
<1>10. QED
  <2> HIDE DEF ws, cs
  <2> QED
    BY <1>5, <1>6, <1>7, <1>8, <1>9, CatalogueIsTyped DEF OnlyCompleted

LEMMA AuthorGrows ==
    ASSUME IInv, NEW k \in WorkflowKey, NEW e \in Entry, Author(k, e)
    PROVE  main' \in Catalogue /\ OnlyCompleted(main, main')
<1> DEFINE ws == [main.workflows EXCEPT ![k] = e]
<1>1. /\ main.workflows \in [WorkflowKey -> Entry \cup {Absent}]
      /\ main.contracts \in [Reference -> Image \cup {Absent}]
      /\ main = [workflows |-> main.workflows, contracts |-> main.contracts]
  BY DEF IInv, TypeOK, Catalogue
<1>2. /\ ws \in [WorkflowKey -> Entry \cup {Absent}]
      /\ \A j \in WorkflowKey : main.workflows[j] # Absent => ws[j] = main.workflows[j]
  BY <1>1 DEF Author
<1>3. main' = [workflows |-> ws, contracts |-> main.contracts]
  BY <1>1 DEF Author
<1>4. QED
  <2> HIDE DEF ws
  <2> QED
    BY <1>1, <1>2, <1>3, CatalogueIsTyped DEF OnlyCompleted, Kept

LEMMA FewerKeep ==
    ASSUME IInv, runs' \subseteq runs, pulls' \subseteq pulls,
           UNCHANGED <<main, bundle, workspaces, given, builds, authored>>
    PROVE  IInv'
BY DEF IInv, TypeOK, SourceOfItsContract, Pinned

LEMMA ReleaseKeeps ==
    ASSUME IInv, Release
    PROVE  IInv'
<1>1. TypeOK' /\ Extends(bundle, main)'
  BY KeptByItself DEF Release, IInv, TypeOK
<1>2. QED
  BY <1>1 DEF Release, IInv, SourceOfItsContract, Pinned

LEMMA CreateWorkspaceKeeps ==
    ASSUME IInv, NEW s \in Workspace, NEW k \in WorkflowKey, CreateWorkspace(s, k)
    PROVE  IInv'
<1>1. /\ workspaces' = [workspaces EXCEPT ![s] = k] /\ workspaces[s] = Absent
      /\ UNCHANGED <<main, runs, pulls, bundle, given, builds, authored>>
  BY DEF CreateWorkspace
<1>2. TypeOK'
  BY <1>1 DEF IInv, TypeOK
<1>3. ASSUME NEW t \in Workspace
      PROVE  Pinned(t)'
  <2>1. given[s] = {}
    BY <1>1, CatalogueAssumption DEF IInv, Pinned
  <2>2. t # s => workspaces'[t] = workspaces[t]
    BY <1>1 DEF IInv, TypeOK
  <2> QED
    BY <1>1, <2>1, <2>2 DEF IInv, Pinned
<1>4. QED
  BY <1>1, <1>2, <1>3 DEF IInv, SourceOfItsContract

LEMMA ProvisionKeeps ==
    ASSUME IInv, NEW s \in Workspace, Provision(s)
    PROVE  IInv'
<1> DEFINE k == workspaces[s]
           images == Images(bundle, bundle.workflows[k])
<1>1. /\ k \in WorkflowKey /\ bundle.workflows[k] # Absent /\ bundle.workflows[k].files # "missing"
      /\ Resolves(bundle, bundle.workflows[k])
      /\ given' = [given EXCEPT ![s] = @ \cup {images}]
      /\ UNCHANGED <<main, runs, pulls, bundle, workspaces, builds, authored>>
  BY DEF Provision, Readable, Decodes, Directories, IInv, TypeOK
<1>2. /\ main.workflows[k] = bundle.workflows[k]
      /\ Resolves(main, main.workflows[k])
      /\ Images(main, main.workflows[k]) = images
  BY <1>1, ReadingIsKept DEF IInv, TypeOK
<1>3. images \in Image \X Image
  <2>1. bundle.workflows[k] \in Entry /\ bundle.contracts \in [Reference -> Image \cup {Absent}]
    BY <1>1 DEF IInv, TypeOK, Catalogue
  <2> QED
    BY <1>1, <2>1 DEF Images, Resolves, Entry
<1>4. TypeOK'
  <2> HIDE DEF images
  <2> QED
    BY <1>1, <1>3 DEF IInv, TypeOK
<1>5. ASSUME NEW t \in Workspace
      PROVE  Pinned(t)'
  <2>1. CASE t = s
    <3>1. given[s] \subseteq {images}
      BY <1>2 DEF IInv, Pinned
    <3>2. given'[s] = {images}
      <4> HIDE DEF images
      <4> QED
        BY <1>1, <3>1 DEF IInv, TypeOK
    <3> HIDE DEF images
    <3> QED
      BY <1>1, <1>2, <2>1, <3>2 DEF Pinned
  <2>2. CASE t # s
    <3>1. given'[t] = given[t]
      BY <1>1, <2>2 DEF IInv, TypeOK
    <3> QED
      BY <1>1, <3>1 DEF IInv, Pinned
  <2> QED
    BY <2>1, <2>2
<1>6. QED
  BY <1>1, <1>4, <1>5 DEF IInv, SourceOfItsContract

LEMMA DeleteWorkspaceKeeps ==
    ASSUME IInv, NEW s \in Workspace, DeleteWorkspace(s)
    PROVE  IInv'
<1>1. /\ workspaces' = [workspaces EXCEPT ![s] = Absent]
      /\ given' = [given EXCEPT ![s] = {}]
      /\ UNCHANGED <<main, runs, pulls, bundle, builds, authored>>
  BY DEF DeleteWorkspace
<1>2. TypeOK'
  BY <1>1 DEF IInv, TypeOK
<1>3. ASSUME NEW t \in Workspace
      PROVE  Pinned(t)'
  <2>1. CASE t = s
    BY <1>1, <2>1 DEF IInv, TypeOK, Pinned
  <2>2. CASE t # s
    <3>1. given'[t] = given[t] /\ workspaces'[t] = workspaces[t]
      BY <1>1, <2>2 DEF IInv, TypeOK
    <3> QED
      BY <1>1, <3>1 DEF IInv, Pinned
  <2> QED
    BY <2>1, <2>2
<1>4. QED
  BY <1>1, <1>2, <1>3 DEF IInv, SourceOfItsContract

\* Every step keeps the invariant and only adds to the default branch.
LEMMA StepKeeps ==
    ASSUME IInv, [Next]_vars
    PROVE  IInv' /\ OnlyCompleted(main, main')
<1>1. CASE UNCHANGED vars
  BY <1>1, FewerKeep, KeptByItself DEF vars
<1>2. CASE DeployEndpoint
  <2>1. PICK k \in WorkflowKey : StartRun(k[1], k)
    BY <1>2 DEF DeployEndpoint
  <2>2. k[1] \in ContractId
    BY DEF ContractId, WorkflowKey
  <2> QED
    BY <2>1, <2>2, StartRunKeeps, KeptByItself DEF StartRun
<1>3. CASE DeployProvisioner
  <2>1. StartRun(Provisioner, Absent) /\ Provisioner \in ContractId
    BY <1>3 DEF DeployProvisioner, ContractId
  <2> QED
    BY <2>1, StartRunKeeps, KeptByItself DEF StartRun
<1>4. CASE \E run \in runs : PublishEndpoint(run) \/ PublishProvisioner(run)
  BY <1>4, PublishKeeps, KeptByItself DEF PublishEndpoint, PublishProvisioner, OpenPull
<1>5. CASE \E run \in runs : FailRun(run)
  BY <1>5, FewerKeep, KeptByItself DEF FailRun
<1>6. CASE \E p \in pulls : Merge(p)
  <2>1. PICK p \in pulls : Merge(p)
    BY <1>6
  <2>2. main' \in Catalogue /\ OnlyCompleted(main, main')
    BY <2>1, MergeGrows
  <2>3. /\ pulls' \subseteq pulls /\ authored' \in 0 .. MaxAuthored
        /\ UNCHANGED <<runs, bundle, workspaces, given, builds>>
    BY <2>1 DEF Merge, IInv, TypeOK
  <2> QED
    BY <2>2, <2>3, OnlyCompletedExtends, GrowthKeeps
<1>7. CASE \E p \in pulls : ClosePull(p)
  BY <1>7, FewerKeep, KeptByItself DEF ClosePull
<1>8. CASE \E a \in AuthoredRevisions : Author(a[1], a[2])
  <2>1. PICK a \in AuthoredRevisions : Author(a[1], a[2])
    BY <1>8
  <2>2. a[1] \in WorkflowKey /\ a[2] \in Entry
    BY CatalogueAssumption
  <2>3. main' \in Catalogue /\ OnlyCompleted(main, main')
    BY <2>1, <2>2, AuthorGrows
  <2>4. /\ pulls' \subseteq pulls /\ authored' \in 0 .. MaxAuthored
        /\ UNCHANGED <<runs, bundle, workspaces, given, builds>>
    BY <2>1, CatalogueAssumption DEF Author, IInv, TypeOK
  <2> QED
    BY <2>3, <2>4, OnlyCompletedExtends, GrowthKeeps
<1>9. CASE Release
  BY <1>9, ReleaseKeeps, KeptByItself DEF Release
<1>10. CASE \E s \in Workspace, k \in WorkflowKey : CreateWorkspace(s, k)
  BY <1>10, CreateWorkspaceKeeps, KeptByItself DEF CreateWorkspace
<1>11. CASE \E s \in Workspace : Provision(s)
  BY <1>11, ProvisionKeeps, KeptByItself DEF Provision
<1>12. CASE \E s \in Workspace : DeleteWorkspace(s)
  BY <1>12, DeleteWorkspaceKeeps, KeptByItself DEF DeleteWorkspace
<1>13. QED
  BY <1>1, <1>2, <1>3, <1>4, <1>5, <1>6, <1>7, <1>8, <1>9, <1>10, <1>11, <1>12
  DEF Next

LEMMA Invariant == Spec => []IInv
<1>1. IInv /\ [Next]_vars => IInv'
  BY StepKeeps
<1>2. QED
  BY InitialInvariant, <1>1, PTL DEF Spec

-----------------------------------------------------------------------------
(* Every catalogue of a checkout, a pull request, the default branch and the *)
(* application always has the form the release tools and the application     *)
(* read, and every history its type.                                         *)
THEOREM TypeCorrect == Spec => []TypeOK
<1>1. IInv => TypeOK
  BY DEF IInv
<1>2. QED
  BY Invariant, <1>1, PTL

(* "Release tooling creates new revisions instead of modifying existing      *)
(* ones" (README.md): no step changes or removes a contract of the default   *)
(* branch or a revision that has all its files, and to one that lacks some   *)
(* it can only add them, however many runs promote concurrently.             *)
THEOREM NothingIsRewritten == Spec => [][OnlyCompleted(main, main')]_vars
<1>1. IInv /\ [Next]_vars => [OnlyCompleted(main, main')]_vars
  BY StepKeeps
<1>2. QED
  BY Invariant, <1>1, PTL DEF Spec

(* "Existing Workspaces remain pinned" (the workers' README.md): however     *)
(* often a workspace is provisioned, with whatever was promoted and released *)
(* in between, it gets one pair of images.                                   *)
THEOREM WorkspacesArePinned == Spec => []PinnedImages
<1>1. IInv => PinnedImages
  <2> SUFFICES ASSUME IInv, NEW s \in Workspace
               PROVE  Cardinality(given[s]) <= 1
    BY DEF PinnedImages
  <2>1. CASE given[s] = {}
    BY <2>1, FS_EmptySet
  <2>2. CASE given[s] # {}
    <3>1. PICK x : given[s] = {x}
      BY <2>2 DEF IInv, Pinned
    <3>2. Cardinality(given[s]) = 1
      BY <3>1, FS_Singleton
    <3> QED
      BY <3>2
  <2> QED
    BY <2>1, <2>2
<1>2. QED
  BY Invariant, <1>1, PTL

-----------------------------------------------------------------------------
(* What a merge does, whatever was merged or authored since the checkout.    *)

\* What the release tools have computed from the base of a pull request: a contract under its branch
\* and revisions that refer to it, each with the documents of its image, or with everything but the
\* provisioner of the latest revision.
Computed(p) ==
    /\ p.base.contracts[p.branch] = Absent /\ p.head.contracts[p.branch] \in Image
    /\ p.branch[1] = Provisioner =>
          /\ p.head.contracts[p.branch].baked = Absent
          /\ \A k \in Added(p) :
                /\ Numbered(p.base, k[1]) /\ k[2] = NextRevision(p.base, k[1])
                /\ LatestEntry(p.base, k[1]).files # "missing"
                /\ p.head.workflows[k] = [LatestEntry(p.base, k[1]) EXCEPT !.provisioner = p.branch]
    /\ p.branch[1] # Provisioner =>
          \A k \in Added(p) :
             /\ p.head.workflows[k].endpoint = p.branch
             /\ p.head.workflows[k].docs = p.head.contracts[p.branch].baked

PullsInv ==
    /\ \A run \in runs : Extends(run.checkout, main)
    /\ \A p \in pulls : Extends(p.base, main) /\ Computed(p)

LEMMA EndpointIsComputed ==
    ASSUME NEW c \in Catalogue, NEW k \in WorkflowKey, NEW b \in 0 .. MaxBuilds, EndpointReady(c, k)
    PROVE  Computed([branch |-> <<k[1], NextContract(c, k[1])>>, base |-> c, head |-> EndpointPromotion(c, k, b)])
<1> DEFINE w == k[1]
           contract == <<w, NextContract(c, w)>>
           key == <<w, NextRevision(c, w)>>
           entry == [c.workflows[k] EXCEPT !.endpoint = contract]
           image == [baked |-> c.workflows[k].docs, build |-> b]
           head == EndpointPromotion(c, k, b)
           p == [branch |-> contract, base |-> c, head |-> head]
<1>1. /\ w \in Workflow /\ w # Provisioner
      /\ c.contracts[contract] = Absent /\ contract \in Reference
      /\ c.workflows[k] \in Entry
  <2>1. w \in Workflow /\ NextContract(c, w) \in Revision /\ c.contracts[contract] = Absent
    BY DEF EndpointReady, Available, WorkflowKey
  <2>2. c.workflows[k] \in Entry
    BY DEF EndpointReady, Catalogue
  <2> QED
    BY <2>1, <2>2, CatalogueAssumption DEF Reference, ContractId
<1>2. entry.endpoint = contract /\ entry.docs = c.workflows[k].docs /\ c.workflows[k].docs \in Docs
  BY <1>1 DEF Entry
<1>3. /\ head.workflows = [c.workflows EXCEPT ![key] = entry]
      /\ head.contracts = [c.contracts EXCEPT ![contract] = image]
      /\ c.workflows \in [WorkflowKey -> Entry \cup {Absent}]
      /\ c.contracts \in [Reference -> Image \cup {Absent}]
  BY DEF EndpointPromotion, Catalogue
<1>4. image \in Image /\ image.baked = c.workflows[k].docs
  BY <1>2, ImageIsTyped
<1> HIDE DEF w, entry, image, head, key, contract
<1>5. head.contracts[contract] = image
  BY <1>1, <1>3
<1>6. ASSUME NEW a \in WorkflowKey, head.workflows[a] # c.workflows[a]
      PROVE  head.workflows[a] = entry
  BY <1>3, <1>6
<1>7. contract[1] = w
  BY DEF contract
<1>8. Computed(p)
  BY <1>1, <1>2, <1>4, <1>5, <1>6, <1>7 DEF Computed, Added
<1>9. QED
  BY <1>8 DEF head, contract, w

LEMMA ProvisionerIsComputed ==
    ASSUME NEW c \in Catalogue, NEW b \in 0 .. MaxBuilds, ProvisionerReady(c)
    PROVE  Computed([branch |-> <<Provisioner, NextContract(c, Provisioner)>>, base |-> c,
                     head |-> ProvisionerPromotion(c, b)])
<1> DEFINE contract == <<Provisioner, NextContract(c, Provisioner)>>
           image == [baked |-> Absent, build |-> b]
           head == ProvisionerPromotion(c, b)
           p == [branch |-> contract, base |-> c, head |-> head]
<1>1. contract \in Reference /\ c.contracts[contract] = Absent
  BY DEF ProvisionerReady, Available, Promoted, Reference, ContractId
<1>2. /\ head.contracts = [c.contracts EXCEPT ![contract] = image]
      /\ c.contracts \in [Reference -> Image \cup {Absent}]
      /\ \A k \in WorkflowKey :
            head.workflows[k] = IF k[1] \in Promoted(c) /\ k[2] = NextRevision(c, k[1])
                                THEN [LatestEntry(c, k[1]) EXCEPT !.provisioner = contract]
                                ELSE c.workflows[k]
  BY DEF ProvisionerPromotion, Catalogue
<1>3. image \in Image /\ image.baked = Absent
  BY ImageIsTyped
<1>4. \A w \in Promoted(c) : Numbered(c, w) /\ LatestEntry(c, w).files # "missing"
  BY DEF ProvisionerReady, Promoted, Copyable
<1> HIDE DEF contract, image, head
<1>5. head.contracts[contract] = image
  BY <1>1, <1>2
<1>6. ASSUME NEW k \in WorkflowKey, head.workflows[k] # c.workflows[k]
      PROVE  /\ Numbered(c, k[1]) /\ k[2] = NextRevision(c, k[1])
             /\ LatestEntry(c, k[1]).files # "missing"
             /\ head.workflows[k] = [LatestEntry(c, k[1]) EXCEPT !.provisioner = contract]
  BY <1>2, <1>4, <1>6
<1>7. contract[1] = Provisioner
  BY DEF contract
<1>8. Computed(p)
  BY <1>1, <1>3, <1>5, <1>6, <1>7 DEF Computed, Added
<1>9. QED
  BY <1>8 DEF head, contract

\* A run and an open pull request stay based on what the default branch holds, and no step changes
\* what was computed.
LEMMA PullsStep ==
    ASSUME IInv, PullsInv, [Next]_vars
    PROVE  PullsInv'
<1>1. main \in Catalogue /\ main' \in Catalogue /\ Extends(main, main')
  BY StepKeeps, OnlyCompletedExtends DEF IInv, TypeOK
<1>2. ASSUME NEW c \in Catalogue, Extends(c, main)
      PROVE  Extends(c, main')
  BY <1>1, <1>2, KeptTransitively
<1>3. /\ \A run \in runs : run.checkout \in Catalogue /\ Extends(run.checkout, main')
      /\ \A p \in pulls : Extends(p.base, main') /\ Computed(p)
  <2>1. \A run \in runs : run.checkout \in Catalogue
    BY DEF IInv, TypeOK, Run
  <2>2. \A p \in pulls : p.base \in Catalogue
    BY DEF IInv, TypeOK, Pull
  <2> QED
    BY <1>2, <2>1, <2>2 DEF PullsInv
<1>4. CASE DeployEndpoint \/ DeployProvisioner
  <2>1. PICK i, k : StartRun(i, k)
    BY <1>4 DEF DeployEndpoint, DeployProvisioner
  <2>2. /\ pulls' = pulls /\ main' = main
        /\ \A run \in runs' : run \in runs \/ run.checkout = main
    BY <2>1 DEF StartRun
  <2> QED
    BY <1>3, <2>2, KeptByItself DEF PullsInv
<1>5. ASSUME NEW run \in runs, PublishEndpoint(run) \/ PublishProvisioner(run)
      PROVE  PullsInv'
  <2>1. PICK head : /\ OpenPull(run, head)
                    /\ Computed([branch |-> <<run.contract, NextContract(run.checkout, run.contract)>>,
                                 base |-> run.checkout, head |-> head])
    <3>1. run.checkout \in Catalogue /\ (builds < MaxBuilds => builds + 1 \in 0 .. MaxBuilds)
      BY CatalogueAssumption DEF IInv, TypeOK, Run
    <3>2. builds < MaxBuilds
      BY <1>5 DEF PublishEndpoint, PublishProvisioner, OpenPull
    <3>3. CASE PublishEndpoint(run)
      <4>1. run.source \in WorkflowKey /\ run.source[1] = run.contract
        BY <3>3 DEF PublishEndpoint, IInv, SourceOfItsContract
      <4>2. /\ EndpointReady(run.checkout, run.source)
            /\ OpenPull(run, EndpointPromotion(run.checkout, run.source, builds + 1))
        BY <3>3 DEF PublishEndpoint
      <4> QED
        BY <3>1, <3>2, <4>1, <4>2, EndpointIsComputed
    <3>4. CASE PublishProvisioner(run)
      <4>1. /\ run.contract = Provisioner /\ ProvisionerReady(run.checkout)
            /\ OpenPull(run, ProvisionerPromotion(run.checkout, builds + 1))
        BY <3>4 DEF PublishProvisioner
      <4> QED
        BY <3>1, <3>2, <4>1, ProvisionerIsComputed
    <3> QED
      BY <1>5, <3>3, <3>4
  <2> DEFINE pull == [branch |-> <<run.contract, NextContract(run.checkout, run.contract)>>,
                      base |-> run.checkout, head |-> head]
  <2>2. runs' \subseteq runs /\ pulls' \subseteq pulls \cup {pull}
    BY <2>1 DEF OpenPull
  <2>3. Extends(pull.base, main') /\ Computed(pull)
    BY <1>3, <2>1
  <2> HIDE DEF pull
  <2> QED
    BY <1>3, <2>2, <2>3 DEF PullsInv
<1>6. ASSUME runs' \subseteq runs, pulls' \subseteq pulls
      PROVE  PullsInv'
  BY <1>3, <1>6 DEF PullsInv
<1>7. CASE \/ \E run \in runs : FailRun(run)
           \/ \E p \in pulls : Merge(p) \/ ClosePull(p)
           \/ \E a \in AuthoredRevisions : Author(a[1], a[2])
           \/ Release
           \/ \E s \in Workspace : \/ \E k \in WorkflowKey : CreateWorkspace(s, k)
                                   \/ Provision(s) \/ DeleteWorkspace(s)
           \/ UNCHANGED vars
  <2>1. runs' \subseteq runs /\ pulls' \subseteq pulls
    BY <1>7 DEF FailRun, Merge, ClosePull, Author, Release, CreateWorkspace, Provision, DeleteWorkspace, vars
  <2> QED
    BY <1>6, <2>1
<1>8. QED
  BY <1>4, <1>5, <1>7 DEF Next

LEMMA PullsInvariant == Spec => []PullsInv
<1>1. Init => PullsInv
  BY DEF Init, PullsInv
<1>2. QED
  BY <1>1, PullsStep, Invariant, PTL DEF Spec

\* Only the merge of a pull request removes it and changes the default branch.
LEMMA OnlyMergesMerge ==
    ASSUME [Next]_vars, NEW p \in pulls, IsMerged(p)
    PROVE  Merge(p)
<1>1. ASSUME NEW q \in pulls, Merge(q)
      PROVE  Merge(p)
  <2>1. p = q
    BY <1>1 DEF Merge, IsMerged
  <2> QED
    BY <1>1, <2>1
<1>2. QED
  BY <1>1 DEF IsMerged, Next, vars, DeployEndpoint, DeployProvisioner, StartRun, PublishEndpoint, PublishProvisioner,
              OpenPull, FailRun, ClosePull, Author, Release, CreateWorkspace, Provision, DeleteWorkspace

\* What the default branch holds after a merge: what was added, and the rest as before.
LEMMA MergeWrites ==
    ASSUME IInv, PullsInv, NEW p \in pulls, Merge(p)
    PROVE  /\ \A k \in WorkflowKey :
                 main'.workflows[k] = IF k \in Added(p) THEN p.head.workflows[k] ELSE main.workflows[k]
           /\ \A k \in Added(p) : k \in WorkflowKey
                 /\ \/ main.workflows[k] \in {Absent, p.head.workflows[k]}
                    \/ main.workflows[k] # Absent /\ main.workflows[k].files = "missing"
           /\ main'.contracts[p.branch] = p.head.contracts[p.branch]
<1>1. /\ p.base \in Catalogue /\ p.head \in Catalogue /\ main \in Catalogue
      /\ p.branch \in Reference /\ Adds(p.base, p.head) /\ Computed(p)
  BY DEF IInv, TypeOK, Pull, PullsInv
<1>2. DOMAIN p.head.workflows = WorkflowKey /\ DOMAIN p.base.workflows = WorkflowKey
  BY <1>1 DEF Catalogue
<1>3. \A k \in WorkflowKey :
         main'.workflows[k] = IF k \in Added(p) THEN p.head.workflows[k] ELSE main.workflows[k]
  BY DEF Merge
<1>4. ASSUME NEW k \in Added(p)
      PROVE  k \in WorkflowKey
             /\ \/ main.workflows[k] \in {Absent, p.head.workflows[k]}
                \/ main.workflows[k] # Absent /\ main.workflows[k].files = "missing"
  <2>1. k \in WorkflowKey /\ p.head.workflows[k] # p.base.workflows[k]
    BY DEF Added
  <2>2. p.base.workflows[k] = Absent
    BY <1>1, <1>2, <2>1 DEF Adds, Kept
  <2>3. FitsRevision(p, k)
    BY DEF Merge
  <2> QED
    BY <2>1, <2>2, <2>3 DEF FitsRevision, CompletedBy
<1>5. main'.contracts[p.branch] = p.head.contracts[p.branch]
  <2>1. p.branch \in AddedContracts(p)
    BY <1>1, AbsentIsApart DEF Computed, AddedContracts
  <2> QED
    BY <1>1, <2>1 DEF Merge
<1>6. QED
  BY <1>3, <1>4, <1>5

\* Entries of a provisioner promotion refer to its contract.
LEMMA PromotedEntry ==
    ASSUME IInv, PullsInv, NEW p \in pulls, p.branch[1] = Provisioner, NEW k \in Added(p)
    PROVE  p.head.workflows[k] \in Entry /\ p.head.workflows[k].provisioner = p.branch
<1>1. p.base \in Catalogue /\ k[1] \in Workflow /\ Numbered(p.base, k[1])
  BY DEF IInv, TypeOK, Pull, PullsInv, Computed, Added, WorkflowKey
<1>2. LatestEntry(p.base, k[1]) \in Entry
  BY <1>1, LatestIsEntry
<1>3. p.head.workflows[k] = [LatestEntry(p.base, k[1]) EXCEPT !.provisioner = p.branch]
  BY DEF PullsInv, Computed
<1>4. p.branch \in Reference
  BY DEF IInv, TypeOK, Pull
<1> DEFINE e == LatestEntry(p.base, k[1])
<1> HIDE DEF e
<1>5. [e EXCEPT !.provisioner = p.branch] \in Entry /\ [e EXCEPT !.provisioner = p.branch].provisioner = p.branch
  BY <1>2, <1>4 DEF Entry, e
<1>6. QED
  BY <1>3, <1>5 DEF e

\* README.md: whatever was merged since the checkout, a merged endpoint promotion adds revisions that
\* refer to an image with their own documents in it, and a merged provisioner promotion revisions that
\* refer to that run's image.
THEOREM PromotionsAlwaysFit == Spec => PromotionsFit
<1>1. ASSUME IInv, PullsInv, [Next]_vars, NEW p \in pulls, IsMerged(p), NEW k \in Added(p)
      PROVE  LET e == main'.workflows[k]
                 image == main'.contracts[p.branch]
             IN IF p.branch[1] = Provisioner
                THEN e.provisioner = p.branch /\ image.baked = Absent
                ELSE e.endpoint = p.branch /\ image.baked = e.docs
  <2>1. Merge(p) /\ Computed(p)
    BY <1>1, OnlyMergesMerge DEF PullsInv
  <2>2. main'.workflows[k] = p.head.workflows[k] /\ main'.contracts[p.branch] = p.head.contracts[p.branch]
    BY <1>1, <2>1, MergeWrites
  <2>3. p.branch[1] = Provisioner => p.head.workflows[k].provisioner = p.branch
    BY <1>1, PromotedEntry
  <2> QED
    BY <2>1, <2>2, <2>3 DEF Computed
<1>2. IInv /\ PullsInv /\ [Next]_vars =>
        [\A p \in pulls : IsMerged(p) =>
            \A k \in Added(p) :
               LET e == main'.workflows[k]
                   image == main'.contracts[p.branch]
               IN IF p.branch[1] = Provisioner
                  THEN e.provisioner = p.branch /\ image.baked = Absent
                  ELSE e.endpoint = p.branch /\ image.baked = e.docs]_vars
  BY <1>1
<1>3. QED
  BY <1>2, Invariant, PullsInvariant, PTL DEF Spec, PromotionsFit

\* The latest entry of a workflow to which a merge adds nothing new.
LEMMA SameLatest ==
    ASSUME NEW c, NEW d, NEW w, \A r \in Revision : d.workflows[<<w, r>>] = c.workflows[<<w, r>>],
           Revisions(c, w) # {}
    PROVE  LatestEntry(d, w) = LatestEntry(c, w)
<1>1. Revisions(d, w) = Revisions(c, w) /\ Revisions(c, w) \in SUBSET Revision
  BY DEF Revisions
<1>2. Newest(Revisions(c, w)) \in Revision
  BY <1>1, NewestIsOneOfThem
<1>3. QED
  BY <1>1, <1>2 DEF LatestEntry

\* Every workflow keeps a revision, which the tools and the application find.
HasRevisions == \A w \in Workflow : Revisions(main, w) # {}

LEMMA RevisionsRemain == Spec => []HasRevisions
<1>1. Init => HasRevisions
  <2> SUFFICES ASSUME Init, NEW w \in Workflow PROVE First \in Revisions(main, w)
    BY DEF HasRevisions
  <2>1. First \in Revision /\ <<w, First>> \in WorkflowKey
    BY CatalogueAssumption DEF First, Revision, WorkflowKey
  <2>2. main.workflows[<<w, First>>] = [docs |-> InitialDocs, provisioner |-> <<Provisioner, First>>,
                                        endpoint |-> <<w, First>>, files |-> "whole"]
    BY <2>1 DEF Init
  <2>3. main.workflows[<<w, First>>] \in Entry
    <3>1. <<Provisioner, First>> \in Reference /\ <<w, First>> \in Reference
      BY <2>1 DEF Reference, ContractId
    <3> QED
      BY <2>2, <3>1, CatalogueAssumption DEF Entry, FileState
  <2> QED
    BY <2>1, <2>3, AbsentIsApart DEF Revisions
<1>2. IInv /\ HasRevisions /\ [Next]_vars => HasRevisions'
  <2> SUFFICES ASSUME IInv, HasRevisions, [Next]_vars, NEW w \in Workflow PROVE Revisions(main', w) # {}
    BY DEF HasRevisions
  <2>1. Extends(main, main') /\ main \in Catalogue
    BY StepKeeps, OnlyCompletedExtends DEF IInv, TypeOK
  <2>2. PICK r \in Revision : main.workflows[<<w, r>>] # Absent
    BY DEF HasRevisions, Revisions
  <2>3. <<w, r>> \in WorkflowKey
    BY DEF WorkflowKey
  <2>4. main'.workflows[<<w, r>>] # Absent
    BY <2>1, <2>2, <2>3 DEF Extends
  <2> QED
    BY <2>4 DEF Revisions
<1>3. QED
  BY <1>1, <1>2, Invariant, PTL DEF Spec

\* The entry that a provisioner promotion writes.
Reprovisioned(e, f) == [e EXCEPT !.provisioner = f]

\* A merge of a provisioner promotion that adds a revision to a workflow.
LEMMA AddedLatest ==
    ASSUME NEW c \in Catalogue, NEW d \in Catalogue, NEW b \in Catalogue, NEW w \in Workflow,
           NEW n \in Revision, NEW e \in Entry, NEW f,
           Extends(b, c), Numbered(b, w), LatestEntry(b, w).files # "missing",
           n = NextRevision(b, w),
           c.workflows[<<w, n>>] = Absent, d.workflows[<<w, n>>] = e,
           \A r \in Revision : r # n => d.workflows[<<w, r>>] = c.workflows[<<w, r>>],
           e = Reprovisioned(LatestEntry(b, w), f)
    PROVE  LatestEntry(d, w) \in {LatestEntry(c, w), Reprovisioned(LatestEntry(c, w), f)}
<1> DEFINE R == Revisions(b, w)
           S == Revisions(c, w)
<1>1. R # {} /\ R \in SUBSET S /\ S \in SUBSET Revision /\ n \notin S
  <2>1. ASSUME NEW r \in R
        PROVE  r \in S
    <3>1. <<w, r>> \in WorkflowKey /\ b.workflows[<<w, r>>] # Absent
      BY DEF Revisions, WorkflowKey
    <3>2. c.workflows[<<w, r>>] # Absent
      BY <3>1 DEF Extends
    <3> QED
      BY <3>2 DEF R, S, Revisions
  <2> QED
    BY <2>1 DEF Numbered, Revisions
<1>2. Revisions(d, w) = S \cup {n}
  BY AbsentIsApart DEF Revisions
<1>3. n = Following(Newest(R))
  BY DEF NextRevision
<1> HIDE DEF R, S
<1>4. CASE Newest(S \cup {n}) = n
  <2>1. Newest(S) = Newest(R)
    BY <1>1, <1>3, <1>4, NothingInBetween
  <2>2. Newest(R) \in R
    BY <1>1, NewestIsOneOfThem
  <2>3. c.workflows[<<w, Newest(R)>>] = b.workflows[<<w, Newest(R)>>]
    <3>1. /\ <<w, Newest(R)>> \in WorkflowKey /\ b.workflows[<<w, Newest(R)>>] # Absent
          /\ b.workflows[<<w, Newest(R)>>].files # "missing"
      BY <2>2 DEF R, Revisions, WorkflowKey, LatestEntry
    <3> QED
      BY <3>1 DEF Extends
  <2>4. LatestEntry(c, w) = LatestEntry(b, w)
    BY <2>1, <2>3 DEF LatestEntry, R, S
  <2>5. LatestEntry(d, w) = e
    BY <1>2, <1>4 DEF LatestEntry
  <2> QED
    BY <2>4, <2>5
<1>5. CASE Newest(S \cup {n}) # n
  <2>1. S \cup {n} \in SUBSET Revision /\ S \cup {n} # {}
    BY <1>1
  <2>2. Newest(S \cup {n}) \in S
    BY <1>5, <2>1, NewestIsOneOfThem
  <2>3. Newest(S) = Newest(S \cup {n})
    <3>1. S \in SUBSET (S \cup {n})
      OBVIOUS
    <3> QED
      BY <2>1, <2>2, <3>1, NewestOfFewer
  <2>4. d.workflows[<<w, Newest(S)>>] = c.workflows[<<w, Newest(S)>>]
    BY <1>1, <2>2, <2>3
  <2> QED
    BY <1>2, <2>3, <2>4 DEF LatestEntry, S
<1>6. QED
  BY <1>4, <1>5

\* A merge that completes a revision other than the latest one of a workflow.
LEMMA CompletedLatest ==
    ASSUME NEW c, NEW d, NEW w, NEW n \in Revision,
           c.workflows[<<w, n>>] # Absent, d.workflows[<<w, n>>] # Absent,
           c.workflows[<<w, n>>].files = "missing", LatestEntry(c, w).files # "missing",
           \A r \in Revision : r # n => d.workflows[<<w, r>>] = c.workflows[<<w, r>>]
    PROVE  LatestEntry(d, w) = LatestEntry(c, w)
<1>1. Revisions(d, w) = Revisions(c, w)
  BY DEF Revisions
<1>2. Newest(Revisions(c, w)) \in Revision
  <2>1. n \in Revisions(c, w) /\ Revisions(c, w) \in SUBSET Revision
    BY DEF Revisions
  <2> QED
    BY <2>1, NewestIsOneOfThem
<1>3. Newest(Revisions(c, w)) # n
  BY DEF LatestEntry
<1>4. QED
  BY <1>1, <1>2, <1>3 DEF LatestEntry

\* "creates a new revision for each catalog workflow whose latest revision references that contract"
\* (README.md): the merge of a provisioner promotion gives a workflow at most the provisioner of its
\* run, over what is then its latest revision unless that lacks a file, although it was computed from
\* an older checkout.
THEOREM NewestAlwaysKeepsTheRest == Spec => NewestKeepsTheRest
<1>1. ASSUME IInv, PullsInv, HasRevisions, [Next]_vars, NEW p \in pulls, IsMerged(p),
             p.branch[1] = Provisioner, NEW w \in Workflow, LatestEntry(main, w).files # "missing"
      PROVE  LatestEntry(main', w) \in
               {LatestEntry(main, w), Reprovisioned(LatestEntry(main, w), p.branch)}
  <2>1. /\ Merge(p) /\ Computed(p) /\ Extends(p.base, main)
        /\ p.base \in Catalogue /\ main \in Catalogue /\ main' \in Catalogue
    <3>1. Merge(p)
      BY <1>1, OnlyMergesMerge
    <3> QED
      BY <1>1, <3>1, MergeGrows DEF PullsInv, IInv, TypeOK, Pull
  <2>2. /\ \A k \in WorkflowKey :
              main'.workflows[k] = IF k \in Added(p) THEN p.head.workflows[k] ELSE main.workflows[k]
        /\ \A k \in Added(p) : k \in WorkflowKey
              /\ \/ main.workflows[k] \in {Absent, p.head.workflows[k]}
                 \/ main.workflows[k] # Absent /\ main.workflows[k].files = "missing"
    BY <1>1, <2>1, MergeWrites
  <2>3. \A r \in Revision : <<w, r>> \in WorkflowKey
    BY DEF WorkflowKey
  <2>4. Revisions(main, w) # {}
    BY <1>1 DEF HasRevisions
  <2>5. CASE \A r \in Revision : main'.workflows[<<w, r>>] = main.workflows[<<w, r>>]
    BY <2>4, <2>5, SameLatest
  <2>6. ASSUME NEW n \in Revision, main'.workflows[<<w, n>>] # main.workflows[<<w, n>>]
        PROVE  LatestEntry(main', w) \in
                 {LatestEntry(main, w), Reprovisioned(LatestEntry(main, w), p.branch)}
    <3> DEFINE k == <<w, n>>
               e == p.head.workflows[k]
    <3>1. /\ k \in Added(p) /\ main'.workflows[k] = e
          /\ \/ main.workflows[k] = Absent
             \/ main.workflows[k] # Absent /\ main.workflows[k].files = "missing"
      BY <2>2, <2>3, <2>6
    <3>2. /\ Numbered(p.base, w) /\ n = NextRevision(p.base, w)
          /\ LatestEntry(p.base, w).files # "missing"
          /\ e = Reprovisioned(LatestEntry(p.base, w), p.branch)
      <4>1. /\ Numbered(p.base, k[1]) /\ k[2] = NextRevision(p.base, k[1])
            /\ LatestEntry(p.base, k[1]).files # "missing"
            /\ e = [LatestEntry(p.base, k[1]) EXCEPT !.provisioner = p.branch]
        BY <1>1, <2>1, <3>1 DEF Computed
      <4> QED
        BY <4>1 DEF Reprovisioned
    <3>3. e \in Entry
      BY <1>1, <3>1, PromotedEntry
    <3>4. ASSUME NEW r \in Revision, r # n
          PROVE  main'.workflows[<<w, r>>] = main.workflows[<<w, r>>]
      <4>1. <<w, r>> \notin Added(p)
        <5> SUFFICES ASSUME <<w, r>> \in Added(p) PROVE FALSE
          OBVIOUS
        <5>1. <<w, r>>[2] = NextRevision(p.base, <<w, r>>[1])
          BY <1>1, <2>1 DEF Computed
        <5> QED
          BY <3>2, <3>4, <5>1
      <4> QED
        BY <2>2, <2>3, <4>1
    <3>5. main'.workflows[<<w, n>>] = e /\ e # Absent
      BY <3>1, <3>3, AbsentIsApart
    <3>6. Extends(p.base, main) /\ p.base \in Catalogue /\ main \in Catalogue /\ main' \in Catalogue
      BY <2>1
    <3>7. CASE main.workflows[<<w, n>>] = Absent
      <4> HIDE DEF e
      <4> QED
        BY <3>2, <3>3, <3>4, <3>5, <3>6, <3>7, AddedLatest
    <3>8. CASE main.workflows[<<w, n>>] # Absent /\ main.workflows[<<w, n>>].files = "missing"
      <4>1. LatestEntry(main', w) = LatestEntry(main, w)
        <5> HIDE DEF e
        <5> QED
          BY <1>1, <3>4, <3>5, <3>8, CompletedLatest
      <4> QED
        BY <4>1
    <3> QED
      BY <3>1, <3>7, <3>8
  <2> QED
    BY <2>5, <2>6
<1>2. IInv /\ PullsInv /\ HasRevisions /\ [Next]_vars =>
        [\A p \in pulls : IsMerged(p) /\ p.branch[1] = Provisioner =>
            \A w \in Workflow :
               LatestEntry(main, w).files # "missing" => LatestEntry(main', w) \in
                 {LatestEntry(main, w), [LatestEntry(main, w) EXCEPT !.provisioner = p.branch]}]_vars
  BY <1>1 DEF Reprovisioned
<1>3. QED
  BY <1>2, Invariant, PullsInvariant, RevisionsRemain, PTL DEF Spec, NewestKeepsTheRest
=============================================================================
