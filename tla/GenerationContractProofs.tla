------------------------ MODULE GenerationContractProofs --------------------
(* Proofs about GenerationContract for any catalogue, any jobs and any       *)
(* number of bindings.                                                       *)
EXTENDS GenerationContract, SequenceTheorems, WellFoundedInduction, TLAPS

-----------------------------------------------------------------------------
(* The least and the greatest of some numbers.                               *)

Less == {p \in Nat \X Nat : p[1] < p[2]}

\* The order of the natural numbers is well-founded.
LEMMA LessIsWellFounded == IsWellFoundedOn(Less, Nat)
BY NatLessThanWellFounded DEF OpToRel, Less

\* Some natural numbers have a least one.
LEMMA SmallestOf ==
    ASSUME NEW T \in SUBSET Nat, T # {}
    PROVE  \E x \in T : \A y \in T : x <= y
<1>1. PICK x \in T : \A y \in T : ~ (<<y, x>> \in Less)
  BY LessIsWellFounded, WFMin
<1>2. ASSUME NEW y \in T, ~ (x <= y)
      PROVE  <<y, x>> \in Less
  BY <1>2 DEF Less
<1> QED
  BY <1>1, <1>2

\* Some of the first n numbers have a greatest one.
LEMMA LatestIsOneOfThem ==
    ASSUME NEW n \in Nat, NEW S \in SUBSET (1 .. n), S # {}
    PROVE  Latest(S) \in S /\ \A j \in S : j <= Latest(S)
<1> DEFINE T == {n - x : x \in S}
<1>1. \E t \in T : \A u \in T : t <= u
  <2>1. T \in SUBSET Nat /\ T # {}
    <3>1. \A x \in S : n - x \in Nat
      OBVIOUS
    <3>2. PICK x : x \in S
      OBVIOUS
    <3> QED
      BY <3>1, <3>2
  <2> HIDE DEF T
  <2> QED
    BY <2>1, SmallestOf
<1>2. PICK x \in S : \A y \in S : n - x <= n - y
  BY <1>1
<1>3. \A y \in S : y <= x
  BY <1>2
<1> QED
  BY <1>3 DEF Latest

\* What comes last is the latest.
LEMMA LatestIsLast ==
    ASSUME NEW m \in Nat, NEW S \in SUBSET (1 .. (m - 1)), m >= 1
    PROVE  Latest(S \cup {m}) = m
<1>1. S \cup {m} \in SUBSET (1 .. m) /\ S \cup {m} # {}
  OBVIOUS
<1> DEFINE k == Latest(S \cup {m})
<1>2. k \in S \cup {m} /\ m <= k
  BY <1>1, LatestIsOneOfThem
<1> HIDE DEF k
<1>3. k = m
  <2>1. \A j \in S : ~(m <= j)
    OBVIOUS
  <2> QED
    BY <1>2, <2>1
<1> QED
  BY <1>3 DEF k

-----------------------------------------------------------------------------
(* Paths.                                                                    *)

Path == Seq(Segment)

\* The beginning of a path.
LEMMA Beginning ==
    ASSUME NEW q \in Path, NEW k \in 0 .. Len(q)
    PROVE  /\ SubSeq(q, 1, k) \in Path /\ Len(SubSeq(q, 1, k)) = k
           /\ \A i \in 1 .. k : SubSeq(q, 1, k)[i] = q[i]
<1>1. Len(q) \in Nat /\ k \in Int /\ \A i \in 1 .. k : q[i] \in Segment
  BY DEF Path
<1>2. /\ SubSeq(q, 1, k) \in Seq(Segment)
      /\ Len(SubSeq(q, 1, k)) = IF 1 <= k THEN k - 1 + 1 ELSE 0
      /\ \A i \in 1 .. k - 1 + 1 : SubSeq(q, 1, k)[i] = q[1 + i - 1]
  BY <1>1, SubSeqProperties
<1> QED
  BY <1>1, <1>2 DEF Path

\* Two paths of one length with the same segments are the same.
LEMMA SamePath ==
    ASSUME NEW p \in Path, NEW q \in Path, Len(p) = Len(q), \A i \in 1 .. Len(p) : p[i] = q[i]
    PROVE  p = q
BY SeqEqual DEF Path

\* A strict prefix, segment by segment.
LEMMA PrefixBySegments ==
    ASSUME NEW p \in Path, NEW q \in Path
    PROVE  StrictPrefix(p, q) <=> Len(p) < Len(q) /\ \A i \in 1 .. Len(p) : p[i] = q[i]
<1>1. Len(p) \in Nat /\ Len(q) \in Nat
  BY DEF Path
<1>2. ASSUME Len(p) < Len(q)
      PROVE  SubSeq(q, 1, Len(p)) = p <=> \A i \in 1 .. Len(p) : p[i] = q[i]
  <2>1. /\ SubSeq(q, 1, Len(p)) \in Path /\ Len(SubSeq(q, 1, Len(p))) = Len(p)
        /\ \A i \in 1 .. Len(p) : SubSeq(q, 1, Len(p))[i] = q[i]
    BY <1>1, <1>2, Beginning
  <2>2. ASSUME \A i \in 1 .. Len(p) : p[i] = q[i]
        PROVE  SubSeq(q, 1, Len(p)) = p
    BY <2>1, <2>2, SamePath
  <2> QED
    BY <2>1, <2>2
<1> QED
  BY <1>2 DEF StrictPrefix

\* Below what is below p is below p.
LEMMA PrefixIsTransitive ==
    ASSUME NEW p \in Path, NEW q \in Path, NEW r \in Path, StrictPrefix(p, q), StrictPrefix(q, r)
    PROVE  StrictPrefix(p, r)
<1>1. Len(p) \in Nat /\ Len(q) \in Nat /\ Len(r) \in Nat
  BY DEF Path
<1> QED
  BY <1>1, PrefixBySegments

\* Of two paths around a third, one is around the other.
LEMMA PrefixesAreNested ==
    ASSUME NEW p \in Path, NEW q \in Path, NEW r \in Path, StrictPrefix(p, r), StrictPrefix(q, r)
    PROVE  p = q \/ StrictPrefix(p, q) \/ StrictPrefix(q, p)
<1>1. Len(p) \in Nat /\ Len(q) \in Nat /\ Len(r) \in Nat
  BY DEF Path
<1>2. /\ \A i \in 1 .. Len(p) : p[i] = r[i]
      /\ \A i \in 1 .. Len(q) : q[i] = r[i]
  BY PrefixBySegments
<1>3. CASE Len(p) < Len(q)
  BY <1>1, <1>2, <1>3, PrefixBySegments
<1>4. CASE Len(q) < Len(p)
  BY <1>1, <1>2, <1>4, PrefixBySegments
<1>5. CASE Len(p) = Len(q)
  BY <1>1, <1>2, <1>5, SamePath
<1> QED
  BY <1>1, <1>3, <1>4, <1>5

\* The beginning of a path is the path or a strict prefix of it, and conversely.
LEMMA BeginningIsPrefix ==
    ASSUME NEW q \in Path
    PROVE  /\ \A k \in 0 .. Len(q) : SubSeq(q, 1, k) = q \/ StrictPrefix(SubSeq(q, 1, k), q)
           /\ \A k \in 0 .. (Len(q) - 1) : StrictPrefix(SubSeq(q, 1, k), q)
<1>1. Len(q) \in Nat
  BY DEF Path
<1>2. ASSUME NEW k \in 0 .. (Len(q) - 1)
      PROVE  StrictPrefix(SubSeq(q, 1, k), q)
  BY <1>1, <1>2, Beginning DEF StrictPrefix
<1>3. SubSeq(q, 1, Len(q)) = q
  BY SubSeqFull DEF Path
<1>4. ASSUME NEW k \in 0 .. Len(q)
      PROVE  SubSeq(q, 1, k) = q \/ StrictPrefix(SubSeq(q, 1, k), q)
  <2>1. k \in 0 .. (Len(q) - 1) \/ k = Len(q)
    BY <1>1
  <2> QED
    BY <1>2, <1>3, <2>1
<1> QED
  BY <1>2, <1>4

-----------------------------------------------------------------------------
(* Nodes.                                                                    *)

\* A place is a leaf or around one.
LEMMA PlacesAreAround ==
    ASSUME NEW node, IsNode(node)
    PROVE  /\ Places(node) \subseteq Path
           /\ \A r \in Path : r \in Places(node) <=>
                  \E q \in DOMAIN node.leaves : r = q \/ StrictPrefix(r, q)
<1>1. DOMAIN node.leaves \subseteq Path
  BY DEF IsNode, Path
<1>2. ASSUME NEW r \in Places(node)
      PROVE  r \in Path /\ \E q \in DOMAIN node.leaves : r = q \/ StrictPrefix(r, q)
  <2>1. PICK q \in DOMAIN node.leaves : \E k \in 0 .. Len(q) : r = SubSeq(q, 1, k)
    BY DEF Places
  <2> QED
    BY <1>1, <2>1, Beginning, BeginningIsPrefix
<1>3. ASSUME NEW r \in Path, NEW q \in DOMAIN node.leaves, r = q \/ StrictPrefix(r, q)
      PROVE  r \in Places(node)
  <2>1. \E k \in 0 .. Len(q) : r = SubSeq(q, 1, k)
    <3>1. Len(q) \in Nat /\ Len(r) \in Nat /\ q \in Path
      BY <1>1 DEF Path
    <3>2. CASE r = q
      BY <3>1, <3>2, SubSeqFull DEF Path
    <3>3. CASE StrictPrefix(r, q)
      <4>1. Len(r) \in 0 .. Len(q) /\ r = SubSeq(q, 1, Len(r))
        BY <3>1, <3>3 DEF StrictPrefix
      <4> QED
        BY <4>1
    <3> QED
      BY <1>3, <3>2, <3>3
  <2> QED
    BY <2>1 DEF Places
<1> QED
  BY <1>2, <1>3

\* A place around a place is a place.
LEMMA PlacesAreClosed ==
    ASSUME NEW node, IsNode(node), NEW q \in Places(node), NEW r \in Path, StrictPrefix(r, q)
    PROVE  r \in Places(node)
<1>1. q \in Path /\ DOMAIN node.leaves \subseteq Path
  BY PlacesAreAround DEF IsNode, Path
<1>2. PICK l \in DOMAIN node.leaves : q = l \/ StrictPrefix(q, l)
  BY <1>1, PlacesAreAround
<1>3. StrictPrefix(r, l)
  BY <1>1, <1>2, PrefixIsTransitive
<1> QED
  BY <1>3, PlacesAreAround

\* Writing a value at a place removes what is below it, and nothing else.
LEMMA PlacesAfter ==
    ASSUME NEW node, IsNode(node), NEW p \in Places(node), NEW value
    PROVE  /\ IsNode(SetPathValue(node, p, value))
           /\ Places(SetPathValue(node, p, value)) = {q \in Places(node) : ~StrictPrefix(p, q)}
<1> DEFINE after == SetPathValue(node, p, value)
           kept == {q \in DOMAIN node.leaves : q # p /\ ~StrictPrefix(p, q)}
<1>1. /\ node = [id |-> node.id, leaves |-> [q \in DOMAIN node.leaves |-> node.leaves[q]], lists |-> node.lists]
      /\ DOMAIN node.leaves \subseteq Path /\ node.lists \subseteq Path /\ p \in Path
  BY PlacesAreAround DEF IsNode, Path
<1>2. after = [id |-> node.id,
               leaves |-> [q \in kept \cup {p} |-> IF q = p THEN value ELSE node.leaves[q]],
               lists |-> {q \in node.lists : q # p /\ ~StrictPrefix(p, q)}]
  BY DEF SetPathValue
<1> HIDE DEF after
<1>3. IsNode(after)
  <2>1. /\ DOMAIN after.leaves \subseteq Path /\ after.lists \subseteq Path
        /\ after.leaves = [q \in DOMAIN after.leaves |-> after.leaves[q]]
    BY <1>1, <1>2
  <2>2. after = [id |-> after.id, leaves |-> after.leaves, lists |-> after.lists]
    BY <1>2
  <2> QED
    BY <2>1, <2>2 DEF IsNode, Path
<1>4. DOMAIN after.leaves = kept \cup {p}
  BY <1>2
<1>5. ASSUME NEW r \in Places(after)
      PROVE  r \in Places(node) /\ ~StrictPrefix(p, r)
  <2>1. r \in Path
    BY <1>3, PlacesAreAround
  <2>2. PICK l \in DOMAIN after.leaves : r = l \/ StrictPrefix(r, l)
    BY <1>3, <2>1, PlacesAreAround
  <2>3. l \in Path
    BY <1>1, <1>4
  <2>4. CASE l = p
    <3>1. ~StrictPrefix(p, r)
      <4> SUFFICES ASSUME StrictPrefix(p, r) PROVE FALSE
        OBVIOUS
      <4>1. Len(p) \in Nat /\ Len(r) \in Nat /\ Len(p) < Len(r)
        BY <1>1, <2>1 DEF Path, StrictPrefix
      <4> QED
        BY <2>2, <2>4, <4>1 DEF StrictPrefix
    <3>2. r \in Places(node)
      BY <2>1, <2>2, <2>4, PlacesAreClosed
    <3> QED
      BY <3>1, <3>2
  <2>5. CASE l \in kept
    <3>1. ~StrictPrefix(p, r)
      BY <1>1, <2>1, <2>2, <2>3, <2>5, PrefixIsTransitive
    <3>2. r \in Places(node)
      BY <2>1, <2>2, <2>5, PlacesAreAround
    <3> QED
      BY <3>1, <3>2
  <2> QED
    BY <1>4, <2>2, <2>4, <2>5
<1>6. ASSUME NEW r \in Places(node), ~StrictPrefix(p, r)
      PROVE  r \in Places(after)
  <2>1. r \in Path
    BY PlacesAreAround
  <2>2. PICK l \in DOMAIN node.leaves : r = l \/ StrictPrefix(r, l)
    BY <2>1, PlacesAreAround
  <2>3. CASE l \in kept
    BY <1>3, <1>4, <2>1, <2>2, <2>3, PlacesAreAround
  <2>4. CASE l \notin kept
    <3>1. l = p \/ StrictPrefix(p, l)
      BY <2>4
    <3>2. r = p \/ StrictPrefix(r, p)
      BY <1>1, <1>6, <2>1, <2>2, <3>1, PrefixesAreNested
    <3> QED
      BY <1>3, <1>4, <2>1, <3>2, PlacesAreAround
  <2> QED
    BY <2>3, <2>4
<1> QED
  BY <1>3, <1>5, <1>6 DEF after

\* A path leads to one place at most: two places that differ, differ at a first segment, and the one
\* before it decides what the segment is.
LEMMA OnePlace ==
    ASSUME NEW node, IsNode(node), NEW path \in Path,
           NEW p \in Reached(node, path), NEW q \in Reached(node, path)
    PROVE  p = q
<1> DEFINE D == {i \in 1 .. Len(path) : p[i] # q[i]}
<1>1. /\ p \in Path /\ q \in Path /\ Len(path) \in Nat
      /\ Len(p) = Len(path) /\ Len(q) = Len(path)
      /\ \A i \in 1 .. Len(path) : Follows(node, path, p, i) /\ Follows(node, path, q, i)
  BY PlacesAreAround DEF Reached, Path
<1>2. ASSUME D # {} PROVE FALSE
  <2>1. PICK i \in D : \A j \in D : i <= j
    <3>1. D \in SUBSET Nat
      BY <1>1
    <3> HIDE DEF D
    <3> QED
      BY <1>2, <3>1, SmallestOf
  <2>2. i \in 1 .. Len(path) /\ p[i] # q[i] /\ \A j \in 1 .. (i - 1) : p[j] = q[j]
    BY <1>1, <2>1
  <2>3. SubSeq(p, 1, i - 1) = SubSeq(q, 1, i - 1)
    <3>1. i - 1 \in 0 .. Len(p) /\ i - 1 \in 0 .. Len(q)
      BY <1>1, <2>2
    <3>2. /\ SubSeq(p, 1, i - 1) \in Path /\ Len(SubSeq(p, 1, i - 1)) = i - 1
          /\ SubSeq(q, 1, i - 1) \in Path /\ Len(SubSeq(q, 1, i - 1)) = i - 1
          /\ \A j \in 1 .. (i - 1) : SubSeq(p, 1, i - 1)[j] = p[j] /\ SubSeq(q, 1, i - 1)[j] = q[j]
      BY <1>1, <3>1, Beginning
    <3> QED
      BY <2>2, <3>2, SamePath
  <2> QED
    BY <1>1, <2>2, <2>3 DEF Follows
<1> QED
  BY <1>1, <1>2, SamePath

-----------------------------------------------------------------------------
(* The inductive invariant: what a job has done is what the table says of    *)
(* the bindings it has applied.                                              *)

\* The bindings before the m-th that write to q of node n, or above it.
WrittenBy(n, m, q) == {i \in 1 .. (m - 1) : Writes(n, i, q)}
CoveredBy(n, m, q) == \E i \in 1 .. (m - 1) : Covers(n, i, q)

\* Node n after the bindings before the m-th.
PatchedNode(n, m) ==
    LET original == entry.nodes[n]
        written == {r \in Places(original) : WrittenBy(n, m, r) # {}}
    IN [id |-> original.id,
        leaves |-> [q \in {r \in DOMAIN original.leaves \cup written : ~CoveredBy(n, m, r)} |->
                       IF WrittenBy(n, m, q) = {} THEN original.leaves[q]
                       ELSE Wanted(Bindings[Latest(WrittenBy(n, m, q))])],
        lists |-> {q \in original.lists : WrittenBy(n, m, q) = {} /\ ~CoveredBy(n, m, q)}]

\* A place goes when something above it is overwritten, and only then.
PlacesBefore(n, m) == {q \in Places(entry.nodes[n]) : ~CoveredBy(n, m, q)}

GraphPatched(m) ==
    /\ graph = [k \in DOMAIN entry.nodes |-> PatchedNode(k, m)]
    /\ \A k \in DOMAIN entry.nodes : IsNode(graph[k]) /\ Places(graph[k]) = PlacesBefore(k, m)
    /\ \A i \in 1 .. (m - 1) : ~BrokenBinding(i) /\ (Bindings[i].template => Given(Bindings[i].value))

WellFormed ==
    /\ DOMAIN entry.nodes \subseteq Nat
    /\ entry.nodes = [n \in DOMAIN entry.nodes |-> entry.nodes[n]]
    /\ \A n \in DOMAIN entry.nodes : IsNode(entry.nodes[n])
    /\ Len(Bindings) \in Nat /\ DOMAIN Bindings = 1 .. Len(Bindings)
    /\ \A i \in DOMAIN Bindings : Bindings[i].path \in Seq(Segment) /\ Bindings[i].template \in BOOLEAN

Accepted ==
    /\ ValidSchema(entry.schema) /\ ValidRequest(entry.schema)
    /\ inputs = [id \in {x \in DOMAIN payload.data : Given(x)} |-> Stripped[payload.data[id]]]

Excused == Inconsistent \/ entry.schema.version = "" \/ OmitsBoundInput

InStep ==
    /\ WellFormed
    /\ pc # "build" => baked = [execution_schema |-> entry.schema, input_bindings |-> Bindings]
    /\ pc \in {"load", "bind", "patched"} => Accepted
    /\ pc \in {"bind", "patched"} =>
          /\ entry.nodes # <<>> /\ Bindings # <<>>
          /\ next \in 1 .. (Len(Bindings) + 1) /\ GraphPatched(next)
    /\ pc = "patched" => next = Len(Bindings) + 1
    /\ pc = "workflow_validation_failed" => Excused

-----------------------------------------------------------------------------
(* One binding.                                                              *)

\* What is around a place that is still there has not been written to, so a path leads where it led
\* at first, unless something above that place was overwritten.
LEMMA PathsStillLead ==
    ASSUME WellFormed, NEW m \in Nat, GraphPatched(m), NEW n \in DOMAIN entry.nodes, NEW path \in Path
    PROVE  Reached(graph[n], path) = {q \in Reached(entry.nodes[n], path) : ~CoveredBy(n, m, q)}
<1> DEFINE old == entry.nodes[n]
           new == graph[n]
<1>1. /\ IsNode(old) /\ IsNode(new) /\ Places(new) = {q \in Places(old) : ~CoveredBy(n, m, q)}
      /\ new.lists = {q \in old.lists : WrittenBy(n, m, q) = {} /\ ~CoveredBy(n, m, q)}
  BY DEF WellFormed, GraphPatched, PlacesBefore, PatchedNode
<1>2. ASSUME NEW p \in Places(new), NEW r \in Path, StrictPrefix(r, p)
      PROVE  r \in new.lists <=> r \in old.lists
  <2>1. p \in Path /\ ~CoveredBy(n, m, p)
    BY <1>1, PlacesAreAround
  <2>2. ASSUME NEW i \in 1 .. (m - 1), Writes(n, i, r) \/ Covers(n, i, r)
        PROVE  FALSE
    <3>1. CASE Writes(n, i, r)
      BY <1>2, <2>1, <3>1 DEF Writes, Covers, CoveredBy
    <3>2. CASE Covers(n, i, r)
      <4>1. PICK q \in Reached(old, Bindings[i].path) : StrictPrefix(q, r)
        BY <3>2 DEF Covers
      <4>2. q \in Path
        BY <1>1, <4>1, PlacesAreAround DEF Reached
      <4>3. StrictPrefix(q, p)
        BY <1>2, <2>1, <4>1, <4>2, PrefixIsTransitive
      <4> QED
        BY <2>1, <3>2, <4>1, <4>3 DEF Covers, CoveredBy
    <3> QED
      BY <2>2, <3>1, <3>2
  <2>3. WrittenBy(n, m, r) = {} /\ ~CoveredBy(n, m, r)
    BY <2>2 DEF WrittenBy, CoveredBy
  <2> QED
    BY <1>1, <2>3
<1>3. ASSUME NEW p \in Places(new), Len(p) = Len(path), NEW i \in 1 .. Len(path)
      PROVE  Follows(new, path, p, i) <=> Follows(old, path, p, i)
  <2>1. p \in Path /\ i - 1 \in 0 .. (Len(p) - 1) /\ i - 1 \in 0 .. Len(p)
    BY <1>1, <1>3, PlacesAreAround DEF Path
  <2>2. SubSeq(p, 1, i - 1) \in Path /\ StrictPrefix(SubSeq(p, 1, i - 1), p)
    BY <2>1, Beginning, BeginningIsPrefix
  <2>3. SubSeq(p, 1, i - 1) \in new.lists <=> SubSeq(p, 1, i - 1) \in old.lists
    BY <1>2, <2>2
  <2> QED
    BY <2>3 DEF Follows
<1> QED
  BY <1>1, <1>3 DEF Reached

\* What the m-th binding adds to the table, when it leads to place p of node n.
LEMMA TableGrows ==
    ASSUME WellFormed, NEW m \in 1 .. Len(Bindings), NEW n \in DOMAIN entry.nodes,
           n \in Target(Bindings[m]), NEW p \in Reached(entry.nodes[n], Bindings[m].path)
    PROVE  /\ \A q : /\ WrittenBy(n, m + 1, q) = WrittenBy(n, m, q) \cup (IF q = p THEN {m} ELSE {})
                     /\ CoveredBy(n, m + 1, q) <=> CoveredBy(n, m, q) \/ StrictPrefix(p, q)
           /\ \A k \in DOMAIN entry.nodes : k # n => \A q :
                 /\ WrittenBy(k, m + 1, q) = WrittenBy(k, m, q)
                 /\ CoveredBy(k, m + 1, q) <=> CoveredBy(k, m, q)
<1>1. m \in Nat /\ m >= 1 /\ 1 .. (m + 1 - 1) = 1 .. (m - 1) \cup {m} /\ m \in DOMAIN Bindings
  BY DEF WellFormed
<1>2. IsNode(entry.nodes[n]) /\ Bindings[m].path \in Path
  BY <1>1 DEF WellFormed, Path
<1>3. \A q : q \in Reached(entry.nodes[n], Bindings[m].path) <=> q = p
  BY <1>2, OnePlace
<1>4. /\ \A q : Writes(n, m, q) <=> q = p
      /\ \A q : Covers(n, m, q) <=> StrictPrefix(p, q)
  BY <1>3 DEF Writes, Covers
<1>5. ASSUME NEW k \in DOMAIN entry.nodes, k # n, NEW q
      PROVE  ~Writes(k, m, q) /\ ~Covers(k, m, q)
  <2>1. k \notin Target(Bindings[m])
    BY <1>5 DEF Target, NodesById, WellFormed
  <2> QED
    BY <2>1 DEF Writes, Covers
<1> QED
  BY <1>1, <1>4, <1>5 DEF WrittenBy, CoveredBy

\* Writing the m-th value where the path leads makes of a node what the table says.
LEMMA NodeIsPatched ==
    ASSUME WellFormed, NEW m \in 1 .. Len(Bindings), GraphPatched(m), NEW n \in DOMAIN entry.nodes,
           n \in Target(Bindings[m]), NEW p \in Reached(graph[n], Bindings[m].path)
    PROVE  LET after == SetPathValue(graph[n], p, Wanted(Bindings[m])) IN
           /\ after = PatchedNode(n, m + 1)
           /\ IsNode(after) /\ Places(after) = PlacesBefore(n, m + 1)
<1>1. /\ m \in Nat /\ m >= 1 /\ Bindings[m].path \in Path
      /\ IsNode(entry.nodes[n]) /\ IsNode(graph[n]) /\ Places(graph[n]) = PlacesBefore(n, m)
  <2>1. m \in Nat /\ m >= 1 /\ Bindings[m].path \in Path
    BY DEF WellFormed, Path
  <2> QED
    BY <2>1 DEF WellFormed, GraphPatched
<1>2. p \in Reached(entry.nodes[n], Bindings[m].path) /\ ~CoveredBy(n, m, p)
  <2>1. Reached(graph[n], Bindings[m].path) =
          {q \in Reached(entry.nodes[n], Bindings[m].path) : ~CoveredBy(n, m, q)}
    BY <1>1, PathsStillLead
  <2> QED
    BY <2>1
<1>3. /\ p \in Path /\ p \in Places(entry.nodes[n]) /\ p \in Places(graph[n]) /\ ~StrictPrefix(p, p)
  <2>1. p \in Path /\ p \in Places(entry.nodes[n]) /\ p \in Places(graph[n])
    BY <1>1, <1>2, PlacesAreAround DEF Reached
  <2> QED
    BY <2>1 DEF StrictPrefix, Path
<1>4. \A q : /\ WrittenBy(n, m + 1, q) = WrittenBy(n, m, q) \cup (IF q = p THEN {m} ELSE {})
             /\ CoveredBy(n, m + 1, q) <=> CoveredBy(n, m, q) \/ StrictPrefix(p, q)
  BY <1>2, TableGrows
<1> DEFINE old == entry.nodes[n]
           v == Wanted(Bindings[m])
           W == {r \in Places(old) : WrittenBy(n, m, r) # {}}
           D == {r \in DOMAIN old.leaves \cup W : ~CoveredBy(n, m, r)}
           W1 == {r \in Places(old) : WrittenBy(n, m + 1, r) # {}}
           D1 == {r \in DOMAIN old.leaves \cup W1 : ~CoveredBy(n, m + 1, r)}
           val(q) == IF WrittenBy(n, m, q) = {} THEN old.leaves[q]
                     ELSE Wanted(Bindings[Latest(WrittenBy(n, m, q))])
           val1(q) == IF WrittenBy(n, m + 1, q) = {} THEN old.leaves[q]
                      ELSE Wanted(Bindings[Latest(WrittenBy(n, m + 1, q))])
           L == {q \in old.lists : WrittenBy(n, m, q) = {} /\ ~CoveredBy(n, m, q)}
           L1 == {q \in old.lists : WrittenBy(n, m + 1, q) = {} /\ ~CoveredBy(n, m + 1, q)}
<1>5. /\ PatchedNode(n, m) = [id |-> old.id, leaves |-> [q \in D |-> val(q)], lists |-> L]
      /\ PatchedNode(n, m + 1) = [id |-> old.id, leaves |-> [q \in D1 |-> val1(q)], lists |-> L1]
  BY Zenon DEF PatchedNode
<1>6. graph[n] = PatchedNode(n, m)
  BY DEF GraphPatched
<1>7. D1 = {q \in D : q # p /\ ~StrictPrefix(p, q)} \cup {p}
  BY <1>2, <1>3, <1>4
<1>8. L1 = {q \in L : q # p /\ ~StrictPrefix(p, q)}
  BY <1>4
<1>9. \A q \in D1 : val1(q) = IF q = p THEN v ELSE val(q)
  <2>1. WrittenBy(n, m, p) \in SUBSET (1 .. (m - 1)) /\ WrittenBy(n, m + 1, p) = WrittenBy(n, m, p) \cup {m}
    BY <1>4 DEF WrittenBy
  <2>2. Latest(WrittenBy(n, m + 1, p)) = m
    BY <1>1, <2>1, LatestIsLast
  <2>3. val1(p) = v
    BY <2>1, <2>2
  <2>4. \A q : q # p => WrittenBy(n, m + 1, q) = WrittenBy(n, m, q)
    BY <1>4
  <2> QED
    BY <2>3, <2>4
<1>10. /\ graph[n].id = old.id /\ graph[n].lists = L /\ DOMAIN graph[n].leaves = D
       /\ \A q \in D : graph[n].leaves[q] = val(q)
  <2> HIDE DEF D, L, val, old
  <2> QED
    BY <1>5, <1>6
<1>11. SetPathValue(graph[n], p, v) = PatchedNode(n, m + 1)
  <2> DEFINE K == {q \in DOMAIN graph[n].leaves : q # p /\ ~StrictPrefix(p, q)}
             M == {q \in graph[n].lists : q # p /\ ~StrictPrefix(p, q)}
             f == [q \in K \cup {p} |-> IF q = p THEN v ELSE graph[n].leaves[q]]
  <2>1. SetPathValue(graph[n], p, v) = [id |-> graph[n].id, leaves |-> f, lists |-> M]
    BY DEF SetPathValue
  <2>2. K \cup {p} = D1 /\ M = L1
    BY <1>7, <1>8, <1>10
  <2>3. f = [q \in D1 |-> val1(q)]
    <3>1. \A q \in D1 : (IF q = p THEN v ELSE graph[n].leaves[q]) = val1(q)
      <4>1. \A q \in D1 : q # p => q \in D
        BY <1>7
      <4> HIDE DEF D, D1, val, val1, v
      <4> QED
        BY <1>9, <1>10, <4>1
    <3> HIDE DEF K, D1, val1, v
    <3> QED
      BY <2>2, <3>1
  <2> HIDE DEF D, D1, L, L1, K, M, f, val, val1, v, old
  <2> QED
    BY <1>5, <1>10, <2>1, <2>2, <2>3
<1> HIDE DEF old, v, W, D, W1, D1, val, val1, L, L1
<1>12. /\ IsNode(SetPathValue(graph[n], p, v))
       /\ Places(SetPathValue(graph[n], p, v)) = {q \in Places(graph[n]) : ~StrictPrefix(p, q)}
  BY <1>1, <1>3, PlacesAfter
<1>13. {q \in Places(graph[n]) : ~StrictPrefix(p, q)} = PlacesBefore(n, m + 1)
  BY <1>1, <1>4 DEF PlacesBefore
<1> QED
  BY <1>11, <1>12, <1>13 DEF v

\* A node no further binding has written to, or above, is as it was.
LEMMA SameTable ==
    ASSUME NEW n, NEW m, NEW l,
           \A q : WrittenBy(n, l, q) = WrittenBy(n, m, q) /\ (CoveredBy(n, l, q) <=> CoveredBy(n, m, q))
    PROVE  PatchedNode(n, l) = PatchedNode(n, m) /\ PlacesBefore(n, l) = PlacesBefore(n, m)
<1> DEFINE old == entry.nodes[n]
           W(k) == {r \in Places(old) : WrittenBy(n, k, r) # {}}
           D(k) == {r \in DOMAIN old.leaves \cup W(k) : ~CoveredBy(n, k, r)}
           val(k, q) == IF WrittenBy(n, k, q) = {} THEN old.leaves[q]
                        ELSE Wanted(Bindings[Latest(WrittenBy(n, k, q))])
           L(k) == {q \in old.lists : WrittenBy(n, k, q) = {} /\ ~CoveredBy(n, k, q)}
<1>1. \A k : PatchedNode(n, k) = [id |-> old.id, leaves |-> [q \in D(k) |-> val(k, q)], lists |-> L(k)]
  BY Zenon DEF PatchedNode
<1>2. D(l) = D(m) /\ L(l) = L(m)
  BY SMT
<1>3. \A q : val(l, q) = val(m, q)
  OBVIOUS
<1>4. [q \in D(l) |-> val(l, q)] = [q \in D(m) |-> val(m, q)]
  <2> HIDE DEF D, val
  <2> QED
    BY <1>2, <1>3
<1>5. PatchedNode(n, l) = PatchedNode(n, m)
  <2> HIDE DEF D, val, L, old
  <2> QED
    BY <1>1, <1>2, <1>4
<1>6. PlacesBefore(n, l) = PlacesBefore(n, m)
  BY DEF PlacesBefore
<1> QED
  BY <1>5, <1>6

\* Nodes the m-th binding does not name stay as they are.
LEMMA OtherNodesStay ==
    ASSUME WellFormed, NEW m \in 1 .. Len(Bindings), NEW n \in DOMAIN entry.nodes,
           n \in Target(Bindings[m]), NEW p \in Reached(entry.nodes[n], Bindings[m].path),
           NEW k \in DOMAIN entry.nodes, k # n
    PROVE  PatchedNode(k, m + 1) = PatchedNode(k, m) /\ PlacesBefore(k, m + 1) = PlacesBefore(k, m)
<1>1. \A q : /\ WrittenBy(k, m + 1, q) = WrittenBy(k, m, q)
             /\ CoveredBy(k, m + 1, q) <=> CoveredBy(k, m, q)
  BY TableGrows
<1> QED
  BY <1>1, SameTable

-----------------------------------------------------------------------------
(* The steps of a job.                                                       *)

\* The target of a binding is one node, with the same ids as at first.
LEMMA TargetStays ==
    ASSUME WellFormed, NEW m, GraphPatched(m), NEW b
    PROVE  /\ NodesById(graph, b.node_id) = Target(b)
           /\ Target(b) \subseteq DOMAIN entry.nodes
           /\ \A k, n \in Target(b) : k = n
<1>1. /\ DOMAIN graph = DOMAIN entry.nodes
      /\ \A n \in DOMAIN entry.nodes : graph[n].id = entry.nodes[n].id
  BY DEF GraphPatched, PatchedNode
<1>2. \A k, n \in Target(b) : k \in Nat /\ n \in Nat /\ k <= n /\ n <= k
  BY DEF Target, NodesById, WellFormed
<1> QED
  BY <1>1, <1>2 DEF Target, NodesById

\* No binding is applied at first.
LEMMA NothingIsApplied == WellFormed /\ graph = entry.nodes => GraphPatched(1)
<1> SUFFICES ASSUME WellFormed, graph = entry.nodes
             PROVE  GraphPatched(1)
  OBVIOUS
<1>1. ASSUME NEW n \in DOMAIN entry.nodes
      PROVE  /\ PatchedNode(n, 1) = entry.nodes[n]
             /\ PlacesBefore(n, 1) = Places(entry.nodes[n])
  <2> DEFINE old == entry.nodes[n]
             W == {r \in Places(old) : WrittenBy(n, 1, r) # {}}
             D == {r \in DOMAIN old.leaves \cup W : ~CoveredBy(n, 1, r)}
             val(q) == IF WrittenBy(n, 1, q) = {} THEN old.leaves[q]
                       ELSE Wanted(Bindings[Latest(WrittenBy(n, 1, q))])
             L == {q \in old.lists : WrittenBy(n, 1, q) = {} /\ ~CoveredBy(n, 1, q)}
  <2>1. \A q : WrittenBy(n, 1, q) = {} /\ ~CoveredBy(n, 1, q)
    BY DEF WrittenBy, CoveredBy
  <2>2. PatchedNode(n, 1) = [id |-> old.id, leaves |-> [q \in D |-> val(q)], lists |-> L]
    BY Zenon DEF PatchedNode
  <2>3. D = DOMAIN old.leaves /\ L = old.lists /\ \A q : val(q) = old.leaves[q]
    BY <2>1
  <2>4. [q \in D |-> val(q)] = [q \in DOMAIN old.leaves |-> old.leaves[q]]
    <3> HIDE DEF D, val
    <3> QED
      BY <2>3
  <2>5. old = [id |-> old.id, leaves |-> [q \in DOMAIN old.leaves |-> old.leaves[q]], lists |-> old.lists]
    BY DEF WellFormed, IsNode
  <2>6. PatchedNode(n, 1) = old
    <3> HIDE DEF D, L, val, old
    <3> QED
      BY <2>2, <2>3, <2>4, <2>5
  <2>7. PlacesBefore(n, 1) = Places(old)
    BY <2>1 DEF PlacesBefore
  <2> QED
    BY <2>6, <2>7
<1>2. graph = [n \in DOMAIN entry.nodes |-> PatchedNode(n, 1)]
  <2>1. graph = [n \in DOMAIN entry.nodes |-> entry.nodes[n]]
    BY DEF WellFormed
  <2> QED
    BY <1>1, <2>1
<1>3. \A n \in DOMAIN entry.nodes : IsNode(graph[n]) /\ Places(graph[n]) = PlacesBefore(n, 1)
  BY <1>1 DEF WellFormed
<1> QED
  BY <1>2, <1>3 DEF GraphPatched

\* What the application of a binding needs: the binding and the inputs allow it.
LEMMA AppliedIsSound ==
    ASSUME WellFormed, Accepted, NEW m \in 1 .. Len(Bindings), GraphPatched(m), ~Refused(Bindings[m])
    PROVE  /\ ~BrokenBinding(m)
           /\ Bindings[m].template => Given(Bindings[m].value)
           /\ BindingValue(Bindings[m]) = Wanted(Bindings[m])
<1> DEFINE b == Bindings[m]
<1>1. m \in Nat /\ m \in DOMAIN Bindings /\ b.path \in Path /\ b.template \in BOOLEAN
  BY DEF WellFormed, Path
<1>2. /\ b.node_id # "" /\ b.path # <<>> /\ Target(b) # {} /\ Bound(b)
      /\ \A n \in Target(b) : Reached(graph[n], b.path) # {}
  BY TargetStays DEF Refused
<1>3. b.template => b.value \in DOMAIN payload.data /\ Given(b.value)
                    /\ inputs[b.value] = Stripped[payload.data[b.value]]
  BY <1>2 DEF Bound, Accepted
<1>4. b.template => b.value \in {entry.schema.inputs[j].id : j \in DOMAIN entry.schema.inputs}
  BY <1>3 DEF Accepted, ValidRequest
<1>5. ASSUME NEW n \in Target(b)
      PROVE  /\ Reached(entry.nodes[n], b.path) # {}
             /\ \A q \in Reached(entry.nodes[n], b.path), j \in 1 .. (m - 1) : ~Covers(n, j, q)
  <2>1. n \in DOMAIN entry.nodes
    BY TargetStays
  <2>2. PICK p : p \in Reached(graph[n], b.path)
    BY <1>2
  <2>3. p \in Reached(entry.nodes[n], b.path) /\ ~CoveredBy(n, m, p)
    <3>1. Reached(graph[n], b.path) = {q \in Reached(entry.nodes[n], b.path) : ~CoveredBy(n, m, q)}
      BY <1>1, <2>1, PathsStillLead
    <3> QED
      BY <2>2, <3>1
  <2>4. \A q \in Reached(entry.nodes[n], b.path) : q = p
    <3>1. IsNode(entry.nodes[n])
      BY <2>1 DEF WellFormed
    <3> QED
      BY <1>1, <2>3, <3>1, OnePlace
  <2> QED
    BY <2>3, <2>4 DEF CoveredBy
<1>6. ~BrokenBinding(m)
  <2> HIDE DEF b
  <2>1. /\ b.node_id # "" /\ b.path # <<>> /\ Target(b) # {}
        /\ ~(b.template /\ b.value \notin {entry.schema.inputs[j].id : j \in DOMAIN entry.schema.inputs})
    BY <1>2, <1>4
  <2>2. ~(\E n \in Target(b) :
            \/ Reached(entry.nodes[n], b.path) = {}
            \/ \E q \in Reached(entry.nodes[n], b.path), j \in 1 .. (m - 1) : Covers(n, j, q))
    BY <1>5
  <2> QED
    BY <2>1, <2>2, Zenon DEF BrokenBinding, b
<1> QED
  BY <1>3, <1>6 DEF BindingValue, Wanted

\* A binding that is refused is at fault itself, or lacks an input that the job leaves out.
LEMMA RefusedIsExcused ==
    ASSUME WellFormed, Accepted, NEW m \in 1 .. Len(Bindings), GraphPatched(m), Refused(Bindings[m])
    PROVE  Excused
<1> DEFINE b == Bindings[m]
<1>1. m \in Nat /\ m \in DOMAIN Bindings /\ b.path \in Path
  BY DEF WellFormed, Path
<1>2. BrokenBinding(m) \/ (b.template /\ ~Given(b.value))
  <2>1. CASE b.node_id = "" \/ b.path = <<>> \/ Target(b) = {}
    BY <2>1 DEF BrokenBinding
  <2>2. CASE ~Bound(b)
    <3>1. b.template /\ b.value \notin DOMAIN inputs
      BY <2>2 DEF Bound
    <3> QED
      BY <3>1 DEF Accepted, Given
  <2>3. ASSUME NEW n \in Target(b), Reached(graph[n], b.path) = {}
        PROVE  BrokenBinding(m)
    <3>1. n \in DOMAIN entry.nodes
      BY TargetStays
    <3>2. Reached(graph[n], b.path) = {q \in Reached(entry.nodes[n], b.path) : ~CoveredBy(n, m, q)}
      BY <1>1, <3>1, PathsStillLead
    <3>3. \A q \in Reached(entry.nodes[n], b.path) : \E j \in 1 .. (m - 1) : Covers(n, j, q)
      BY <2>3, <3>2 DEF CoveredBy
    <3> QED
      BY <3>3 DEF BrokenBinding
  <2> QED
    BY <2>1, <2>2, <2>3, TargetStays DEF Refused
<1> QED
  BY <1>1, <1>2 DEF Excused, Inconsistent, OmitsBoundInput

\* A binding that is applied leaves the graph as the table says.
LEMMA AppliedIsPatched ==
    ASSUME WellFormed, Accepted, NEW m \in 1 .. Len(Bindings), GraphPatched(m), ~Refused(Bindings[m]),
           Patch(Bindings[m]), UNCHANGED <<entry, payload>>
    PROVE  GraphPatched(m + 1)'
<1> DEFINE b == Bindings[m]
           v == Wanted(b)
<1>1. /\ ~BrokenBinding(m) /\ (b.template => Given(b.value)) /\ BindingValue(b) = v
      /\ m \in Nat /\ m >= 1 /\ b.path \in Path
  <2>1. m \in Nat /\ m >= 1 /\ b.path \in Path
    BY DEF WellFormed, Path
  <2> QED
    BY <2>1, AppliedIsSound
<1>2. PICK n \in Target(b) : \E p \in Reached(graph[n], b.path) :
        graph' = [graph EXCEPT ![n] = SetPathValue(@, p, BindingValue(b))]
  BY TargetStays DEF Patch
<1>3. PICK p \in Reached(graph[n], b.path) :
        graph' = [graph EXCEPT ![n] = SetPathValue(@, p, BindingValue(b))]
  BY <1>2
<1>4. n \in DOMAIN entry.nodes /\ n \in Target(b)
  BY TargetStays
<1>5. p \in Reached(entry.nodes[n], b.path)
  <2>1. Reached(graph[n], b.path) = {q \in Reached(entry.nodes[n], b.path) : ~CoveredBy(n, m, q)}
    BY <1>1, <1>4, PathsStillLead
  <2> QED
    BY <2>1
<1>6. graph' = [graph EXCEPT ![n] = SetPathValue(graph[n], p, v)]
  BY <1>1, <1>3
<1>7. /\ SetPathValue(graph[n], p, v) = PatchedNode(n, m + 1)
      /\ IsNode(SetPathValue(graph[n], p, v))
      /\ Places(SetPathValue(graph[n], p, v)) = PlacesBefore(n, m + 1)
  BY <1>4, NodeIsPatched
<1>8. \A k \in DOMAIN entry.nodes : k # n =>
        PatchedNode(k, m + 1) = PatchedNode(k, m) /\ PlacesBefore(k, m + 1) = PlacesBefore(k, m)
  BY <1>4, <1>5, OtherNodesStay
<1>9. /\ graph = [k \in DOMAIN entry.nodes |-> PatchedNode(k, m)]
      /\ \A k \in DOMAIN entry.nodes : IsNode(graph[k]) /\ Places(graph[k]) = PlacesBefore(k, m)
  BY DEF GraphPatched
<1>10. graph' = [k \in DOMAIN entry.nodes |-> PatchedNode(k, m + 1)]
  <2> HIDE DEF v
  <2> QED
    BY <1>4, <1>6, <1>7, <1>8, <1>9
<1>11. \A k \in DOMAIN entry.nodes : IsNode(graph'[k]) /\ Places(graph'[k]) = PlacesBefore(k, m + 1)
  <2> HIDE DEF v
  <2> QED
    BY <1>4, <1>6, <1>7, <1>8, <1>9
<1>12. \A i \in 1 .. (m + 1 - 1) : ~BrokenBinding(i) /\ (Bindings[i].template => Given(Bindings[i].value))
  <2>1. \A i \in 1 .. (m + 1 - 1) : i = m \/ i \in 1 .. (m - 1)
    BY <1>1
  <2> QED
    BY <1>1, <2>1 DEF GraphPatched
<1>13. \A i : ((BrokenBinding(i))' <=> BrokenBinding(i)) /\ (Given(Bindings[i].value)' <=> Given(Bindings[i].value))
  BY DEF BrokenBinding, Given, Bindings, Target, Covers
<1>14. /\ \A k : PatchedNode(k, m + 1)' = PatchedNode(k, m + 1)
       /\ \A k : PlacesBefore(k, m + 1)' = PlacesBefore(k, m + 1)
  BY DEF PatchedNode, PlacesBefore, WrittenBy, CoveredBy, Writes, Covers, Target, Bindings, Wanted
<1>15. Bindings' = Bindings /\ entry' = entry
  BY DEF Bindings
<1>16. PICK l : l = m + 1
  OBVIOUS
<1>17. (graph = [k \in DOMAIN entry.nodes |-> PatchedNode(k, l)])'
  BY <1>10, <1>14, <1>15, <1>16
<1>18. (\A k \in DOMAIN entry.nodes : IsNode(graph[k]) /\ Places(graph[k]) = PlacesBefore(k, l))'
  BY <1>11, <1>14, <1>15, <1>16
<1>19. (\A i \in 1 .. (l - 1) : ~BrokenBinding(i) /\ (Bindings[i].template => Given(Bindings[i].value)))'
  BY <1>12, <1>13, <1>15, <1>16
<1>20. GraphPatched(l)'
  BY <1>17, <1>18, <1>19, Zenon DEF GraphPatched
<1> QED
  BY <1>16, <1>20

\* Whether a job is accepted or its failure excused depends on the documents and the job alone.
LEMMA VerdictStays ==
    ASSUME entry' = entry, payload' = payload
    PROVE  /\ Excused' = Excused
           /\ inputs' = inputs => Accepted' = Accepted
<1>1. Excused' = Excused
  BY DEF Excused, Inconsistent, BrokenBinding, OmitsBoundInput, Bindings, Target, Covers, InvalidInput, Given
<1>2. inputs' = inputs => Accepted' = Accepted
  BY DEF Accepted, ValidSchema, ValidRequest, InvalidInput, Acceptable, Given
<1> QED
  BY <1>1, <1>2

\* The invariant at first.
LEMMA InitIsInStep == Init => InStep
<1> SUFFICES ASSUME Init PROVE InStep
  OBVIOUS
<1>1. PICK e \in Entries : entry.bindings = e.bindings
  BY DEF Init
<1>2. PICK d \in Entries : entry.nodes = d.nodes
  BY DEF Init
<1>3. WellFormed
  BY <1>1, <1>2, EntriesAssumption DEF EntriesAssumption, WellFormed, Bindings
<1> QED
  BY <1>3 DEF Init, InStep

\* Each step keeps it.
LEMMA StepStaysInStep == InStep /\ [Next]_vars => InStep'
<1> SUFFICES ASSUME InStep, [Next]_vars PROVE InStep'
  OBVIOUS
<1>1. entry' = entry /\ WellFormed' /\ Bindings' = Bindings
  <2>1. entry' = entry
    BY DEF Next, vars, ExtractRuntimeMetadata, Handle, ParseGenerationRequest, Fail, LoadWorkflow,
           ApplyInputBinding, WritePatchedWorkflow
  <2> QED
    BY <2>1 DEF InStep, WellFormed, Bindings
<1>2. CASE UNCHANGED vars
  <2>1. \A m : GraphPatched(m)' = GraphPatched(m)
    BY <1>2 DEF vars, GraphPatched, PatchedNode, PlacesBefore, WrittenBy, CoveredBy, Writes, Covers,
                Target, Bindings, Wanted, BrokenBinding, Given
  <2>2. Accepted' = Accepted /\ Excused' = Excused
    BY <1>2, VerdictStays DEF vars
  <2> QED
    BY <1>1, <1>2, <2>1, <2>2 DEF vars, InStep
<1>3. CASE ExtractRuntimeMetadata
  BY <1>1, <1>3 DEF ExtractRuntimeMetadata, InStep, Bindings
<1>4. CASE \E p \in Payloads : Handle(p)
  BY <1>1, <1>4 DEF Handle, InStep, Answers
<1>5. CASE ParseGenerationRequest
  <2>1. baked = [execution_schema |-> entry.schema, input_bindings |-> Bindings] /\ baked' = baked
    BY <1>5 DEF ParseGenerationRequest, InStep, Fail
  <2>2. ExecutionSchema = entry.schema
    BY <2>1 DEF ExecutionSchema
  <2>3. CASE ~ValidSchema(entry.schema) /\ Fail("workflow_validation_failed")
    <3>1. Excused
      BY <2>3 DEF ValidSchema, Excused, Inconsistent
    <3>2. Excused' = Excused
      BY <2>3, VerdictStays DEF Fail
    <3> QED
      BY <1>1, <2>1, <2>3, <3>1, <3>2 DEF Fail, InStep
  <2>4. CASE Fail("invalid_request")
    BY <1>1, <2>1, <2>4 DEF Fail, InStep
  <2>5. CASE /\ ValidSchema(entry.schema) /\ ValidRequest(entry.schema)
             /\ inputs' = [id \in {x \in DOMAIN payload.data : Given(x)} |-> Stripped[payload.data[id]]]
             /\ pc' = "load"
             /\ UNCHANGED <<entry, baked, payload, graph, next>>
    <3>1. Accepted'
      BY <2>5 DEF Accepted, ValidSchema, ValidRequest, InvalidInput, Acceptable, Given
    <3> QED
      BY <1>1, <2>1, <2>5, <3>1 DEF InStep
  <2> QED
    BY <1>5, <2>2, <2>3, <2>4, <2>5 DEF ParseGenerationRequest
<1>6. CASE LoadWorkflow
  <2>1. /\ baked = [execution_schema |-> entry.schema, input_bindings |-> Bindings] /\ baked' = baked
        /\ Accepted /\ payload' = payload /\ inputs' = inputs
    BY <1>6 DEF LoadWorkflow, InStep, Fail
  <2>2. Accepted' = Accepted /\ Excused' = Excused
    BY <1>1, <2>1, VerdictStays
  <2>3. CASE entry.nodes = <<>> \/ Bindings = <<>>
    <3>1. pc' = "workflow_validation_failed" /\ Excused
      BY <1>6, <2>1, <2>3 DEF LoadWorkflow, Fail, Excused, Inconsistent
    <3> QED
      BY <1>1, <2>1, <2>2, <3>1 DEF InStep
  <2>4. CASE entry.nodes # <<>> /\ Bindings # <<>>
    <3>1. graph' = entry.nodes /\ next' = 1 /\ pc' = "bind"
      BY <1>6, <2>1, <2>4 DEF LoadWorkflow
    <3>2. GraphPatched(1)'
      <4>1. (WellFormed /\ graph = entry.nodes => GraphPatched(1))'
        BY NothingIsApplied, PTL
      <4> QED
        BY <1>1, <3>1, <4>1
    <3>3. 1 \in 1 .. (Len(Bindings) + 1)
      BY DEF InStep, WellFormed
    <3> QED
      BY <1>1, <2>1, <2>2, <2>4, <3>1, <3>2, <3>3 DEF InStep
  <2> QED
    BY <2>3, <2>4
<1>7. CASE ApplyInputBinding
  <2>1. /\ baked = [execution_schema |-> entry.schema, input_bindings |-> Bindings] /\ baked' = baked
        /\ Accepted /\ WellFormed /\ payload' = payload /\ inputs' = inputs
        /\ next \in 1 .. Len(Bindings) /\ GraphPatched(next) /\ entry.nodes # <<>> /\ Bindings # <<>>
    BY <1>7 DEF ApplyInputBinding, InStep, Fail, WellFormed
  <2>2. Accepted' = Accepted /\ Excused' = Excused
    BY <1>1, <2>1, VerdictStays
  <2>3. CASE Refused(Bindings[next]) /\ Fail("workflow_validation_failed")
    <3>1. Excused
      BY <2>1, <2>3, RefusedIsExcused
    <3> QED
      BY <1>1, <2>1, <2>2, <2>3, <3>1 DEF Fail, InStep
  <2>4. CASE ~Refused(Bindings[next]) /\ Patch(Bindings[next]) /\ next' = next + 1 /\ pc' = pc
    <3>1. PICK m \in 1 .. Len(Bindings) : m = next
      BY <2>1
    <3>2. GraphPatched(m + 1)'
      BY <1>1, <2>1, <2>4, <3>1, AppliedIsPatched
    <3>3. next' = m + 1 /\ next' \in 1 .. (Len(Bindings) + 1) /\ pc = "bind"
      BY <1>7, <2>1, <2>4, <3>1 DEF ApplyInputBinding, WellFormed
    <3>4. (GraphPatched(next))'
      BY <3>2, <3>3, Zenon DEF GraphPatched
    <3> QED
      BY <1>1, <2>1, <2>2, <2>4, <3>3, <3>4 DEF InStep
  <2> QED
    BY <1>7, <2>1, <2>3, <2>4 DEF ApplyInputBinding
<1>8. CASE WritePatchedWorkflow
  <2>1. /\ pc = "bind" /\ pc' = "patched" /\ UNCHANGED <<entry, baked, payload, inputs, graph, next>>
        /\ next = Len(Bindings) + 1
    BY <1>8 DEF WritePatchedWorkflow, InStep, WellFormed
  <2>2. \A m : GraphPatched(m)' = GraphPatched(m)
    BY <2>1 DEF GraphPatched, PatchedNode, PlacesBefore, WrittenBy, CoveredBy, Writes, Covers,
                Target, Bindings, Wanted, BrokenBinding, Given
  <2>3. Accepted' = Accepted
    BY <2>1, VerdictStays
  <2> QED
    BY <1>1, <2>1, <2>2, <2>3 DEF InStep
<1> QED
  BY <1>2, <1>3, <1>4, <1>5, <1>6, <1>7, <1>8 DEF Next

\* The invariant holds throughout.
LEMMA AlwaysInStep == Spec => []InStep
BY InitIsInStep, StepStaysInStep, PTL DEF Spec

-----------------------------------------------------------------------------
(* What a job may rely on.                                                   *)

\* After the last binding the table speaks of all of them.
LEMMA PatchedIsExpected ==
    ASSUME InStep, pc = "patched", NEW n \in DOMAIN entry.nodes
    PROVE  graph[n].leaves = ExpectedLeaves(n)
<1> DEFINE m == Len(Bindings) + 1
           old == entry.nodes[n].leaves
           W == {r \in Places(entry.nodes[n]) : WrittenBy(n, m, r) # {}}
           D == {r \in DOMAIN old \cup W : ~CoveredBy(n, m, r)}
           val(q) == IF WrittenBy(n, m, q) = {} THEN old[q]
                     ELSE Wanted(Bindings[Latest(WrittenBy(n, m, q))])
           E == {q \in DOMAIN old \cup {r \in Places(entry.nodes[n]) : \E i \in DOMAIN Bindings : Writes(n, i, r)} :
                    \A i \in DOMAIN Bindings : Covers(n, i, q) => i < LastWrite(n, q)}
           is(q) == {i \in DOMAIN Bindings : Writes(n, i, q)}
<1>1. /\ WellFormed /\ GraphPatched(m) /\ DOMAIN Bindings = 1 .. (m - 1) /\ Len(Bindings) \in Nat
  BY DEF InStep, WellFormed
<1>2. /\ PatchedNode(n, m).leaves = [q \in D |-> val(q)]
      /\ graph[n] = PatchedNode(n, m)
  BY <1>1 DEF GraphPatched, PatchedNode
<1>3. \A q : is(q) = WrittenBy(n, m, q)
  BY <1>1 DEF WrittenBy
<1>4. ASSUME NEW q, is(q) # {}
      PROVE  LastWrite(n, q) = Latest(is(q)) /\ LastWrite(n, q) \in is(q)
  <2>1. LastWrite(n, q) = Latest(is(q))
    BY <1>4 DEF LastWrite
  <2>2. is(q) \in SUBSET (1 .. Len(Bindings))
    BY <1>1
  <2> HIDE DEF is
  <2>3. Latest(is(q)) \in is(q)
    BY <1>1, <1>4, <2>2, LatestIsOneOfThem
  <2> QED
    BY <2>1, <2>3
<1>5. ASSUME NEW q, is(q) = {}
      PROVE  LastWrite(n, q) = 0
  BY <1>5 DEF LastWrite
<1>6. ASSUME NEW q, NEW i \in DOMAIN Bindings, Covers(n, i, q)
      PROVE  ~(i < LastWrite(n, q))
  <2>1. CASE is(q) = {}
    BY <1>1, <1>5, <2>1
  <2>2. CASE is(q) # {}
    <3>1. PICK k \in DOMAIN Bindings : k = LastWrite(n, q) /\ Writes(n, k, q)
      BY <1>4, <2>2
    <3>2. ~BrokenBinding(k)
      BY <1>1 DEF GraphPatched
    <3>3. ASSUME i < k PROVE BrokenBinding(k)
      <4>1. i \in 1 .. (k - 1)
        BY <1>1, <3>3
      <4>2. n \in Target(Bindings[k]) /\ q \in Reached(entry.nodes[n], Bindings[k].path)
        BY <3>1 DEF Writes
      <4> QED
        BY <1>6, <4>1, <4>2, Zenon DEF BrokenBinding
    <3> QED
      BY <3>1, <3>2, <3>3
  <2> QED
    BY <2>1, <2>2
<1>7. E = D
  <2>1. \A r : (\E i \in DOMAIN Bindings : Writes(n, i, r)) <=> WrittenBy(n, m, r) # {}
    BY <1>1 DEF WrittenBy
  <2>2. \A q : (\A i \in DOMAIN Bindings : Covers(n, i, q) => i < LastWrite(n, q)) <=> ~CoveredBy(n, m, q)
    BY <1>1, <1>6 DEF CoveredBy
  <2> QED
    BY <2>1, <2>2
<1>8. \A q : (IF LastWrite(n, q) = 0 THEN old[q] ELSE Wanted(Bindings[LastWrite(n, q)])) = val(q)
  <2> SUFFICES ASSUME NEW q
               PROVE  (IF LastWrite(n, q) = 0 THEN old[q] ELSE Wanted(Bindings[LastWrite(n, q)])) = val(q)
    OBVIOUS
  <2>1. CASE is(q) = {}
    BY <1>3, <1>5, <2>1
  <2>2. CASE is(q) # {}
    <3>1. LastWrite(n, q) # 0 /\ LastWrite(n, q) = Latest(WrittenBy(n, m, q)) /\ WrittenBy(n, m, q) # {}
      BY <1>1, <1>3, <1>4, <2>2
    <3> QED
      BY <3>1
  <2> QED
    BY <2>1, <2>2
<1>9. ExpectedLeaves(n) =
        [q \in E |-> IF LastWrite(n, q) = 0 THEN old[q] ELSE Wanted(Bindings[LastWrite(n, q)])]
  BY Zenon DEF ExpectedLeaves
<1>10. ExpectedLeaves(n) = [q \in D |-> val(q)]
  <2> HIDE DEF D, E, val, old
  <2> QED
    BY <1>7, <1>8, <1>9
<1> QED
  BY <1>2, <1>10

\* A patched workflow is the baked one with exactly the bound paths replaced, each by the last
\* binding to it, for any documents, any bindings and any jobs before it: the deep copy and the
\* bindings applied in place leave nothing of an earlier job (apply_input_bindings).
THEOREM PatchesAsBound == Spec => []PatchedAsBound
<1>1. InStep => PatchedAsBound
  <2> SUFFICES ASSUME InStep, pc = "patched", NEW n \in DOMAIN graph
               PROVE  graph[n].leaves = ExpectedLeaves(n)
    BY DEF PatchedAsBound
  <2>1. DOMAIN graph = DOMAIN entry.nodes
    BY DEF InStep, GraphPatched
  <2> QED
    BY <2>1, PatchedIsExpected
<1> QED
  BY <1>1, AlwaysInStep, PTL

\* A job fails with workflow_validation_failed only if the baked documents are at fault, have no
\* version, or bind an optional input the job leaves out; and a job that is patched has none of the
\* three, whatever the bindings overwrite of each other.
THEOREM ContractTakesTheBlame == Spec => []ContractIsToBlame
<1>1. InStep => ContractIsToBlame
  <2> SUFFICES ASSUME InStep PROVE ContractIsToBlame
    OBVIOUS
  <2>1. pc = "workflow_validation_failed" => Inconsistent \/ entry.schema.version = "" \/ OmitsBoundInput
    BY DEF InStep, Excused
  <2>2. ASSUME pc = "patched"
        PROVE  ~Inconsistent /\ entry.schema.version # "" /\ ~OmitsBoundInput
    <3>1. /\ entry.nodes # <<>> /\ Bindings # <<>> /\ ValidSchema(entry.schema)
          /\ \A i \in DOMAIN Bindings : ~BrokenBinding(i) /\ (Bindings[i].template => Given(Bindings[i].value))
      <4>1. next - 1 = Len(Bindings) /\ DOMAIN Bindings = 1 .. (next - 1)
        BY <2>2 DEF InStep, WellFormed
      <4> QED
        BY <2>2, <4>1 DEF InStep, GraphPatched, Accepted
    <3> QED
      BY <3>1 DEF Inconsistent, OmitsBoundInput, ValidSchema
  <2> QED
    BY <2>1, <2>2 DEF ContractIsToBlame
<1> QED
  BY <1>1, AlwaysInStep, PTL
=============================================================================
