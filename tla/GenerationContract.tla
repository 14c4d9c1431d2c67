------------------------- MODULE GenerationContract -------------------------
(***************************************************************************)
(* What the endpoint worker does with the documents of a job before        *)
(* ComfyUI sees anything: tools/build_metadata.py bakes an entry of the    *)
(* catalogue into the image, app/service.py and app/schemas.py read the    *)
(* baked execution schema and check the job's input against it, and        *)
(* runtime/workflow.py writes the accepted inputs into a copy of the baked *)
(* workflow, one input binding after the other.                            *)
(*                                                                         *)
(* A JSON document is represented by its leaves: a node of the workflow is *)
(* a function from paths to leaf values, with the set of the paths that    *)
(* are arrays (an empty object or array has no representation).            *)
(***************************************************************************)
EXTENDS Integers, Sequences, FiniteSets, TLC

CONSTANTS
    Segment,      \* the keys of objects and the elements of arrays
    Versions,     \* the "version" a schema document may carry; "" when it has none
    Entries,      \* workflow entries of the catalogue: [inputs, bindings, nodes]
    Payloads,     \* the "input" of a job: [object, data]
    Stripped,     \* every string a job may hold |-> the string str.strip leaves
    Length,       \* a stripped string |-> its length
    Digits,       \* the segments str.isdigit accepts |-> the element they name
    SecretLike    \* the ids _is_secret_like matches

NoLimit == -1           \* max_length is absent
Null == "null"          \* an input that is JSON null

IsNode(node) ==
    /\ node = [id |-> node.id, leaves |-> [q \in DOMAIN node.leaves |-> node.leaves[q]], lists |-> node.lists]
    /\ DOMAIN node.leaves \subseteq Seq(Segment)
    /\ node.lists \subseteq Seq(Segment)

\* Nodes and bindings are lists; a binding's value is a leaf, or the name of an input.
EntriesAssumption ==
    \A e \in Entries :
        /\ DOMAIN e.nodes \subseteq Nat
        /\ e.nodes = [n \in DOMAIN e.nodes |-> e.nodes[n]]
        /\ \A n \in DOMAIN e.nodes : IsNode(e.nodes[n])
        /\ Len(e.bindings) \in Nat /\ DOMAIN e.bindings = 1 .. Len(e.bindings)
        /\ \A i \in DOMAIN e.bindings :
                e.bindings[i].path \in Seq(Segment) /\ e.bindings[i].template \in BOOLEAN

ASSUME EntriesAssumption

VARIABLES
    entry,     \* the documents in the catalogue
    baked,     \* execution-contract.json of the image, or <<>> before the build
    pc,        \* where the handler is
    payload,   \* the input of the job at hand
    inputs,    \* GenerationRequest.inputs
    graph,     \* the patched copy of the workflow
    next       \* the next input binding to apply

vars == <<entry, baked, pc, payload, inputs, graph, next>>

Answers == {"invalid_request", "workflow_validation_failed", "patched"}

Init ==
    /\ entry \in [schema : [version : Versions, inputs : {e.inputs : e \in Entries}],
                  bindings : {e.bindings : e \in Entries}, nodes : {e.nodes : e \in Entries}]
    /\ baked = <<>>
    /\ pc = "build"
    /\ payload = [object |-> FALSE, data |-> <<>>]
    /\ inputs = <<>>
    /\ graph = <<>>
    /\ next = 1

-----------------------------------------------------------------------------
(* build_metadata.py copies the schema document as it is, and the bindings. *)
ExtractRuntimeMetadata ==
    /\ pc = "build"
    /\ baked' = [execution_schema |-> entry.schema, input_bindings |-> entry.bindings]
    /\ pc' = "idle"
    /\ UNCHANGED <<entry, payload, inputs, graph, next>>

Handle(p) ==
    /\ pc \in {"idle"} \cup Answers
    /\ payload' = p
    /\ pc' = "request"
    /\ UNCHANGED <<entry, baked, inputs, graph, next>>

Fail(code) == pc' = code /\ UNCHANGED <<entry, baked, payload, inputs, graph, next>>

(* load_execution_schema: an absent version is read as "", an absent         *)
(* max_length as none.                                                      *)
ExecutionSchema == baked.execution_schema

InvalidInput(all, i) ==
    \/ all[i].id = ""
    \/ \E j \in 1 .. (i - 1) : all[j].id = all[i].id
    \/ all[i].id \in SecretLike
    \/ all[i].type # "string"
    \/ all[i].max_length = 0

ValidSchema(schema) ==
    /\ schema.version # ""
    /\ \A i \in DOMAIN schema.inputs : ~InvalidInput(schema.inputs, i)

Given(id) == id \in DOMAIN payload.data /\ payload.data[id] # Null

NonEmptyString(v) == v \in DOMAIN Stripped /\ Stripped[v] # ""

Acceptable(input) ==
    IF Given(input.id)
    THEN /\ NonEmptyString(payload.data[input.id])
         /\ \/ input.max_length = NoLimit
            \/ Length[Stripped[payload.data[input.id]]] <= input.max_length
    ELSE ~input.required

ValidRequest(schema) ==
    /\ payload.object
    /\ DOMAIN payload.data \subseteq {schema.inputs[i].id : i \in DOMAIN schema.inputs}
    /\ \A i \in DOMAIN schema.inputs : Acceptable(schema.inputs[i])

ParseGenerationRequest ==
    /\ pc = "request"
    /\ LET schema == ExecutionSchema IN
       \/ ~ValidSchema(schema) /\ Fail("workflow_validation_failed")
       \/ ValidSchema(schema) /\ ~ValidRequest(schema) /\ Fail("invalid_request")
       \/ /\ ValidSchema(schema) /\ ValidRequest(schema)
          /\ inputs' = [id \in {x \in DOMAIN payload.data : Given(x)} |-> Stripped[payload.data[id]]]
          /\ pc' = "load"
          /\ UNCHANGED <<entry, baked, payload, graph, next>>

-----------------------------------------------------------------------------
(* Paths into a node.                                                      *)

StrictPrefix(p, q) == Len(p) < Len(q) /\ SubSeq(q, 1, Len(p)) = p

\* Everything a path may lead to: the leaves, and the objects and arrays around them.
Places(node) == UNION {{SubSeq(q, 1, k) : k \in 0 .. Len(q)} : q \in DOMAIN node.leaves}

\* One segment of a path, at the place p[1], ..., p[i - 1]: an array takes digits only.
Follows(node, path, p, i) ==
    IF SubSeq(p, 1, i - 1) \in node.lists
    THEN path[i] \in DOMAIN Digits /\ p[i] = Digits[path[i]]
    ELSE p[i] = path[i]

\* _path_child for every segment but the last, then the checks of _set_path_value: the place that
\* path leads to, if there is one.
Reached(node, path) ==
    {p \in Places(node) : Len(p) = Len(path) /\ \A i \in 1 .. Len(path) : Follows(node, path, p, i)}

\* Mutated form of SetPathValue: what was below the place stays beside the value.
SetPathValueBeside(node, p, value) ==
    [node EXCEPT !.leaves = [q \in DOMAIN @ \cup {p} |-> IF q = p THEN value ELSE @[q]]]

SetPathValue(node, p, value) ==
    LET kept == {q \in DOMAIN node.leaves : q # p /\ ~StrictPrefix(p, q)}
    IN [id |-> node.id,
        leaves |-> [q \in kept \cup {p} |-> IF q = p THEN value ELSE node.leaves[q]],
        lists |-> {q \in node.lists : q # p /\ ~StrictPrefix(p, q)}]

\* _nodes_by_id: of two nodes with one id the later is indexed.
NodesById(nodes, id) ==
    {n \in DOMAIN nodes : nodes[n].id = id /\ \A m \in DOMAIN nodes : nodes[m].id = id => m <= n}

-----------------------------------------------------------------------------
(* runtime/workflow.py: every job loads the baked documents again.         *)

LoadWorkflow ==
    /\ pc = "load"
    /\ IF entry.nodes = <<>> \/ baked.input_bindings = <<>>
       THEN Fail("workflow_validation_failed")
       ELSE /\ graph' = entry.nodes
            /\ next' = 1
            /\ pc' = "bind"
            /\ UNCHANGED <<entry, baked, payload, inputs>>

Bound(binding) == binding.template => binding.value \in DOMAIN inputs
BindingValue(binding) == IF binding.template THEN inputs[binding.value] ELSE binding.value

Refused(b) ==
    \/ b.node_id = "" \/ b.path = <<>>
    \/ NodesById(graph, b.node_id) = {}
    \/ ~Bound(b)
    \/ \E n \in NodesById(graph, b.node_id) : Reached(graph[n], b.path) = {}

Patch(b) ==
    \E n \in NodesById(graph, b.node_id) : \E p \in Reached(graph[n], b.path) :
        graph' = [graph EXCEPT ![n] = SetPathValue(@, p, BindingValue(b))]

\* Mutated form of ApplyInputBinding: a binding that does not apply is passed over.
ApplyInputBindingOrNot ==
    /\ pc = "bind" /\ next <= Len(baked.input_bindings)
    /\ LET b == baked.input_bindings[next] IN
       IF Refused(b) THEN UNCHANGED graph ELSE Patch(b)
    /\ next' = next + 1
    /\ UNCHANGED <<entry, baked, pc, payload, inputs>>

ApplyInputBinding ==
    /\ pc = "bind" /\ next <= Len(baked.input_bindings)
    /\ LET b == baked.input_bindings[next] IN
       \/ Refused(b) /\ Fail("workflow_validation_failed")
       \/ /\ ~Refused(b) /\ Patch(b)
          /\ next' = next + 1
          /\ UNCHANGED <<entry, baked, pc, payload, inputs>>

WritePatchedWorkflow ==
    /\ pc = "bind" /\ next > Len(baked.input_bindings)
    /\ pc' = "patched"
    /\ UNCHANGED <<entry, baked, payload, inputs, graph, next>>

Next ==
    \/ ExtractRuntimeMetadata
    \/ \E p \in Payloads : Handle(p)
    \/ ParseGenerationRequest
    \/ LoadWorkflow
    \/ ApplyInputBinding
    \/ WritePatchedWorkflow

Spec == Init /\ [][Next]_vars

-----------------------------------------------------------------------------
(* The bindings, read as a table instead of one after the other.           *)
Bindings == entry.bindings
Target(b) == NodesById(entry.nodes, b.node_id)
Writes(n, i, q) == n \in Target(Bindings[i]) /\ q \in Reached(entry.nodes[n], Bindings[i].path)
Covers(n, i, q) ==
    n \in Target(Bindings[i]) /\ \E p \in Reached(entry.nodes[n], Bindings[i].path) : StrictPrefix(p, q)

Latest(is) == CHOOSE i \in is : \A j \in is : j <= i
LastWrite(n, q) ==
    LET is == {i \in DOMAIN Bindings : Writes(n, i, q)} IN IF is = {} THEN 0 ELSE Latest(is)

Wanted(b) == IF b.template THEN Stripped[payload.data[b.value]] ELSE b.value

\* The leaves of node n after all bindings, by the table.
ExpectedLeaves(n) ==
    LET original == entry.nodes[n].leaves
        written == {q \in Places(entry.nodes[n]) : \E i \in DOMAIN Bindings : Writes(n, i, q)}
        left == {q \in DOMAIN original \cup written :
                    \A i \in DOMAIN Bindings : Covers(n, i, q) => i < LastWrite(n, q)}
    IN [q \in left |-> IF LastWrite(n, q) = 0 THEN original[q]
                       ELSE Wanted(Bindings[LastWrite(n, q)])]

(* A patched workflow is the baked one with exactly the bound paths         *)
(* replaced, each by the last binding to it, with the inputs of this job:   *)
(* nothing of an earlier job of the same worker is left in it               *)
(* (apply_input_bindings and the deep copy it starts from).                 *)
PatchedAsBound ==
    pc = "patched" => \A n \in DOMAIN graph : graph[n].leaves = ExpectedLeaves(n)

\* A binding that no input can make applicable.
BrokenBinding(i) ==
    LET b == Bindings[i] IN
    \/ b.node_id = "" \/ b.path = <<>>
    \/ Target(b) = {}
    \/ b.template /\ b.value \notin {entry.schema.inputs[j].id : j \in DOMAIN entry.schema.inputs}
    \/ \E n \in Target(b) :
        \/ Reached(entry.nodes[n], b.path) = {}
        \/ \E q \in Reached(entry.nodes[n], b.path), j \in 1 .. (i - 1) : Covers(n, j, q)

Inconsistent ==
    \/ entry.nodes = <<>> \/ Bindings = <<>>
    \/ \E i \in DOMAIN entry.schema.inputs : InvalidInput(entry.schema.inputs, i)
    \/ \E i \in DOMAIN Bindings : BrokenBinding(i)

OmitsBoundInput ==
    \E i \in DOMAIN Bindings : Bindings[i].template /\ ~Given(Bindings[i].value)

(* A job is refused with workflow_validation_failed only when the baked     *)
(* documents are at fault, when their schema has no version, or when the    *)
(* job leaves out an optional input that a binding wants; and a job that    *)
(* gets through has none of the three (parse_generation_request,            *)
(* apply_input_bindings).                                                   *)
ContractIsToBlame ==
    /\ pc = "workflow_validation_failed" =>
            Inconsistent \/ entry.schema.version = "" \/ OmitsBoundInput
    /\ pc = "patched" =>
            ~Inconsistent /\ entry.schema.version # "" /\ ~OmitsBoundInput

(* What the README of the worker says of workflow_validation_failed: the    *)
(* baked documents are missing, unreadable, malformed or inconsistent. The  *)
(* execution schema of the catalogue has no version, and a job that gives   *)
(* every bound input is refused all the same.                               *)
CataloguedJobsAreServed ==
    pc = "workflow_validation_failed" => Inconsistent \/ OmitsBoundInput
=============================================================================
