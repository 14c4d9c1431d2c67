------------------------ MODULE MCGenerationContract ------------------------
(* Two inputs, a workflow of up to three nodes, up to two bindings.         *)
EXTENDS GenerationContract

Input(id, required, max) == [id |-> id, type |-> "string", required |-> required, max_length |-> max]
Binding(value, template, node, path) ==
    [value |-> value, template |-> template, node_id |-> node, path |-> path]

MCStripped == "a" :> "a" @@ " a " :> "a" @@ "long" :> "long" @@ "  " :> ""
MCLength == "a" :> 1 @@ "long" :> 4
MCDigits == "0" :> "0" @@ "00" :> "0" @@ "1" :> "1"

MCSegment == {"title", "widgets", "0", "00", "1"}

Node(id) == [id |-> id, lists |-> {<<"widgets">>, <<"widgets", "0">>},
             leaves |-> <<"widgets", "0", "0">> :> "w0" @@ <<"title">> :> "t"]

Prompt == Input("prompt", TRUE, 3)
Style == Input("style", FALSE, NoLimit)

MCBindings ==
    {Binding("prompt", TRUE, "n1", <<"widgets", "0">>), Binding("style", TRUE, "n1", <<"title">>),
     Binding("off", FALSE, "n1", <<"widgets", "00">>), Binding("off", FALSE, "n1", <<"widgets">>),
     Binding("off", FALSE, "n1", <<"widgets", "1">>), Binding("off", FALSE, "n1", <<"title", "0">>),
     Binding("off", FALSE, "n1", <<"widgets", "00", "0">>), Binding("off", FALSE, "n1", <<>>),
     Binding("off", FALSE, "n2", <<"title">>), Binding("seed", TRUE, "n1", <<"title">>)}

\* Init takes the schemas, the bindings and the workflows in every combination.
Entry(is, bs, ns) == [inputs |-> is, bindings |-> bs, nodes |-> ns]
MCEntries ==
    {Entry(<<Prompt, Style>>, <<>>, <<Node("n1")>>),
     Entry(<<Prompt, Prompt>>, <<>>, <<Node("n1"), Node("n2"), Node("n1")>>),
     Entry(<<Input("token", TRUE, 3)>>, <<>>, <<>>)}
    \cup {Entry(<<Prompt, Style>>, bs, <<Node("n1")>>) :
            bs \in {<<b>> : b \in MCBindings} \cup (MCBindings \X MCBindings)}

MCPayloads ==
    {[object |-> FALSE, data |-> <<>>], [object |-> TRUE, data |-> <<>>]}
    \cup {[object |-> TRUE, data |-> d] :
            d \in {"prompt" :> "a", "prompt" :> " a ", "prompt" :> "long", "prompt" :> "  ",
                   "prompt" :> "number", "prompt" :> "a" @@ "style" :> "long",
                   "prompt" :> "a" @@ "style" :> Null, "prompt" :> "a" @@ "extra" :> "a"}}
=============================================================================
