-------------------------- MODULE MCEndpointWorker --------------------------
(* Two jobs, the second without an id: it writes to the directory "local".  *)
EXTENDS EndpointWorker, TLC

MCSafeSegment == "j1" :> "j1" @@ "j2" :> ""

Event(kind, images) == [kind |-> kind, images |-> images]
Run == {<<Event("completed", 1)>>}
MCStreams ==
    Run \cup {<<Event("completed", 2)>>, <<Event("node", 2)>>, <<Event("node", 2), Event("completed", 0)>>,
              <<Event("node", 2), Event("completed", 1)>>, <<Event("completed", 0)>>,
              <<Event("completed", 1), Event("malformed", 0)>>}
=============================================================================
