---------------------------- MODULE RunpodRequests ----------------------------
(* What the application asks of RunPod, and what it takes from the answers:  *)
(* the commands of the runtime services, the requests the adapter and the    *)
(* provider make of them, and the test by which a listing recognises a       *)
(* resource as the one a command describes.                                  *)
(*                                                                           *)
(* An optional value is a set of at most one element.                        *)
EXTENDS HttpAnswers, Integers, Sequences

ResourceKind == {"volume", "pod", "template", "endpoint"}

\* resource_name. The id of an operation has a fixed length and no suffix of a
\* kind contains a hyphen: the parts of a name can be told from the name.
ResourceName(p, kind) == <<p.workspace_id, p.provision_operation_id, kind>>

-----------------------------------------------------------------------------
(* What the services know of a runtime when they name its resources.         *)

\* run_provision has it from its command and from the answers so far.
ProvisionPlace(command, operation_id, ids) ==
    [workspace_id           |-> command.workspace_id,
     provision_operation_id |-> operation_id,
     config                 |-> [datacenter_id  |-> command.datacenter_id,
                                 gpu_id         |-> command.gpu_id,
                                 volume_size_gb |-> command.volume_size_gb],
     ids                    |-> ids]

\* The RunpodRuntime that start_provision stores.
StoredRuntime(command, operation_id) ==
    [provision_operation_id |-> operation_id,
     config    |-> [datacenter_id  |-> command.datacenter_id,
                    gpu_id         |-> command.gpu_id,
                    volume_size_gb |-> command.volume_size_gb],
     resources |-> [k \in ResourceKind |-> {}]]

\* run_cleanup and recover_one have it from the workspace and its runtime.
StoredPlace(workspace_id, runtime) ==
    [workspace_id           |-> workspace_id,
     provision_operation_id |-> runtime.provision_operation_id,
     config                 |-> runtime.config,
     ids                    |-> runtime.resources]

-----------------------------------------------------------------------------
(* The commands of the port.                                                 *)

Volume(p) == CHOOSE id \in p.ids["volume"] : TRUE
Template(p) == CHOOSE id \in p.ids["template"] : TRUE

CreateNetworkVolume(p) ==
    [name          |-> ResourceName(p, "volume"),
     datacenter_id |-> p.config.datacenter_id,
     size_gb       |-> p.config.volume_size_gb]

StartProvisionerPod(p, image, assets, hugging_face_key) ==
    [workspace_id          |-> p.workspace_id,
     name                  |-> ResourceName(p, "pod"),
     datacenter_id         |-> p.config.datacenter_id,
     network_volume_id     |-> Volume(p),
     provisioner_image_ref |-> image,
     required_model_assets |-> assets,
     hugging_face_api_key  |-> hugging_face_key]

CreateTemplate(p, image) ==
    [name |-> ResourceName(p, "template"), image_ref |-> image]

CreateEndpoint(p) ==
    [name              |-> ResourceName(p, "endpoint"),
     datacenter_id     |-> p.config.datacenter_id,
     gpu_id            |-> p.config.gpu_id,
     network_volume_id |-> Volume(p),
     template_id       |-> Template(p)]

\* The records ObserveNetworkVolume, ObserveProvisionerPod, ObserveTemplate and
\* ObserveEndpoint of the port.
ObserveCommand(kind, p) ==
    CASE kind = "volume"   -> CreateNetworkVolume(p)
      [] kind = "pod"      -> [name |-> ResourceName(p, "pod"), network_volume_id |-> Volume(p)]
      [] kind = "template" -> [name |-> ResourceName(p, "template")]
      [] kind = "endpoint" -> [name |-> ResourceName(p, "endpoint"), gpu_id |-> p.config.gpu_id,
                               network_volume_id |-> Volume(p), template_id |-> Template(p)]

-----------------------------------------------------------------------------
(* The requests of the provider. Each carries a token and goes to RunPod's   *)
(* API or, for the state of the provisioner, to a port of the pod.           *)

Request(method, path, token, content) ==
    [to |-> "api", method |-> method, path |-> path, token |-> token, content |-> content]

\* An HMAC of the workspace's id under the key.
DeriveBearerToken(key, workspace_id) == <<"hmac", key, workspace_id>>

PROVISIONER_PORT == 8000

NetworkVolumeCreateInput(r) ==
    [data_center_id |-> r.datacenter_id, name |-> r.name, size |-> r.size_gb]

PodCreateInput(key, r) ==
    [compute_type      |-> "CPU",
     data_center_ids   |-> <<r.datacenter_id>>,
     env               |-> [bearer_token          |-> DeriveBearerToken(key, r.workspace_id),
                            required_model_assets |-> r.required_model_assets,
                            hugging_face_api_key  |-> r.hugging_face_api_key],
     image_name        |-> r.provisioner_image_ref,
     name              |-> r.name,
     network_volume_id |-> r.network_volume_id,
     ports             |-> <<PROVISIONER_PORT>>]

TemplateCreateInput(r) ==
    [image_name |-> r.image_ref, is_public |-> FALSE, is_serverless |-> TRUE, name |-> r.name]

EndpointCreateInput(r) ==
    [compute_type      |-> "GPU",
     data_center_ids   |-> <<r.datacenter_id>>,
     gpu_type_ids      |-> <<r.gpu_id>>,
     name              |-> r.name,
     network_volume_id |-> r.network_volume_id,
     template_id       |-> r.template_id,
     workers_min       |-> r.workers_min,
     workers_max       |-> r.workers_max]

PostNetworkVolume(key, r) == Request("post", "networkvolumes", key, NetworkVolumeCreateInput(r))
PostPod(key, r) == Request("post", "pods", key, PodCreateInput(key, r))
PostTemplate(key, r) == Request("post", "templates", key, TemplateCreateInput(r))
PostEndpoint(key, r) == Request("post", "endpoints", key, EndpointCreateInput(r))

ListNetworkVolumes(key) == Request("get", "networkvolumes", key, {})

\* Without its flag RunPod would leave out the volume, which the test below reads.
ListPods(key, name) ==
    Request("get", "pods", key, {<<"name", name>>, <<"includeNetworkVolume", "true">>})

\* Without its flag RunPod would leave out the templates that an endpoint uses.
ListTemplates(key) ==
    Request("get", "templates", key, {<<"includeEndpointBoundTemplates", "true">>})

ListEndpoints(key) == Request("get", "endpoints", key, {})

Collection == [volume |-> "networkvolumes", pod |-> "pods", template |-> "templates",
               endpoint |-> "endpoints"]

DeleteRequest(kind, key, id) == Request("delete", <<Collection[kind], id>>, key, {})

-----------------------------------------------------------------------------
(* The adapter's requests to create what a command describes.                *)

ENDPOINT_WORKERS_MIN == 0
ENDPOINT_WORKERS_MAX == 1

\* A size that is no i64 is refused before any request; a workspace's is at most
\* RUNPOD_NETWORK_VOLUME_MAX_SIZE_GB.
CreatesNetworkVolume(key, c) == PostNetworkVolume(key, c)

StartsProvisionerPod(key, c) == PostPod(key, c)

CreatesTemplate(key, c) == PostTemplate(key, c)

CreatesEndpoint(key, c) ==
    PostEndpoint(key, [name              |-> c.name,
                       datacenter_id     |-> c.datacenter_id,
                       gpu_id            |-> c.gpu_id,
                       network_volume_id |-> c.network_volume_id,
                       template_id       |-> c.template_id,
                       workers_min       |-> ENDPOINT_WORKERS_MIN,
                       workers_max       |-> ENDPOINT_WORKERS_MAX])

\* The request for the resource of the given kind of p.
CreateRequest(kind, key, p, image, assets, hugging_face_key) ==
    CASE kind = "volume"   -> CreatesNetworkVolume(key, CreateNetworkVolume(p))
      [] kind = "pod"      -> StartsProvisionerPod(key, StartProvisionerPod(p, image, assets,
                                                                            hugging_face_key))
      [] kind = "template" -> CreatesTemplate(key, CreateTemplate(p, image))
      [] kind = "endpoint" -> CreatesEndpoint(key, CreateEndpoint(p))

-----------------------------------------------------------------------------
(* A resource as RunPod lists it, when it was made of a create request: with *)
(* an id, a pod with the volume asked for. None of the optional fields is    *)
(* missing.                                                                  *)

NetworkVolumeSummary(id, input) ==
    [id |-> id, name |-> input.name, data_center_id |-> input.data_center_id,
     size |-> input.size]

PodSummary(id, input) ==
    [id |-> id, name |-> input.name, network_volume |-> {[id |-> input.network_volume_id]}]

TemplateSummary(id, input) ==
    [id |-> id, name |-> input.name, is_public |-> input.is_public,
     is_serverless |-> input.is_serverless]

EndpointSummary(id, input) ==
    [id |-> id, name |-> input.name, gpu_type_ids |-> input.gpu_type_ids,
     network_volume_id |-> {input.network_volume_id}, template_id |-> {input.template_id}]

Made(kind, id, input) ==
    CASE kind = "volume"   -> NetworkVolumeSummary(id, input)
      [] kind = "pod"      -> PodSummary(id, input)
      [] kind = "template" -> TemplateSummary(id, input)
      [] kind = "endpoint" -> EndpointSummary(id, input)

\* What the answer to a request for a list shows of the resources of that kind in
\* the account, of which some are bound to an endpoint: a pod without its volume
\* and no template that is bound, unless the request asks for it.
Shown(request, account, bound) ==
    CASE request.path = "pods" /\ <<"includeNetworkVolume", "true">> \notin request.content ->
             {[r EXCEPT !.network_volume = {}] : r \in account}
      [] /\ request.path = "templates"
         /\ <<"includeEndpointBoundTemplates", "true">> \notin request.content ->
             {r \in account : r.id \notin bound}
      [] OTHER -> account

-----------------------------------------------------------------------------
(* The observations: the test by which a listing recognises a resource.      *)

NetworkVolumeIsValid(r, c) == r.data_center_id = c.datacenter_id /\ r.size = c.size_gb
ProvisionerPodIsValid(r, c) == \E v \in r.network_volume : v.id = c.network_volume_id
TemplateIsValid(r) == ~r.is_public /\ r.is_serverless
EndpointIsValid(r, c) ==
    /\ r.gpu_type_ids = <<c.gpu_id>>
    /\ r.network_volume_id = {c.network_volume_id}
    /\ r.template_id = {c.template_id}

\* What an observation makes of the resources of the right name, of which those
\* in valid pass the test.
ClassifyObservation(matches, valid) ==
    CASE matches = {}                   -> "absent"
      [] \E r \in valid : matches = {r} -> "found"
      [] OTHER                          -> "ambiguous"

OfName(resources, name) == {r \in resources : r.name = name}

ObserveNetworkVolume(key, account, bound, c) ==
    LET matches == OfName(Shown(ListNetworkVolumes(key), account, bound), c.name)
    IN ClassifyObservation(matches, {r \in matches : NetworkVolumeIsValid(r, c)})

ObserveProvisionerPod(key, account, bound, c) ==
    LET matches == OfName(Shown(ListPods(key, c.name), account, bound), c.name)
    IN ClassifyObservation(matches, {r \in matches : ProvisionerPodIsValid(r, c)})

ObserveTemplate(key, account, bound, c) ==
    LET matches == OfName(Shown(ListTemplates(key), account, bound), c.name)
    IN ClassifyObservation(matches, {r \in matches : TemplateIsValid(r)})

ObserveEndpoint(key, account, bound, c) ==
    LET matches == OfName(Shown(ListEndpoints(key), account, bound), c.name)
    IN ClassifyObservation(matches, {r \in matches : EndpointIsValid(r, c)})

ObservationOf(kind, key, account, bound, c) ==
    CASE kind = "volume"   -> ObserveNetworkVolume(key, account, bound, c)
      [] kind = "pod"      -> ObserveProvisionerPod(key, account, bound, c)
      [] kind = "template" -> ObserveTemplate(key, account, bound, c)
      [] kind = "endpoint" -> ObserveEndpoint(key, account, bound, c)

-----------------------------------------------------------------------------
(* The outcome of a request: what the adapter makes of its Answer.           *)

ProviderError == {"unauthorized", "unavailable", "create_outcome_unknown",
                  "observe_unavailable", "provisioner_failed"}

MapError(error) == IF error = "unauthorized" THEN "unauthorized" ELSE "unavailable"

MapCreateError(error) ==
    CASE error = "unauthorized"                                      -> "unauthorized"
      [] error \in {"timeout", "request_failed", "invalid_response"} -> "create_outcome_unknown"
      [] OTHER                                                       -> "unavailable"

\* The id is optional in the reply to a create request.
Created(a) ==
    LET reply == IntoJson(a, Body \ {"unreadable"}) IN
    CASE reply # "ok"     -> MapCreateError(reply)
      [] a.body = "whole" -> "created"
      [] OTHER            -> "create_outcome_unknown"

\* Every element of a list must have every field that is not optional.
Observed(a) == IF IntoJson(a, {"whole"}) = "ok" THEN "listed" ELSE "observe_unavailable"

\* A resource that is not found counts as deleted; the body is not read.
Deleted(a) ==
    CASE IntoResponse(a) \in {"ok", "not_found"} -> "deleted"
      [] OTHER                                   -> MapError(IntoResponse(a))

-----------------------------------------------------------------------------
(* The placement the user chooses from: RunPod's data centres and their GPUs,*)
(* lists of optional records with optional fields.                           *)

Option(S) == {{}} \cup {{x} : x \in S}

PlacementGpuType ==
    [id : Option(STRING), display_name : Option(STRING), memory_gb : Option(Int)]

\* Whether a GPU type is in stock is there but is not read.
PlacementDatacenter ==
    [id : Option(STRING), name : Option(STRING),
     gpu_availability : Option(Seq(Option([gpu_type_id : Option(STRING)])))]

PlacementResponse ==
    [gpu_types : Option(Seq(Option(PlacementGpuType))),
     datacenters : Option(Seq(Option(PlacementDatacenter)))]

Some(option) == CHOOSE x \in option : TRUE

Complete(list, fields) ==
    \A i \in DOMAIN list : list[i] # {} /\ \A f \in fields : Some(list[i])[f] # {}

\* Field f of element i of a list that is complete.
Field(list, i, f) == Some(Some(list[i])[f])

\* The GPU types by their id; of two with the same id the last one counts.
GpusById(types) ==
    [id \in {Field(types, i, "id") : i \in DOMAIN types} |->
        LET last == CHOOSE i \in DOMAIN types :
                        /\ Field(types, i, "id") = id
                        /\ \A j \in DOMAIN types : Field(types, j, "id") = id => j <= i
        IN [id      |-> id,
            name    |-> Field(types, last, "display_name"),
            vram_gb |-> Field(types, last, "memory_gb")]]

\* A data centre offers GPU types of the list only.
Offers(datacenters, i) == Field(datacenters, i, "gpu_availability")

Normalizable(types, datacenters) ==
    /\ Complete(types, {"id", "display_name", "memory_gb"})
    /\ \A i \in DOMAIN types : Field(types, i, "memory_gb") >= 0
    /\ Complete(datacenters, {"id", "name", "gpu_availability"})
    /\ \A i \in DOMAIN datacenters :
          /\ Complete(Offers(datacenters, i), {"gpu_type_id"})
          /\ \A j \in DOMAIN Offers(datacenters, i) :
                Field(Offers(datacenters, i), j, "gpu_type_id") \in DOMAIN GpusById(types)

RUNPOD_NETWORK_VOLUME_MAX_SIZE_GB == 4000

\* The placement, or none if any part of the response is missing.
NormalizePlacement(response) ==
    LET types == Some(response.gpu_types)
        datacenters == Some(response.datacenters)
        Placed(i) ==
            [id   |-> Field(datacenters, i, "id"),
             name |-> Field(datacenters, i, "name"),
             gpus |-> [j \in DOMAIN Offers(datacenters, i) |->
                         GpusById(types)[Field(Offers(datacenters, i), j, "gpu_type_id")]]]
    IN IF response.gpu_types # {} /\ response.datacenters # {} /\ Normalizable(types, datacenters)
       THEN {[max_volume_size_gb |-> RUNPOD_NETWORK_VOLUME_MAX_SIZE_GB,
              datacenters        |-> [i \in DOMAIN datacenters |-> Placed(i)]]}
       ELSE {}
=============================================================================
