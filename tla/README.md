# Verification of LumaForge

LumaForge is a desktop application. Its native backend (`src-tauri/`, Rust) keeps *workspaces* in a local SQLite
database, attaches a GPU *runtime* at RunPod to a workspace, and records each provision or cleanup of a runtime as a
*runtime operation*. Two Python workers run at RunPod: the provisioner downloads model files onto a network volume, the
endpoint worker runs ComfyUI workflows. This directory holds TLA+ models of the parts whose correctness depends on
interleaving, failure and recovery, the TLC runs that check them, and TLAPS proofs about them.

Paths below are relative to the repository; `runtimes/` stands for `src-tauri/src/application/runtimes/`.

## 1. Inventory

| Component | Source | State | Operations | Hard behaviour | What makes it correct |
|---|---|---|---|---|---|
| Runtime records | `runtimes/models`, `runtimes/runpod/models` | – | `validate_transition`, `set_progress`, `succeed`, `fail` | – | operation and runtime states are only stored in matching pairs |
| RunPod runtime service | `runtimes/runpod/{provision,cleanup,service,recovery}.rs`, `runtimes/service.rs` | detached tasks, each with its own copy of the workspace and the operation | `start_provision`, `run_provision`, `start_cleanup`, `run_cleanup`, `supervise`, `recover_interrupted` | two detached tasks per operation, a deadline that aborts one of them, requests with unknown outcome, failed saves, restarts | one operation per workspace; every operation ends; no remote resource is forgotten; a ready runtime is complete |
| SQLite store | `src-tauri/src/adapters/sqlite`, `infra/sqlite` | tables `workspaces`, `workspace_runtimes`, `runtime_operations` | `save_transition`, `create`, `delete`, `get`, `page`, `running` | admissions race each other and deletions; conditions are part of the statements | the conditional writes admit one operation and never leave half of a pair |
| Workspace service | `src-tauri/src/application/workspace` | – | `create`, `delete`, `get`, `list` | deletion against admission | a deleted workspace owns nothing |
| RunPod adapter | `src-tauri/src/adapters/runpod`, `providers` | – | create, observe, delete, `wait_for_provisioner`, `placement` | time limits, answers without an id, several resources of one name | an unknown outcome is never taken for a failure |
| Transition coordinator, events | `runtimes/transition.rs`, `application/events.rs`, `facade/events.rs` | a mutex | `save` = commit, then two events | abort between commit and event; events outside the mutex | events follow the order of the commits |
| Secrets service | `src-tauri/src/application/secrets`, `adapters/keyring` | keyring entries | `set`, `status`, `identity`, `delete` | two looks, a remote validation between them, then a write; the key is deleted or replaced while a runtime is attached | a stored secret was validated; a cleanup uses a key of the account its provision used |
| Provisioner worker | `workers/provisioner` | the job's snapshot, its thread, a download process with its queue, the files on the volume | start of the process and with it of the only job, the phases of the job, `/status` | inactivity time limit against the last message of the process; kills of the container or of the process | a reported success is true; a file is whole when it has its name |
| Endpoint worker | `workers/runpod-endpoint` | the ComfyUI process, the startup lock, image directories | `generate_from_payload`, `ensure_ready`, run, fetch, `_persist_images` | concurrent starts, redelivered jobs, a worker that dies between two images | one launch per outage; all images of one attempt, or an error |
| Bundled catalogue | `infra/bundled`, `adapters/bundled` | directories `<kind>/<id>/<revision>` | `get`, `all`, resolution of contracts | a revision is looked up again years after a workspace was created for it | a workspace keeps its images |
| Release tools and workflows | `workers/*.py`, `workers/*/release_tool.py`, `.github/workflows` | the default branch, runs with their checkouts, pull requests | resolve, promote, open a pull request | runs that overlap, each with its own checkout | nothing is rewritten; a new revision refers to the image it was made for |
| Facade | `src-tauri/src/facade` | – | the commands: pages, conversion of what the services return, codes of their errors | – | a client can tell why it was refused; a listing shows what is stored |
| Diagnostics, frontend | `src-tauri/crates`, `src` | logs, an event list | logging, display | – | – |

How they interact: a Tauri command calls a service. `start_provision` and `start_cleanup` read the workspace, *admit* the
operation by one conditional transaction, and spawn a **body** (`run_provision`, `run_cleanup`) and its **supervisor**.
The body calls RunPod and saves its copy of workspace and operation after each step. The supervisor waits for the body
with a deadline (two hours, five minutes), aborts it when the deadline passes, and fails an operation that is still
running. Every save goes through one mutex and is followed by two events. At start-up, before any command is served,
`recover_interrupted` fails the operations that a previous process left running, first looking at RunPod for the
resource of an unfinished create step. The provisioner worker prepares the volume of its pod on its own, and the body
polls its `/status` over HTTP; the endpoint worker is used only after a runtime is ready, and writes its images to the
same volume. Which images the two workers run in is read from the bundled catalogue when a provision starts; the release
tools write that catalogue in the repository, and the application carries the copy it was built with.

The hazards these components are exposed to are listed with their lines in `PROJECT.json`.

## 2. Modules

| Module | Models |
|---|---|
| `RuntimeModels` | the records and pure operators: runtime, operation, steps, `validate_transition`, what a step stores |
| `HttpAnswers` | how an HTTP request of a provider ends: a status, a body, or nothing; what the providers make of it |
| `RunpodRequests` | the RunPod adapter and provider as operators: every request with its content, the classes of its answers, the test of an observation, the placement |
| `RuntimeLifecycle` | bodies, supervisors, recovery, commands, the store's transactions, RunPod as their environment; the properties |
| `WorkspaceLifecycle` | the abstract promise: the status diagram of a workspace, each move being the start or the end of one operation |
| `MCRuntimeLifecycle` | symmetry of the instances TLC checks |
| `RuntimeCoupling` | the inductive invariant behind the safety properties of `RuntimeLifecycle`; what its steps with requests come to |
| `Commands` | the rows an operation is stored in and read from, the errors of services and commands |
| `RuntimeCouplingProofs` | type correctness of `RuntimeLifecycle`, that invariant, the safety theorems that follow from it, and theorems about `RunpodRequests` and `Commands` |
| `RuntimeResources` | the inductive invariants about RunPod: which resources exist, or may yet be created, at each step of an operation |
| `RuntimeResourcesProofs` | these invariants, the theorems about resources, and the refinement of `WorkspaceLifecycle` |
| `TransitionEvents` | the transition coordinator: a save taken apart into lock, commit and two events; what a listener hears |
| `MCTransitionEvents` | symmetry of the instances TLC checks |
| `TransitionEventsProofs` | theorems about `TransitionEvents` |
| `ProvisionerWorker` | a provisioner pod: the process, the job's thread, the download process, the volume, and `wait_for_provisioner` |
| `PreparedVolume` | the abstract promise: one answer, which is "ok" only over whole files, and files that are whole stay so |
| `ProvisionerWorkerProofs` | theorems about `ProvisionerWorker`, the refinement of `PreparedVolume` among them |
| `EndpointWorker` | the jobs of an endpoint worker, its ComfyUI, the startup lock, the image directories |
| `MCEndpointWorker` | two jobs, and what `comfy run` may print |
| `EndpointWorkerProofs` | theorems about `EndpointWorker` |
| `GenerationContract` | the documents of a job: from the catalogue's entry over the image's metadata and the job's input to the patched workflow |
| `MCGenerationContract` | the entries and inputs that are combined |
| `GenerationContractProofs` | theorems about `GenerationContract` |
| `CatalogueReleases` | deployment runs, pull requests, the default branch, the bundled copy, and the workspaces that refer to it |
| `MCCatalogueReleases` | what an author may add by hand, symmetry |
| `CatalogueReleasesProofs` | theorems about `CatalogueReleases` |
| `Secrets` | the RunPod key in the keyring, the commands that set and delete it, and the tasks that use it |
| `MCSecrets` | the accounts of the keys, symmetry |
| `SecretsProofs` | theorems about `Secrets` |

`RuntimeLifecycle` composes with `ProvisionerWorker` and `CatalogueReleases` at one step each: its `Wait` is the whole
of `wait_for_provisioner`, of which `PreparedVolume` says what the answer means, and its `ProvisionBegin` contains the
look-up that `CatalogueReleases` calls `Provision`. `TransitionEvents` takes its `Saved` apart. `EndpointWorker` and
`GenerationContract` share the handler of a job: `Request` and `Bind` of the one are the subject of the other. `Secrets`
takes the reading of the key out of `ProvisionBegin` and `CleanupBegin`, and sees of the rest of `RuntimeLifecycle` only
which account a task reaches. `RuntimeLifecycle` and `Secrets` take the answers to their requests from `HttpAnswers`, as
the two providers take theirs from `providers/http.rs`.

### RuntimeLifecycle and the code

* `workspaces`, `anchor`, `ops` are the three tables. `anchor[w]` is the runtime of a workspace: its state, the id of
  the provision operation (which every resource name contains) and the set of kinds whose id is stored. Names, sizes
  and the ids themselves are abstracted; an id held is the id of the `Good` copy.
* `task[o]` is the one task that works on operation `o`: its program counter names the `await` the code is at, `op` and
  `rt` are its own copies of the row and of `workspace.runtime`. A body and its supervisor share this variable because
  the supervisor acts only after the body has ended (`body.abort(); body.await`, `service.rs:138`).
* A step of a body is one `await`: `Create`, `Observe`, `Purge`, `Wait`, `Delete`, `Adopt`, `Save`, `Undo`. The six
  steps of a provision and the four of a cleanup are the same actions at another `op.step`; `EntryPc` says at which
  `await` a step begins.
* A step with a request draws one `Answer`. `Requested` and `Dropped` say what RunPod has done when it gives this answer
  to a create or a delete request; `Created`, `Observed`, `Observation` and `Deleted` say what the adapter takes it for
  (`map_create_error`, `classify_observation`, `cleanup`), and that alone decides how the task goes on.
* `Saved` is `save_transition`: the pair is validated, then written under the condition `Admissible`. `SaveRefused` is
  any error of it.
* `Deadline` may occur whenever a body lives. `DeadlineInCommit` is the same at an `await` of a COMMIT that lands all
  the same.
* `FailLoadOp`, `FailLoadWs`, `FailSave` are `supervise`; its result is dropped by `spawn_supervised`, so an error
  leaves the operation running (`lost`).
* `ProvisionBegin`/`CleanupBegin` are the reads of a command, `ProvisionAdmit`/`CleanupAdmit` its transaction: another
  command, body or deletion may come between.
* `Exit`, `Boot`, `Serve` are the process; a crash forgets every task and every call.
* `remote` is what exists at RunPod. A create request whose answer was lost may have left any set of copies, or none,
  or (`late`) be executed later.

### RunpodRequests and the code

* `ProvisionPlace`, `StoredRuntime` and `StoredPlace` are what `run_provision`, `run_cleanup` and `recover_one` know of a
  runtime when they build a command of the port. A name is the triple it is made of: `resource_name` joins the parts so
  that they can be told apart.
* The commands of the port, the requests of the adapter and the inputs of the provider are records with the fields of
  the code. `Request` has the method, the path, the token and the content; a query is a set of pairs. The token of a pod
  is a term, since a key or a workspace of one's own gives another HMAC.
* `ObserveNetworkVolume` and its three siblings list, take what has the name (`OfName`), and test it. `Shown` is RunPod:
  it leaves out what the flags of the requests ask for.
* `Created`, `Observed` and `Deleted` go from an answer through `IntoJson` or `IntoResponse` of `HttpAnswers` to
  `ProviderError`.
* `NormalizePlacement` is `placement`: it gives up at the first missing field, here by yielding no placement.

### Commands and the code

* `OperationRow` writes a row of `runtime_operations`, `MapOperation` reads one: the operations it may be read as, none
  when the code returns `CorruptData`.
* `ValidPage` is the facade's check of the limit of a page.
* `SaveError` is the error of `save_transition` while the database works, in the order in which the code looks:
  the pair, the row, the anchor. `RuntimeLifecycle` knows only whether it commits (`Admissible`).
* `FromPersistence` to `FromRemove` are the conversions between the errors of a port and of a service. The sets
  `StartingProvision` and so on are what a service may answer with; `ErrorCodes` are the variants the enum of a command
  has in `facade/errors.rs`, `ErrorCode` the conversion to it.

### TransitionEvents and the code

`RuntimeLifecycle` treats a save as one step. This module takes the same step apart, for the operations of one
workspace, and leaves everything between two saves out.

* `coordinator` is the tokio `Mutex` of `RuntimeTransitionContext` (`runtimes/transition.rs`). `Lock`, `Commit` or
  `Refused`, `EmitWorkspace`, `EmitOperation` are `save` in its order; the guard is released when `save` returns or is
  dropped.
* `writer[o]` is whoever saves operation `o`: the command that admits it, its body, its supervisor. `op` is its copy.
  `Proceed` stands for the work of a step followed by the next save; `progress` counts the running states an operation
  passes through, of which only the order matters here.
* Emitting has no `await`, so an abort takes effect only while the body works, waits for the mutex, or awaits its
  COMMIT (`Deadline`). `DeadlineInCommit` is the abort of a COMMIT that lands all the same.
* `CreateWorkspace` and `DeleteWorkspace` are transactions of the workspace service; `AnnounceCreated` and
  `AnnounceDeleted` are its events, emitted later and without the mutex.
* A listener keeps the last event it heard: `heardWorkspace` with the number `at` of the commit it tells of,
  `heardDeleted`, `heardOp`. `missed` holds the operations whose last commit nobody is going to announce; it is a
  history variable of the model.

### ProvisionerWorker and the code

* `env` is what the container's two required variables hold. `ConfigurationError` is the order in which `config.py`
  looks at them; the process then exits with 78, as often as the container restarts it.
* `pod` is the container: the job is started before the port is bound (`Boot`, `Listen`). `ProcessesEnd` is what ends
  with it; the volume stays, and a container that restarts runs its job again over the files of the first attempt.
* `thread` is where `prepare` is, and at which asset. `Drain`, `Join`, `TimeOut`, `Watched`, `NoResult` and `Result` are
  the loop that watches a download (`huggingface.py`). The queue of the code is a pipe that a feeder thread fills:
  `queue` is the pipe, `returned` the message the watching thread has put back and its feeder has not written yet
  (`Flush`).
* `child` is the download process: it writes the `.part` file (`part`), renames it (`Rename`) and reports. `Break` and
  `Broken` are an exception and the `finally`. A file is `whole`, or `cut` when `WholeBodies` does not hold: the code
  takes a connection that ended early for the end of the body.
* `native` is `wait_for_provisioner`: `deadline` is `not_found_deadline`, armed by the first 404. `TerminatePod` is the
  deletion of the pod by the provision or by a cleanup.

A failed job's error codes are one value. A killed download process is taken to be gone within the ten seconds that
`_terminate_process` waits for it. A 404 is what RunPod's proxy answers while nobody listens.

### EndpointWorker and the code

* `thread[j]` is the handler of a job; its program counter names the call of `service.py` or `comfy.py` it is at. Jobs
  are threads of one process.
* `lock` is `_COMFY_STARTUP_LOCK`. `Probe`, `Acquire`, `Recheck`, `Launch`, `Poll` are `ensure_ready`, with a deadline
  of `MaxPolls` probes. A ComfyUI that serves but answers later than the two seconds of a probe counts as missing, as in
  the code.
* `RunWorkflow` draws what `comfy run` prints from `Streams`; `ParseComfyRunEvents` is the rule by which images and
  errors are found in it.
* `volume[d]` are the images under a job's directory, each with the attempt that wrote it and whether it is written to
  its end. `ClearDirectory`, `CreateImage`, `WriteImage`, `Persisted` and `Rollback` are `_persist_images`; every
  `rmtree` may fail half-way. The `exists()` before the second one may raise as well: then nothing is removed, and the
  job is answered with `runtime_failed`, as it is for any exception outside the worker's own kinds (`api/handler.py`):
  a file with the model paths that cannot be written, output that is no UTF-8, a temporary directory that cannot be made.
* `Deliver` is RunPod, which delivers a job again only after the attempt before it has answered or its worker is gone:
  two attempts at one time could not be told apart by the worker. Job ids are assumed to leave different path segments.
* `launches`, `torn` and `reported` are history variables: launches since ComfyUI was last missing; the directories in
  which a rollback that could not finish, or a worker that died while it wrote, left something behind; and the images a
  job's last success has reported, until `ClearDirectory` of its next attempt begins to remove them. `NothingHalf`
  compares a directory with `reported`, so that a proper part of the images of an attempt, whole files or not, refutes
  it.

### GenerationContract and the code

* A JSON document is represented by its leaves: a node is a function from paths to values together with the paths that
  are arrays. `Places` are the leaves and the objects and arrays around them.
* `ExtractRuntimeMetadata` is the build (`tools/build_metadata.py`), `ParseGenerationRequest` the schema and the input
  (`schemas.py`), `ApplyInputBinding` one binding (`runtime/workflow.py`): the graph is changed in place, so that a
  binding meets what the ones before it have left.
* A binding's path need not be the name of the place it leads to: an array takes "00" for its element "0".
  `Follows` is one call of `_path_child`, and `Reached` the place at the end of the path, which is replaced together
  with everything below it (`SetPathValue`); it is empty when one of the checks on the way fails. `Refused` collects the
  errors of a binding, which have one code.
* `PatchedAsBound` compares the result with `ExpectedLeaves`, which reads the bindings as a table over the workflow as
  it was baked, instead of one after the other.

### CatalogueReleases and the code

* A catalogue is two functions, from workflow revisions and from contract revisions to what is in their directories.
  Revision 1.m.p is `<<m, p>>`; `OddName` is a directory whose name is no revision. An image is the documents baked into
  it and the number of its build; digests are equal only for the same build.
* `StartRun` checks the default branch out. Runs of different tags share no concurrency group, so any number of them are
  under way. `EndpointReady` and `ProvisionerReady` are what `resolve` and `promote` demand of the checkout,
  `EndpointPromotion` and `ProvisionerPromotion` what they write, always to directories that are not there
  (`ensure_destination_available`). The endpoint's promotion copies the *selected* revision, so a new revision may carry
  an older provisioner image than the one before it; this is the operator's choice, and no property denies it.
* `OpenPull` replaces an open pull request of the same branch, whose name is the contract and its new revision. `Merge`
  is a three-way merge of files; a conflict keeps a pull request from being merged. A contract is one file. A revision is
  five, and a directory somebody has added by hand with some of them does not conflict if those agree with what the pull
  request writes (`FitsRevision`, `CompletedBy`): the merge then completes it.
* `Author` is a commit by hand. What it adds may be named oddly, refer to contracts that are not there or to those of
  another workflow, or lack files.
* `Release` builds the application. `CreateWorkspace` picks from `Catalog::all`, `Provision` uses `Catalog::get` and
  resolves the contracts.

### Secrets and the code

* `entry` is the keyring's entry of the RunPod key. The operating system answers one call after the other.
* `call[c]` is a command. `Exists`, `Identity`, `Insert`, `Write` are the calls `set` waits for: the service looks,
  RunPod validates, the store looks again and writes. `Find` and `Remove` are `delete`. `Unavailable` is the failure of
  any of them. `seen` is what the look before the write found.
* `Identified` is what the service takes RunPod's answer to the identity query for; `Asked` is RunPod, which names an
  identity only for a key it accepts.
* `StartProvision` and `StartCleanup` have the workspace as it was, `ReadKey` reads the key, `Admit` is the conditional
  transaction. `held` is the key the admitted body keeps (`runpod_key`).
* `remote` are the accounts that hold resources of the workspace. `EndCleanup` deletes what the held key reaches, and
  takes what it does not find for deleted (`cleanup` of the adapter). That a cleanup finds everything within one account
  is the subject of `RuntimeLifecycle`.
* `disturbed` is a history variable: the key was deleted while it was in use, or written over another since the look.
  It is reset when a command reads the key and nothing else uses it.

### What the environment is assumed to do

Resources are deleted at RunPod only by the application. `RuntimeLifecycle` knows one RunPod account; `Secrets` has
several. RunPod carries out nothing it answers with 401, 403, 404 or 429, answers a delete with 404 only if the resource
is not there, and identifies only keys it accepts; an answer that does not arrive, or arrives as another failure or as a
success that cannot be read, says nothing. An observation lists what exists at that moment, and shows a resource as it was asked
for, with the fields its request asks for (`Made`, `Shown`). With `Timely`, a create request that RunPod executes late is
executed before a cleanup of its runtime is admitted; the runs about resources assume it, the others do not. In
`RuntimeLifecycle` a commit and its events are one step, which `TransitionEvents` takes apart. An event that is emitted
is heard: the code logs an emission that fails and goes on.

## 3. Runs

| Run | Instance | Shows |
|---|---|---|
| `concurrent` | 1 workspace, 3 operations, 2 commands, 2 failures, not `Timely` | `TypeOK`, `OneRunningPerWorkspace`, `AnchorFollowsOperation`, `SavesAreAdmissible`, `DeletedIsBare`, `FinishedIsFinal`, and the inductive invariant `Coupled` |
| `serial` | 1 workspace, 4 operations, 1 command, 3 failures, `Timely` | `NoOrphan`, `ResourcesAreLocatable`, `ReadyIsWhole`, and that the model implements `WorkspaceLifecycle` |
| `two_workspaces` | 2 workspaces, 2 operations, 1 command, 2 failures, not `Timely` | `RunningIsAttended`, and `OperationsFinish`, `RecoveryEnds` under fairness |
| `stale_cleanup` | 1 workspace, 4 operations, 2 commands, no failure | **violated**: `CleansTheAttachedRuntime` |
| `events` | 3 operations of one workspace, 2 progress transitions each | `TypeOK`, `HeardIsCommitted`, `ListenersAreCurrent`, `HeardInOrder`, `RevivedOnlyBare`, and `SavesEnd` under fairness |
| `missed` | 2 operations, 1 progress transition | **violated**: `EndIsAnnounced` |
| `job` | 2 assets of 2 chunks, 2 kills | `TypeOK`, `SuccessIsWhole`, `TerminalIsQuiet`, `LastWordIsKept`, `PartsAreRemoved`, `AnsweringWorkerIsKept`, `ProgressNeverFalls`, the refinement of `PreparedVolume`, and `WaitEnds` under fairness |
| `images` | 2 jobs, 2 attempts each, up to 2 images | `OneLaunchPerOutage`, `AnswerIsWhole`, `NeverMixed`, `NothingHalf`, and `EveryJobIsAnswered` under fairness |
| `documents` | 3 lists of inputs, with and without a version, 111 lists of bindings, 3 workflows, in every combination; 10 inputs | `PatchedAsBound`, `ContractIsToBlame` |
| `catalogue` | the same, without a version | **violated**: `CataloguedJobsAreServed` |
| `releases` | 2 workflows, 2 runs at once, 2 builds, 1 authored revision, 1 workspace | `PinnedImages`, `PromotionsFit`, `NewestKeepsTheRest` |
| `keys` | 3 commands, 2 keys of one account, 1 of another, 1 that is refused | `NothingLeftBehind` |

Bounds. `OpId`, `Caller` and `MaxFaults` are the only bounds; workspaces are never reused. Three operations let a
provision and two racing cleanups meet; four let a workspace be provisioned, fail to be cleaned up, be cleaned up and be
provisioned again. Two failures combine a lost answer with a refused save, or a refused save with a crash; three add the
failure of the compensating delete. Two workspaces with one operation each leave two operations to one recovery; they
need no second command at a time, because commands race only for the rows of one workspace, which is what `concurrent`
and `stale_cleanup` are for. Two copies (`good`, `odd`) give each outcome of an observation: none, the valid one,
an invalid one, both. Deadlock is checked in the runs of `RuntimeLifecycle`. All actions are enabled in the passing runs; the error branches
that would mean that a task met an inadmissible pair are not, which is what `SavesAreAdmissible` says.

`TransitionEvents` is bounded by `OpId` and `LastProgress`. Three operations are a provision, its cleanup and one that
starts from what they leave, with each of the three possibly waiting for the coordinator at the same time; two progress
transitions make a first, a middle and a last one. Its runs do not check deadlock: the system stops when every operation
identifier is used.

`ProvisionerWorker` is bounded by `Assets`, `Chunks` and `MaxKills`; `Inactivity` and `Patience` are time limits of the
code in rounds of the loop and in ticks. Two assets have a first and a last one, two chunks a cut in the middle, and two
rounds of silence a message that arrives after the first of them. Two kills reach a container that is killed while it
prepares the volume a second time, and a killed download after a killed container. The system stops when the pod is
gone, so deadlock is not checked; nor is it in `images`, which stops when every delivery is used.

`EndpointWorker` is bounded by `Jobs`, `MaxAttempts`, `MaxPolls`, `MaxImages`. Two jobs contend for the lock and for
ComfyUI; two attempts with up to two images give a second attempt with fewer or more images than the first, and a set of
images that is torn in the middle, or whole and one short. `MaxArtifactBytes` admits two small images and is exceeded by
a large second one.

`GenerationContract` meets every pair of ten bindings: to one path, one below the other, to an element of an array by
two names, to an element of an array within an array, to a node that is not there, to no path, of an input that is not
declared; and two nodes with one id.

`CatalogueReleases` is bounded by `MaxMinor`, `MaxPatch`, `MaxBuilds`, `MaxRuns`, `MaxAuthored`. Two runs are what it
takes for one to promote from a checkout the other has overtaken, in each combination of the two images and the two
workflows; one authored revision comes between a checkout and its merge, under the number the promotion has chosen,
beyond it, or under none, with all of its files or lacking one.

`Secrets` is bounded by `Call` alone. Three commands are two writers and whoever uses the key between them, or a delete,
a write and a cleanup that is about to be admitted; the keys are the least that tell a change of the key from a change of
the account. Provisions and cleanups follow one another without bound.

Fairness of `two_workspaces`. A body's step is fair except the wait for the provisioner, because every request has a time
limit of 20 seconds (`providers/http.rs`) and every other `await` is a local query; the deadline is a timer; the
supervisor and the recovery consist of the same kinds of call. Commands, failures, crashes and RunPod's late requests
are not fair. `OperationsFinish` excuses an operation whose terminal save was refused (`lost`): the code leaves it to
the next start, and `RecoveryEnds` says that this start is not held up.

Fairness of `events`. `Lock` is strongly fair because tokio's `Mutex` serves its waiters in the order in which they
came; the steps of a save are weakly fair because a local transaction answers, with success or an error, and emitting is
a call. Commands, bodies, aborts and supervisors are not fair.

Fairness of `job`. The job's thread and the feeder of its queue are scheduled, polling goes on while it has no answer,
and time passes. The download process is not fair, because a connection may hang, nor is the start of a container, nor
any fault. `WaitEnds` then says that the wait ends without the two-hour deadline of the operation.

Fairness of `images`. The handler of each job is a thread and goes on: every request, and every command it runs, has a
time limit. ComfyUI may never come up, RunPod need not deliver, faults need not happen. Waiting for the lock is part of
the handler and only weakly fair, which suffices because an attempt takes the lock once at most and attempts are bounded.

What `keys` excuses. Nothing in the code keeps the RunPod key from being deleted while a runtime is attached, and after
a key of another account was set a cleanup finds nothing there and succeeds. The store's second look and its write are
two calls of the keyring (`adapters/keyring/secret_store.rs:51`): two `set`s that both look before either writes both
succeed, and the second key replaces the first. `NothingLeftBehind` excuses these two and nothing else; the second look
is needed for it, for the validation between the first look and the write may take seconds.

The violated run `stale_cleanup`. Two cleanups of a workspace read the same runtime. One is admitted, completes, and the workspace is
provisioned anew, which ends as `ready` or `failed`. The other is then admitted: `claim_cleanup_anchor` tests the state
of the stored runtime, not which runtime it is, and overwrites it with the old one. The resources of the new runtime are
then in no row. `src-tauri/README.md:157` promises the cleanup of "an attached `ready` or `failed` Runtime".

The violated run `missed`. The deadline aborts a body that awaits the COMMIT of its success, and the COMMIT lands. The
body does not reach its two events; `supervise` finds the operation no longer running and returns
(`runpod/service.rs:149`). The operation has succeeded and no event says so, although `src-tauri/README.md:334` promises
one for each operation state transition. A listener learns of it when it next reads the operation.

The violated run `catalogue`. `_validate_schema` (`workers/runpod-endpoint/src/app/schemas.py:92`) refuses an execution
schema without a version. The schema documents of the catalogue have none, their own schema allows none, and the build
bakes them as they are: an image that is built from the catalogue refuses every job. The worker's tests bake schemas
with a version. `workers/runpod-endpoint/README.md:112` says that `workflow_validation_failed` means a document that is
missing, unreadable, malformed or inconsistent. `documents` checks the rest of the worker with and without a version.

Every property has a mutant in `PROJECT.json`: an operator next to the definition it mutates (`AdmissibleUnfiltered`,
`DeadlineUnsupervised`, …), each a plausible slip in the mapped code, under which TLC finds the property violated.

## 4. Proofs

The theorems hold for all values of the constants that satisfy the assumptions named at the end of this section.

`RuntimeCouplingProofs` proves first `TypeCorrect`: `Spec => []TypeOK`. `TypeOK` is inductive as it stands because it
says more than the domains: a task at a body's `await` holds a row and an attached runtime, a task at a recovery's or a
supervisor's holds a row, a pending cleanup holds an attached runtime. One lemma per group of actions (`BodyIsTyped`,
`SupervisorIsTyped`, `RecoveryIsTyped`, `CommandIsTyped`, `ProcessIsTyped`), over lemmas about the operators of
`RuntimeModels` and about `Saved`.

It then proves `AlwaysCoupled`: `Spec => []Coupled`, and from it `OneRunsAtATime`, `AnchorsFollow`,
`DeletedStaysBare`, `RunningStaysAttended`, `SavesStayAdmissible` and `FinishedStaysFinal`. None of these properties is
inductive alone. That one operation runs per workspace depends on an admission finding an anchor that is not busy
whenever an operation runs, so it needs the agreement of anchors and operations; that agreement survives a save only if
what the task saves is a change of the row as it stands, so it needs the agreement of the task's copies with the tables;
and a copy stays in agreement only if nobody else writes the row, which again is that one operation runs. `Coupled` is
the three together:

* `StoreCoupled`: the tables agree with each other. A busy anchor belongs to exactly one running operation, of the
  matching kind and at a step of that kind, and to a workspace that is present.
* `TasksCoupled`: a task that holds a row holds the row as it is stored, of a running operation, and its runtime has the
  state and the generation of the anchor.
* `ProcessCoupled`: while the process is down no task is active; before it serves there is no call; every running
  operation has a task, waits for the recovery, or is `lost`.

The argument: `SaverIsAlone` says that a task which holds its row is the only one that holds a row of its workspace.
`SaveKeepsStore` follows for the tables, `TaskMoves` for the other tasks, `ProcessMoves` for the process. The lemmas
`BodyIsCoupled`, `SupervisorIsCoupled`, `RecoveryIsCoupled`, `CommandIsCoupled` and `ProcessIsCoupled` then go through
the actions, and `StepIsCoupled` joins them.

The steps with requests enter these proofs through `Effects`: whatever the answer, a create, an observation, a delete
has one of the few effects listed in `RuntimeCoupling` (`CreateEffect`, …). It is there that the classes of the answers
matter: `CreatedIsCertain` says that a create request counts as failed only when RunPod refused it, and as done only on a whole
success; `DeletedIsCertain` is its lemma for deletes. A timeout taken for a failure would break the first and, by it,
`Cleanable` below.

That a request and the observation that looks for its resource belong together is not visible in `RuntimeLifecycle`,
which has `Good` copies. `OwnResourceIsFound` is about the contents: for each kind, the observation that a recovery or a
cleanup builds from the stored runtime recognises what the create request of the body made, unless something else has
its name. It needs the flags of the two listings, for RunPod leaves out the volume of a pod and the templates in use
without them. `FoundIsOwn` is the converse for volumes and endpoints: what is found is configured as the record says. A
pod is tested for its volume only, and a template for being private and serverless. `PlacementIsWhole` is about the
placement.

About `Commands` it proves that a row is read as what was stored (`ReadAsStored`, and `RowsStayReadable` for every row
ever stored, by the inductive `RowsAreOfTheirKind`: the two kinds share the spelling of a step, and a row whose progress
is of the other kind would make each listing fail, and the recovery at start-up); that the store names an error exactly when it refuses (`StoreRefusesExactly`); and what a command learns that is refused
between its read and its admission (`RefusalsStayExplained`, by `CallsHoldWhatTheyRead` and `Coupled`). A provision
that comes too late hears `operation_in_progress` also when the other operation has already ended, and a cleanup whose
runtime is gone hears `persistence_unavailable`; the theorem says which of the store's errors stands behind each.
`ErrorsKeepTheirNames`: every error of a service has a code of its own in the command, except that the placement has none for a
database that fails. The code `invalid_transition` of a cleanup is one no cleanup is answered with.

`RuntimeResourcesProofs` proves what the runs `serial` and `stale_cleanup` are about, from two more inductive invariants
(module `RuntimeResources`).

* `Provisioned` ties the resources at RunPod to the durable record, without `Timely`. At each step of a provision the
  kinds whose ids are stored exist exactly (`Exactly`: as the one copy that was adopted), the kinds of later steps do not
  exist and no request for them is outstanding, and the kind of the current step may have left anything
  (`ProvisionsKept`). It needs that a provision sends one create request of each kind (`RequestedOnce`): a step is never
  begun twice, because a body saves its next step before it enters it and a recovery only ends an operation. It also
  needs that each anchor, each pending cleanup and each resource goes back to one provision operation (`Originated`) and
  that the place of a task fits the step of its row (`PcFitsStep`). A step that goes well leaves exactly its kind: the
  request was answered with it, or an observation listed it alone and undamaged. `ReadyKept` is what the last save of a
  provision hands over, and is `ReadyIsWhole`.
* `Cleanable` needs `Timely`: every resource of a runtime is found from what its record, a pending command or a task
  says of it (`AllLocated`), and the kinds whose cleanup steps are done are gone (`CleanupsKept`). It is inductive only
  together with `Provisioned`, which says what a failed provision may have left when its cleanup is admitted. Without
  `Timely` it is false: a request that RunPod executes after the step of its kind leaves a resource nobody looks for.

`AlwaysProvisioned` and `AlwaysCleanable` are these two; `ReadyStaysWhole` and `ResourcesStayLocatable` follow at once.
`NothingIsOrphaned` has the hypothesis `CleansTheAttachedRuntime`, and `stale_cleanup` shows that the code does not
always satisfy it. So the hypothesis is traced to what commands do: `SerialCommandsCleanTheAttached` proves it for every
behaviour in which no two commands on one workspace are pending at once (`OneCommandPerWorkspace`), whatever bodies,
supervisors, recoveries and other workspaces do meanwhile. Nothing in the code makes commands wait for each other; a
user interface that does not send a second one before the first has returned satisfies it.
`SerialCommandsOrphanNothing` and `SingleCallerOrphansNothing` are the consequences.

The refinement of `WorkspaceLifecycle` follows the same three levels: `AttachedCleanupsKeepThePromise`,
`SerialCommandsKeepThePromise`, `SingleCallerKeepsThePromise`. The mapping reads the status of a workspace from its row
and its anchor. Each step is shown to be a step of the diagram or to leave it alone: `TaskIsSeen` for bodies,
supervisors and recoveries (a save of a running row is unseen, a terminal one is the end of the operation the diagram is
waiting for), `AdmissionIsSeen` for the admission of a command, `WorkspaceIsSeen` for creation and deletion. The
hypothesis is needed for the admission of a cleanup alone: one that overwrites the anchor with an older runtime is no
move of the diagram.

`TransitionEventsProofs` proves `TransitionsAreTyped`, `EventsFollowCommits`, `ListenersStayCurrent` and
`EventsStayInOrder`, the last three from the inductive invariant `Serialized`: whoever is between its lock and its
second event is the one that holds the coordinator (`HoldsCoordinator`), what it is about to announce is the row and the
last commit (`AnnouncesRows`), and a copy that waits to be saved is not behind the row (`WritesAhead`). Without the
first, two saves could announce in another order than they committed. `RevivedStaysBare` is about the event that does
not wait for the coordinator. It rests on `BareOnceDeleted`: a deletion is admitted only over a settled runtime
(`DeletedIsSettled`), after which no writer of the workspace has a commit left that could bring a runtime back
(`SaversMayWrite`), so whoever has not yet announced its last commit announces a runtime that is gone
(`AnnouncesRuntime`).

`ProvisionerWorkerProofs` proves `TypeCorrect`, `SuccessStaysWhole`, `EndedJobsAreQuiet`, `PartsAreAlwaysRemoved`,
`ProgressStaysMonotone` and `ImplementsPreparedVolume`. That a success is true is not inductive: a success is reported
after a check that only asks whether the files exist. `DownloadsInOrder` (`DownloadsStayInOrder`) says why they are
whole: the files before the thread's asset are, and that a download went well is only ever said, by the process, in the
queue or in the message that was put back, of a file that has been renamed. The refinement follows from it and from the
fact that a whole file is not written again before it is renamed over by a whole one. `LastWordsAreKept` needs
`WordIsOnItsWay`: a process ends by itself only after its result is in the pipe, and the loop, which empties the pipe
while the process lives, puts a result it has drained back. `AnsweringWorkersAreKept` needs that a worker that has answered listens until its
container is killed (`AnsweringWorkerListens`), so that `not_found_deadline` is never armed after an answer.

`EndpointWorkerProofs` proves `TypeCorrect`, `AnswersAreWhole`, `AttemptsNeverMix`, `NothingHalfIsLeft` and
`LaunchedOncePerOutage`. The first three about images are conjuncts of one invariant, `Kept`: an attempt that is writing
has written exactly the images it has counted (`Written`), a directory holds images of one attempt (`Unmixed`), and while
nobody writes to it a directory that is not in `torn` is empty or as last reported (`HalfOnlyIfTorn`). It relies on job directories being disjoint. The launches
need their own invariant, `Launched`: only the holder of the lock is between its second probe and its last poll, and
when it is about to launch nobody has since ComfyUI was missing.

`GenerationContractProofs` proves `PatchesAsBound` and `ContractTakesTheBlame` for any catalogue and any number of
bindings. Both follow from one invariant, `InStep`: the graph is what the bindings applied so far make of the baked
workflow, read as a table (`GraphPatched`), and none of them is broken. The table grows by one binding at a time
(`TableGrows`), and a step of the code does to a node what the table says (`NodeIsPatched`, `AppliedIsPatched`). The
difficulty is that the code looks for the place in the *patched* node and the table in the baked one. A path leads to
one place at most (`OnePlace`: of two places, look at the first segment in which they differ). A binding only removes
places below the one it writes and makes none, and what is an array stays one, so a path leads where it led before
(`PathsStillLead`), or its place is below one that an earlier binding has overwritten; the code then refuses the
binding, and `BrokenBinding` says so of the documents. That an array is told from an object by the place and not by the
words of the path matters here: with a path that names an element "00" of an array the two differ.

`CatalogueReleasesProofs` proves `TypeCorrect`, `NothingIsRewritten` (no step changes or removes a contract of the
default branch, nor a revision that has all its files; one that lacks some may be completed) and `WorkspacesArePinned`, from `IInv`: every open pull request only adds to the
checkout it was computed from, for the release tools write to directories that are not there; the default branch extends
the bundled copy; and the images a workspace was given are those its reference still leads to in the default branch. The
merge adds nothing where the default branch has something that disagrees, so the default branch only grows, in
revisions and in the files of incomplete ones. That the newest
revision of a workflow is one of its revisions, which the types of the promotions need, is proved from the
well-foundedness of the natural numbers. `PromotionsAlwaysFit` and `NewestAlwaysKeepsTheRest` need to remember of an
open pull request from which checkout and which images it was computed (`PullsInv`, whose `Computed` is the body of the
promotion), and `MergeWrites` says what a merge adds over a branch that has moved on. That a provisioner
promotion which changes the newest revision was computed from the one before it is `NothingInBetween`: the number it
chose is the next patch after the newest it saw; if that number becomes the newest, no later one was added since, and
the number itself was not taken, or the merge would conflict. One case is left out of `NewestKeepsTheRest`: an author has
added a revision of that number by hand that lacks a file, and the merge completes it. What is then the newest revision
took the rest from the promotion, and nobody could have used the incomplete one.

`SecretsProofs` proves `TypeCorrect` and `CleanupReachesEverything` from one invariant, `IInv`. A write follows a look
that found nothing and an accepted validation (`Handled`). As long as nothing was disturbed (`OneKey`), a key that is in
use is in the keyring, whoever holds a key holds that one, and all resources are in its account: the guard of a write
keeps the key from changing under its users, so that the cleanup reads the account of the provision.

Assumptions used: `PlaceholderAssumption`, `CopyAssumption`, `MaxFaultsAssumption`, `NobodyAssumption`,
`LastProgressAssumption`; those of `ProvisionerWorker` (`AssetsAssumption` to `WholeBodiesAssumption`); `JobsAssumption`
and `BoundsAssumption` of `EndpointWorker`; `EntriesAssumption`; `CatalogueAssumption`; `SecretsAssumption`. The theorems about resources that
need `Timely` or `OneCommandPerWorkspace` have it as a hypothesis, and `ImplementsPreparedVolume` has `WholeBodies`; no
other theorem depends on them, nor any on the number of operations, commands, workspaces, assets, jobs, workflows, runs
or keys. Each hypothesis is satisfiable: `serial` is an instance with `Timely` and one caller.

The types of `EndpointWorker`, `CatalogueReleases` and `Secrets` are proved and not part of a run.

Every safety property of a passing run is the subject of a theorem. Liveness
(`OperationsFinish`, `RecoveryEnds`, `SavesEnd`, `WaitEnds`, `EveryJobIsAnswered`) is model-checked only: it is beyond
the proof system.

## 5. Plan

Done: `RuntimeLifecycle`, `TransitionEvents`, `ProvisionerWorker`, `EndpointWorker`, `GenerationContract`,
`CatalogueReleases`, `Secrets`, each with its inductive invariants and theorems; `RunpodRequests` and `Commands` with
theirs.

Left: the connection pool of the store, that is, whether a COMMIT of an aborted save can land after the supervisor's
reads (`DeadlineInCommit` has it land with the abort or not at all); and the texts of the facade (times, trace ids), for which a model adds little to the types.

## 6. Not modelled

* Of the facade, the conversion of operations, workspaces, workflows, placements and identities, times and trace ids; diagnostics
  (no state depends on it) and the frontend (a page of command probes and an event log).
* Of the secrets service, `status` and `identity`, which change nothing (their errors are in `Commands`), and the Hugging
  Face key: the same code over an entry of its own, and no cleanup needs it.
* The pages of the listings, which no decision reads.
* Of the store, the schema and its migrations and the text of a runtime's payload. Of the catalogue: presets, execution
  schemas and contract documents, which no release tool changes and which are taken to be there and valid.
* The content of images and files, the text of names and payloads, wording and scrubbing of diagnostics.
* Deletions and reverted merges in the default branch, and images that a registry loses.
