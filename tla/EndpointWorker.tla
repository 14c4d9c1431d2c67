--------------------------- MODULE EndpointWorker ---------------------------
(***************************************************************************)
(* The worker of a RunPod endpoint: a handler per job that starts ComfyUI  *)
(* when no one serves, runs the patched workflow, fetches the images and   *)
(* writes them under the job's directory of the workspace volume           *)
(* (api/handler.py, app/service.py, runtime/comfy.py). Jobs run as threads *)
(* of one process and share its ComfyUI and its startup lock; the process  *)
(* may die, the volume outlives it, and RunPod then delivers a job again.  *)
(* What the documents of a job are checked for is GenerationContract.      *)
(*                                                                         *)
(* External assumption: RunPod delivers a job again only after the attempt *)
(* before it has answered or its worker is gone.                           *)
(***************************************************************************)
EXTENDS Integers, Sequences, FiniteSets

CONSTANTS
    Jobs,
    SafeSegment,      \* a job |-> what _safe_path_segment leaves of its id
    Streams,          \* what comfy run may print: sequences of [kind, images]
    MaxArtifactBytes, \* max_artifact_bytes
    MaxAttempts,      \* bound: how often a job is delivered
    MaxPolls,         \* bound: probes that fit into the startup timeout
    MaxImages         \* bound: images of one workflow

Nobody == "nobody"

\* _artifact_job_directory
JobDirectory(j) == IF SafeSegment[j] = "" THEN "local" ELSE SafeSegment[j]

ASSUME JobsAssumption ==
    /\ Nobody \notin Jobs
    /\ \A i, j \in Jobs : JobDirectory(i) = JobDirectory(j) => i = j
ASSUME BoundsAssumption ==
    /\ MaxArtifactBytes \in Nat /\ MaxAttempts \in Nat /\ MaxPolls \in Nat /\ MaxImages \in Nat

VARIABLES
    comfy,     \* ComfyUI: "down", "starting" or "up" (answering /system_stats)
    lock,      \* who holds _COMFY_STARTUP_LOCK
    thread,    \* the handler of each job
    volume,    \* the files under each job directory
    launches,  \* history: launches since ComfyUI was last seen to be missing
    torn,      \* history: directories that the rollback or a dying worker left half done
    reported   \* history: what the last success of a job reported, until it is cleared

vars == <<comfy, lock, thread, volume, launches, torn, reported>>

Directories == {JobDirectory(j) : j \in Jobs}
File == [index : 1 .. MaxImages, attempt : 1 .. MaxAttempts, written : {"part", "whole"}]

\* runtime_failed: what the handler answers to an exception of no other kind.
Retryable == {"comfyui_startup_timeout", "comfyui_workflow_timeout",
              "comfyui_output_fetch_failed", "runtime_failed"}
Final == {"invalid_request", "workflow_validation_failed", "comfyui_launch_failed",
          "comfyui_workflow_failed", "comfyui_output_parse_failed", "comfyui_no_outputs",
          "response_too_large"}
Codes == {"", "succeeded"} \cup Retryable \cup Final

Writing == {"create", "write", "rollback"}
Persisting == {"clear"} \cup Writing
Running == {"request", "probe", "lock", "recheck", "launch", "poll", "bind", "run", "fetch"}
           \cup Persisting
Thread == [pc : {"queued", "answered", "lost"} \cup Running, attempt : 0 .. MaxAttempts,
           polls : 0 .. MaxPolls, outputs : 0 .. MaxImages, done : 0 .. MaxImages,
           bytes : Nat, code : Codes]

NewThread(attempt, pc) ==
    [pc |-> pc, attempt |-> attempt, polls |-> 0, outputs |-> 0, done |-> 0, bytes |-> 0, code |-> ""]

Init ==
    /\ comfy = "down" /\ lock = Nobody /\ launches = 0 /\ torn = {}
    /\ thread = [j \in Jobs |-> NewThread(0, "queued")]
    /\ volume = [d \in Directories |-> {}]
    /\ reported = [j \in Jobs |-> {}]

At(j, pc) == thread[j].pc = pc
Goto(j, pc) == thread' = [thread EXCEPT ![j].pc = pc]
\* An error reaches the handler, which answers with its code.
Answer(j, code) ==
    thread' = [thread EXCEPT ![j].pc = "answered", ![j].code = code,
                             ![j].polls = 0, ![j].done = 0, ![j].bytes = 0]

-----------------------------------------------------------------------------
(* RunPod delivers a job, again if it has not heard the answer.             *)
Deliver(j) ==
    /\ thread[j].pc \in {"queued", "answered", "lost"} /\ thread[j].attempt < MaxAttempts
    /\ thread' = [thread EXCEPT ![j] = NewThread(thread[j].attempt + 1, "request")]
    /\ UNCHANGED <<comfy, lock, volume, launches, torn, reported>>

\* generate_from_payload: the schema and the input (GenerationContract).
Request(j) ==
    /\ At(j, "request")
    /\ \/ \E code \in {"invalid_request", "workflow_validation_failed", "runtime_failed"} :
            Answer(j, code)
       \/ Goto(j, "probe")
    /\ UNCHANGED <<comfy, lock, volume, launches, torn, reported>>

\* A probe waits two seconds at most: a serving ComfyUI may be too slow for it.
Ready == comfy = "up"

Probe(j) ==
    /\ At(j, "probe")
    /\ \/ Ready /\ Goto(j, "bind")
       \/ Goto(j, "lock")
    /\ UNCHANGED <<comfy, lock, volume, launches, torn, reported>>

Acquire(j) ==
    /\ At(j, "lock") /\ lock = Nobody
    /\ lock' = j /\ Goto(j, "recheck")
    /\ UNCHANGED <<comfy, volume, launches, torn, reported>>

\* Mutated form of Recheck: whoever gets the lock launches.
RecheckNotAtAll(j) ==
    /\ At(j, "recheck") /\ Goto(j, "launch")
    /\ UNCHANGED <<comfy, lock, volume, launches, torn, reported>>

Recheck(j) ==
    /\ At(j, "recheck")
    /\ \/ Ready /\ lock' = Nobody /\ Goto(j, "bind") /\ UNCHANGED launches
       \/ /\ Goto(j, "launch")
          /\ launches' = IF Ready THEN 0 ELSE launches   \* too slow an answer counts as none
          /\ UNCHANGED lock
    /\ UNCHANGED <<comfy, volume, torn, reported>>

(* comfy launch --background: ComfyUI may come up even if the command hangs *)
(* or its output cannot be decoded. A failing write of the file with the    *)
(* model paths ends as runtime_failed, like that output.                    *)
Launch(j) ==
    /\ At(j, "launch")
    /\ \/ /\ comfy' \in IF comfy = "down" THEN {"down", "starting", "up"} ELSE {comfy}
          /\ launches' = launches + 1
          /\ Goto(j, "poll")
          /\ UNCHANGED lock
       \/ /\ comfy' \in IF comfy = "down" THEN {"down", "starting", "up"} ELSE {comfy}
          /\ launches' = 0 /\ lock' = Nobody
          /\ Answer(j, "comfyui_startup_timeout") \/ Answer(j, "runtime_failed")
       \/ /\ launches' = 0 /\ lock' = Nobody
          /\ Answer(j, "comfyui_launch_failed")
          /\ UNCHANGED comfy
    /\ UNCHANGED <<volume, torn, reported>>

\* Mutated form of Poll: the lock is not given back when the start times out.
PollKeepingTheLock(j) ==
    /\ At(j, "poll")
    /\ \/ Ready /\ lock' = Nobody /\ Goto(j, "bind")
       \/ Answer(j, "comfyui_startup_timeout") /\ UNCHANGED lock
    /\ UNCHANGED <<comfy, volume, launches, torn, reported>>

\* At least one probe falls before the deadline, which is set after the launch.
Poll(j) ==
    /\ At(j, "poll")
    /\ \/ /\ Ready
          /\ lock' = Nobody
          /\ thread' = [thread EXCEPT ![j].pc = "bind", ![j].polls = 0]
          /\ UNCHANGED launches
       \/ /\ thread[j].polls < MaxPolls
          /\ thread' = [thread EXCEPT ![j].polls = @ + 1]
          /\ UNCHANGED <<lock, launches>>
       \/ /\ thread[j].polls > 0
          /\ lock' = Nobody /\ launches' = 0
          /\ Answer(j, "comfyui_startup_timeout")
    /\ UNCHANGED <<comfy, volume, torn, reported>>

-----------------------------------------------------------------------------
\* write_patched_workflow (GenerationContract), into a temporary directory.
Bind(j) ==
    /\ At(j, "bind")
    /\ \/ Goto(j, "run")
       \/ Answer(j, "workflow_validation_failed")
       \/ Answer(j, "runtime_failed")
    /\ UNCHANGED <<comfy, lock, volume, launches, torn, reported>>

(* parse_comfy_run_events: the images of the terminal events, or those of   *)
(* the nodes when the terminal events name none.                            *)
ImagesOf(stream, kind) ==
    {x \in (DOMAIN stream) \X (1 .. MaxImages) :
        stream[x[1]].kind = kind /\ x[2] <= stream[x[1]].images}
Outputs(stream) ==
    IF ImagesOf(stream, "completed") # {} THEN ImagesOf(stream, "completed")
    ELSE ImagesOf(stream, "node")
ParseComfyRunEvents(stream) ==
    IF \E i \in DOMAIN stream : stream[i].kind = "malformed" THEN "comfyui_output_parse_failed"
    ELSE IF \A i \in DOMAIN stream : stream[i].kind # "completed" THEN "comfyui_workflow_failed"
    ELSE IF Outputs(stream) = {} THEN "comfyui_no_outputs"
    ELSE "succeeded"

RunWorkflow(j) ==
    /\ At(j, "run")
    /\ \/ Answer(j, "comfyui_workflow_failed")
       \/ Answer(j, "comfyui_workflow_timeout")
       \/ Answer(j, "runtime_failed")   \* output that is no UTF-8
       \/ /\ Ready
          /\ \E stream \in Streams :
               \/ /\ ParseComfyRunEvents(stream) # "succeeded"
                  /\ Answer(j, ParseComfyRunEvents(stream))
               \/ /\ ParseComfyRunEvents(stream) = "succeeded"
                  /\ \E n \in 1 .. MaxImages :
                       /\ Cardinality(Outputs(stream)) = n
                       /\ thread' = [thread EXCEPT ![j].pc = "fetch", ![j].outputs = n]
    /\ UNCHANGED <<comfy, lock, volume, launches, torn, reported>>

\* The images are kept in memory until the last one is fetched.
FetchImage(j) ==
    /\ At(j, "fetch") /\ thread[j].done < thread[j].outputs
    /\ \/ Answer(j, "comfyui_output_fetch_failed")
       \/ /\ Ready
          /\ \E size \in 1 .. 2 :
               IF thread[j].bytes + size > MaxArtifactBytes
               THEN Answer(j, "response_too_large")
               ELSE thread' = [thread EXCEPT ![j].done = @ + 1, ![j].bytes = @ + size]
    /\ UNCHANGED <<comfy, lock, volume, launches, torn, reported>>

FetchedAll(j) ==
    /\ At(j, "fetch") /\ thread[j].done = thread[j].outputs
    /\ \/ Answer(j, "response_too_large")   \* the metadata
       \/ thread' = [thread EXCEPT ![j].pc = "clear", ![j].done = 0, ![j].bytes = 0]
    /\ UNCHANGED <<comfy, lock, volume, launches, torn, reported>>

-----------------------------------------------------------------------------
(* _persist_images: the directory of an earlier attempt goes, then the      *)
(* images are written one by one; an OSError of any of it, of exists() too, *)
(* removes what there is.                                                   *)

Files(j) == volume[JobDirectory(j)]
SetFiles(j, files) == volume' = [volume EXCEPT ![JobDirectory(j)] = files]
ImageFile(j, i, written) == [index |-> i, attempt |-> thread[j].attempt, written |-> written]
Images(j, n) == {ImageFile(j, i, "whole") : i \in 1 .. n}

\* Mutated form of ClearDirectory: rmtree(ignore_errors=True).
ClearDirectoryIgnoringErrors(j) ==
    /\ At(j, "clear")
    /\ \E left \in SUBSET Files(j) : SetFiles(j, left)
    /\ reported' = [reported EXCEPT ![j] = {}]
    /\ Goto(j, "create")
    /\ UNCHANGED <<comfy, lock, launches, torn>>

ClearDirectory(j) ==
    /\ At(j, "clear")
    /\ \/ SetFiles(j, {}) /\ Goto(j, "create")
       \/ \E left \in SUBSET Files(j) : SetFiles(j, left) /\ Goto(j, "rollback")
    /\ reported' = [reported EXCEPT ![j] = {}]
    /\ UNCHANGED <<comfy, lock, launches, torn>>

CreateImage(j) ==
    /\ At(j, "create") /\ thread[j].done < thread[j].outputs
    /\ \/ /\ SetFiles(j, Files(j) \cup {ImageFile(j, thread[j].done + 1, "part")})
          /\ Goto(j, "write")
       \/ Goto(j, "rollback") /\ UNCHANGED volume
    /\ UNCHANGED <<comfy, lock, launches, torn, reported>>

WriteImage(j) ==
    /\ At(j, "write")
    /\ \/ LET i == thread[j].done + 1 IN
          /\ SetFiles(j, (Files(j) \ {ImageFile(j, i, "part")}) \cup {ImageFile(j, i, "whole")})
          /\ thread' = [thread EXCEPT ![j].pc = "create", ![j].done = i]
       \/ Goto(j, "rollback") /\ UNCHANGED volume
    /\ UNCHANGED <<comfy, lock, launches, torn, reported>>

\* Mutated form of Persisted: the last image is not waited for.
PersistedBeforeTheLast(j) ==
    /\ At(j, "create") /\ thread[j].done + 1 >= thread[j].outputs
    /\ Answer(j, "succeeded")
    /\ torn' = torn \ {JobDirectory(j)}
    /\ reported' = [reported EXCEPT ![j] = Images(j, thread[j].outputs)]
    /\ UNCHANGED <<comfy, lock, volume, launches>>

Persisted(j) ==
    /\ At(j, "create") /\ thread[j].done = thread[j].outputs
    /\ Answer(j, "succeeded")
    /\ torn' = torn \ {JobDirectory(j)}
    /\ reported' = [reported EXCEPT ![j] = Images(j, thread[j].outputs)]
    /\ UNCHANGED <<comfy, lock, volume, launches>>

\* Mutated form of Rollback: only the image that was being written is removed.
RollbackOfTheLastImage(j) ==
    /\ At(j, "rollback")
    /\ SetFiles(j, {f \in Files(j) : f.written = "whole"})
    /\ Answer(j, "comfyui_output_fetch_failed")
    /\ UNCHANGED <<comfy, lock, launches, torn, reported>>

(* rmtree(ignore_errors=True): whatever it could not remove stays, and the  *)
(* answer is the same. If exists() raises before it, all of it stays and    *)
(* the handler has an error of no known kind.                               *)
Rollback(j) ==
    /\ At(j, "rollback")
    /\ \E left \in SUBSET Files(j) :
         /\ SetFiles(j, left)
         /\ torn' = IF left = {} THEN torn \ {JobDirectory(j)} ELSE torn \cup {JobDirectory(j)}
         /\ \/ Answer(j, "comfyui_output_fetch_failed")
            \/ left = Files(j) /\ Answer(j, "runtime_failed")
    /\ UNCHANGED <<comfy, lock, launches, reported>>

-----------------------------------------------------------------------------
ComfyComesUp ==
    /\ comfy = "starting" /\ comfy' = "up"
    /\ UNCHANGED <<lock, thread, volume, launches, torn, reported>>

ComfyDies ==
    /\ comfy # "down" /\ comfy' = "down" /\ launches' = 0
    /\ UNCHANGED <<lock, thread, volume, torn, reported>>

\* The container is gone, and with it ComfyUI and the lock.
WorkerDies ==
    /\ \E j \in Jobs : thread[j].pc \in Running
    /\ comfy' = "down" /\ lock' = Nobody /\ launches' = 0
    /\ thread' = [j \in Jobs |->
                    IF thread[j].pc \in Running THEN NewThread(thread[j].attempt, "lost") ELSE thread[j]]
    /\ torn' = torn \cup {JobDirectory(j) : j \in {i \in Jobs : thread[i].pc \in Writing}}
    /\ UNCHANGED <<volume, reported>>

Handler(j) ==
    \/ Request(j)
    \/ Probe(j)
    \/ Acquire(j)
    \/ Recheck(j)
    \/ Launch(j)
    \/ Poll(j)
    \/ Bind(j)
    \/ RunWorkflow(j)
    \/ FetchImage(j)
    \/ FetchedAll(j)
    \/ ClearDirectory(j)
    \/ CreateImage(j)
    \/ WriteImage(j)
    \/ Persisted(j)
    \/ Rollback(j)

Next ==
    \/ \E j \in Jobs : Deliver(j) \/ Handler(j)
    \/ ComfyComesUp
    \/ ComfyDies
    \/ WorkerDies

Spec == Init /\ [][Next]_vars

\* Threads are scheduled; ComfyUI, RunPod and faults owe nothing.
FairSpec == Spec /\ \A j \in Jobs : WF_vars(Handler(j))

-----------------------------------------------------------------------------
TypeOK ==
    /\ comfy \in {"down", "starting", "up"}
    /\ lock \in Jobs \cup {Nobody}
    /\ thread \in [Jobs -> Thread]
    /\ volume \in [Directories -> SUBSET File]
    /\ launches \in Nat
    /\ torn \in SUBSET Directories
    /\ reported \in [Jobs -> SUBSET File]

(* ComfyUI is launched once per outage: of several jobs that found it       *)
(* missing at once, only one launches it, and one that waited for the lock  *)
(* looks again (ensure_ready).                                              *)
OneLaunchPerOutage == launches <= 1

(* A job that answered success has exactly its images on the volume, whole, *)
(* whatever other jobs, earlier attempts and deaths of the worker did, for  *)
(* as long as it is not delivered again (_persist_images).                  *)
AnswerIsWhole ==
    \A j \in Jobs :
        At(j, "answered") /\ thread[j].code = "succeeded" =>
            Files(j) = Images(j, thread[j].outputs)

(* The images of two attempts never lie side by side (the rmtree before the *)
(* first write, which must be complete before anything is written).         *)
NeverMixed ==
    \A d \in Directories : \A f, g \in volume[d] : f.attempt = g.attempt

(* Whoever reads a job's directory while no attempt is writing it finds     *)
(* nothing at all or exactly the images of the job's last success: never    *)
(* the images an attempt wrote before it failed. Three ways are left out:   *)
(* the rmtree of the rollback failed, the exists() before it raised, or the *)
(* worker died while it wrote (the rollback of _persist_images).            *)
NothingHalf ==
    \A j \in Jobs :
        thread[j].pc \notin Writing /\ JobDirectory(j) \notin torn =>
            Files(j) = {} \/ Files(j) = reported[j]

(* No job waits for ever: for the lock, for a ComfyUI that never comes up   *)
(* or after an error of another job, each is answered unless the worker     *)
(* dies (the with-statement of ensure_ready and its deadline).              *)
EveryJobIsAnswered ==
    \A j \in Jobs : At(j, "request") ~> thread[j].pc \in {"answered", "lost"}
=============================================================================
