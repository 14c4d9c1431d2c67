------------------------- MODULE ProvisionerWorker ---------------------------
(* The provisioner worker of one pod and the native side that waits for it.  *)
(* The worker starts its only job when its process starts, before it serves  *)
(* /status. The job's thread downloads one file after another, each in a     *)
(* child process that writes a .part file, renames it, and reports through   *)
(* a queue; the thread watches the child for inactivity. The native side     *)
(* polls /status until it has an answer.                                     *)
EXTENDS Naturals, Sequences

CONSTANTS
    Assets,       \* number of required model assets
    Chunks,       \* chunks of a file
    Inactivity,   \* DOWNLOAD_INACTIVITY_TIMEOUT_SECONDS, in rounds of the watching loop
    Patience,     \* NOT_FOUND_TIMEOUT, in ticks
    MaxKills,     \* bound: processes killed from outside
    WholeBodies   \* every response body arrives whole or fails

ASSUME AssetsAssumption == Assets \in Nat
ASSUME ChunksAssumption == Chunks \in Nat
ASSUME InactivityAssumption == Inactivity \in Nat
ASSUME PatienceAssumption == Patience \in Nat
ASSUME MaxKillsAssumption == MaxKills \in Nat
ASSUME WholeBodiesAssumption == WholeBodies \in BOOLEAN

VARIABLES
    env,          \* the environment of the container
    pod,          \* down, starting, listening, gone
    job,          \* JobManager's snapshot
    thread,       \* where the job's thread is, and at which asset
    silence,      \* rounds since the last chunk
    child,        \* the download process
    queue,        \* result_queue, as the pipe holds it
    returned,     \* the message the thread put back, still in its buffer
    target, part, \* the volume
    native,       \* wait_for_provisioner
    kills

volume == <<target, part>>
download == <<silence, child, queue, returned>>
vars == <<env, pod, job, thread, download, volume, native, kills>>

File == 1 .. Assets

\* What the two required variables hold; "malformed" is JSON that is not a list
\* of model assets.
Environment == [token  : {"missing", "empty", "given"},
                assets : {"missing", "blank", "not_json", "malformed", "valid"}]

\* The code of the ConfigurationError, the token's before the assets'.
ConfigurationError(e) ==
    CASE e.token = "missing"    -> "missing_required_value"
      [] e.token = "empty"      -> "blank_value"
      [] e.assets = "missing"   -> "missing_required_value"
      [] e.assets = "blank"     -> "blank_value"
      [] e.assets = "not_json"  -> "invalid_json"
      [] e.assets = "malformed" -> "invalid_request"
      [] OTHER                  -> "none"

Message == {"chunk", "ok", "failed"}

Nothing == "nothing"

\* not_found_deadline before the first 404; the ticks that are left after it.
NoDeadline == Patience + 1

JobSnapshot == [status : {"idle", "running", "succeeded", "failed"}, percent : 0 .. 100]

Thread == [pc : {"off", "begin", "paths", "assets", "request", "drain", "check", "result",
                 "validate", "verify", "finish"},
           asset : 0 .. Assets]

Child == [pc : {"none", "open", "read", "rename", "report", "break", "exit"}, read : 0 .. Chunks]

Native == [answer   : {"pending", "ok", "failed", "unavailable", "not_found"},
           deadline : 0 .. NoDeadline,
           answered : BOOLEAN]

TypeOK ==
    /\ env \in Environment
    /\ pod \in {"down", "starting", "listening", "gone"}
    /\ job \in JobSnapshot
    /\ thread \in Thread
    /\ silence \in 0 .. Inactivity
    /\ child \in Child
    /\ queue \in Seq(Message)
    /\ returned \in {"ok", "failed", Nothing}
    /\ target \in [File -> {"absent", "whole", "cut"}]
    /\ part \subseteq File
    /\ native \in Native
    /\ kills \in 0 .. MaxKills
    /\ pod \in {"down", "gone"} => thread.pc = "off"
    /\ thread.pc \in {"request", "drain", "check", "result"} => thread.asset \in File
    /\ child.pc # "none" => thread.pc \in {"drain", "check"}

Init ==
    /\ env \in Environment
    /\ pod = "down"
    /\ job = [status |-> "idle", percent |-> 0]
    /\ thread = [pc |-> "off", asset |-> 0]
    /\ silence = 0
    /\ child = [pc |-> "none", read |-> 0]
    /\ queue = <<>>
    /\ returned = Nothing
    /\ target = [f \in File |-> "absent"]
    /\ part = {}
    /\ native = [answer |-> "pending", deadline |-> NoDeadline, answered |-> FALSE]
    /\ kills = 0

-----------------------------------------------------------------------------
(* The process of the worker.                                                *)

\* A configuration error ends the process with code 78, as often as it is
\* started; otherwise the job starts, and the port is bound only after it.
Boot ==
    /\ pod = "down"
    /\ ConfigurationError(env) = "none"
    /\ pod' = "starting"
    /\ job' = [status |-> "running", percent |-> 0]
    /\ thread' = [pc |-> "begin", asset |-> 0]
    /\ UNCHANGED <<env, download, volume, native, kills>>

Listen ==
    /\ pod = "starting"
    /\ pod' = "listening"
    /\ UNCHANGED <<env, job, thread, download, volume, native, kills>>

\* What ends with the process; the volume stays.
ProcessesEnd ==
    /\ job' = [status |-> "idle", percent |-> 0]
    /\ thread' = [pc |-> "off", asset |-> 0]
    /\ silence' = 0
    /\ child' = [pc |-> "none", read |-> 0]
    /\ queue' = <<>>
    /\ returned' = Nothing

\* The container ends: out of memory, or its machine restarts.
KillContainer ==
    /\ pod \in {"starting", "listening"}
    /\ kills < MaxKills
    /\ pod' = "down"
    /\ kills' = kills + 1
    /\ ProcessesEnd
    /\ UNCHANGED <<env, volume, native>>

\* The kernel ends the download process alone.
KillChild ==
    /\ child.pc # "none"
    /\ kills < MaxKills
    /\ child' = [child EXCEPT !.pc = "none"]
    /\ kills' = kills + 1
    /\ UNCHANGED <<env, pod, job, thread, silence, queue, returned, volume, native>>

-----------------------------------------------------------------------------
(* The job's thread.                                                         *)

\* Mutated form of CompletedPhaseProgress: the phase starts at nothing.
CompletedPhaseProgressFromZero(first, last, completed, total) ==
    IF total = 0 THEN last ELSE (completed * (last - first)) \div total

\* _completed_phase_progress, of two percentages and a part of a total.
CompletedPhaseProgress(first, last, completed, total) ==
    IF total = 0 THEN last ELSE first + (completed * (last - first)) \div total

Progress(percent) == job' = [status |-> "running", percent |-> percent]

Goto(pc) == thread' = [thread EXCEPT !.pc = pc]

Terminal(status) ==
    /\ job' = [status |-> status, percent |-> IF status = "succeeded" THEN 100 ELSE job.percent]
    /\ Goto("off")

Begin ==
    /\ thread.pc = "begin"
    /\ \/ Progress(15) /\ Goto("paths")
       \/ Terminal("failed")
    /\ UNCHANGED <<env, pod, download, volume, native, kills>>

PrepareWorkspacePaths ==
    /\ thread.pc = "paths"
    /\ \/ Progress(25) /\ Goto("assets")
       \/ Terminal("failed")
    /\ UNCHANGED <<env, pod, download, volume, native, kills>>

\* Mutated form of NextAsset: the loop runs once too often.
NextAssetPastTheEnd == IF thread.asset > Assets THEN Goto("validate")
                                                ELSE thread' = [pc |-> "request", asset |-> thread.asset + 1]

NextAsset == IF thread.asset = Assets THEN Goto("validate")
                                      ELSE thread' = [pc |-> "request", asset |-> thread.asset + 1]

DownloadAssets ==
    /\ thread.pc = "assets"
    /\ Progress(55)
    /\ NextAsset
    /\ UNCHANGED <<env, pod, download, volume, native, kills>>

\* The path of the asset is unsafe, or its directory cannot be made.
RequestRefused ==
    /\ thread.pc = "request"
    /\ Terminal("failed")
    /\ UNCHANGED <<env, pod, download, volume, native, kills>>

Request ==
    /\ thread.pc = "request"
    /\ child' = [pc |-> "open", read |-> 0]
    /\ queue' = <<>>
    /\ returned' = Nothing
    /\ silence' = 0
    /\ Goto("drain")
    /\ UNCHANGED <<env, pod, job, volume, native, kills>>

Carries(m) == \E i \in 1 .. Len(queue) : queue[i] = m

\* Mutated form of Drain: the last message is consumed and not put back.
DrainForgetting ==
    /\ thread.pc = "drain"
    /\ child.pc # "none"
    /\ queue' = <<>>
    /\ silence' = IF Carries("chunk") THEN 0 ELSE silence
    /\ Goto("check")
    /\ UNCHANGED <<env, pod, job, child, returned, volume, native, kills>>

\* Mutated form of Drain: every round counts as activity.
DrainAlwaysFresh ==
    /\ thread.pc = "drain"
    /\ child.pc # "none"
    /\ queue' = <<>>
    /\ returned' = CASE Carries("ok")     -> "ok"
                     [] Carries("failed") -> "failed"
                     [] OTHER             -> returned
    /\ silence' = 0
    /\ Goto("check")
    /\ UNCHANGED <<env, pod, job, child, volume, native, kills>>

\* The child's last message, ok or failed, ends the draining and is put back.
Drain ==
    /\ thread.pc = "drain"
    /\ child.pc # "none"
    /\ queue' = <<>>
    /\ returned' = CASE Carries("ok")     -> "ok"
                     [] Carries("failed") -> "failed"
                     [] OTHER             -> returned
    /\ silence' = IF Carries("chunk") THEN 0 ELSE silence
    /\ Goto("check")
    /\ UNCHANGED <<env, pod, job, child, volume, native, kills>>

Flush ==
    /\ returned # Nothing
    /\ queue' = Append(queue, returned)
    /\ returned' = Nothing
    /\ UNCHANGED <<env, pod, job, thread, silence, child, volume, native, kills>>

Join ==
    /\ thread.pc = "check"
    /\ silence < Inactivity
    /\ silence' = silence + 1
    /\ Goto("drain")
    /\ UNCHANGED <<env, pod, job, child, queue, returned, volume, native, kills>>

TerminateProcess == child' = [child EXCEPT !.pc = "none"]

\* Mutated form of TimeOut: the child is given up, not ended.
TimeOutLeavingTheChild ==
    /\ thread.pc = "check"
    /\ silence = Inactivity
    /\ part' = part \ {thread.asset}
    /\ Terminal("failed")
    /\ UNCHANGED <<env, pod, download, target, native, kills>>

\* Mutated form of TimeOut: the .part file is left to the child's finally.
TimeOutLeavingThePart ==
    /\ thread.pc = "check"
    /\ silence = Inactivity
    /\ TerminateProcess
    /\ Terminal("failed")
    /\ UNCHANGED <<env, pod, silence, queue, returned, volume, native, kills>>

TimeOut ==
    /\ thread.pc = "check"
    /\ silence = Inactivity
    /\ TerminateProcess
    /\ part' = part \ {thread.asset}
    /\ Terminal("failed")
    /\ UNCHANGED <<env, pod, silence, queue, returned, target, native, kills>>

Watched ==
    /\ thread.pc = "drain"
    /\ child.pc = "none"
    /\ Goto("result")
    /\ UNCHANGED <<env, pod, job, download, volume, native, kills>>

\* The queue stays empty for a second.
NoResult ==
    /\ thread.pc = "result"
    /\ queue = <<>>
    /\ Terminal("failed")
    /\ UNCHANGED <<env, pod, download, volume, native, kills>>

Result ==
    /\ thread.pc = "result"
    /\ queue # <<>>
    /\ queue' = Tail(queue)
    /\ \/ Head(queue) = "chunk" /\ UNCHANGED <<job, thread>>
       \/ Head(queue) = "failed" /\ Terminal("failed")
       \/ /\ Head(queue) = "ok"
          /\ Progress(CompletedPhaseProgress(55, 90, thread.asset, Assets))
          /\ NextAsset
    /\ UNCHANGED <<env, pod, silence, child, returned, volume, native, kills>>

Validate ==
    /\ thread.pc = "validate"
    /\ Progress(95)
    /\ Goto("verify")
    /\ UNCHANGED <<env, pod, download, volume, native, kills>>

ValidateModelAssets ==
    /\ thread.pc = "verify"
    /\ \/ /\ \A f \in File : target[f] # "absent"
          /\ Progress(100)
          /\ Goto("finish")
       \/ /\ \E f \in File : target[f] = "absent"
          /\ Terminal("failed")
    /\ UNCHANGED <<env, pod, download, volume, native, kills>>

Finish ==
    /\ thread.pc = "finish"
    /\ Terminal("succeeded")
    /\ UNCHANGED <<env, pod, download, volume, native, kills>>

ThreadStep ==
    \/ Begin \/ PrepareWorkspacePaths \/ DownloadAssets \/ Request \/ RequestRefused
    \/ Drain \/ Join \/ TimeOut \/ Watched \/ NoResult \/ Result
    \/ Validate \/ ValidateModelAssets \/ Finish

-----------------------------------------------------------------------------
(* The download process of the thread's asset.                               *)

childUnchanged == <<env, pod, job, thread, silence, returned, native, kills>>

Open ==
    /\ child.pc = "open"
    /\ part' = part \cup {thread.asset}
    /\ child' = [child EXCEPT !.pc = "read"]
    /\ UNCHANGED <<target, queue, childUnchanged>>

Read ==
    /\ child.pc = "read"
    /\ child.read < Chunks
    /\ child' = [child EXCEPT !.read = @ + 1]
    /\ queue' = Append(queue, "chunk")
    /\ UNCHANGED <<volume, childUnchanged>>

\* Mutated form of BodyEnds: a short read ends the loop.
BodyEndsShort ==
    /\ child.pc = "read"
    /\ child' = [child EXCEPT !.pc = "rename"]
    /\ UNCHANGED <<volume, queue, childUnchanged>>

\* http.client reports a connection that ended early as the end of the body.
BodyEnds ==
    /\ child.pc = "read"
    /\ child.read = Chunks \/ ~ WholeBodies
    /\ child' = [child EXCEPT !.pc = "rename"]
    /\ UNCHANGED <<volume, queue, childUnchanged>>

\* Mutated form of Rename: the target is opened for writing, then written.
RenameInPlace ==
    /\ child.pc = "rename"
    /\ \/ /\ target[thread.asset] # "cut"
          /\ target' = [target EXCEPT ![thread.asset] = "cut"]
          /\ UNCHANGED <<child, part>>
       \/ /\ target' = [target EXCEPT ![thread.asset] = IF child.read = Chunks THEN "whole" ELSE "cut"]
          /\ part' = part \ {thread.asset}
          /\ child' = [child EXCEPT !.pc = "report"]
    /\ UNCHANGED <<queue, childUnchanged>>

Rename ==
    /\ child.pc = "rename"
    /\ target' = [target EXCEPT ![thread.asset] = IF child.read = Chunks THEN "whole" ELSE "cut"]
    /\ part' = part \ {thread.asset}
    /\ child' = [child EXCEPT !.pc = "report"]
    /\ UNCHANGED <<queue, childUnchanged>>

Report ==
    /\ child.pc = "report"
    /\ queue' = Append(queue, "ok")
    /\ child' = [child EXCEPT !.pc = "exit"]
    /\ UNCHANGED <<volume, childUnchanged>>

\* An exception of the request, of a read, of a write or of the rename.
Break ==
    /\ child.pc \in {"open", "read", "rename"}
    /\ child' = [child EXCEPT !.pc = "break"]
    /\ UNCHANGED <<volume, queue, childUnchanged>>

\* finally, and the message of _download_process.
Broken ==
    /\ child.pc = "break"
    /\ part' = part \ {thread.asset}
    /\ queue' = Append(queue, "failed")
    /\ child' = [child EXCEPT !.pc = "exit"]
    /\ UNCHANGED <<target, childUnchanged>>

ChildExit ==
    /\ child.pc = "exit"
    /\ child' = [child EXCEPT !.pc = "none"]
    /\ UNCHANGED <<volume, queue, childUnchanged>>

ChildStep == Open \/ Read \/ BodyEnds \/ Rename \/ Report \/ Break \/ Broken \/ ChildExit

-----------------------------------------------------------------------------
(* wait_for_provisioner.                                                     *)

nativeUnchanged == <<env, pod, job, thread, download, volume, kills>>

\* The worker answers whom it has a token in common with; the native side
\* derives the token from the key the pod was created with.
Serves == pod = "listening"

StatusAnswer ==
    CASE job.status = "succeeded" -> "ok"
      [] job.status = "failed"    -> "failed"
      [] OTHER                    -> "pending"

\* Mutated form of Status: the deadline of a 404 is looked at in every round.
StatusInTime ==
    /\ native.answer = "pending"
    /\ Serves
    /\ native' = [native EXCEPT !.answered = TRUE,
                                !.answer = IF native.deadline = 0 THEN "not_found" ELSE StatusAnswer]
    /\ UNCHANGED nativeUnchanged

Status ==
    /\ native.answer = "pending"
    /\ Serves
    /\ native' = [native EXCEPT !.answer = StatusAnswer, !.answered = TRUE]
    /\ UNCHANGED nativeUnchanged

\* Nobody listens, which RunPod's proxy answers with 404. The first one arms
\* the deadline; no answer disarms it.
StatusNotFound ==
    /\ native.answer = "pending"
    /\ pod \in {"down", "starting"}
    /\ LET deadline == IF native.deadline = NoDeadline THEN Patience ELSE native.deadline
       IN  native' = [native EXCEPT !.deadline = deadline,
                                    !.answer = IF deadline = 0 THEN "not_found" ELSE "pending"]
    /\ UNCHANGED nativeUnchanged

StatusFails ==
    /\ native.answer = "pending"
    /\ native' = [native EXCEPT !.answer = "unavailable"]
    /\ UNCHANGED nativeUnchanged

Tick ==
    /\ native.answer = "pending"
    /\ native.deadline \in 1 .. Patience
    /\ native' = [native EXCEPT !.deadline = @ - 1]
    /\ UNCHANGED nativeUnchanged

\* By the provision after a success, by a cleanup otherwise.
TerminatePod ==
    /\ native.answer # "pending"
    /\ pod # "gone"
    /\ pod' = "gone"
    /\ ProcessesEnd
    /\ UNCHANGED <<env, volume, native, kills>>

NativeStep == Status \/ StatusNotFound \/ StatusFails

Next ==
    \/ Boot \/ Listen \/ KillContainer \/ KillChild
    \/ ThreadStep \/ Flush \/ ChildStep
    \/ NativeStep \/ Tick \/ TerminatePod

Spec == Init /\ [][Next]_vars

\* The thread is scheduled, its queue's feeder too, polling goes on and time
\* passes. The download process may hang, the container may never start, and
\* no request has to fail.
Fairness ==
    /\ WF_vars(ThreadStep) /\ WF_vars(Flush)
    /\ WF_vars(Status) /\ WF_vars(StatusNotFound) /\ WF_vars(Tick)

FairSpec == Spec /\ Fairness

-----------------------------------------------------------------------------
(* Properties.                                                               *)

IsWhole == \A f \in File : target[f] = "whole"

\* A success is reported, and believed by the native side, only when every file is complete,
\* also after a container was killed and its job ran a second time over the same files
\* (preparer.py:80 looks only whether a target exists).
SuccessIsWhole ==
    WholeBodies => (job.status = "succeeded" \/ native.answer = "ok" => IsWhole)

Watching == thread.pc \in {"drain", "check", "result"}
Downloading == Watching \/ thread.pc = "request"

\* The inductive invariant of SuccessIsWhole: the files before the thread's asset are whole, and
\* that a download went well is only ever said of a file that has been renamed.
DownloadsInOrder ==
    WholeBodies =>
        /\ \A f \in File : target[f] # "cut"
        /\ child.pc = "rename" => child.read = Chunks
        /\ thread.pc \in {"begin", "paths", "assets"} => thread.asset = 0
        /\ Downloading => \A f \in File : f < thread.asset => target[f] = "whole"
        /\ Watching /\ (child.pc = "report" \/ Carries("ok") \/ returned = "ok")
              => target[thread.asset] = "whole"
        /\ thread.pc \in {"validate", "verify", "finish"} => IsWhole
        /\ job.status = "succeeded" \/ native.answer = "ok" => IsWhole

\* Once the job has ended no process writes to the volume any more (huggingface.py:97 ends the
\* child before the timeout is raised), although its exit and its last message race the timeout.
TerminalIsQuiet == job.status \in {"succeeded", "failed"} => child.pc = "none"

\* A child that ended by itself has left its word for the thread, in the queue or in the buffer of
\* what the thread put back (huggingface.py:116), although the watching loop empties the queue.
LastWordIsKept ==
    thread.pc = "result" /\ kills = 0 => Carries("ok") \/ Carries("failed") \/ returned # Nothing

\* A .part file outlives its download only if a process was killed from outside: every other end
\* of a download removes it, in the child or after the child has been terminated.
PartsAreRemoved == kills = 0 /\ child.pc = "none" /\ pod # "gone" => part = {}

\* A worker that has answered is not given up for being not found as long as nothing kills it,
\* however long its job runs (runtime_provider.rs:215 compares the deadline only at a 404).
AnsweringWorkerIsKept == kills = 0 /\ native.answered => native.answer # "not_found"

\* The progress a job reports never falls while its process lives.
ProgressNeverFalls == [][pod' = pod /\ pod # "down" => job'.percent >= job.percent]_vars

\* The wait ends whatever becomes of container, job and download process, without the two-hour
\* deadline of the operation: the job ends because an inactive download is given up, and a worker
\* that is not there is not found long enough.
WaitEnds == native.answer = "pending" ~> native.answer # "pending"

\* The wait and the volume behave as PreparedVolume promises, when bodies are whole.
Promise == INSTANCE PreparedVolume WITH
    File <- File, Whole <- "whole", volume <- target,
    answer <- IF native.answer \in {"pending", "ok"} THEN native.answer ELSE "error"

KeepsThePromise == Promise!Spec
=============================================================================
