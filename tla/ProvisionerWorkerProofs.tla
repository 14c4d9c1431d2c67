---------------------- MODULE ProvisionerWorkerProofs ------------------------
(* Proofs about ProvisionerWorker: its types, what a reported success says   *)
(* about the volume, and that the wait implements PreparedVolume.            *)
EXTENDS ProvisionerWorker, TLAPS

-----------------------------------------------------------------------------
(* Type correctness.                                                         *)

\* A part of a phase's progress stays within the phase (preparer.py:13).
LEMMA ProgressStaysInPhase ==
    ASSUME NEW n \in Nat \ {0}, NEW a \in 1 .. n
    PROVE  CompletedPhaseProgress(55, 90, a, n) \in 55 .. 90
<1> DEFINE q == (a * 35) \div n
<1>1. a * 35 \in Nat /\ a * 35 <= n * 35
    OBVIOUS
<1>2. q \in Nat /\ n * q <= a * 35
    BY <1>1
<1>3. q <= 35
    <2>1. SUFFICES ASSUME q >= 36 PROVE FALSE
        BY <1>2
    <2>2. n * q >= n * 36
        BY <1>2, <2>1
    <2> QED BY <1>1, <1>2, <2>2
<1> QED BY <1>2, <1>3 DEF CompletedPhaseProgress

USE AssetsAssumption, ChunksAssumption, InactivityAssumption, PatienceAssumption,
    MaxKillsAssumption, WholeBodiesAssumption

\* The worker's processes: every start, end and kill keeps the types.
LEMMA ProcessIsTyped ==
    ASSUME TypeOK, Boot \/ Listen \/ KillContainer \/ KillChild \/ TerminatePod
    PROVE  TypeOK'
<1>1. CASE Boot
    BY <1>1 DEF TypeOK, Boot, download, volume, JobSnapshot, Thread
<1>2. CASE Listen
    BY <1>2 DEF TypeOK, Listen, download, volume
<1>3. CASE KillContainer
    BY <1>3 DEF TypeOK, KillContainer, ProcessesEnd, download, volume, JobSnapshot, Thread, Child, Nothing
<1>4. CASE KillChild
    BY <1>4 DEF TypeOK, KillChild, download, volume, Child
<1>5. CASE TerminatePod
    BY <1>5 DEF TypeOK, TerminatePod, ProcessesEnd, download, volume, JobSnapshot, Thread, Child, Nothing
<1> QED BY <1>1, <1>2, <1>3, <1>4, <1>5

\* Moving on to the next asset, or past the last one, keeps the type of the thread.
LEMMA NextAssetIsTyped ==
    ASSUME TypeOK, NextAsset
    PROVE  /\ thread' \in Thread /\ thread'.pc \in {"request", "validate"}
           /\ thread'.pc = "request" => thread'.asset \in File
BY DEF TypeOK, NextAsset, Goto, File, Thread

\* The steps of the job's thread keep the types.
LEMMA ThreadIsTyped ==
    ASSUME TypeOK, ThreadStep
    PROVE  TypeOK'
<1>1. CASE Begin
    BY <1>1 DEF TypeOK, Begin, Progress, Goto, Terminal, download, volume, JobSnapshot, Thread
<1>2. CASE PrepareWorkspacePaths
    BY <1>2 DEF TypeOK, PrepareWorkspacePaths, Progress, Goto, Terminal, download, volume, JobSnapshot, Thread
<1>3. CASE DownloadAssets
    <2>1. child.pc = "none"
        BY <1>3 DEF TypeOK, DownloadAssets
    <2> QED BY <1>3, <2>1, NextAssetIsTyped
            DEF TypeOK, DownloadAssets, Progress, download, volume, JobSnapshot, Thread
<1>4. CASE Request
    BY <1>4 DEF TypeOK, Request, Goto, volume, JobSnapshot, Thread, Child, Nothing
<1>5. CASE RequestRefused
    BY <1>5 DEF TypeOK, RequestRefused, Terminal, Goto, download, volume, JobSnapshot, Thread
<1>6. CASE Drain
    BY <1>6 DEF TypeOK, Drain, Goto, volume, JobSnapshot, Thread, Nothing, Message
<1>7. CASE Join
    BY <1>7 DEF TypeOK, Join, Goto, volume, JobSnapshot, Thread
<1>8. CASE TimeOut
    BY <1>8 DEF TypeOK, TimeOut, TerminateProcess, Terminal, Goto, JobSnapshot, Thread, Child
<1>9. CASE Watched
    BY <1>9 DEF TypeOK, Watched, Goto, download, volume, JobSnapshot, Thread
<1>10. CASE NoResult
    BY <1>10 DEF TypeOK, NoResult, Terminal, Goto, download, volume, JobSnapshot, Thread
<1>11. CASE Result
    <2>1. child.pc = "none" /\ queue' \in Seq(Message)
        BY <1>11 DEF TypeOK, Result, Message
    <2>2. CASE UNCHANGED <<job, thread>>
        BY <1>11, <2>1, <2>2 DEF TypeOK, Result, volume, Message
    <2>3. CASE Terminal("failed")
        BY <1>11, <2>1, <2>3 DEF TypeOK, Result, Terminal, Goto, volume, JobSnapshot, Thread, Message
    <2>4. CASE Progress(CompletedPhaseProgress(55, 90, thread.asset, Assets)) /\ NextAsset
        <3>1. Assets \in Nat \ {0} /\ thread.asset \in 1 .. Assets
            BY <1>11 DEF TypeOK, Result, File, Thread, Message
        <3>2. job' \in JobSnapshot
            BY <2>4, <3>1, ProgressStaysInPhase DEF Progress, JobSnapshot
        <3> QED BY <1>11, <2>1, <2>4, <3>2, NextAssetIsTyped
                DEF TypeOK, Result, volume, Message
    <2> QED BY <1>11, <2>2, <2>3, <2>4 DEF Result
<1>12. CASE Validate
    BY <1>12 DEF TypeOK, Validate, Progress, Goto, download, volume, JobSnapshot, Thread
<1>13. CASE ValidateModelAssets
    <2>1. \/ Progress(100) /\ Goto("finish")
          \/ Terminal("failed")
        BY <1>13 DEF ValidateModelAssets
    <2>2. job' \in JobSnapshot /\ thread' \in Thread /\ thread'.pc \in {"finish", "off"}
        BY <2>1 DEF TypeOK, Progress, Goto, Terminal, JobSnapshot, Thread
    <2> QED BY <1>13, <2>2 DEF TypeOK, ValidateModelAssets, download, volume
<1>14. CASE Finish
    BY <1>14 DEF TypeOK, Finish, Goto, Terminal, download, volume, JobSnapshot, Thread
<1> QED BY <1>1, <1>2, <1>3, <1>4, <1>5, <1>6, <1>7, <1>8, <1>9, <1>10, <1>11, <1>12, <1>13, <1>14
        DEF ThreadStep

\* The steps of the download process and of the queue's feeder keep the types.
LEMMA DownloadIsTyped ==
    ASSUME TypeOK, Flush \/ ChildStep
    PROVE  TypeOK'
<1>1. CASE Flush
    BY <1>1 DEF TypeOK, Flush, volume, Nothing, Message
<1>2. CASE Open
    BY <1>2 DEF TypeOK, Open, childUnchanged, Child
<1>3. CASE Read
    BY <1>3 DEF TypeOK, Read, childUnchanged, volume, Child, Message
<1>4. CASE BodyEnds
    BY <1>4 DEF TypeOK, BodyEnds, childUnchanged, volume, Child
<1>5. CASE Rename
    BY <1>5 DEF TypeOK, Rename, childUnchanged, Child
<1>6. CASE Report
    BY <1>6 DEF TypeOK, Report, childUnchanged, volume, Child, Message
<1>7. CASE Break
    BY <1>7 DEF TypeOK, Break, childUnchanged, volume, Child
<1>8. CASE Broken
    BY <1>8 DEF TypeOK, Broken, childUnchanged, Child, Message
<1>9. CASE ChildExit
    BY <1>9 DEF TypeOK, ChildExit, childUnchanged, volume, Child
<1> QED BY <1>1, <1>2, <1>3, <1>4, <1>5, <1>6, <1>7, <1>8, <1>9 DEF ChildStep

\* Polling and the passing of time keep the types.
LEMMA NativeIsTyped ==
    ASSUME TypeOK, NativeStep \/ Tick
    PROVE  TypeOK'
<1>1. CASE Status
    BY <1>1 DEF TypeOK, Status, StatusAnswer, nativeUnchanged, Native, NoDeadline, download, volume
<1>2. CASE StatusNotFound
    <2> DEFINE d == IF native.deadline = NoDeadline THEN Patience ELSE native.deadline
    <2>1. d \in 0 .. NoDeadline
        BY DEF TypeOK, Native, NoDeadline
    <2>2. PICK a \in {"not_found", "pending"} : native' = [native EXCEPT !.deadline = d, !.answer = a]
        BY <1>2 DEF StatusNotFound
    <2>3. native' \in Native
        BY <2>1, <2>2 DEF TypeOK, Native
    <2> QED BY <1>2, <2>3 DEF TypeOK, StatusNotFound, nativeUnchanged, download, volume
<1>3. CASE StatusFails
    BY <1>3 DEF TypeOK, StatusFails, nativeUnchanged, Native, NoDeadline, download, volume
<1>4. CASE Tick
    BY <1>4 DEF TypeOK, Tick, nativeUnchanged, Native, NoDeadline, download, volume
<1> QED BY <1>1, <1>2, <1>3, <1>4 DEF NativeStep

\* Every value the worker, its job and the waiting side hold is of its type, and a download
\* process lives only while the thread watches it.
THEOREM TypeCorrect == Spec => []TypeOK
<1>1. Init => TypeOK
    BY DEF Init, TypeOK, JobSnapshot, Thread, Child, Native, NoDeadline, Nothing
<1>2. TypeOK /\ [Next]_vars => TypeOK'
    <2> SUFFICES ASSUME TypeOK, [Next]_vars PROVE TypeOK'
        OBVIOUS
    <2>1. CASE UNCHANGED vars
        BY <2>1 DEF TypeOK, vars, download, volume
    <2> QED BY <2>1, ProcessIsTyped, ThreadIsTyped, DownloadIsTyped, NativeIsTyped DEF Next
<1> QED BY <1>1, <1>2, PTL DEF Spec

-----------------------------------------------------------------------------
(* A reported success.                                                       *)

\* Moving on once the thread's asset is whole too.
LEMMA NextAssetInOrder ==
    ASSUME TypeOK, WholeBodies, NextAsset, UNCHANGED target,
           \A f \in File : f <= thread.asset => target[f] = "whole"
    PROVE  /\ Downloading' => \A f \in File : f < thread'.asset => target'[f] = "whole"
           /\ thread'.pc \in {"validate", "verify", "finish"} => IsWhole'
           /\ thread'.pc \in {"request", "validate"}
BY DEF TypeOK, NextAsset, Goto, File, Thread, Downloading, Watching, IsWhole

\* The worker's processes keep the downloads in order: what a restart repeats is whole already.
LEMMA ProcessInOrder ==
    ASSUME TypeOK, DownloadsInOrder, WholeBodies, Boot \/ Listen \/ KillContainer \/ KillChild \/ TerminatePod
    PROVE  DownloadsInOrder'
<1>1. CASE Boot
    BY <1>1 DEF DownloadsInOrder, Boot, download, volume, Downloading, Watching, IsWhole, Carries
<1>2. CASE Listen
    BY <1>2 DEF DownloadsInOrder, Listen, download, volume, Downloading, Watching, IsWhole, Carries
<1>3. CASE KillContainer
    BY <1>3 DEF DownloadsInOrder, KillContainer, ProcessesEnd, volume, Downloading, Watching, IsWhole
<1>4. CASE KillChild
    BY <1>4 DEF TypeOK, Child, DownloadsInOrder, KillChild, volume, Downloading, Watching, IsWhole, Carries
<1>5. CASE TerminatePod
    BY <1>5 DEF DownloadsInOrder, TerminatePod, ProcessesEnd, volume, Downloading, Watching, IsWhole
<1> QED BY <1>1, <1>2, <1>3, <1>4, <1>5

\* The thread keeps the downloads in order: it moves on when it has read the word of a child that
\* had renamed its file.
LEMMA ThreadInOrder ==
    ASSUME TypeOK, DownloadsInOrder, WholeBodies, ThreadStep
    PROVE  DownloadsInOrder'
<1> USE DEF volume
<1>1. CASE Begin
    BY <1>1 DEF TypeOK, Thread, DownloadsInOrder, Begin, Progress, Terminal, Goto, download, Downloading, Watching, IsWhole, Carries
<1>2. CASE PrepareWorkspacePaths
    BY <1>2 DEF TypeOK, Thread, DownloadsInOrder, PrepareWorkspacePaths, Progress, Terminal, Goto, download,
                Downloading, Watching, IsWhole, Carries
<1>3. CASE DownloadAssets
    <2>1. child.pc = "none" /\ thread.asset = 0
        BY <1>3 DEF TypeOK, DownloadAssets, DownloadsInOrder
    <2>2. \A f \in File : f <= thread.asset => target[f] = "whole"
        BY <2>1 DEF File
    <2>3. UNCHANGED target /\ NextAsset
        BY <1>3 DEF DownloadAssets
    <2> QED BY <1>3, <2>1, <2>2, <2>3, NextAssetInOrder
            DEF DownloadAssets, DownloadsInOrder, Progress, download, IsWhole, Downloading, Watching, Carries
<1>4. CASE Request
    BY <1>4 DEF TypeOK, Thread, DownloadsInOrder, Request, Goto, Downloading, Watching, IsWhole, Carries, Nothing
<1>5. CASE RequestRefused
    BY <1>5 DEF TypeOK, Thread, DownloadsInOrder, RequestRefused, Terminal, Goto, download, Downloading, Watching, IsWhole, Carries
<1>6. CASE Drain
    BY <1>6 DEF TypeOK, Thread, DownloadsInOrder, Drain, Goto, Downloading, Watching, IsWhole, Carries
<1>7. CASE Join
    BY <1>7 DEF TypeOK, Thread, DownloadsInOrder, Join, Goto, Downloading, Watching, IsWhole, Carries
<1>8. CASE TimeOut
    BY <1>8 DEF TypeOK, Thread, Child, DownloadsInOrder, TimeOut, TerminateProcess, Terminal, Goto, Downloading, Watching, IsWhole
<1>9. CASE Watched
    BY <1>9 DEF TypeOK, Thread, DownloadsInOrder, Watched, Goto, download, Downloading, Watching, IsWhole, Carries
<1>10. CASE NoResult
    BY <1>10 DEF TypeOK, Thread, DownloadsInOrder, NoResult, Terminal, Goto, download, Downloading, Watching, IsWhole
<1>11. CASE Result
    <2>1. /\ child.pc = "none" /\ UNCHANGED <<child, returned, target, native>>
          /\ Carries("ok")' => Carries("ok")
          /\ Head(queue) = "ok" => Carries("ok")
        BY <1>11 DEF TypeOK, Result, Carries
    <2>2. CASE UNCHANGED <<job, thread>>
        BY <2>1, <2>2 DEF DownloadsInOrder, Downloading, Watching, IsWhole
    <2>3. CASE Terminal("failed")
        BY <2>1, <2>3 DEF TypeOK, Thread, DownloadsInOrder, Terminal, Goto, Downloading, Watching, IsWhole
    <2>4. CASE Head(queue) = "ok" /\ (\E p : Progress(p)) /\ NextAsset
        <3>1. target[thread.asset] = "whole" /\ \A f \in File : f < thread.asset => target[f] = "whole"
            BY <1>11, <2>1, <2>4 DEF DownloadsInOrder, Downloading, Watching, Result
        <3>2. \A f \in File : f <= thread.asset => target[f] = "whole"
            BY <3>1 DEF TypeOK, Thread, File
        <3> QED BY <2>1, <2>4, <3>2, NextAssetInOrder DEF DownloadsInOrder, Progress, Downloading, Watching, IsWhole
    <2> QED BY <1>11, <2>2, <2>3, <2>4 DEF Result
<1>12. CASE Validate
    BY <1>12 DEF TypeOK, Thread, DownloadsInOrder, Validate, Progress, Goto, download, Downloading, Watching, IsWhole, Carries
<1>13. CASE ValidateModelAssets
    <2>1. \/ Progress(100) /\ Goto("finish")
          \/ Terminal("failed")
        BY <1>13 DEF ValidateModelAssets
    <2> QED BY <1>13, <2>1 DEF TypeOK, Thread, DownloadsInOrder, ValidateModelAssets, Progress, Goto, Terminal,
                           download, Downloading, Watching, IsWhole
<1>14. CASE Finish
    BY <1>14 DEF TypeOK, Thread, DownloadsInOrder, Finish, Terminal, Goto, download, Downloading, Watching, IsWhole
<1> QED BY <1>1, <1>2, <1>3, <1>4, <1>5, <1>6, <1>7, <1>8, <1>9, <1>10, <1>11, <1>12, <1>13, <1>14
        DEF ThreadStep

\* The download process keeps the downloads in order: it renames only what it has read to the end.
LEMMA DownloadInOrder ==
    ASSUME TypeOK, DownloadsInOrder, WholeBodies, Flush \/ ChildStep
    PROVE  DownloadsInOrder'
<1> USE DEF volume, Downloading, Watching, IsWhole
<1>1. CASE Flush
    BY <1>1 DEF TypeOK, Message, DownloadsInOrder, Flush, Carries, Nothing
<1>2. CASE Open
    BY <1>2 DEF TypeOK, Child, DownloadsInOrder, Open, childUnchanged, Carries
<1>3. CASE Read
    <2>1. Carries("ok")' => Carries("ok")
        BY <1>3 DEF TypeOK, Read, Carries, Message
    <2> QED BY <1>3, <2>1 DEF TypeOK, Child, DownloadsInOrder, Read, childUnchanged
<1>4. CASE BodyEnds
    BY <1>4 DEF TypeOK, Child, DownloadsInOrder, BodyEnds, childUnchanged, Carries
<1>5. CASE Rename
    <2>1. thread.asset \in File /\ target' = [target EXCEPT ![thread.asset] = "whole"]
        BY <1>5 DEF TypeOK, DownloadsInOrder, Rename
    <2>2. \A f \in File : target[f] = "whole" => target'[f] = "whole"
        BY <2>1 DEF TypeOK
    <2>3. \A f \in File : target'[f] # "cut"
        BY <2>1 DEF TypeOK, DownloadsInOrder
    <2>4. target'[thread.asset] = "whole"
        BY <2>1 DEF TypeOK
    <2> QED BY <1>5, <2>1, <2>2, <2>3, <2>4 DEF TypeOK, Child, DownloadsInOrder, Rename, childUnchanged, Carries
<1>6. CASE Report
    <2>1. thread.pc \in {"drain", "check"} /\ target[thread.asset] = "whole"
        BY <1>6 DEF TypeOK, DownloadsInOrder, Report
    <2> QED BY <1>6, <2>1 DEF TypeOK, Child, DownloadsInOrder, Report, childUnchanged
<1>7. CASE Break
    BY <1>7 DEF TypeOK, Child, DownloadsInOrder, Break, childUnchanged, Carries
<1>8. CASE Broken
    <2>1. Carries("ok")' => Carries("ok")
        BY <1>8 DEF TypeOK, Broken, Carries, Message
    <2> QED BY <1>8, <2>1 DEF TypeOK, Child, DownloadsInOrder, Broken, childUnchanged
<1>9. CASE ChildExit
    BY <1>9 DEF TypeOK, Child, DownloadsInOrder, ChildExit, childUnchanged, Carries
<1> QED BY <1>1, <1>2, <1>3, <1>4, <1>5, <1>6, <1>7, <1>8, <1>9 DEF ChildStep

\* The waiting side says "ok" only after the job has succeeded.
LEMMA NativeInOrder ==
    ASSUME TypeOK, DownloadsInOrder, WholeBodies, NativeStep \/ Tick
    PROVE  DownloadsInOrder'
<1>1. UNCHANGED <<job, thread, child, queue, returned, target>>
    BY DEF NativeStep, Status, StatusNotFound, StatusFails, Tick, nativeUnchanged, download, volume
<1>2. native'.answer = "ok" => native.answer = "ok" \/ job.status = "succeeded"
    BY DEF TypeOK, Native, NativeStep, Status, StatusAnswer, StatusNotFound, StatusFails, Tick
<1> QED BY <1>1, <1>2 DEF DownloadsInOrder, Downloading, Watching, IsWhole, Carries

\* The inductive invariant: files before the thread's asset are whole, and whoever says that a
\* download went well says it of a whole file.
THEOREM DownloadsStayInOrder == Spec => []DownloadsInOrder
<1>1. Init => DownloadsInOrder
    BY DEF Init, DownloadsInOrder, Downloading, Watching
<1>2. TypeOK /\ DownloadsInOrder /\ [Next]_vars => DownloadsInOrder'
    <2> SUFFICES ASSUME TypeOK, DownloadsInOrder, [Next]_vars, WholeBodies PROVE DownloadsInOrder'
        BY DEF DownloadsInOrder
    <2>1. CASE UNCHANGED vars
        BY <2>1 DEF DownloadsInOrder, vars, download, volume, Downloading, Watching, IsWhole, Carries
    <2> QED BY <2>1, ProcessInOrder, ThreadInOrder, DownloadInOrder, NativeInOrder DEF Next
<1> QED BY <1>1, <1>2, TypeCorrect, PTL DEF Spec

\* A success the job reports, or the native side believes, means that every file is whole, over
\* any number of files, kills and restarts.
THEOREM SuccessStaysWhole == Spec => []SuccessIsWhole
<1>1. DownloadsInOrder => SuccessIsWhole
    BY DEF DownloadsInOrder, SuccessIsWhole
<1> QED BY <1>1, DownloadsStayInOrder, PTL

-----------------------------------------------------------------------------
(* The wait implements PreparedVolume.                                       *)

\* Files that are whole stay whole, whatever process is killed or repeats its work.
LEMMA WholeStaysWhole ==
    ASSUME TypeOK, DownloadsInOrder, WholeBodies, [Next]_vars, NEW f \in File, target[f] = "whole"
    PROVE  target'[f] = "whole"
<1>1. CASE Rename
    BY <1>1 DEF TypeOK, DownloadsInOrder, Rename
<1>2. CASE ~ Rename
    BY <1>2 DEF Next, vars, volume, Boot, Listen, KillContainer, KillChild, ThreadStep, Begin,
                PrepareWorkspacePaths, DownloadAssets, Request, RequestRefused, Drain, Join, TimeOut, Watched,
                NoResult, Result, Validate, ValidateModelAssets, Finish, Flush, ChildStep, Open, Read, BodyEnds,
                Report, Break, Broken, ChildExit, NativeStep, Status, StatusNotFound, StatusFails, Tick,
                nativeUnchanged, TerminatePod
<1> QED BY <1>1, <1>2

\* Steps other than those of the polling leave its answer alone.
LEMMA AnswerIsTheWaits ==
    ASSUME [Next]_vars, ~ NativeStep
    PROVE  native'.answer = native.answer \/ Tick
BY DEF Next, vars, volume, download, Boot, Listen, KillContainer, KillChild, ThreadStep, Begin,
       PrepareWorkspacePaths, DownloadAssets, Request, RequestRefused, Drain, Join, TimeOut, Watched,
       NoResult, Result, Validate, ValidateModelAssets, Finish, Flush, ChildStep, Open, Read, BodyEnds,
       Rename, Report, Break, Broken, ChildExit, childUnchanged, TerminatePod

\* The detailed wait implements the abstract one: it answers once, truly, and the files that are
\* whole stay so.
THEOREM ImplementsPreparedVolume == WholeBodies => (Spec => KeepsThePromise)
<1> SUFFICES ASSUME WholeBodies PROVE Spec => Promise!Spec
    BY DEF KeepsThePromise
<1> DEFINE answer == IF native.answer \in {"pending", "ok"} THEN native.answer ELSE "error"
<1>1. Init => Promise!Init
    BY DEF Init, Promise!Init
<1>2. TypeOK /\ TypeOK' /\ DownloadsInOrder /\ [Next]_vars => [Promise!Next]_<<target, answer>>
    <2> SUFFICES ASSUME TypeOK, TypeOK', DownloadsInOrder, [Next]_vars
                 PROVE  Promise!Next \/ UNCHANGED <<target, answer>>
        OBVIOUS
    <2>1. CASE NativeStep
        <3>1. native.answer = "pending" /\ UNCHANGED target
            BY <2>1 DEF NativeStep, Status, StatusNotFound, StatusFails, nativeUnchanged, volume
        <3>2. native'.answer = "ok" => IsWhole
            BY <2>1, <3>1 DEF TypeOK, Native, NativeStep, Status, StatusAnswer, StatusNotFound, StatusFails,
                              DownloadsInOrder
        <3>3. CASE native'.answer = "pending"
            BY <3>1, <3>3
        <3>4. CASE native'.answer = "ok"
            BY <3>1, <3>2, <3>4 DEF Promise!Next, Promise!Succeed, IsWhole
        <3>5. CASE native'.answer \notin {"pending", "ok"}
            BY <3>1, <3>5 DEF Promise!Next, Promise!GiveUp
        <3> QED BY <3>3, <3>4, <3>5
    <2>2. CASE ~ NativeStep
        <3>1. native'.answer = native.answer
            BY <2>2, AnswerIsTheWaits DEF TypeOK, Native, Tick
        <3>2. \A f \in File : target[f] = "whole" => target'[f] = "whole"
            BY WholeStaysWhole
        <3>3. DOMAIN target' = File
            BY DEF TypeOK
        <3> QED BY <3>1, <3>2, <3>3 DEF Promise!Next, Promise!Prepare
    <2> QED BY <2>1, <2>2
<1> QED BY <1>1, <1>2, TypeCorrect, DownloadsStayInOrder, PTL DEF Spec, Promise!Spec

-----------------------------------------------------------------------------
(* What is left on the volume when the job has ended.                        *)

\* A job that has ended has no thread any more.
EndedIsOff == job.status \in {"succeeded", "failed"} => thread.pc = "off"

\* A partial file belongs to the download that is going on.
PartsFollowTheDownload ==
    kills = 0 /\ pod # "gone" =>
        \A f \in part : child.pc \in {"read", "rename", "break"} /\ f = thread.asset

\* The end of the job is the last step of its thread.
LEMMA EndsStayOff ==
    ASSUME TypeOK, EndedIsOff, [Next]_vars
    PROVE  EndedIsOff'
<1> USE DEF EndedIsOff
<1>1. CASE ThreadStep
    <2>1. \/ \E s \in {"succeeded", "failed"} : Terminal(s)
          \/ \E p : Progress(p)
          \/ UNCHANGED job /\ thread.pc # "off"
        BY <1>1 DEF ThreadStep, Begin, PrepareWorkspacePaths, DownloadAssets, Request, RequestRefused, Drain, Join,
                    TimeOut, Watched, NoResult, Result, Validate, ValidateModelAssets, Finish
    <2> QED BY <2>1 DEF TypeOK, Thread, Terminal, Progress, Goto
<1>2. CASE Boot \/ KillContainer \/ TerminatePod
    BY <1>2 DEF Boot, KillContainer, TerminatePod, ProcessesEnd
<1>3. CASE ~ ThreadStep /\ ~ (Boot \/ KillContainer \/ TerminatePod)
    <2>1. UNCHANGED <<job, thread>>
        BY <1>3 DEF Next, vars, Listen, KillChild, Flush, ChildStep, Open, Read, BodyEnds, Rename, Report, Break,
                    Broken, ChildExit, childUnchanged, NativeStep, Status, StatusNotFound, StatusFails, Tick,
                    nativeUnchanged
    <2> QED BY <2>1
<1> QED BY <1>1, <1>2, <1>3

\* A job that has ended has no download process, so nothing writes to the volume any more.
THEOREM EndedJobsAreQuiet == Spec => []TerminalIsQuiet
<1>1. Init => EndedIsOff
    BY DEF Init, EndedIsOff
<1>2. TypeOK /\ EndedIsOff => TerminalIsQuiet
    BY DEF TypeOK, Child, EndedIsOff, TerminalIsQuiet
<1> QED BY <1>1, <1>2, EndsStayOff, TypeCorrect, PTL DEF Spec

\* While nothing is killed, a step leaves no partial file without its download.
LEMMA PartsStayWithDownloads ==
    ASSUME TypeOK, PartsFollowTheDownload, [Next]_vars, kills' = 0, pod' # "gone", NEW f \in part'
    PROVE  child'.pc \in {"read", "rename", "break"} /\ f = thread'.asset
<1>1. kills = 0 /\ pod # "gone" /\ \A g \in part : child.pc \in {"read", "rename", "break"} /\ g = thread.asset
    BY DEF TypeOK, PartsFollowTheDownload, Next, vars, download, Boot, Listen, KillContainer, KillChild, ThreadStep,
           Begin, PrepareWorkspacePaths, DownloadAssets, Request, RequestRefused, Drain, Join, TimeOut, Watched,
           NoResult, Result, Validate, ValidateModelAssets, Finish, Flush, ChildStep, Open, Read, BodyEnds,
           Rename, Report, Break, Broken, ChildExit, childUnchanged, NativeStep, Status, StatusNotFound,
           StatusFails, Tick, nativeUnchanged, TerminatePod
<1>2. CASE ThreadStep
    <2>1. CASE child.pc = "none"
        <3>1. part = {} /\ part' = part
            BY <1>1, <1>2, <2>1 DEF volume, ThreadStep, Begin, PrepareWorkspacePaths, DownloadAssets, Request,
                    RequestRefused, Drain, Join, TimeOut, Watched, NoResult, Result, Validate, ValidateModelAssets,
                    Finish
        <3> QED BY <3>1
    <2>2. CASE child.pc # "none"
        <3>1. Drain \/ Join \/ TimeOut
            BY <1>2, <2>2 DEF TypeOK, ThreadStep, Begin, PrepareWorkspacePaths, DownloadAssets, Request,
                    RequestRefused, Watched, NoResult, Result, Validate, ValidateModelAssets, Finish
        <3> QED BY <1>1, <2>2, <3>1 DEF TypeOK, Thread, Drain, Join, TimeOut, TerminateProcess, Goto, volume
    <2> QED BY <2>1, <2>2
<1>3. CASE ChildStep
    BY <1>1, <1>3 DEF TypeOK, Child, volume, childUnchanged, ChildStep, Open, Read, BodyEnds, Rename, Report, Break,
                      Broken, ChildExit
<1>4. CASE Boot
    BY <1>1, <1>4 DEF TypeOK, Boot, download, volume
<1>5. CASE KillContainer \/ KillChild \/ TerminatePod
    BY <1>1, <1>5 DEF TypeOK, KillContainer, KillChild, TerminatePod
<1>6. CASE Listen \/ Flush \/ NativeStep \/ Tick \/ UNCHANGED vars
    BY <1>1, <1>6 DEF Listen, Flush, NativeStep, Tick, Status, StatusNotFound, StatusFails, nativeUnchanged, vars,
                      download, volume
<1> QED BY <1>2, <1>3, <1>4, <1>5, <1>6 DEF Next

\* A partial file outlives its download only when a process was killed from outside.
THEOREM PartsAreAlwaysRemoved == Spec => []PartsAreRemoved
<1>1. Init => PartsFollowTheDownload
    BY DEF Init, PartsFollowTheDownload
<1>2. TypeOK /\ PartsFollowTheDownload /\ [Next]_vars => PartsFollowTheDownload'
    BY PartsStayWithDownloads DEF PartsFollowTheDownload
<1>3. PartsFollowTheDownload => PartsAreRemoved
    BY DEF PartsFollowTheDownload, PartsAreRemoved
<1> QED BY <1>1, <1>2, <1>3, TypeCorrect, PTL DEF Spec

-----------------------------------------------------------------------------
(* The progress of a job.                                                    *)

\* One more completed asset does not lower the progress (preparer.py:13).
LEMMA ProgressGrows ==
    ASSUME NEW n \in Nat \ {0}, NEW a \in 1 .. n
    PROVE  /\ CompletedPhaseProgress(55, 90, 0, n) = 55
           /\ CompletedPhaseProgress(55, 90, a - 1, n) \in Nat
           /\ CompletedPhaseProgress(55, 90, a - 1, n) <= CompletedPhaseProgress(55, 90, a, n)
<1> DEFINE q(b) == (b * 35) \div n
<1>1. q(0) = 0
    OBVIOUS
<1>2. /\ q(a - 1) \in Nat /\ n * q(a - 1) <= (a - 1) * 35
      /\ q(a) \in Nat /\ a * 35 < n * (q(a) + 1)
    OBVIOUS
<1>3. q(a - 1) <= q(a)
    <2> HIDE DEF q
    <2>1. SUFFICES ASSUME q(a) + 1 <= q(a - 1) PROVE FALSE
        BY <1>2
    <2>2. n * (q(a) + 1) <= n * q(a - 1)
        BY <1>2, <2>1
    <2>3. (a - 1) * 35 <= a * 35
        OBVIOUS
    <2> QED BY <1>2, <2>2, <2>3
<1> QED BY <1>1, <1>2, <1>3 DEF CompletedPhaseProgress

\* What the progress can be at each place of the thread.
ProgressFollowsThread ==
    /\ thread.pc = "begin" => job.percent = 0
    /\ thread.pc = "paths" => job.percent = 15
    /\ thread.pc = "assets" => job.percent = 25 /\ thread.asset = 0
    /\ thread.pc \in {"begin", "paths"} => thread.asset = 0
    /\ Downloading => job.percent = CompletedPhaseProgress(55, 90, thread.asset - 1, Assets)
    /\ thread.pc = "validate" => job.percent <= 90
    /\ thread.pc = "verify" => job.percent = 95

\* The percentage is a number.
LEMMA PercentIsNumber == TypeOK => job.percent \in 0 .. 100
<1> SUFFICES ASSUME job \in JobSnapshot PROVE job.percent \in 0 .. 100
    BY DEF TypeOK
<1> QED BY DEF JobSnapshot

\* The end of the thread keeps them so.
LEMMA EndKeepsProgress ==
    ASSUME TypeOK, NEW s \in {"succeeded", "failed"}, Terminal(s)
    PROVE  job'.percent >= job.percent /\ ProgressFollowsThread'
<1>1. thread'.pc = "off"
    BY DEF TypeOK, Thread, Terminal, Goto
<1>2. job'.percent >= job.percent
    BY PercentIsNumber DEF Terminal
<1> QED BY <1>1, <1>2 DEF ProgressFollowsThread, Downloading, Watching

\* A step of the thread raises the progress or leaves it, and keeps it in step with the thread.
LEMMA ThreadProgresses ==
    ASSUME TypeOK, ProgressFollowsThread, ThreadStep
    PROVE  job'.percent >= job.percent /\ ProgressFollowsThread'
<1> USE DEF Downloading, Watching
<1>1. CASE \E s \in {"succeeded", "failed"} : Terminal(s)
    BY <1>1, EndKeepsProgress
<1>2. CASE Begin /\ Progress(15) /\ Goto("paths")
    <2>1. thread' = [pc |-> "paths", asset |-> 0] /\ job'.percent = 15 /\ job.percent = 0
        BY <1>2 DEF TypeOK, Thread, ProgressFollowsThread, Begin, Progress, Goto
    <2> QED BY <2>1 DEF ProgressFollowsThread
<1>3. CASE PrepareWorkspacePaths /\ Progress(25) /\ Goto("assets")
    <2>1. thread' = [pc |-> "assets", asset |-> 0] /\ job'.percent = 25 /\ job.percent = 15
        BY <1>3 DEF TypeOK, Thread, ProgressFollowsThread, PrepareWorkspacePaths, Progress, Goto
    <2> QED BY <2>1 DEF ProgressFollowsThread
<1>4. CASE DownloadAssets
    <2>1. job'.percent = 55 /\ job.percent = 25 /\ thread.asset = 0 /\ NextAsset
        BY <1>4 DEF ProgressFollowsThread, DownloadAssets, Progress
    <2>2. CASE Assets = 0
        <3>1. thread'.pc = "validate"
            BY <2>1, <2>2 DEF TypeOK, Thread, NextAsset, Goto
        <3> QED BY <2>1, <3>1 DEF ProgressFollowsThread
    <2>3. CASE Assets # 0
        <3>1. thread' = [pc |-> "request", asset |-> 1]
            BY <2>1, <2>3 DEF NextAsset
        <3>2. CompletedPhaseProgress(55, 90, 0, Assets) = 55
            BY <2>3, ProgressGrows
        <3> QED BY <2>1, <3>1, <3>2 DEF ProgressFollowsThread
    <2> QED BY <2>2, <2>3
<1>5. CASE Request \/ Drain \/ Join \/ Watched
    <2>1. /\ job' = job /\ thread'.asset = thread.asset
          /\ Downloading /\ thread'.pc \in {"drain", "check", "result"}
        BY <1>5 DEF TypeOK, Thread, Request, Drain, Join, Watched, Goto
    <2> QED BY <2>1, PercentIsNumber DEF ProgressFollowsThread
<1>6. CASE Result
    <2>1. CASE UNCHANGED <<job, thread>>
        BY <2>1, PercentIsNumber DEF ProgressFollowsThread
    <2>2. CASE Progress(CompletedPhaseProgress(55, 90, thread.asset, Assets)) /\ NextAsset
        <3>1. Assets \in Nat \ {0} /\ thread.asset \in 1 .. Assets
            BY <1>6 DEF TypeOK, Result, File, Thread
        <3>2. /\ job.percent = CompletedPhaseProgress(55, 90, thread.asset - 1, Assets)
              /\ job'.percent = CompletedPhaseProgress(55, 90, thread.asset, Assets)
            BY <1>6, <2>2 DEF ProgressFollowsThread, Result, Progress
        <3>3. job'.percent >= job.percent /\ job'.percent <= 90
            <4> DEFINE before == CompletedPhaseProgress(55, 90, thread.asset - 1, Assets)
                       after == CompletedPhaseProgress(55, 90, thread.asset, Assets)
            <4>1. before \in Nat /\ before <= after /\ after \in 55 .. 90
                BY <3>1, ProgressGrows, ProgressStaysInPhase
            <4> HIDE DEF before, after
            <4>2. job.percent = before /\ job'.percent = after
                BY <3>2 DEF before, after
            <4> QED BY <4>1, <4>2
        <3>4. CASE thread.asset = Assets
            <4>1. thread'.pc = "validate"
                BY <2>2, <3>4 DEF TypeOK, Thread, NextAsset, Goto
            <4> QED BY <3>3, <4>1 DEF ProgressFollowsThread
        <3>5. CASE thread.asset # Assets
            <4>1. thread' = [pc |-> "request", asset |-> thread.asset + 1]
                BY <2>2, <3>1, <3>5 DEF NextAsset
            <4>2. thread'.asset - 1 = thread.asset /\ thread'.pc = "request"
                BY <3>1, <4>1
            <4> QED BY <3>2, <3>3, <4>2 DEF ProgressFollowsThread
        <3> QED BY <3>4, <3>5
    <2> QED BY <1>1, <1>6, <2>1, <2>2 DEF Result
<1>7. CASE Validate
    <2>1. thread'.pc = "verify" /\ job'.percent = 95 /\ job.percent <= 90
        BY <1>7 DEF TypeOK, Thread, ProgressFollowsThread, Validate, Progress, Goto
    <2> QED BY <2>1, PercentIsNumber DEF ProgressFollowsThread
<1>8. CASE ValidateModelAssets /\ Progress(100) /\ Goto("finish")
    <2>1. thread'.pc = "finish" /\ job'.percent = 100 /\ job.percent = 95
        BY <1>8 DEF TypeOK, Thread, ProgressFollowsThread, ValidateModelAssets, Progress, Goto
    <2> QED BY <2>1 DEF ProgressFollowsThread
<1> QED BY <1>1, <1>2, <1>3, <1>4, <1>5, <1>6, <1>7, <1>8
        DEF ThreadStep, Begin, PrepareWorkspacePaths, RequestRefused, TimeOut, NoResult, ValidateModelAssets, Finish

\* Other steps start a job at nothing, end it with its process, or leave it alone.
LEMMA OthersLeaveProgress ==
    ASSUME TypeOK, ProgressFollowsThread, [Next]_vars, ~ ThreadStep
    PROVE  (pod' = pod /\ pod # "down" => job'.percent >= job.percent) /\ ProgressFollowsThread'
<1>1. CASE Boot \/ KillContainer \/ TerminatePod
    BY <1>1 DEF Boot, KillContainer, TerminatePod, ProcessesEnd, ProgressFollowsThread, Downloading, Watching
<1>2. CASE ~ (Boot \/ KillContainer \/ TerminatePod)
    <2>1. UNCHANGED <<job, thread>>
        BY <1>2 DEF Next, vars, Listen, KillChild, Flush, ChildStep, Open, Read, BodyEnds, Rename, Report, Break,
                    Broken, ChildExit, childUnchanged, NativeStep, Status, StatusNotFound, StatusFails, Tick,
                    nativeUnchanged
    <2> QED BY <2>1, PercentIsNumber DEF ProgressFollowsThread, Downloading, Watching
<1> QED BY <1>1, <1>2

\* The percentage a listener of /status sees never falls while the worker's process lives.
THEOREM ProgressStaysMonotone == Spec => ProgressNeverFalls
<1>1. Init => ProgressFollowsThread
    BY DEF Init, ProgressFollowsThread, Downloading, Watching
<1>2. TypeOK /\ ProgressFollowsThread /\ [Next]_vars =>
          /\ ProgressFollowsThread'
          /\ pod' = pod /\ pod # "down" => job'.percent >= job.percent
    BY ThreadProgresses, OthersLeaveProgress
<1> QED BY <1>1, <1>2, TypeCorrect, PTL DEF Spec, ProgressNeverFalls

-----------------------------------------------------------------------------
(* What holds as long as no process is killed.                               *)

\* Kills are counted, never taken back.
LEMMA KillsAreCounted ==
    ASSUME TypeOK, [Next]_vars, kills' = 0
    PROVE  kills = 0 /\ ~ KillContainer /\ ~ KillChild
<1>1. CASE KillContainer \/ KillChild
    BY <1>1 DEF TypeOK, KillContainer, KillChild
<1>2. CASE ~ (KillContainer \/ KillChild)
    BY <1>2 DEF Next, vars, Boot, Listen, ThreadStep, Begin, PrepareWorkspacePaths, DownloadAssets, Request,
                RequestRefused, Drain, Join, TimeOut, Watched, NoResult, Result, Validate, ValidateModelAssets,
                Finish, Flush, ChildStep, Open, Read, BodyEnds, Rename, Report, Break, Broken, ChildExit,
                childUnchanged, NativeStep, Status, StatusNotFound, StatusFails, Tick, nativeUnchanged, TerminatePod
<1> QED BY <1>1, <1>2

\* The port of a worker that has answered stays bound until its pod is removed.
AnsweringWorkerListens ==
    kills = 0 /\ native.answered => native.answer # "not_found" /\ pod \in {"listening", "gone"}

\* A step that kills nothing keeps an answering worker listening.
LEMMA ListeningGoesOn ==
    ASSUME TypeOK, AnsweringWorkerListens, [Next]_vars
    PROVE  AnsweringWorkerListens'
<1> SUFFICES ASSUME kills' = 0, native'.answered
             PROVE  native'.answer # "not_found" /\ pod' \in {"listening", "gone"}
    BY DEF AnsweringWorkerListens
<1>1. kills = 0 /\ ~ KillContainer /\ ~ KillChild
    BY KillsAreCounted
<1>2. CASE Status
    BY <1>2 DEF TypeOK, Native, Status, Serves, StatusAnswer, nativeUnchanged
<1>3. CASE Boot \/ Listen
    <2>1. UNCHANGED native /\ pod \in {"down", "starting"}
        BY <1>3 DEF Boot, Listen
    <2> QED BY <1>1, <2>1 DEF AnsweringWorkerListens
<1>4. CASE TerminatePod
    BY <1>1, <1>4 DEF TerminatePod, AnsweringWorkerListens
<1>5. CASE StatusNotFound \/ StatusFails \/ Tick
    <2>1. native'.answered = native.answered /\ UNCHANGED pod
        BY <1>5 DEF TypeOK, Native, StatusNotFound, StatusFails, Tick, nativeUnchanged
    <2>2. ~ StatusNotFound
        BY <1>1, <2>1 DEF AnsweringWorkerListens, StatusNotFound
    <2>3. native'.answer \in {native.answer, "unavailable"}
        BY <1>5, <2>2 DEF TypeOK, Native, StatusFails, Tick
    <2> QED BY <1>1, <2>1, <2>3 DEF AnsweringWorkerListens
<1>6. CASE ThreadStep \/ Flush \/ ChildStep \/ UNCHANGED vars
    <2>1. UNCHANGED <<pod, native>>
        BY <1>6 DEF vars, ThreadStep, Begin, PrepareWorkspacePaths, DownloadAssets, Request, RequestRefused, Drain,
                    Join, TimeOut, Watched, NoResult, Result, Validate, ValidateModelAssets, Finish, Flush, ChildStep,
                    Open, Read, BodyEnds, Rename, Report, Break, Broken, ChildExit, childUnchanged
    <2> QED BY <1>1, <2>1 DEF AnsweringWorkerListens
<1> QED BY <1>1, <1>2, <1>3, <1>4, <1>5, <1>6 DEF Next, NativeStep

\* A worker that has answered is never given up for being not found while nothing kills it, whatever
\* the patience and however long the job.
THEOREM AnsweringWorkersAreKept == Spec => []AnsweringWorkerIsKept
<1>1. Init => AnsweringWorkerListens
    BY DEF Init, AnsweringWorkerListens
<1>2. AnsweringWorkerListens => AnsweringWorkerIsKept
    BY DEF AnsweringWorkerListens, AnsweringWorkerIsKept
<1> QED BY <1>1, <1>2, ListeningGoesOn, TypeCorrect, PTL DEF Spec

\* The child's last message is somewhere between the child and the thread.
HasWord == Carries("ok") \/ Carries("failed") \/ returned # Nothing

\* A watched child that has said its last word, or has exited, has left it there.
WordIsOnItsWay == kills = 0 /\ Watching /\ child.pc \in {"exit", "none"} => HasWord

\* A message put into the queue is in it, and so is what was there before.
LEMMA QueueGrows ==
    ASSUME TypeOK, NEW m \in Message, queue' = Append(queue, m)
    PROVE  Carries(m)' /\ \A n \in Message : Carries(n) => Carries(n)'
<1>1. Len(queue') = Len(queue) + 1 /\ queue'[Len(queue) + 1] = m /\ Len(queue) \in Nat
    BY DEF TypeOK
<1>2. \A i \in 1 .. Len(queue) : queue'[i] = queue[i]
    BY DEF TypeOK
<1> QED BY <1>1, <1>2 DEF Carries

\* The steps of the thread keep the child's word: draining puts it back, and only the step that
\* stops watching takes it.
LEMMA ThreadKeepsTheWord ==
    ASSUME TypeOK, WordIsOnItsWay, ThreadStep, kills = 0, Watching', child'.pc \in {"exit", "none"}
    PROVE  HasWord'
<1>1. CASE Request
    BY <1>1 DEF Request
<1>2. CASE Drain
    <2>1. child.pc = "exit" /\ Watching
        BY <1>2 DEF Drain, Watching
    <2>2. Carries("ok") \/ Carries("failed") \/ returned # Nothing
        BY <2>1 DEF WordIsOnItsWay, HasWord
    <2>3. returned' = CASE Carries("ok") -> "ok" [] Carries("failed") -> "failed" [] OTHER -> returned
        BY <1>2 DEF Drain
    <2> QED BY <2>2, <2>3 DEF HasWord, Nothing
<1>3. CASE Join \/ Watched
    <2>1. Watching /\ UNCHANGED <<child, queue, returned>>
        BY <1>3 DEF Join, Watched, Watching, download
    <2> QED BY <2>1 DEF WordIsOnItsWay, HasWord, Carries
<1>4. CASE Result
    <2>1. Watching /\ child.pc = "none" /\ UNCHANGED returned /\ queue # <<>> /\ queue' = Tail(queue)
        BY <1>4 DEF TypeOK, Result, Watching
    <2>2. Head(queue) = "chunk"
        <3>1. CASE Terminal("failed")
            BY <3>1 DEF TypeOK, Thread, Terminal, Goto, Watching
        <3>2. CASE NextAsset
            BY <3>2 DEF TypeOK, Thread, NextAsset, Goto, Watching
        <3> QED BY <1>4, <3>1, <3>2 DEF Result
    <2>3. ASSUME NEW m \in {"ok", "failed"}, Carries(m) PROVE Carries(m)'
        <3>1. PICK i \in 1 .. Len(queue) : queue[i] = m
            BY <2>3 DEF Carries
        <3>2. i # 1
            BY <2>1, <2>2, <3>1 DEF TypeOK
        <3>3. Len(queue') = Len(queue) - 1 /\ i - 1 \in 1 .. Len(queue') /\ queue'[i - 1] = queue[i]
            BY <2>1, <3>1, <3>2 DEF TypeOK
        <3> QED BY <3>1, <3>3 DEF Carries
    <2>4. HasWord
        BY <2>1 DEF WordIsOnItsWay
    <2> QED BY <2>1, <2>3, <2>4 DEF HasWord
<1>5. ASSUME ~ (Request \/ Drain \/ Join \/ Watched \/ Result) PROVE FALSE
    BY <1>5 DEF TypeOK, Thread, ThreadStep, Begin, PrepareWorkspacePaths, DownloadAssets, NextAsset, RequestRefused,
                TimeOut, NoResult, Validate, ValidateModelAssets, Finish, Terminal, Goto, Watching
<1> QED BY <1>1, <1>2, <1>3, <1>4, <1>5

\* The child says its word before it exits, and what the thread put back reaches the queue.
LEMMA DownloadKeepsTheWord ==
    ASSUME TypeOK, WordIsOnItsWay, Flush \/ ChildStep, kills = 0, Watching', child'.pc \in {"exit", "none"}
    PROVE  HasWord'
<1>1. Watching
    BY DEF Watching, Flush, ChildStep, Open, Read, BodyEnds, Rename, Report, Break, Broken, ChildExit, childUnchanged
<1>2. CASE Flush
    <2>1. returned \in Message \ {"chunk"} /\ queue' = Append(queue, returned)
        BY <1>2 DEF TypeOK, Flush, Message, Nothing
    <2>2. Carries("ok")' \/ Carries("failed")'
        <3>1. CASE returned = "ok"
            <4>1. queue' = Append(queue, "ok") /\ "ok" \in Message
                BY <2>1, <3>1
            <4> QED BY <4>1, QueueGrows
        <3>2. CASE returned = "failed"
            <4>1. queue' = Append(queue, "failed") /\ "failed" \in Message
                BY <2>1, <3>2
            <4> QED BY <4>1, QueueGrows
        <3> QED BY <2>1, <3>1, <3>2 DEF Message
    <2> QED BY <2>2 DEF HasWord
<1>3. CASE Report
    <2>1. queue' = Append(queue, "ok") /\ "ok" \in Message
        BY <1>3 DEF Report, Message
    <2> QED BY <2>1, QueueGrows DEF HasWord
<1>4. CASE Broken
    <2>1. queue' = Append(queue, "failed") /\ "failed" \in Message
        BY <1>4 DEF Broken, Message
    <2> QED BY <2>1, QueueGrows DEF HasWord
<1>5. CASE ChildExit
    <2>1. child.pc = "exit" /\ UNCHANGED <<queue, returned>>
        BY <1>5 DEF ChildExit, childUnchanged
    <2> QED BY <1>1, <2>1 DEF WordIsOnItsWay, HasWord, Carries
<1>6. ASSUME Open \/ Read \/ BodyEnds \/ Rename \/ Break PROVE FALSE
    BY <1>6 DEF TypeOK, Child, Open, Read, BodyEnds, Rename, Break
<1> QED BY <1>2, <1>3, <1>4, <1>5, <1>6 DEF ChildStep

\* A child that ended by itself has left its word for the thread, for any number of chunks, rounds
\* and files, although the watching loop empties the queue.
THEOREM LastWordsAreKept == Spec => []LastWordIsKept
<1>1. Init => WordIsOnItsWay
    BY DEF Init, WordIsOnItsWay, Watching
<1>2. TypeOK /\ WordIsOnItsWay /\ [Next]_vars => WordIsOnItsWay'
    <2> SUFFICES ASSUME TypeOK, WordIsOnItsWay, [Next]_vars, kills' = 0, Watching', child'.pc \in {"exit", "none"}
                 PROVE  HasWord'
        BY DEF WordIsOnItsWay
    <2>1. kills = 0 /\ ~ KillContainer /\ ~ KillChild
        BY KillsAreCounted
    <2>2. CASE ThreadStep
        BY <2>1, <2>2, ThreadKeepsTheWord
    <2>3. CASE Flush \/ ChildStep
        BY <2>1, <2>3, DownloadKeepsTheWord
    <2>4. CASE Listen \/ NativeStep \/ Tick \/ UNCHANGED vars
        <3>1. UNCHANGED <<thread, child, queue, returned>>
            BY <2>4 DEF Listen, NativeStep, Status, StatusNotFound, StatusFails, Tick, nativeUnchanged, vars, download
        <3> QED BY <2>1, <3>1 DEF WordIsOnItsWay, Watching, HasWord, Carries
    <2>5. ASSUME Boot \/ TerminatePod PROVE FALSE
        BY <2>5 DEF Boot, TerminatePod, ProcessesEnd, Watching
    <2> QED BY <2>1, <2>2, <2>3, <2>4, <2>5 DEF Next
<1>3. TypeOK /\ WordIsOnItsWay => LastWordIsKept
    BY DEF TypeOK, WordIsOnItsWay, HasWord, LastWordIsKept, Watching
<1> QED BY <1>1, <1>2, <1>3, TypeCorrect, PTL DEF Spec
=============================================================================
