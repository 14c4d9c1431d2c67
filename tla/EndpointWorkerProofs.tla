------------------------ MODULE EndpointWorkerProofs -------------------------
(* Proofs about EndpointWorker: types, one launch of ComfyUI per outage, and *)
(* what a job's directory holds.                                             *)
EXTENDS EndpointWorker, TLAPS

-----------------------------------------------------------------------------
(* Types. Only a job that was delivered does anything.                       *)

Delivered == \A j \in Jobs : thread[j].pc # "queued" => thread[j].attempt \in 1 .. MaxAttempts

Typed == TypeOK /\ Delivered

(* What a directory holds, from the first write of an attempt until its     *)
(* answer, and for as long as nobody writes to it.                          *)
Written(j) ==
    /\ At(j, "clear") => thread[j].done = 0
    /\ At(j, "create") => /\ thread[j].done <= thread[j].outputs
                          /\ Files(j) = Images(j, thread[j].done)
    /\ At(j, "write") =>
        /\ thread[j].done < thread[j].outputs
        /\ Files(j) = Images(j, thread[j].done) \cup {ImageFile(j, thread[j].done + 1, "part")}
    /\ At(j, "answered") /\ thread[j].code = "succeeded" =>
        Files(j) = Images(j, thread[j].outputs)

Unmixed(j) == \A f, g \in Files(j) : f.attempt = g.attempt

HalfOnlyIfTorn(j) ==
    thread[j].pc \notin Writing /\ JobDirectory(j) \notin torn =>
        Files(j) = {} \/ Files(j) = reported[j]

Kept == \A j \in Jobs : Written(j) /\ Unmixed(j) /\ HalfOnlyIfTorn(j)

LEMMA NewThreadIsThread ==
    ASSUME NEW a \in 0 .. MaxAttempts, NEW pc \in {"queued", "request", "lost"}
    PROVE  NewThread(a, pc) \in Thread
BY BoundsAssumption DEF NewThread, Thread, Running, Codes

\* A thread keeps its type when one field changes within its own.
LEMMA PcIsTyped ==
    ASSUME NEW t \in Thread, NEW pc \in {"queued", "answered", "lost"} \cup Running
    PROVE  [t EXCEPT !.pc = pc] \in Thread
BY DEF Thread
LEMMA CodeIsTyped ==
    ASSUME NEW t \in Thread, NEW code \in Codes
    PROVE  [t EXCEPT !.code = code] \in Thread
BY DEF Thread
LEMMA PollsAreTyped ==
    ASSUME NEW t \in Thread, NEW n \in 0 .. MaxPolls
    PROVE  [t EXCEPT !.polls = n] \in Thread
BY DEF Thread
LEMMA OutputsAreTyped ==
    ASSUME NEW t \in Thread, NEW n \in 0 .. MaxImages
    PROVE  [t EXCEPT !.outputs = n] \in Thread
BY DEF Thread
LEMMA DoneIsTyped ==
    ASSUME NEW t \in Thread, NEW n \in 0 .. MaxImages
    PROVE  [t EXCEPT !.done = n] \in Thread
BY DEF Thread
LEMMA BytesAreTyped ==
    ASSUME NEW t \in Thread, NEW n \in Nat
    PROVE  [t EXCEPT !.bytes = n] \in Thread
BY DEF Thread

\* Counters stay within their bounds.
LEMMA AnotherPoll ==
    ASSUME NEW t \in Thread, t.polls < MaxPolls
    PROVE  t.polls + 1 \in 0 .. MaxPolls
BY BoundsAssumption DEF Thread
LEMMA AnotherImage ==
    ASSUME NEW t \in Thread, t.done < t.outputs
    PROVE  t.done + 1 \in 1 .. MaxImages /\ t.done + 1 <= t.outputs
BY BoundsAssumption DEF Thread
LEMMA MoreBytes ==
    ASSUME NEW t \in Thread, NEW size \in 1 .. 2
    PROVE  t.bytes + size \in Nat
BY DEF Thread

LEMMA DirectoryOfJob ==
    ASSUME NEW j \in Jobs
    PROVE  JobDirectory(j) \in Directories
BY DEF Directories

\* An error that reaches the handler.
LEMMA AnswerIsTyped ==
    ASSUME Typed, NEW j \in Jobs, At(j, "queued") = FALSE,
           NEW code \in Codes, Answer(j, code)
    PROVE  thread' \in [Jobs -> Thread] /\ Delivered'
<1>1. thread[j] \in Thread /\ thread[j].attempt \in 1 .. MaxAttempts
    BY DEF Typed, TypeOK, Delivered, At
<1>2. [thread[j] EXCEPT !.pc = "answered", !.code = code, !.polls = 0, !.done = 0, !.bytes = 0]
        \in Thread
    <2>1. [thread[j] EXCEPT !.pc = "answered", !.code = code] \in Thread
        BY <1>1, PcIsTyped, CodeIsTyped
    <2>2. 0 \in 0 .. MaxPolls /\ 0 \in 0 .. MaxImages /\ 0 \in Nat
        BY BoundsAssumption
    <2>3. [thread[j] EXCEPT !.pc = "answered", !.code = code, !.polls = 0] \in Thread
        BY <2>1, <2>2, PollsAreTyped
    <2>4. [thread[j] EXCEPT !.pc = "answered", !.code = code, !.polls = 0, !.done = 0] \in Thread
        BY <2>2, <2>3, DoneIsTyped
    <2> QED BY <2>2, <2>4, BytesAreTyped
<1> QED BY <1>1, <1>2 DEF Typed, TypeOK, Delivered, Answer

\* A step to another line of the handler.
LEMMA GotoIsTyped ==
    ASSUME Typed, NEW j \in Jobs, At(j, "queued") = FALSE,
           NEW pc \in Running, Goto(j, pc)
    PROVE  thread' \in [Jobs -> Thread] /\ Delivered'
<1>1. thread[j] \in Thread /\ thread[j].attempt \in 1 .. MaxAttempts
    BY DEF Typed, TypeOK, Delivered, At
<1>2. [thread[j] EXCEPT !.pc = pc] \in Thread
    BY <1>1 DEF Thread
<1> QED BY <1>1, <1>2 DEF Typed, TypeOK, Delivered, Goto, Running, Persisting, Writing

\* A step that changes other fields of the thread.
LEMMA ThreadIsTyped ==
    ASSUME Typed, NEW j \in Jobs, At(j, "queued") = FALSE, NEW t \in Thread,
           t.attempt = thread[j].attempt, thread' = [thread EXCEPT ![j] = t]
    PROVE  thread' \in [Jobs -> Thread] /\ Delivered'
BY DEF Typed, TypeOK, Delivered, At

\* The way of a job to a serving ComfyUI.
LEMMA StartIsTyped ==
    ASSUME Typed, NEW j \in Jobs,
           Request(j) \/ Probe(j) \/ Acquire(j) \/ Recheck(j) \/ Launch(j) \/ Poll(j)
    PROVE  Typed'
<1> USE DEF Codes, Retryable, Final, Running
<1>1. CASE Request(j)
    <2>1. At(j, "queued") = FALSE
        BY <1>1 DEF Request, At
    <2>2. thread' \in [Jobs -> Thread] /\ Delivered'
        BY <1>1, <2>1, AnswerIsTyped, GotoIsTyped DEF Request
    <2> QED BY <1>1, <2>2 DEF Request, Typed, TypeOK
<1>2. CASE Probe(j)
    <2>1. At(j, "queued") = FALSE
        BY <1>2 DEF Probe, At
    <2>2. thread' \in [Jobs -> Thread] /\ Delivered'
        BY <1>2, <2>1, GotoIsTyped DEF Probe
    <2> QED BY <1>2, <2>2 DEF Probe, Typed, TypeOK
<1>3. CASE Acquire(j)
    <2>1. At(j, "queued") = FALSE
        BY <1>3 DEF Acquire, At
    <2>2. thread' \in [Jobs -> Thread] /\ Delivered'
        BY <1>3, <2>1, GotoIsTyped DEF Acquire
    <2> QED BY <1>3, <2>2 DEF Acquire, Typed, TypeOK
<1>4. CASE Recheck(j)
    <2>1. At(j, "queued") = FALSE
        BY <1>4 DEF Recheck, At
    <2>2. thread' \in [Jobs -> Thread] /\ Delivered'
        BY <1>4, <2>1, GotoIsTyped DEF Recheck
    <2> QED BY <1>4, <2>2 DEF Recheck, Typed, TypeOK
<1>5. CASE Launch(j)
    <2>1. At(j, "queued") = FALSE
        BY <1>5 DEF Launch, At
    <2>2. thread' \in [Jobs -> Thread] /\ Delivered'
        BY <1>5, <2>1, GotoIsTyped, AnswerIsTyped DEF Launch
    <2> QED BY <1>5, <2>2 DEF Launch, Typed, TypeOK
<1>6. CASE Poll(j)
    <2>1. At(j, "queued") = FALSE /\ thread[j] \in Thread
        BY <1>6 DEF Poll, At, Typed, TypeOK
    <2>2. thread' \in [Jobs -> Thread] /\ Delivered'
        <3>1. CASE thread' = [thread EXCEPT ![j].pc = "bind", ![j].polls = 0]
            <4>1. 0 \in 0 .. MaxPolls
                BY BoundsAssumption
            <4>2. [thread[j] EXCEPT !.pc = "bind", !.polls = 0] \in Thread
                BY <2>1, <4>1, PcIsTyped, PollsAreTyped
            <4>3. [thread[j] EXCEPT !.pc = "bind", !.polls = 0].attempt = thread[j].attempt
                BY <2>1 DEF Thread
            <4>4. thread' = [thread EXCEPT ![j] = [thread[j] EXCEPT !.pc = "bind", !.polls = 0]]
                BY <3>1 DEF Typed, TypeOK
            <4> QED BY <2>1, <4>2, <4>3, <4>4, ThreadIsTyped
        <3>2. CASE thread[j].polls < MaxPolls /\ thread' = [thread EXCEPT ![j].polls = @ + 1]
            <4>0. thread[j].polls < MaxPolls
                BY <3>2
            <4>1. thread[j].polls + 1 \in 0 .. MaxPolls
                BY <2>1, <4>0, AnotherPoll
            <4>2. [thread[j] EXCEPT !.polls = @ + 1] \in Thread
                BY <2>1, <4>1, PollsAreTyped
            <4>3. [thread[j] EXCEPT !.polls = @ + 1].attempt = thread[j].attempt
                BY <2>1 DEF Thread
            <4> QED BY <2>1, <3>2, <4>2, <4>3, ThreadIsTyped
        <3>3. CASE Answer(j, "comfyui_startup_timeout")
            BY <2>1, <3>3, AnswerIsTyped
        <3> QED BY <1>6, <3>1, <3>2, <3>3 DEF Poll
    <2>3. /\ lock' \in {lock, Nobody} /\ launches' \in {launches, 0}
          /\ UNCHANGED <<comfy, volume, torn, reported>>
        BY <1>6 DEF Poll
    <2> QED BY <2>2, <2>3 DEF Typed, TypeOK
<1> QED BY <1>1, <1>2, <1>3, <1>4, <1>5, <1>6

\* The run of the workflow and the fetching of its images.
LEMMA RunIsTyped ==
    ASSUME Typed, NEW j \in Jobs,
           Bind(j) \/ RunWorkflow(j) \/ FetchImage(j) \/ FetchedAll(j)
    PROVE  Typed'
<1> USE DEF Codes, Retryable, Final, Running
<1>0. thread[j] \in Thread
    BY DEF Typed, TypeOK
<1>1. CASE Bind(j)
    <2>1. At(j, "queued") = FALSE
        BY <1>1 DEF Bind, At
    <2>2. thread' \in [Jobs -> Thread] /\ Delivered'
        BY <1>1, <2>1, AnswerIsTyped, GotoIsTyped DEF Bind
    <2> QED BY <1>1, <2>2 DEF Bind, Typed, TypeOK
<1>2. CASE RunWorkflow(j)
    <2>1. At(j, "queued") = FALSE
        BY <1>2 DEF RunWorkflow, At
    <2>2. thread' \in [Jobs -> Thread] /\ Delivered'
        <3>1. CASE \E code \in Codes : Answer(j, code)
            BY <2>1, <3>1, AnswerIsTyped
        <3>2. ASSUME NEW n \in 1 .. MaxImages,
                     thread' = [thread EXCEPT ![j].pc = "fetch", ![j].outputs = n]
              PROVE  thread' \in [Jobs -> Thread] /\ Delivered'
            <4>1. n \in 0 .. MaxImages
                BY BoundsAssumption
            <4>2. [thread[j] EXCEPT !.pc = "fetch", !.outputs = n] \in Thread
                BY <1>0, <4>1, PcIsTyped, OutputsAreTyped
            <4>3. [thread[j] EXCEPT !.pc = "fetch", !.outputs = n].attempt = thread[j].attempt
                BY <1>0 DEF Thread
            <4>4. thread' = [thread EXCEPT ![j] = [thread[j] EXCEPT !.pc = "fetch", !.outputs = n]]
                BY <3>2 DEF Typed, TypeOK
            <4> QED BY <2>1, <4>2, <4>3, <4>4, ThreadIsTyped
        <3> QED BY <1>2, <3>1, <3>2 DEF RunWorkflow, ParseComfyRunEvents
    <2> QED BY <1>2, <2>2 DEF RunWorkflow, Typed, TypeOK
<1>3. CASE FetchImage(j)
    <2>1. At(j, "queued") = FALSE
        BY <1>3 DEF FetchImage, At
    <2>2. thread' \in [Jobs -> Thread] /\ Delivered'
        <3>1. CASE \E code \in Codes : Answer(j, code)
            BY <2>1, <3>1, AnswerIsTyped
        <3>2. ASSUME NEW size \in 1 .. 2,
                     thread' = [thread EXCEPT ![j].done = @ + 1, ![j].bytes = @ + size]
              PROVE  thread' \in [Jobs -> Thread] /\ Delivered'
            <4> DEFINE counted == [thread[j] EXCEPT !.done = @ + 1]
            <4>0. thread[j].done < thread[j].outputs
                BY <1>3 DEF FetchImage
            <4>1. /\ thread[j].done + 1 \in 1 .. MaxImages
                  /\ thread[j].bytes + size \in Nat
                BY <1>0, <4>0, AnotherImage, MoreBytes
            <4>2. counted \in Thread
                <5>1. thread[j].done + 1 \in 0 .. MaxImages
                    BY <4>1, BoundsAssumption
                <5> QED BY <1>0, <5>1, DoneIsTyped
            <4>3. counted.bytes = thread[j].bytes /\ counted.attempt = thread[j].attempt
                BY <1>0 DEF Thread
            <4>4. [counted EXCEPT !.bytes = thread[j].bytes + size] \in Thread
                BY <4>1, <4>2, <4>3, BytesAreTyped
            <4>5. [counted EXCEPT !.bytes = thread[j].bytes + size].attempt = thread[j].attempt
                BY <4>2, <4>3 DEF Thread
            <4>6. thread' = [thread EXCEPT ![j] = [counted EXCEPT !.bytes = thread[j].bytes + size]]
                BY <3>2 DEF Typed, TypeOK
            <4> HIDE DEF counted
            <4> QED BY <2>1, <4>4, <4>5, <4>6, ThreadIsTyped
        <3> QED BY <1>3, <3>1, <3>2 DEF FetchImage
    <2> QED BY <1>3, <2>2 DEF FetchImage, Typed, TypeOK
<1>4. CASE FetchedAll(j)
    <2>1. At(j, "queued") = FALSE
        BY <1>4 DEF FetchedAll, At
    <2>2. thread' \in [Jobs -> Thread] /\ Delivered'
        <3>1. CASE Answer(j, "response_too_large")
            BY <2>1, <3>1, AnswerIsTyped
        <3>2. CASE thread' = [thread EXCEPT ![j].pc = "clear", ![j].done = 0, ![j].bytes = 0]
            <4> DEFINE cleared == [thread[j] EXCEPT !.pc = "clear", !.done = 0, !.bytes = 0]
            <4>1. [thread[j] EXCEPT !.pc = "clear"] \in Thread
                BY <1>0, PcIsTyped DEF Persisting, Writing
            <4>2. 0 \in 0 .. MaxImages /\ 0 \in Nat
                BY BoundsAssumption
            <4>3. cleared \in Thread
                BY <4>1, <4>2, DoneIsTyped, BytesAreTyped
            <4>4. cleared.attempt = thread[j].attempt
                BY <1>0 DEF Thread
            <4>5. thread' = [thread EXCEPT ![j] = cleared]
                BY <3>2 DEF Typed, TypeOK
            <4> HIDE DEF cleared
            <4> QED BY <2>1, <4>3, <4>4, <4>5, ThreadIsTyped
        <3> QED BY <1>4, <3>1, <3>2 DEF FetchedAll
    <2> QED BY <1>4, <2>2 DEF FetchedAll, Typed, TypeOK
<1> QED BY <1>1, <1>2, <1>3, <1>4

\* The files of a job after a step that changes them.
LEMMA FilesAreTyped ==
    ASSUME Typed, NEW j \in Jobs, NEW files \in SUBSET File, SetFiles(j, files)
    PROVE  volume' \in [Directories -> SUBSET File]
BY DirectoryOfJob DEF Typed, TypeOK, SetFiles

LEMMA FilesOfJob ==
    ASSUME Typed, NEW j \in Jobs
    PROVE  Files(j) \in SUBSET File
BY DirectoryOfJob DEF Typed, TypeOK, Files

LEMMA ImageFileIsFile ==
    ASSUME Typed, NEW j \in Jobs, At(j, "queued") = FALSE,
           NEW i \in 1 .. MaxImages, NEW written \in {"part", "whole"}
    PROVE  ImageFile(j, i, written) \in File
BY DEF Typed, Delivered, At, ImageFile, File

\* The writing of the images.
LEMMA PersistIsTyped ==
    ASSUME Typed, Kept, NEW j \in Jobs,
           \/ ClearDirectory(j) \/ CreateImage(j) \/ WriteImage(j)
           \/ Persisted(j) \/ Rollback(j)
    PROVE  Typed'
<1>0. thread[j] \in Thread /\ JobDirectory(j) \in Directories /\ Files(j) \in SUBSET File
    BY DirectoryOfJob, FilesOfJob DEF Typed, TypeOK
<1>1. CASE ClearDirectory(j)
    <2>1. At(j, "queued") = FALSE
        BY <1>1 DEF ClearDirectory, At
    <2>2. thread' \in [Jobs -> Thread] /\ Delivered'
        BY <1>1, <2>1, GotoIsTyped DEF ClearDirectory, Running, Persisting, Writing
    <2>3. \E files \in SUBSET File : SetFiles(j, files)
        BY <1>0, <1>1 DEF ClearDirectory
    <2>4. volume' \in [Directories -> SUBSET File]
        BY <2>3, FilesAreTyped
    <2> QED BY <1>1, <2>2, <2>4 DEF ClearDirectory, Typed, TypeOK
<1>2. CASE CreateImage(j)
    <2>1. At(j, "queued") = FALSE
        BY <1>2 DEF CreateImage, At
    <2>2. thread' \in [Jobs -> Thread] /\ Delivered'
        BY <1>2, <2>1, GotoIsTyped DEF CreateImage, Running, Persisting, Writing
    <2>3. thread[j].done + 1 \in 1 .. MaxImages
        <3>1. thread[j].done < thread[j].outputs
            BY <1>2 DEF CreateImage
        <3> QED BY <1>0, <3>1, AnotherImage
    <2>4. Files(j) \cup {ImageFile(j, thread[j].done + 1, "part")} \in SUBSET File
        BY <1>0, <2>1, <2>3, ImageFileIsFile
    <2>5. volume' \in [Directories -> SUBSET File]
        <3>1. CASE SetFiles(j, Files(j) \cup {ImageFile(j, thread[j].done + 1, "part")})
            BY <2>4, <3>1, FilesAreTyped
        <3>2. CASE UNCHANGED volume
            BY <3>2 DEF Typed, TypeOK
        <3> QED BY <1>2, <3>1, <3>2 DEF CreateImage
    <2> QED BY <1>2, <2>2, <2>5 DEF CreateImage, Typed, TypeOK
<1>3. CASE WriteImage(j)
    <2>1. At(j, "queued") = FALSE
        BY <1>3 DEF WriteImage, At
    <2>. DEFINE i == thread[j].done + 1
                kept == (Files(j) \ {ImageFile(j, i, "part")}) \cup {ImageFile(j, i, "whole")}
    <2>2. CASE Goto(j, "rollback") /\ UNCHANGED volume
        <3>1. thread' \in [Jobs -> Thread] /\ Delivered'
            BY <2>1, <2>2, GotoIsTyped DEF Running, Persisting, Writing
        <3> QED BY <1>3, <2>2, <3>1 DEF WriteImage, Typed, TypeOK
    <2>3. CASE /\ SetFiles(j, kept)
               /\ thread' = [thread EXCEPT ![j].pc = "create", ![j].done = i]
        <3>0. thread[j].done < thread[j].outputs
            BY <1>3 DEF Kept, Written, WriteImage
        <3>1. i \in 0 .. MaxImages /\ i \in 1 .. MaxImages
            BY <1>0, <3>0, AnotherImage, BoundsAssumption
        <3>2. kept \in SUBSET File
            BY <1>0, <2>1, <3>1, ImageFileIsFile
        <3>3. volume' \in [Directories -> SUBSET File]
            BY <2>3, <3>2, FilesAreTyped
        <3>4. [thread[j] EXCEPT !.pc = "create", !.done = i] \in Thread
            BY <1>0, <3>1, PcIsTyped, DoneIsTyped DEF Running, Persisting, Writing
        <3>5. [thread[j] EXCEPT !.pc = "create", !.done = i].attempt = thread[j].attempt
            BY <1>0 DEF Thread
        <3>6. thread' = [thread EXCEPT ![j] = [thread[j] EXCEPT !.pc = "create", !.done = i]]
            BY <2>3 DEF Typed, TypeOK
        <3>7. thread' \in [Jobs -> Thread] /\ Delivered'
            BY <2>1, <3>4, <3>5, <3>6, ThreadIsTyped
        <3> QED BY <1>3, <3>3, <3>7 DEF WriteImage, Typed, TypeOK
    <2> QED BY <1>3, <2>2, <2>3 DEF WriteImage
<1>4. CASE Persisted(j)
    <2>1. At(j, "queued") = FALSE
        BY <1>4 DEF Persisted, At
    <2>2. thread' \in [Jobs -> Thread] /\ Delivered'
        BY <1>4, <2>1, AnswerIsTyped DEF Persisted, Codes
    <2>3. reported' \in [Jobs -> SUBSET File]
        <3>1. At(j, "create") /\ thread[j].done = thread[j].outputs
            BY <1>4 DEF Persisted
        <3>2. Images(j, thread[j].outputs) \in SUBSET File
            BY <1>0, <3>1 DEF Kept, Written
        <3> QED BY <1>4, <3>2 DEF Persisted, Typed, TypeOK
    <2> QED BY <1>0, <1>4, <2>2, <2>3 DEF Persisted, Typed, TypeOK
<1>5. CASE Rollback(j)
    <2>1. At(j, "queued") = FALSE
        BY <1>5 DEF Rollback, At
    <2>2. thread' \in [Jobs -> Thread] /\ Delivered'
        BY <1>5, <2>1, AnswerIsTyped DEF Rollback, Codes, Retryable
    <2>3. \E files \in SUBSET File : SetFiles(j, files)
        BY <1>0, <1>5 DEF Rollback
    <2>4. volume' \in [Directories -> SUBSET File]
        BY <2>3, FilesAreTyped
    <2> QED BY <1>0, <1>5, <2>2, <2>4 DEF Rollback, Typed, TypeOK
<1> QED BY <1>1, <1>2, <1>3, <1>4, <1>5

\* What happens to ComfyUI and to the worker.
LEMMA SurroundingsAreTyped ==
    ASSUME Typed, ComfyComesUp \/ ComfyDies \/ WorkerDies
    PROVE  Typed'
<1>1. CASE ComfyComesUp \/ ComfyDies
    BY <1>1 DEF ComfyComesUp, ComfyDies, Typed, TypeOK, Delivered
<1>2. CASE WorkerDies
    <2>1. ASSUME NEW j \in Jobs
          PROVE  thread'[j] \in Thread /\ (thread'[j].pc # "queued" => thread'[j].attempt \in 1 .. MaxAttempts)
        <3>1. thread[j] \in Thread /\ (thread[j].pc # "queued" => thread[j].attempt \in 1 .. MaxAttempts)
            BY DEF Typed, TypeOK, Delivered
        <3>2. CASE thread[j].pc \in Running
            <4>1. thread[j].attempt \in 1 .. MaxAttempts
                BY <3>1, <3>2 DEF Running, Persisting, Writing
            <4>2. thread'[j] = NewThread(thread[j].attempt, "lost")
                BY <1>2, <3>2 DEF WorkerDies
            <4>3. thread[j].attempt \in 0 .. MaxAttempts
                BY <3>1 DEF Thread
            <4>4. thread'[j] \in Thread
                BY <4>2, <4>3, NewThreadIsThread
            <4>5. NewThread(thread[j].attempt, "lost").attempt = thread[j].attempt
                BY DEF NewThread
            <4> QED BY <4>1, <4>2, <4>4, <4>5
        <3>3. CASE thread[j].pc \notin Running
            <4>1. thread'[j] = thread[j]
                BY <1>2, <3>3 DEF WorkerDies
            <4> QED BY <3>1, <4>1
        <3> QED BY <3>2, <3>3
    <2>2. thread' \in [Jobs -> Thread] /\ Delivered'
        BY <1>2, <2>1 DEF WorkerDies, Delivered
    <2>3. {JobDirectory(j) : j \in {i \in Jobs : thread[i].pc \in Writing}} \subseteq Directories
        BY DEF Directories
    <2>4. torn' \in SUBSET Directories
        BY <1>2, <2>3 DEF WorkerDies, Typed, TypeOK
    <2> QED BY <1>2, <2>2, <2>4 DEF WorkerDies, Typed, TypeOK
<1> QED BY <1>1, <1>2

LEMMA DeliverIsTyped ==
    ASSUME Typed, NEW j \in Jobs, Deliver(j)
    PROVE  Typed'
<1>1. thread[j] \in Thread /\ thread[j].attempt < MaxAttempts
    BY DEF Typed, TypeOK, Deliver
<1>2. thread[j].attempt + 1 \in 1 .. MaxAttempts /\ thread[j].attempt + 1 \in 0 .. MaxAttempts
    BY <1>1, BoundsAssumption DEF Thread
<1>3. NewThread(thread[j].attempt + 1, "request") \in Thread
    BY <1>2, NewThreadIsThread
<1>4. NewThread(thread[j].attempt + 1, "request").attempt \in 1 .. MaxAttempts
    BY <1>2 DEF NewThread
<1>5. thread' = [thread EXCEPT ![j] = NewThread(thread[j].attempt + 1, "request")]
    BY DEF Deliver
<1>6. thread' \in [Jobs -> Thread] /\ Delivered'
    BY <1>3, <1>4, <1>5 DEF Typed, TypeOK, Delivered
<1> QED BY <1>6 DEF Deliver, Typed, TypeOK

LEMMA StepIsTyped == Typed /\ Kept /\ [Next]_vars => Typed'
<1> SUFFICES ASSUME Typed, Kept, [Next]_vars PROVE Typed'
    OBVIOUS
<1>1. CASE UNCHANGED vars
    BY <1>1 DEF vars, Typed, TypeOK, Delivered
<1>2. CASE \E j \in Jobs : Deliver(j) \/ Handler(j)
    BY <1>2, DeliverIsTyped, StartIsTyped, RunIsTyped, PersistIsTyped DEF Handler
<1>3. CASE ComfyComesUp \/ ComfyDies \/ WorkerDies
    BY <1>3, SurroundingsAreTyped
<1> QED BY <1>1, <1>2, <1>3 DEF Next

LEMMA InitIsTyped == Init => Typed
<1> SUFFICES ASSUME Init PROVE Typed
    OBVIOUS
<1>1. 0 \in 0 .. MaxAttempts
    BY BoundsAssumption
<1>2. NewThread(0, "queued") \in Thread
    BY <1>1, NewThreadIsThread
<1>3. NewThread(0, "queued").pc = "queued"
    BY DEF NewThread
<1> QED BY <1>2, <1>3 DEF Init, Typed, TypeOK, Delivered

-----------------------------------------------------------------------------
(* Directories. A step of one job leaves the others' threads and files.      *)

LEMMA AnswerEffect ==
    ASSUME Typed, NEW k \in Jobs, NEW code, Answer(k, code)
    PROVE  /\ \A i \in Jobs : i # k => thread'[i] = thread[i]
           /\ thread'[k].pc = "answered" /\ thread'[k].code = code
           /\ thread'[k].attempt = thread[k].attempt
           /\ thread'[k].outputs = thread[k].outputs
BY DEF Typed, TypeOK, Thread, Answer

LEMMA GotoEffect ==
    ASSUME Typed, NEW k \in Jobs, NEW pc, Goto(k, pc)
    PROVE  /\ \A i \in Jobs : i # k => thread'[i] = thread[i]
           /\ thread'[k].pc = pc
           /\ thread'[k].attempt = thread[k].attempt
           /\ thread'[k].outputs = thread[k].outputs
           /\ thread'[k].done = thread[k].done
BY DEF Typed, TypeOK, Thread, Goto

LEMMA FilesEffect ==
    ASSUME Typed, NEW k \in Jobs, NEW files, SetFiles(k, files)
    PROVE  Files(k)' = files /\ \A i \in Jobs : i # k => Files(i)' = Files(i)
BY JobsAssumption, DirectoryOfJob DEF Typed, TypeOK, SetFiles, Files

\* A job that nothing happens to.
LEMMA JobIsLeft ==
    ASSUME Kept, NEW j \in Jobs, thread'[j] = thread[j], Files(j)' = Files(j),
           reported'[j] = reported[j],
           JobDirectory(j) \in torn' <=> JobDirectory(j) \in torn
    PROVE  (Written(j) /\ Unmixed(j) /\ HalfOnlyIfTorn(j))'
<1>1. Written(j) /\ Unmixed(j) /\ HalfOnlyIfTorn(j)
    BY DEF Kept
<1>2. \A n : Images(j, n)' = Images(j, n)
    BY DEF Images, ImageFile
<1>3. \A i : ImageFile(j, i, "part")' = ImageFile(j, i, "part")
    BY DEF ImageFile
<1>4. Written(j)'
    BY <1>1, <1>2, <1>3 DEF Written, At
<1>5. Unmixed(j)' /\ HalfOnlyIfTorn(j)'
    BY <1>1 DEF Unmixed, HalfOnlyIfTorn
<1> QED BY <1>4, <1>5

\* A step of a job outside the writing of its images.
LEMMA ElsewhereKeeps ==
    ASSUME Typed, Kept, NEW k \in Jobs, UNCHANGED <<volume, torn, reported>>,
           \A i \in Jobs : i # k => thread'[i] = thread[i],
           thread[k].pc \notin Persisting, thread'[k].pc \notin {"create", "write"},
           thread'[k].pc = "clear" => thread'[k].done = 0,
           thread'[k].pc = "answered" => thread'[k].code # "succeeded"
    PROVE  Kept'
<1> SUFFICES ASSUME NEW j \in Jobs
             PROVE  (Written(j) /\ Unmixed(j) /\ HalfOnlyIfTorn(j))'
    BY DEF Kept
<1>1. Files(j)' = Files(j)
    BY DEF Files
<1>2. CASE j # k
    BY <1>1, <1>2, JobIsLeft
<1>3. CASE j = k
    BY <1>1, <1>3 DEF Kept, Written, At, Unmixed, HalfOnlyIfTorn, Persisting, Writing
<1> QED BY <1>2, <1>3

\* The steps up to the first write, and the delivery of a job.
LEMMA ServingKeeps ==
    ASSUME Typed, Kept, NEW k \in Jobs,
           \/ Deliver(k) \/ Request(k) \/ Probe(k) \/ Acquire(k) \/ Recheck(k) \/ Launch(k)
           \/ Poll(k) \/ Bind(k) \/ RunWorkflow(k) \/ FetchImage(k) \/ FetchedAll(k)
    PROVE  Kept'
<1>1. UNCHANGED <<volume, torn, reported>>
    BY DEF Deliver, Request, Probe, Acquire, Recheck, Launch, Poll, Bind, RunWorkflow,
           FetchImage, FetchedAll
<1>2. thread[k].pc \notin Persisting
    BY DEF Deliver, Request, Probe, Acquire, Recheck, Launch, Poll, Bind, RunWorkflow,
           FetchImage, FetchedAll, At, Persisting, Writing
<1> DEFINE Elsewhere ==
        /\ \A i \in Jobs : i # k => thread'[i] = thread[i]
        /\ thread'[k].pc \notin {"create", "write"}
        /\ thread'[k].pc = "clear" => thread'[k].done = 0
        /\ thread'[k].pc = "answered" => thread'[k].code # "succeeded"
<1>3. ASSUME NEW code, code # "succeeded", Answer(k, code)
      PROVE  Elsewhere
    BY <1>3, AnswerEffect
<1>4. ASSUME NEW pc \in {"probe", "bind", "lock", "recheck", "launch", "poll", "run"}, Goto(k, pc)
      PROVE  Elsewhere
    BY <1>4, GotoEffect
<1>5. CASE Deliver(k)
    <2>1. thread'[k].pc = "request" /\ \A i \in Jobs : i # k => thread'[i] = thread[i]
        BY <1>5 DEF Deliver, NewThread, Typed, TypeOK
    <2> QED BY <1>1, <1>2, <2>1, ElsewhereKeeps
<1>6. CASE Request(k) \/ Probe(k) \/ Acquire(k) \/ Recheck(k) \/ Launch(k) \/ Bind(k)
    <2>1. Elsewhere
        BY <1>3, <1>4, <1>6 DEF Request, Probe, Acquire, Recheck, Launch, Bind
    <2> QED BY <1>1, <1>2, <2>1, ElsewhereKeeps
<1>7. CASE Poll(k)
    <2>1. ASSUME thread' = [thread EXCEPT ![k].pc = "bind", ![k].polls = 0]
          PROVE  Elsewhere
        BY <2>1 DEF Typed, TypeOK, Thread
    <2>2. ASSUME At(k, "poll"), thread' = [thread EXCEPT ![k].polls = @ + 1]
          PROVE  Elsewhere
        BY <2>2 DEF Typed, TypeOK, Thread, At
    <2>3. Elsewhere
        BY <1>3, <1>7, <2>1, <2>2 DEF Poll
    <2> QED BY <1>1, <1>2, <2>3, ElsewhereKeeps
<1>8. CASE RunWorkflow(k)
    <2>1. ASSUME NEW n \in 1 .. MaxImages,
                 thread' = [thread EXCEPT ![k].pc = "fetch", ![k].outputs = n]
          PROVE  Elsewhere
        BY <2>1 DEF Typed, TypeOK, Thread
    <2>2. Elsewhere
        BY <1>3, <1>8, <2>1 DEF RunWorkflow, ParseComfyRunEvents
    <2> QED BY <1>1, <1>2, <2>2, ElsewhereKeeps
<1>9. CASE FetchImage(k)
    <2>1. ASSUME NEW size \in 1 .. 2, At(k, "fetch"),
                 thread' = [thread EXCEPT ![k].done = @ + 1, ![k].bytes = @ + size]
          PROVE  Elsewhere
        BY <2>1 DEF Typed, TypeOK, Thread, At
    <2>2. Elsewhere
        BY <1>3, <1>9, <2>1 DEF FetchImage
    <2> QED BY <1>1, <1>2, <2>2, ElsewhereKeeps
<1>10. CASE FetchedAll(k)
    <2>1. ASSUME thread' = [thread EXCEPT ![k].pc = "clear", ![k].done = 0, ![k].bytes = 0]
          PROVE  Elsewhere
        BY <2>1 DEF Typed, TypeOK, Thread
    <2>2. Elsewhere
        BY <1>3, <1>10, <2>1 DEF FetchedAll
    <2> QED BY <1>1, <1>2, <2>2, ElsewhereKeeps
<1> QED BY <1>5, <1>6, <1>7, <1>8, <1>9, <1>10

\* A step of a job that writes its files.
LEMMA WritingKeeps ==
    ASSUME Typed, Kept, NEW k \in Jobs, NEW files, SetFiles(k, files) \/ UNCHANGED volume,
           \A i \in Jobs : i # k => thread'[i] = thread[i] /\ reported'[i] = reported[i],
           \A i \in Jobs : i # k => (JobDirectory(i) \in torn' <=> JobDirectory(i) \in torn),
           (Written(k) /\ Unmixed(k) /\ HalfOnlyIfTorn(k))'
    PROVE  Kept'
<1> SUFFICES ASSUME NEW j \in Jobs, j # k
             PROVE  (Written(j) /\ Unmixed(j) /\ HalfOnlyIfTorn(j))'
    BY DEF Kept
<1>1. Files(j)' = Files(j)
    BY FilesEffect DEF Files
<1> QED BY <1>1, JobIsLeft

LEMMA OtherDirectories ==
    ASSUME NEW k \in Jobs, torn' \in {torn \ {JobDirectory(k)}, torn \cup {JobDirectory(k)}, torn}
    PROVE  \A i \in Jobs : i # k => (JobDirectory(i) \in torn' <=> JobDirectory(i) \in torn)
BY JobsAssumption

\* The images written so far, and the one that is being written.
LEMMA WholeIsUnmixed ==
    ASSUME NEW j \in Jobs, NEW n \in Nat, NEW m \in Nat,
           NEW written \in {"part", "whole"},
           NEW files \in SUBSET (Images(j, n) \cup {ImageFile(j, m, written)})
    PROVE  \A f, g \in files : f.attempt = g.attempt
<1>1. \A f \in files : f.attempt = thread[j].attempt
    BY DEF Images, ImageFile
<1> QED BY <1>1

LEMMA ClearKeeps ==
    ASSUME Typed, Kept, NEW k \in Jobs, ClearDirectory(k)
    PROVE  Kept'
<1>1. At(k, "clear") /\ UNCHANGED torn
    BY DEF ClearDirectory
<1>2. PICK pc \in {"create", "rollback"}, files \in SUBSET Files(k) :
        SetFiles(k, files) /\ Goto(k, pc) /\ (pc = "create" => files = {})
    BY DEF ClearDirectory
<1>3. /\ Files(k)' = files /\ thread'[k].pc = pc
      /\ thread'[k].done = thread[k].done /\ thread'[k].outputs = thread[k].outputs
      /\ \A i \in Jobs : i # k => thread'[i] = thread[i]
    BY <1>2, FilesEffect, GotoEffect
<1>4. Unmixed(k)'
    BY <1>2, <1>3 DEF Kept, Unmixed
<1>5. thread[k].done = 0 /\ thread[k].outputs \in Nat
    BY <1>1 DEF Kept, Written, Typed, TypeOK, Thread
<1>6. Images(k, 0)' = {}
    BY DEF Images
<1>7. Written(k)'
    BY <1>2, <1>3, <1>5, <1>6 DEF Written, At
<1>8. HalfOnlyIfTorn(k)'
    BY <1>3 DEF HalfOnlyIfTorn, Writing
<1>9. \A i \in Jobs : i # k => reported'[i] = reported[i]
    BY DEF ClearDirectory, Typed, TypeOK
<1> QED BY <1>1, <1>2, <1>3, <1>4, <1>7, <1>8, <1>9, WritingKeeps

\* The names of a job's files do not change with its place in the handler.
LEMMA SameFiles ==
    ASSUME NEW k \in Jobs, thread'[k].attempt = thread[k].attempt
    PROVE  /\ \A n : Images(k, n)' = Images(k, n)
           /\ \A i, written : ImageFile(k, i, written)' = ImageFile(k, i, written)
BY DEF Images, ImageFile

\* An operation on a file failed: what there is will be removed.
LEMMA FailureKeeps ==
    ASSUME Typed, Kept, NEW k \in Jobs, Goto(k, "rollback"), UNCHANGED <<volume, torn, reported>>
    PROVE  Kept'
<1>1. thread'[k].pc = "rollback" /\ \A i \in Jobs : i # k => thread'[i] = thread[i]
    BY GotoEffect
<1>2. Files(k)' = Files(k)
    BY DEF Files
<1>3. (Written(k) /\ Unmixed(k) /\ HalfOnlyIfTorn(k))'
    BY <1>1, <1>2 DEF Kept, Written, At, Unmixed, HalfOnlyIfTorn, Writing
<1> QED BY <1>1, <1>3, WritingKeeps

LEMMA CreateKeeps ==
    ASSUME Typed, Kept, NEW k \in Jobs, CreateImage(k)
    PROVE  Kept'
<1> DEFINE n == thread[k].done
           files == Images(k, n) \cup {ImageFile(k, n + 1, "part")}
<1>1. At(k, "create") /\ n < thread[k].outputs /\ UNCHANGED <<torn, reported>>
    BY DEF CreateImage
<1>2. CASE Goto(k, "rollback") /\ UNCHANGED volume
    BY <1>1, <1>2, FailureKeeps
<1>3. CASE SetFiles(k, Files(k) \cup {ImageFile(k, n + 1, "part")}) /\ Goto(k, "write")
    <2>1. SetFiles(k, files)
        BY <1>1, <1>3 DEF Kept, Written
    <2>2. /\ Files(k)' = files /\ thread'[k].pc = "write" /\ thread'[k].done = n
          /\ thread'[k].outputs = thread[k].outputs /\ thread'[k].attempt = thread[k].attempt
          /\ \A i \in Jobs : i # k => thread'[i] = thread[i]
        BY <1>3, <2>1, FilesEffect, GotoEffect
    <2>3. n \in Nat /\ n + 1 \in Nat
        BY DEF Typed, TypeOK, Thread
    <2>4. Written(k)'
        BY <1>1, <2>2, SameFiles DEF Written, At
    <2>5. Unmixed(k)'
        <3>1. \A f, g \in files : f.attempt = g.attempt
            <4>1. files \in SUBSET (Images(k, n) \cup {ImageFile(k, n + 1, "part")})
                OBVIOUS
            <4> HIDE DEF n, files
            <4> QED BY <2>3, <4>1, WholeIsUnmixed
        <3> QED BY <2>2, <3>1 DEF Unmixed
    <2>6. HalfOnlyIfTorn(k)'
        BY <2>2 DEF HalfOnlyIfTorn, Writing
    <2> QED BY <1>1, <2>1, <2>2, <2>4, <2>5, <2>6, WritingKeeps
<1> QED BY <1>2, <1>3 DEF CreateImage

LEMMA NextWhole ==
    ASSUME NEW k \in Jobs, NEW n \in Nat
    PROVE  ((Images(k, n) \cup {ImageFile(k, n + 1, "part")}) \ {ImageFile(k, n + 1, "part")})
             \cup {ImageFile(k, n + 1, "whole")} = Images(k, n + 1)
<1>1. ImageFile(k, n + 1, "part") \notin Images(k, n)
    BY DEF Images, ImageFile
<1>2. Images(k, n + 1) = Images(k, n) \cup {ImageFile(k, n + 1, "whole")}
    <2>1. 1 .. n + 1 = (1 .. n) \cup {n + 1}
        OBVIOUS
    <2> QED BY <2>1, Zenon DEF Images
<1> QED BY <1>1, <1>2

LEMMA WriteKeeps ==
    ASSUME Typed, Kept, NEW k \in Jobs, WriteImage(k)
    PROVE  Kept'
<1> DEFINE n == thread[k].done
<1>1. At(k, "write") /\ UNCHANGED <<torn, reported>>
    BY DEF WriteImage
<1>2. n < thread[k].outputs /\ n \in Nat /\ thread[k].outputs \in Nat
      /\ Files(k) = Images(k, n) \cup {ImageFile(k, n + 1, "part")}
    BY <1>1 DEF Kept, Written, Typed, TypeOK, Thread
<1>3. CASE Goto(k, "rollback") /\ UNCHANGED volume
    BY <1>1, <1>3, FailureKeeps
<1>4. CASE /\ SetFiles(k, (Files(k) \ {ImageFile(k, n + 1, "part")}) \cup {ImageFile(k, n + 1, "whole")})
           /\ thread' = [thread EXCEPT ![k].pc = "create", ![k].done = n + 1]
    <2>1. SetFiles(k, Images(k, n + 1))
        BY <1>2, <1>4, NextWhole
    <2>2. Files(k)' = Images(k, n + 1)
        BY <2>1, FilesEffect
    <2>3. /\ thread'[k].pc = "create" /\ thread'[k].done = n + 1
          /\ thread'[k].outputs = thread[k].outputs /\ thread'[k].attempt = thread[k].attempt
          /\ \A i \in Jobs : i # k => thread'[i] = thread[i]
        BY <1>4 DEF Typed, TypeOK, Thread
    <2>4. n + 1 \in Nat /\ n + 1 <= thread[k].outputs
        BY <1>2
    <2>5. Written(k)'
        BY <2>2, <2>3, <2>4, SameFiles DEF Written, At
    <2>6. Unmixed(k)'
        BY <2>2, <2>4, WholeIsUnmixed DEF Unmixed
    <2>7. HalfOnlyIfTorn(k)'
        BY <2>3 DEF HalfOnlyIfTorn, Writing
    <2> QED BY <1>1, <2>1, <2>3, <2>5, <2>6, <2>7, WritingKeeps
<1> QED BY <1>3, <1>4 DEF WriteImage

LEMMA PersistedKeeps ==
    ASSUME Typed, Kept, NEW k \in Jobs, Persisted(k)
    PROVE  Kept'
<1> DEFINE n == thread[k].outputs
<1>1. Files(k) = Images(k, n) /\ n \in Nat
    BY DEF Kept, Written, Persisted, Typed, TypeOK, Thread
<1>2. UNCHANGED volume /\ torn' = torn \ {JobDirectory(k)} /\ Answer(k, "succeeded")
    BY DEF Persisted
<1>3. /\ thread'[k].pc = "answered" /\ thread'[k].outputs = n
      /\ thread'[k].attempt = thread[k].attempt
      /\ \A i \in Jobs : i # k => thread'[i] = thread[i]
    BY <1>2, AnswerEffect
<1>4. Files(k)' = Images(k, n)
    BY <1>1, <1>2 DEF Files
<1>5. Written(k)'
    BY <1>3, <1>4, SameFiles DEF Written, At
<1>6. Unmixed(k)'
    BY <1>1, <1>4, WholeIsUnmixed DEF Unmixed
<1>7. /\ reported'[k] = Images(k, n)
      /\ \A i \in Jobs : i # k => reported'[i] = reported[i]
    BY DEF Persisted, Typed, TypeOK
<1>8. HalfOnlyIfTorn(k)'
    <2>1. Files(k)' = reported'[k]
        BY <1>4, <1>7
    <2> QED BY <2>1 DEF HalfOnlyIfTorn
<1> QED BY <1>2, <1>3, <1>5, <1>6, <1>7, <1>8, OtherDirectories, WritingKeeps

LEMMA RollbackKeeps ==
    ASSUME Typed, Kept, NEW k \in Jobs, Rollback(k)
    PROVE  Kept'
<1>1. PICK left \in SUBSET Files(k), code \in {"comfyui_output_fetch_failed", "runtime_failed"} :
        /\ SetFiles(k, left) /\ Answer(k, code)
        /\ torn' = IF left = {} THEN torn \ {JobDirectory(k)} ELSE torn \cup {JobDirectory(k)}
    BY DEF Rollback
<1>2. UNCHANGED reported
    BY DEF Rollback
<1>3. /\ thread'[k].pc = "answered" /\ thread'[k].code # "succeeded"
      /\ \A i \in Jobs : i # k => thread'[i] = thread[i]
    BY <1>1, AnswerEffect
<1>4. Files(k)' = left
    BY <1>1, FilesEffect
<1>5. Written(k)'
    BY <1>3 DEF Written, At
<1>6. Unmixed(k)'
    BY <1>4 DEF Kept, Unmixed
<1>7. HalfOnlyIfTorn(k)'
    BY <1>1, <1>4 DEF HalfOnlyIfTorn
<1>8. \A i \in Jobs : i # k => (JobDirectory(i) \in torn' <=> JobDirectory(i) \in torn)
    BY <1>1, OtherDirectories
<1> QED BY <1>1, <1>2, <1>3, <1>5, <1>6, <1>7, <1>8, WritingKeeps

\* ComfyUI or the worker dies.
LEMMA SurroundingsKeep ==
    ASSUME Typed, Kept, ComfyComesUp \/ ComfyDies \/ WorkerDies
    PROVE  Kept'
<1>1. CASE ComfyComesUp \/ ComfyDies
    <2> SUFFICES ASSUME NEW j \in Jobs
                 PROVE  (Written(j) /\ Unmixed(j) /\ HalfOnlyIfTorn(j))'
        BY DEF Kept
    <2>1. UNCHANGED <<thread, volume, torn, reported>>
        BY <1>1 DEF ComfyComesUp, ComfyDies
    <2> QED BY <2>1, JobIsLeft DEF Files
<1>2. CASE WorkerDies
    <2> SUFFICES ASSUME NEW j \in Jobs
                 PROVE  (Written(j) /\ Unmixed(j) /\ HalfOnlyIfTorn(j))'
        BY DEF Kept
    <2>1. Files(j)' = Files(j)
        BY <1>2 DEF WorkerDies, Files
    <2>2. JobDirectory(j) \in torn'
            <=> JobDirectory(j) \in torn \/ thread[j].pc \in Writing
        BY <1>2, JobsAssumption DEF WorkerDies
    <2>3. CASE thread[j].pc \in Running
        <3>1. thread'[j].pc = "lost"
            BY <1>2, <2>3 DEF WorkerDies, NewThread
        <3>2. JobDirectory(j) \notin torn' => Files(j) = {} \/ Files(j) = reported[j]
            BY <2>2 DEF Kept, HalfOnlyIfTorn
        <3>3. reported' = reported
            BY <1>2 DEF WorkerDies
        <3>4. HalfOnlyIfTorn(j)'
            BY <2>1, <3>2, <3>3 DEF HalfOnlyIfTorn
        <3>5. Written(j)' /\ Unmixed(j)'
            BY <2>1, <3>1 DEF Kept, Written, At, Unmixed
        <3> QED BY <3>4, <3>5
    <2>4. CASE thread[j].pc \notin Running
        <3>1. thread'[j] = thread[j] /\ reported' = reported /\ thread[j].pc \notin Writing
            BY <1>2, <2>4 DEF WorkerDies, Running, Persisting, Writing
        <3> QED BY <2>1, <2>2, <3>1, JobIsLeft
    <2> QED BY <2>3, <2>4
<1> QED BY <1>1, <1>2

LEMMA StepKeeps == Typed /\ Kept /\ [Next]_vars => Kept'
<1> SUFFICES ASSUME Typed, Kept, [Next]_vars PROVE Kept'
    OBVIOUS
<1>1. CASE UNCHANGED vars
    <2> SUFFICES ASSUME NEW j \in Jobs
                 PROVE  (Written(j) /\ Unmixed(j) /\ HalfOnlyIfTorn(j))'
        BY DEF Kept
    <2> QED BY <1>1, JobIsLeft DEF vars, Files
<1>2. CASE \E j \in Jobs : Deliver(j) \/ Handler(j)
    BY <1>2, ServingKeeps, ClearKeeps, CreateKeeps, WriteKeeps, PersistedKeeps, RollbackKeeps
       DEF Handler
<1>3. CASE ComfyComesUp \/ ComfyDies \/ WorkerDies
    BY <1>3, SurroundingsKeep
<1> QED BY <1>1, <1>2, <1>3 DEF Next

LEMMA InitKeeps == Init => Kept
<1> SUFFICES ASSUME Init, NEW j \in Jobs
             PROVE  Written(j) /\ Unmixed(j) /\ HalfOnlyIfTorn(j)
    BY DEF Kept
<1>1. Files(j) = {} /\ thread[j].pc = "queued"
    BY DirectoryOfJob DEF Init, Files, NewThread
<1> QED BY <1>1 DEF Written, At, Unmixed, HalfOnlyIfTorn

THEOREM KeptAlways == Spec => [](Typed /\ Kept)
BY InitIsTyped, StepIsTyped, InitKeeps, StepKeeps, PTL DEF Spec

(* Every value stays within its type, and a job does nothing before it was  *)
(* delivered, for any number of jobs, attempts, probes and images.          *)
THEOREM TypeCorrect == Spec => []TypeOK
<1>1. Typed => TypeOK
    BY DEF Typed
<1> QED BY <1>1, KeptAlways, PTL

(* What a job reports as its images is on the volume, whole and complete,   *)
(* until the job is delivered again.                                        *)
THEOREM AnswersAreWhole == Spec => []AnswerIsWhole
<1>1. Typed /\ Kept => AnswerIsWhole
    BY DEF Kept, Written, Images, AnswerIsWhole
<1> QED BY <1>1, KeptAlways, PTL

(* Images of two attempts of a job never lie side by side.                  *)
THEOREM AttemptsNeverMix == Spec => []NeverMixed
<1>1. Typed /\ Kept => NeverMixed
    BY DEF Kept, Unmixed, Files, NeverMixed, Directories
<1> QED BY <1>1, KeptAlways, PTL

(* A failed attempt leaves none of its images: a job's directory that nobody *)
(* writes holds exactly what the job's last success reported, or nothing,   *)
(* unless the rollback could not finish or the worker died while it wrote.  *)
THEOREM NothingHalfIsLeft == Spec => []NothingHalf
<1>1. Typed /\ Kept => NothingHalf
    BY DEF Kept, HalfOnlyIfTorn, NothingHalf
<1> QED BY <1>1, KeptAlways, PTL

-----------------------------------------------------------------------------
(* ComfyUI. Whoever holds the lock is between its acquisition and the end of *)
(* the start, and ComfyUI was launched in this outage only by the holder, who *)
(* now waits for it, or is up.                                               *)

Starting == {"recheck", "launch", "poll"}

Launched ==
    /\ \A j \in Jobs : thread[j].pc \in Starting <=> lock = j
    /\ \A j \in Jobs : At(j, "launch") => launches = 0
    /\ launches <= 1
    /\ launches # 0 => comfy = "up" \/ \E j \in Jobs : At(j, "poll")

LEMMA InitIsLaunched == Init => Launched
<1> SUFFICES ASSUME Init PROVE Launched
    OBVIOUS
<1>1. \A j \in Jobs : thread[j].pc = "queued"
    BY DEF Init, NewThread
<1>2. launches = 0 /\ \A j \in Jobs : lock # j
    BY JobsAssumption DEF Init
<1> QED BY <1>1, <1>2 DEF Launched, Starting, At

\* A step of a job that has nothing to do with the start.
LEMMA UnlockedKeepsLaunched ==
    ASSUME Typed, Launched, NEW k \in Jobs, UNCHANGED <<comfy, lock, launches>>,
           \A i \in Jobs : i # k => thread'[i] = thread[i],
           thread[k].pc \notin Starting, thread'[k].pc \notin Starting
    PROVE  Launched'
<1>1. \A j \in Jobs : thread'[j].pc \in Starting <=> lock' = j
    BY DEF Launched
<1>2. \A j \in Jobs : (At(j, "launch") => launches = 0)'
    BY DEF Launched, At, Starting
<1>3. (\E j \in Jobs : At(j, "poll")) => (\E j \in Jobs : At(j, "poll"))'
    BY DEF At, Starting
<1> QED BY <1>1, <1>2, <1>3 DEF Launched

\* Request to Probe, Bind to Rollback, and the delivery of a job.
LEMMA AwayKeepsLaunched ==
    ASSUME Typed, Launched, NEW k \in Jobs,
           \/ Deliver(k) \/ Request(k) \/ Probe(k) \/ Bind(k) \/ RunWorkflow(k)
           \/ FetchImage(k) \/ FetchedAll(k) \/ ClearDirectory(k) \/ CreateImage(k)
           \/ WriteImage(k) \/ Persisted(k) \/ Rollback(k)
    PROVE  Launched'
<1>1. UNCHANGED <<comfy, lock, launches>>
    BY DEF Deliver, Request, Probe, Bind, RunWorkflow, FetchImage, FetchedAll, ClearDirectory,
           CreateImage, WriteImage, Persisted, Rollback
<1>2. thread[k].pc \notin Starting
    BY DEF Deliver, Request, Probe, Bind, RunWorkflow, FetchImage, FetchedAll, ClearDirectory,
           CreateImage, WriteImage, Persisted, Rollback, At, Starting
<1> DEFINE Away ==
        (\A i \in Jobs : i # k => thread'[i] = thread[i]) /\ thread'[k].pc \notin Starting
<1>3. ASSUME NEW code, Answer(k, code) PROVE Away
    BY <1>3, AnswerEffect DEF Starting
<1>4. ASSUME NEW pc \in {"probe", "bind", "lock", "run", "create", "write", "rollback"}, Goto(k, pc)
      PROVE  Away
    BY <1>4, GotoEffect DEF Starting
<1>5. CASE Deliver(k)
    <2>1. Away
        BY <1>5 DEF Deliver, NewThread, Typed, TypeOK, Starting
    <2> QED BY <1>1, <1>2, <2>1, UnlockedKeepsLaunched
<1>6. CASE \/ Request(k) \/ Probe(k) \/ Bind(k) \/ ClearDirectory(k) \/ CreateImage(k)
           \/ Persisted(k) \/ Rollback(k)
    <2>1. Away
        BY <1>3, <1>4, <1>6 DEF Request, Probe, Bind, ClearDirectory, CreateImage, Persisted, Rollback
    <2> QED BY <1>1, <1>2, <2>1, UnlockedKeepsLaunched
<1>7. CASE RunWorkflow(k)
    <2>1. ASSUME NEW n \in 1 .. MaxImages,
                 thread' = [thread EXCEPT ![k].pc = "fetch", ![k].outputs = n]
          PROVE  Away
        BY <2>1 DEF Typed, TypeOK, Thread, Starting
    <2>2. Away
        BY <1>3, <1>7, <2>1 DEF RunWorkflow, ParseComfyRunEvents
    <2> QED BY <1>1, <1>2, <2>2, UnlockedKeepsLaunched
<1>8. CASE FetchImage(k)
    <2>1. ASSUME NEW size \in 1 .. 2, At(k, "fetch"),
                 thread' = [thread EXCEPT ![k].done = @ + 1, ![k].bytes = @ + size]
          PROVE  Away
        BY <2>1 DEF Typed, TypeOK, Thread, At, Starting
    <2>2. Away
        BY <1>3, <1>8, <2>1 DEF FetchImage
    <2> QED BY <1>1, <1>2, <2>2, UnlockedKeepsLaunched
<1>9. CASE FetchedAll(k)
    <2>1. ASSUME thread' = [thread EXCEPT ![k].pc = "clear", ![k].done = 0, ![k].bytes = 0]
          PROVE  Away
        BY <2>1 DEF Typed, TypeOK, Thread, Starting
    <2>2. Away
        BY <1>3, <1>9, <2>1 DEF FetchedAll
    <2> QED BY <1>1, <1>2, <2>2, UnlockedKeepsLaunched
<1>10. CASE WriteImage(k)
    <2>1. ASSUME NEW i, thread' = [thread EXCEPT ![k].pc = "create", ![k].done = i]
          PROVE  Away
        BY <2>1 DEF Typed, TypeOK, Thread, Starting
    <2>2. Away
        BY <1>4, <1>10, <2>1 DEF WriteImage
    <2> QED BY <1>1, <1>2, <2>2, UnlockedKeepsLaunched
<1> QED BY <1>5, <1>6, <1>7, <1>8, <1>9, <1>10

\* A step of the job that holds the lock, or takes it.
LEMMA LockedKeepsLaunched ==
    ASSUME Typed, Launched, NEW k \in Jobs,
           Acquire(k) \/ Recheck(k) \/ Launch(k) \/ Poll(k)
    PROVE  Launched'
<1>1. \A i \in Jobs : i # k => thread[i].pc \notin Starting
    BY JobsAssumption DEF Launched, Acquire, Recheck, Launch, Poll, At, Starting
<1>2. CASE Acquire(k)
    <2>1. thread'[k].pc = "recheck" /\ \A i \in Jobs : i # k => thread'[i] = thread[i]
        BY <1>2, GotoEffect DEF Acquire
    <2>2. \A i \in Jobs : ~ At(i, "poll")
        BY <1>1, <1>2 DEF Acquire, At, Starting
    <2> QED BY <1>1, <1>2, <2>1, <2>2 DEF Acquire, Launched, At, Starting
<1>3. CASE Recheck(k)
    <2>1. At(k, "recheck") /\ lock = k /\ comfy' = comfy
        BY <1>3 DEF Recheck, Launched, At, Starting
    <2>2. launches # 0 => comfy = "up"
        BY <1>1, <2>1 DEF Launched, At, Starting
    <2>3. CASE Ready /\ lock' = Nobody /\ Goto(k, "bind") /\ UNCHANGED launches
        <3>1. thread'[k].pc = "bind" /\ \A i \in Jobs : i # k => thread'[i] = thread[i]
            BY <2>3, GotoEffect
        <3> QED BY <1>1, <2>1, <2>3, <3>1, JobsAssumption DEF Launched, At, Starting, Ready
    <2>4. CASE Goto(k, "launch") /\ launches' = (IF Ready THEN 0 ELSE launches) /\ UNCHANGED lock
        <3>1. thread'[k].pc = "launch" /\ \A i \in Jobs : i # k => thread'[i] = thread[i]
            BY <2>4, GotoEffect
        <3>2. launches' = 0
            BY <2>2, <2>4 DEF Ready
        <3> QED BY <1>1, <2>1, <2>4, <3>1, <3>2 DEF Launched, At, Starting
    <2> QED BY <1>3, <2>3, <2>4 DEF Recheck
<1>4. CASE Launch(k)
    <2>1. At(k, "launch") /\ lock = k /\ launches = 0
        BY <1>4 DEF Launch, Launched, At, Starting
    <2>2. CASE launches' = launches + 1 /\ Goto(k, "poll") /\ UNCHANGED lock
        <3>1. thread'[k].pc = "poll" /\ \A i \in Jobs : i # k => thread'[i] = thread[i]
            BY <2>2, GotoEffect
        <3> QED BY <1>1, <2>1, <2>2, <3>1 DEF Launched, At, Starting
    <2>3. ASSUME launches' = 0, lock' = Nobody, NEW code, Answer(k, code)
          PROVE  Launched'
        <3>1. thread'[k].pc = "answered" /\ \A i \in Jobs : i # k => thread'[i] = thread[i]
            BY <2>3, AnswerEffect
        <3> QED BY <1>1, <2>3, <3>1, JobsAssumption DEF Launched, At, Starting
    <2> QED BY <1>4, <2>2, <2>3 DEF Launch
<1>5. CASE Poll(k)
    <2>1. At(k, "poll") /\ lock = k /\ comfy' = comfy
        BY <1>5 DEF Poll, Launched, At, Starting
    <2>2. CASE /\ Ready /\ lock' = Nobody /\ UNCHANGED launches
               /\ thread' = [thread EXCEPT ![k].pc = "bind", ![k].polls = 0]
        <3>1. thread'[k].pc = "bind" /\ \A i \in Jobs : i # k => thread'[i] = thread[i]
            BY <2>2 DEF Typed, TypeOK, Thread
        <3> QED BY <1>1, <2>1, <2>2, <3>1, JobsAssumption DEF Launched, At, Starting, Ready
    <2>3. CASE thread' = [thread EXCEPT ![k].polls = @ + 1] /\ UNCHANGED <<lock, launches>>
        <3>1. thread'[k].pc = "poll" /\ \A i \in Jobs : i # k => thread'[i] = thread[i]
            BY <2>1, <2>3 DEF Typed, TypeOK, Thread, At
        <3> QED BY <1>1, <2>1, <2>3, <3>1 DEF Launched, At, Starting
    <2>4. CASE lock' = Nobody /\ launches' = 0 /\ Answer(k, "comfyui_startup_timeout")
        <3>1. thread'[k].pc = "answered" /\ \A i \in Jobs : i # k => thread'[i] = thread[i]
            BY <2>4, AnswerEffect
        <3> QED BY <1>1, <2>4, <3>1, JobsAssumption DEF Launched, At, Starting
    <2> QED BY <1>5, <2>2, <2>3, <2>4 DEF Poll
<1> QED BY <1>2, <1>3, <1>4, <1>5

LEMMA SurroundingsKeepLaunched ==
    ASSUME Launched, ComfyComesUp \/ ComfyDies \/ WorkerDies
    PROVE  Launched'
<1>1. CASE ComfyComesUp
    BY <1>1 DEF ComfyComesUp, Launched, At
<1>2. CASE ComfyDies
    BY <1>2 DEF ComfyDies, Launched, At
<1>3. CASE WorkerDies
    <2>1. \A j \in Jobs : thread'[j].pc \notin Running
        BY <1>3 DEF WorkerDies, NewThread, Running, Persisting, Writing
    <2>2. lock' = Nobody /\ launches' = 0
        BY <1>3 DEF WorkerDies
    <2> QED BY <2>1, <2>2, JobsAssumption DEF Launched, At, Starting, Running
<1> QED BY <1>1, <1>2, <1>3

LEMMA StepKeepsLaunched == Typed /\ Launched /\ [Next]_vars => Launched'
<1> SUFFICES ASSUME Typed, Launched, [Next]_vars PROVE Launched'
    OBVIOUS
<1>1. CASE UNCHANGED vars
    BY <1>1 DEF vars, Launched, At
<1>2. CASE \E j \in Jobs : Deliver(j) \/ Handler(j)
    BY <1>2, AwayKeepsLaunched, LockedKeepsLaunched DEF Handler
<1>3. CASE ComfyComesUp \/ ComfyDies \/ WorkerDies
    BY <1>3, SurroundingsKeepLaunched
<1> QED BY <1>1, <1>2, <1>3 DEF Next

(* However many jobs find ComfyUI missing at once, it is launched once for  *)
(* each time it was missing.                                                *)
THEOREM LaunchedOncePerOutage == Spec => []OneLaunchPerOutage
<1>1. Launched => OneLaunchPerOutage
    BY DEF Launched, OneLaunchPerOutage
<1>2. Spec => []Launched
    BY KeptAlways, InitIsLaunched, StepKeepsLaunched, PTL DEF Spec
<1> QED BY <1>1, <1>2, PTL

=============================================================================
