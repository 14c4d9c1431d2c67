------------------------ MODULE TransitionEventsProofs ------------------------
(* Theorems about TransitionEvents, for any number of operations and of      *)
(* progress transitions.                                                     *)
EXTENDS TransitionEvents, TLAPS

-----------------------------------------------------------------------------
(* Type correctness.                                                         *)

\* A copy that has made a step of progress, succeeded or failed is an operation.
LEMMA CopiesStayOperations ==
    ASSUME NEW op \in Operation
    PROVE  /\ op.progress < LastProgress => [op EXCEPT !.progress = @ + 1] \in Operation
           /\ [op EXCEPT !.state = "succeeded"] \in Operation
           /\ [op EXCEPT !.state = "failed"] \in Operation
BY LastProgressAssumption DEF Operation

\* The writers that replace another are writers.
LEMMA NewWriters ==
    /\ Unknown \in Operation
    /\ Inactive \in Writer
    /\ [Inactive EXCEPT !.who = "supervisor", !.pc = "load"] \in Writer
    /\ \A op : RuntimeWith(op) \in RuntimeState
<1>1. Unknown \in Operation
  BY LastProgressAssumption DEF Unknown, Operation
<1>2. /\ Inactive \in Writer
      /\ [Inactive EXCEPT !.who = "supervisor", !.pc = "load"] \in Writer
  BY <1>1 DEF Inactive, Writer
<1>3. \A op : RuntimeWith(op) \in RuntimeState
  BY DEF RuntimeWith, RuntimeState
<1> QED BY <1>1, <1>2, <1>3

\* Types of the tables and of the listener when a save commits.
LEMMA WrittenIsTyped ==
    ASSUME TypeOK, NEW o \in OpId, Written(o)
    PROVE  /\ workspace' \in {"unborn", "present", "deleted"}
           /\ runtime' \in RuntimeState
           /\ ops' \in [OpId -> Operation]
           /\ commits' \in Nat
BY NewWriters DEF Written, TypeOK, Writer

\* A writer that moves on within a save remains one.
LEMMA MovingWriters ==
    ASSUME TypeOK, NEW o \in OpId, NEW t \in Writer, writer' = [writer EXCEPT ![o] = t]
    PROVE  writer' \in [OpId -> Writer]
BY DEF TypeOK

\* Each step of an operation leaves the variables typed.
LEMMA StepIsTyped ==
    ASSUME TypeOK, [Next]_vars
    PROVE  TypeOK'
<1>1. CASE UNCHANGED vars
  BY <1>1 DEF vars, rows, heard, TypeOK
<1>2. CASE CreateWorkspace \/ AnnounceCreated \/ DeleteWorkspace \/ AnnounceDeleted
  <2>1. CASE CreateWorkspace
    BY <2>1 DEF CreateWorkspace, heard, TypeOK
  <2>2. CASE AnnounceCreated
    <3>1. heardWorkspace' \in [runtime : RuntimeState, at : Nat]
      BY <2>2 DEF AnnounceCreated, RuntimeState
    <3> QED BY <2>2, <3>1 DEF AnnounceCreated, rows, TypeOK
  <2>3. CASE DeleteWorkspace
    BY <2>3 DEF DeleteWorkspace, heard, TypeOK
  <2>4. CASE AnnounceDeleted
    BY <2>4 DEF AnnounceDeleted, rows, TypeOK
  <2> QED BY <1>2, <2>1, <2>2, <2>3, <2>4
<1>3. ASSUME NEW o \in OpId, Lock(o) \/ Commit(o) \/ EmitWorkspace(o)
      PROVE  TypeOK'
  <2>1. writer' \in [OpId -> Writer]
    BY <1>3 DEF Lock, Commit, EmitWorkspace, TypeOK, Writer
  <2>2. CASE Lock(o)
    BY <2>1, <2>2 DEF Lock, rows, heard, TypeOK
  <2>3. CASE Commit(o)
    BY <2>1, <2>3, WrittenIsTyped DEF Commit, heard, TypeOK
  <2>4. CASE EmitWorkspace(o)
    <3>1. heardWorkspace' \in [runtime : RuntimeState, at : Nat]
      BY <2>4, NewWriters DEF EmitWorkspace, TypeOK, Writer
    <3> QED BY <2>1, <2>4, <3>1 DEF EmitWorkspace, rows, TypeOK
  <2> QED BY <1>3, <2>2, <2>3, <2>4
<1>4. ASSUME NEW o \in OpId, Refused(o) \/ Deadline(o) \/ DeadlineInCommit(o)
      PROVE  TypeOK'
  <2>1. writer' \in [OpId -> Writer] /\ coordinator' \in OpId \cup {Nobody}
    BY <1>4, NewWriters, MovingWriters
    DEF Refused, Deadline, DeadlineInCommit, Supervised, TypeOK
  <2>2. CASE Refused(o) \/ Deadline(o)
    BY <2>1, <2>2 DEF Refused, Deadline, rows, heard, TypeOK
  <2>3. CASE DeadlineInCommit(o)
    BY <2>1, <2>3, WrittenIsTyped DEF DeadlineInCommit, heard, TypeOK
  <2> QED BY <1>4, <2>2, <2>3
<1>5. ASSUME NEW o \in OpId, EmitOperation(o)
      PROVE  TypeOK'
  <2>1. writer[o] \in Writer
    BY DEF TypeOK
  <2>2. [writer[o] EXCEPT !.who = "body", !.pc = "work"] \in Writer
    BY <2>1 DEF Writer
  <2>3. writer' \in [OpId -> Writer]
    BY <1>5, <2>2, NewWriters DEF EmitOperation, TypeOK
  <2>4. heardOp' \in [OpId -> Operation]
    BY <1>5, <2>1 DEF EmitOperation, TypeOK, Writer
  <2> QED BY <1>5, <2>3, <2>4 DEF EmitOperation, rows, TypeOK
<1>6. ASSUME NEW o \in OpId, Proceed(o) \/ Supervise(o)
                             \/ \E kind \in {"provision", "cleanup"} : Request(o, kind)
      PROVE  TypeOK'
  <2>1. ASSUME NEW who \in {"command", "body", "supervisor"}, NEW op \in Operation,
               Saves(o, who, op)
        PROVE  writer' \in [OpId -> Writer]
    <3>1. [who |-> who, pc |-> "lock", op |-> op, at |-> 0] \in Writer
      BY DEF Writer
    <3> QED BY <2>1, <3>1, MovingWriters DEF Saves
  <2>2. writer[o].op \in Operation /\ ops[o] \in Operation
    BY DEF TypeOK, Writer
  <2>3. writer' \in [OpId -> Writer]
    <3>1. CASE Proceed(o)
      BY <2>1, <2>2, <3>1, CopiesStayOperations DEF Proceed
    <3>2. CASE Supervise(o)
      BY <2>1, <2>2, <3>2, CopiesStayOperations, NewWriters, MovingWriters DEF Supervise
    <3>3. ASSUME NEW kind \in {"provision", "cleanup"}, Request(o, kind)
          PROVE  writer' \in [OpId -> Writer]
      <4>1. [state |-> "running", kind |-> kind, progress |-> 0] \in Operation
        BY LastProgressAssumption DEF Operation
      <4> QED BY <2>1, <3>3, <4>1 DEF Request
    <3> QED BY <1>6, <3>1, <3>2, <3>3
  <2> QED BY <1>6, <2>3 DEF Proceed, Supervise, Request, rows, heard, TypeOK
<1> QED BY <1>1, <1>2, <1>3, <1>4, <1>5, <1>6 DEF Next, SaveStep

\* At the start nothing exists and nothing was heard.
LEMMA InitIsTyped == Init => TypeOK
<1> SUFFICES ASSUME Init PROVE TypeOK
  OBVIOUS
<1>1. heardWorkspace \in [runtime : RuntimeState, at : Nat] /\ runtime \in RuntimeState
  BY DEF Init, RuntimeState
<1>2. writer \in [OpId -> Writer] /\ ops \in [OpId -> Operation] /\ heardOp \in [OpId -> Operation]
  BY NewWriters DEF Init
<1> QED BY <1>1, <1>2 DEF Init, TypeOK

\* Every variable always holds a value of its type.
THEOREM TransitionsAreTyped == Spec => []TypeOK
BY InitIsTyped, StepIsTyped, PTL DEF Spec

-----------------------------------------------------------------------------
(* The inductive invariant: who is inside a save holds the coordinator, what *)
(* it has written is still the row when it announces it, and what a writer   *)
(* is about to write is ahead of the row.                                    *)

Emitting == {"emit_workspace", "emit_operation"}

HoldsCoordinator == \A o \in OpId : writer[o].pc \in {"commit"} \cup Emitting => coordinator = o

AnnouncesRows ==
    \A o \in OpId :
        /\ writer[o].pc \in Emitting => ops[o] = writer[o].op
        /\ writer[o].pc = "emit_workspace" => writer[o].at = commits
        /\ writer[o].pc = "emit_operation" => heardWorkspace.at \in {commits, 0}

WritesAhead ==
    \A o \in OpId :
        /\ writer[o].pc \in {"lock", "commit"} => Rank(ops[o]) <= Rank(writer[o].op)
        /\ writer[o].pc = "work" => ops[o] = writer[o].op /\ ops[o].state = "running"

Serialized ==
    /\ HoldsCoordinator /\ AnnouncesRows /\ WritesAhead
    /\ ListenersAreCurrent /\ HeardIsCommitted

\* Ranks are numbers, and an operation that is over has the highest.
LEMMA RankIsBounded ==
    ASSUME NEW op \in Operation
    PROVE  /\ Rank(op) \in Nat
           /\ Rank(op) <= 2 + LastProgress
           /\ op.state \in {"succeeded", "failed"} => Rank(op) = 2 + LastProgress
BY LastProgressAssumption DEF Rank, Operation

\* A writer that takes no part in an announcement, neither writes nor announces,
\* and leaves others the coordinator they hold, keeps the invariant.
LEMMA QuietMoves ==
    ASSUME Serialized, NEW o \in OpId,
           writer[o].pc \notin Emitting, writer'[o].pc \notin Emitting,
           \A p \in OpId : p # o => writer'[p] = writer[p],
           UNCHANGED <<rows, heard, missed>>,
           \A p \in OpId : p # o /\ coordinator = p => coordinator' = p,
           writer'[o].pc = "commit" => coordinator' = o,
           writer'[o].pc \in {"lock", "commit"} => Rank(ops[o]) <= Rank(writer'[o].op),
           writer'[o].pc = "work" => ops[o] = writer'[o].op /\ ops[o].state = "running"
    PROVE  Serialized'
<1>1. /\ ops' = ops /\ commits' = commits /\ missed' = missed
      /\ heardWorkspace' = heardWorkspace /\ heardOp' = heardOp
  BY DEF rows, heard
<1>2. HoldsCoordinator'
  BY DEF Serialized, HoldsCoordinator
<1>3. AnnouncesRows'
  BY <1>1 DEF Serialized, AnnouncesRows, Emitting
<1>4. WritesAhead'
  BY <1>1 DEF Serialized, WritesAhead, Rank
<1>5. ListenersAreCurrent'
  BY <1>1 DEF Serialized, ListenersAreCurrent, Emitting
<1>6. HeardIsCommitted'
  BY <1>1 DEF Serialized, HeardIsCommitted, Rank
<1> QED BY <1>2, <1>3, <1>4, <1>5, <1>6 DEF Serialized

\* A supervisor begins by loading the operation.
LEMMA SupervisorLoads ==
    ASSUME TypeOK, NEW o \in OpId, Supervised(o)
    PROVE  writer'[o].pc = "load"
<1>1. writer'[o] = [Inactive EXCEPT !.who = "supervisor", !.pc = "load"]
  BY DEF Supervised, TypeOK
<1> QED BY <1>1 DEF Inactive

\* A save that commits is alone inside the coordinator and moves its row ahead.
LEMMA CommitMoves ==
    ASSUME TypeOK, Serialized, NEW o \in OpId, Commit(o) \/ DeadlineInCommit(o)
    PROVE  Serialized'
<1>1. /\ writer[o].pc = "commit" /\ coordinator = o /\ UNCHANGED heard
      /\ ops' = [ops EXCEPT ![o] = writer[o].op] /\ commits' = commits + 1
  BY DEF Commit, DeadlineInCommit, Written, Serialized, HoldsCoordinator
<1>2. /\ ops'[o] = writer[o].op
      /\ \A p \in OpId : p # o => ops'[p] = ops[p] /\ writer'[p] = writer[p]
  BY <1>1 DEF Commit, DeadlineInCommit, Supervised, TypeOK
<1>3. \/ /\ writer'[o].pc = "emit_workspace" /\ writer'[o].op = writer[o].op
         /\ writer'[o].at = commits + 1 /\ UNCHANGED <<coordinator, missed>>
      \/ /\ writer'[o].pc = "load" /\ missed' = missed \cup {o}
  <2>1. CASE Commit(o)
    BY <2>1 DEF Commit, TypeOK, Writer
  <2>2. CASE DeadlineInCommit(o)
    BY <2>2, SupervisorLoads DEF DeadlineInCommit
  <2> QED BY <2>1, <2>2
<1>4. \A p \in OpId : p # o => writer[p].pc \notin {"commit"} \cup Emitting
  BY <1>1 DEF Serialized, HoldsCoordinator
<1>5. /\ heardWorkspace' = heardWorkspace /\ heardOp' = heardOp
      /\ commits \in Nat /\ heardWorkspace.at \in Nat
  BY <1>1 DEF heard, TypeOK
<1>6. HoldsCoordinator'
  BY <1>1, <1>2, <1>3, <1>4 DEF HoldsCoordinator, Emitting
<1>7. AnnouncesRows'
  BY <1>1, <1>2, <1>3, <1>4 DEF AnnouncesRows, Emitting
<1>8. WritesAhead'
  BY <1>2, <1>3 DEF Serialized, WritesAhead, Rank
<1>9. ListenersAreCurrent'
  BY <1>2, <1>3, <1>5 DEF Serialized, ListenersAreCurrent
<1>10. HeardIsCommitted'
  <2>1. ASSUME NEW p \in OpId
        PROVE  Rank(heardOp[p]) <= Rank(ops'[p])
    <3>1. Rank(heardOp[p]) <= Rank(ops[p])
      BY DEF Serialized, HeardIsCommitted
    <3>2. Rank(ops[o]) <= Rank(writer[o].op)
      BY <1>1 DEF Serialized, WritesAhead
    <3>3. /\ Rank(heardOp[p]) \in Nat /\ Rank(ops[p]) \in Nat
          /\ Rank(writer[o].op) \in Nat
      BY RankIsBounded DEF TypeOK, Writer
    <3> QED BY <1>2, <3>1, <3>2, <3>3
  <2>2. heardWorkspace.at <= commits + 1
    BY <1>5 DEF Serialized, HeardIsCommitted
  <2> QED BY <1>1, <1>5, <2>1, <2>2 DEF HeardIsCommitted, Rank
<1> QED BY <1>6, <1>7, <1>8, <1>9, <1>10 DEF Serialized

\* The two events are those of the last commit.
LEMMA EmitMoves ==
    ASSUME TypeOK, Serialized, NEW o \in OpId, EmitWorkspace(o) \/ EmitOperation(o)
    PROVE  Serialized'
<1>1. /\ writer[o].pc \in Emitting /\ coordinator = o /\ ops[o] = writer[o].op
      /\ UNCHANGED rows
  BY DEF EmitWorkspace, EmitOperation, Emitting, Serialized, HoldsCoordinator, AnnouncesRows
<1>2. /\ \A p \in OpId : p # o => writer[p].pc \notin {"commit"} \cup Emitting
      /\ ops' = ops /\ commits' = commits
  BY <1>1 DEF Serialized, HoldsCoordinator, rows
<1>3. \A p \in OpId : p # o => writer'[p] = writer[p]
  BY DEF EmitWorkspace, EmitOperation, TypeOK
<1>4. CASE EmitWorkspace(o)
  <2>1. /\ writer'[o].pc = "emit_operation" /\ writer'[o].op = writer[o].op
        /\ heardWorkspace'.at = commits
        /\ UNCHANGED <<coordinator, heardOp, missed>>
    BY <1>4 DEF EmitWorkspace, TypeOK, Writer, Serialized, AnnouncesRows
  <2>2. HoldsCoordinator'
    BY <1>1, <1>3, <2>1 DEF Serialized, HoldsCoordinator
  <2>3. AnnouncesRows'
    BY <1>1, <1>2, <1>3, <2>1 DEF AnnouncesRows, Emitting
  <2>4. WritesAhead'
    BY <1>2, <1>3, <2>1 DEF Serialized, WritesAhead, Rank
  <2>5. ListenersAreCurrent'
    BY <1>2, <1>3, <2>1 DEF Serialized, ListenersAreCurrent, Emitting
  <2>6. HeardIsCommitted'
    BY <1>2, <2>1 DEF Serialized, HeardIsCommitted, Rank, TypeOK
  <2> QED BY <2>2, <2>3, <2>4, <2>5, <2>6 DEF Serialized
<1>5. CASE EmitOperation(o)
  <2>1. /\ heardOp' = [heardOp EXCEPT ![o] = ops[o]] /\ missed' = missed \ {o}
        /\ coordinator' = Nobody /\ heardWorkspace' = heardWorkspace
        /\ heardWorkspace.at \in {commits, 0}
    BY <1>1, <1>5 DEF EmitOperation, Serialized, AnnouncesRows
  <2>2. \/ /\ writer'[o].pc = "work" /\ writer'[o].op = ops[o] /\ ops[o].state = "running"
        \/ writer'[o].pc = "idle"
    BY <1>1, <1>5 DEF EmitOperation, Inactive, TypeOK, Writer
  <2>3. /\ heardOp'[o] = ops[o]
        /\ \A p \in OpId : p # o => heardOp'[p] = heardOp[p]
    BY <2>1 DEF TypeOK
  <2>4. HoldsCoordinator'
    BY <1>2, <1>3, <2>2 DEF HoldsCoordinator, Emitting
  <2>5. AnnouncesRows'
    BY <1>2, <1>3, <2>2 DEF AnnouncesRows, Emitting
  <2>6. WritesAhead'
    BY <1>2, <1>3, <2>2 DEF Serialized, WritesAhead, Rank
  <2>7. ListenersAreCurrent'
    BY <1>2, <1>3, <2>1, <2>3 DEF Serialized, ListenersAreCurrent, Emitting
  <2>8. HeardIsCommitted'
    <3>1. Rank(ops[o]) <= Rank(ops[o])
      BY RankIsBounded DEF TypeOK
    <3> QED BY <1>2, <2>1, <2>3, <3>1 DEF Serialized, HeardIsCommitted, Rank
  <2> QED BY <2>4, <2>5, <2>6, <2>7, <2>8 DEF Serialized
<1> QED BY <1>4, <1>5

\* What is about to be written is ahead of the row.
LEMMA SaversAreAhead ==
    ASSUME TypeOK, Serialized, NEW o \in OpId,
           \/ Proceed(o) \/ Supervise(o)
           \/ \E kind \in {"provision", "cleanup"} : Request(o, kind)
    PROVE  Serialized'
<1>1. /\ writer[o].pc \notin Emitting
      /\ UNCHANGED <<rows, heard, missed, coordinator>>
  BY DEF Proceed, Supervise, Request, Inactive, Emitting
<1>2. \A p \in OpId : p # o => writer'[p] = writer[p]
  BY DEF Proceed, Supervise, Request, Saves, TypeOK
<1>3. /\ ops[o] \in Operation /\ writer[o].op \in Operation
      /\ Rank(ops[o]) \in Nat /\ Rank(ops[o]) <= 2 + LastProgress
  BY RankIsBounded DEF TypeOK, Writer
<1>4. ASSUME NEW who, NEW op \in Operation, Saves(o, who, op), Rank(ops[o]) <= Rank(op)
      PROVE  Serialized'
  <2>1. writer'[o].pc = "lock" /\ writer'[o].op = op
    BY <1>4 DEF Saves, TypeOK
  <2> QED BY <1>1, <1>2, <1>4, <2>1, QuietMoves DEF Emitting
<1>5. CASE Proceed(o)
  <2>1. ops[o] = writer[o].op /\ ops[o].state = "running"
    BY <1>5 DEF Proceed, Serialized, WritesAhead
  <2>2. CASE writer[o].op.progress < LastProgress
    <3>1. [writer[o].op EXCEPT !.progress = @ + 1] \in Operation
      BY <1>3, <2>2, CopiesStayOperations
    <3>2. Rank(ops[o]) <= Rank([writer[o].op EXCEPT !.progress = @ + 1])
      BY <1>3, <2>1 DEF Rank, Operation
    <3> QED BY <1>4, <1>5, <2>2, <3>1, <3>2 DEF Proceed
  <2>3. CASE ~(writer[o].op.progress < LastProgress)
    <3>1. [writer[o].op EXCEPT !.state = "succeeded"] \in Operation
      BY <1>3, CopiesStayOperations
    <3>2. Rank([writer[o].op EXCEPT !.state = "succeeded"]) = 2 + LastProgress
      BY <1>3, <3>1, RankIsBounded DEF Operation
    <3> QED BY <1>3, <1>4, <1>5, <2>3, <3>1, <3>2 DEF Proceed
  <2> QED BY <2>2, <2>3
<1>6. CASE Supervise(o)
  <2>1. CASE Saves(o, "supervisor", [ops[o] EXCEPT !.state = "failed"])
    <3>1. [ops[o] EXCEPT !.state = "failed"] \in Operation
      BY <1>3, CopiesStayOperations
    <3>2. Rank([ops[o] EXCEPT !.state = "failed"]) = 2 + LastProgress
      BY <1>3, <3>1, RankIsBounded DEF Operation
    <3> QED BY <1>3, <1>4, <2>1, <3>1, <3>2
  <2>2. CASE writer' = [writer EXCEPT ![o] = Inactive]
    <3>1. writer'[o].pc = "idle"
      BY <2>2 DEF Inactive, TypeOK
    <3> QED BY <1>1, <1>2, <3>1, QuietMoves DEF Emitting
  <2> QED BY <1>6, <2>1, <2>2 DEF Supervise
<1>7. ASSUME NEW kind \in {"provision", "cleanup"}, Request(o, kind)
      PROVE  Serialized'
  <2>1. [state |-> "running", kind |-> kind, progress |-> 0] \in Operation
    BY LastProgressAssumption DEF Operation
  <2>2. Rank(ops[o]) = 0 /\ Rank([state |-> "running", kind |-> kind, progress |-> 0]) = 1
    BY <1>7 DEF Request, Rank, Unknown
  <2> QED BY <1>4, <1>7, <2>1, <2>2 DEF Request
<1> QED BY <1>5, <1>6, <1>7

\* A save that waits, is refused or is aborted before its COMMIT has landed.
LEMMA WaitersAreQuiet ==
    ASSUME TypeOK, Serialized, NEW o \in OpId, Lock(o) \/ Refused(o) \/ Deadline(o)
    PROVE  Serialized'
<1>1. /\ writer[o].pc \notin Emitting /\ UNCHANGED <<rows, heard, missed>>
  BY DEF Lock, Refused, Deadline, Emitting
<1>2. \A p \in OpId : p # o => writer'[p] = writer[p]
  BY DEF Lock, Refused, Deadline, Supervised, TypeOK
<1>3. CASE Lock(o)
  <2>1. /\ writer'[o].pc = "commit" /\ writer'[o].op = writer[o].op /\ coordinator' = o
        /\ coordinator = Nobody
    BY <1>3 DEF Lock, TypeOK, Writer
  <2>2. Rank(ops[o]) <= Rank(writer[o].op)
    BY <1>3 DEF Lock, Serialized, WritesAhead
  <2> QED BY <1>1, <1>2, <2>1, <2>2, QuietMoves, NobodyAssumption DEF Emitting
<1>4. CASE Refused(o) \/ Deadline(o)
  <2>1. /\ writer'[o].pc \in {"load", "idle"}
        /\ coordinator' = IF coordinator = o THEN Nobody ELSE coordinator
    <3>1. CASE Supervised(o)
      BY <3>1, SupervisorLoads DEF Supervised
    <3>2. CASE /\ Refused(o) /\ writer' = [writer EXCEPT ![o] = Inactive]
               /\ coordinator' = Nobody
      <4>1. coordinator = o
        BY <3>2 DEF Refused, Serialized, HoldsCoordinator
      <4> QED BY <3>2, <4>1 DEF Inactive, TypeOK
    <3> QED BY <1>4, <3>1, <3>2 DEF Refused, Deadline
  <2> QED BY <1>1, <1>2, <2>1, QuietMoves DEF Emitting
<1> QED BY <1>3, <1>4

\* The workspace service neither writes nor announces an operation.
LEMMA ServiceIsQuiet ==
    ASSUME TypeOK, Serialized,
           CreateWorkspace \/ AnnounceCreated \/ DeleteWorkspace \/ AnnounceDeleted
    PROVE  Serialized'
<1>1. /\ UNCHANGED <<ops, commits, coordinator, writer, heardOp, missed>>
      /\ heardWorkspace'.at \in {heardWorkspace.at, 0}
  BY DEF CreateWorkspace, AnnounceCreated, DeleteWorkspace, AnnounceDeleted, rows, heard
<1>2. HoldsCoordinator' /\ AnnouncesRows'
  BY <1>1 DEF Serialized, HoldsCoordinator, AnnouncesRows
<1>3. WritesAhead'
  BY <1>1 DEF Serialized, WritesAhead, Rank
<1>4. ListenersAreCurrent'
  BY <1>1 DEF Serialized, ListenersAreCurrent
<1>5. HeardIsCommitted'
  BY <1>1 DEF Serialized, HeardIsCommitted, Rank, TypeOK
<1> QED BY <1>2, <1>3, <1>4, <1>5 DEF Serialized

\* At the start nobody saves and nothing was heard.
LEMMA InitIsSerialized == Init => Serialized
<1> SUFFICES ASSUME Init PROVE Serialized
  OBVIOUS
<1>1. /\ \A o \in OpId : /\ writer[o].pc = "idle"
                         /\ heardOp[o] = Unknown /\ ops[o] = Unknown
      /\ heardWorkspace.at = 0 /\ commits = 0
  BY DEF Init, Inactive
<1>2. Rank(Unknown) = 0
  BY DEF Rank, Unknown
<1>3. HoldsCoordinator /\ AnnouncesRows /\ WritesAhead
  BY <1>1 DEF HoldsCoordinator, AnnouncesRows, WritesAhead, Emitting
<1>4. ListenersAreCurrent /\ HeardIsCommitted
  BY <1>1, <1>2 DEF ListenersAreCurrent, HeardIsCommitted
<1> QED BY <1>3, <1>4 DEF Serialized

\* The invariant holds whatever step is taken.
LEMMA StepIsSerialized == TypeOK /\ Serialized /\ [Next]_vars => Serialized'
<1> SUFFICES ASSUME TypeOK, Serialized, [Next]_vars PROVE Serialized'
  OBVIOUS
<1>1. CASE UNCHANGED vars
  <2>1. UNCHANGED <<ops, commits, coordinator, writer, heardOp, heardWorkspace, missed>>
    BY <1>1 DEF vars, rows, heard
  <2> QED
    BY <2>1
    DEF Serialized, HoldsCoordinator, AnnouncesRows, WritesAhead, ListenersAreCurrent,
        HeardIsCommitted, Rank
<1> QED
  BY <1>1, CommitMoves, EmitMoves, SaversAreAhead, WaitersAreQuiet, ServiceIsQuiet
  DEF Next, SaveStep

-----------------------------------------------------------------------------
(* What a listener may rely on.                                              *)

\* Nobody hears of a transition that is not durable.
THEOREM EventsFollowCommits == Spec => []HeardIsCommitted
<1>1. Serialized => HeardIsCommitted
  BY DEF Serialized
<1> QED BY <1>1, TransitionsAreTyped, InitIsSerialized, StepIsSerialized, PTL DEF Spec

\* Outside of a save, a listener knows the last transition, except after an
\* abort in a COMMIT and the late event of the creation.
THEOREM ListenersStayCurrent == Spec => []ListenersAreCurrent
<1>1. Serialized => ListenersAreCurrent
  BY DEF Serialized
<1> QED BY <1>1, TransitionsAreTyped, InitIsSerialized, StepIsSerialized, PTL DEF Spec

\* Events of several operations never overtake each other.
THEOREM EventsStayInOrder == Spec => HeardInOrder
<1>1. TypeOK /\ Serialized /\ [Next]_vars =>
        [/\ heardWorkspace'.at >= heardWorkspace.at \/ heardWorkspace'.at = 0
         /\ \A o \in OpId : Rank(heardOp'[o]) >= Rank(heardOp[o])]_vars
  <2> SUFFICES ASSUME TypeOK, Serialized, Next
               PROVE  /\ heardWorkspace'.at >= heardWorkspace.at \/ heardWorkspace'.at = 0
                      /\ \A o \in OpId : Rank(heardOp'[o]) >= Rank(heardOp[o])
    OBVIOUS
  <2>1. /\ heardWorkspace.at \in Nat /\ heardWorkspace.at <= commits /\ commits \in Nat
        /\ \A o \in OpId : Rank(heardOp[o]) \in Nat /\ Rank(heardOp[o]) <= Rank(ops[o])
    BY RankIsBounded DEF TypeOK, Serialized, HeardIsCommitted
  <2>2. ASSUME NEW o \in OpId, EmitWorkspace(o)
        PROVE  heardOp' = heardOp /\ heardWorkspace'.at = commits
    BY <2>2 DEF EmitWorkspace, Serialized, AnnouncesRows
  <2>3. ASSUME NEW o \in OpId, EmitOperation(o)
        PROVE  heardOp' = [heardOp EXCEPT ![o] = ops[o]] /\ heardWorkspace' = heardWorkspace
    BY <2>3 DEF EmitOperation, Serialized, AnnouncesRows, Emitting
  <2>4. \/ \E o \in OpId : EmitWorkspace(o) \/ EmitOperation(o)
        \/ heardOp' = heardOp /\ heardWorkspace'.at \in {heardWorkspace.at, 0}
    <3>1. ASSUME CreateWorkspace \/ AnnounceCreated \/ DeleteWorkspace \/ AnnounceDeleted
          PROVE  heardOp' = heardOp /\ heardWorkspace'.at \in {heardWorkspace.at, 0}
      BY <3>1 DEF CreateWorkspace, AnnounceCreated, DeleteWorkspace, AnnounceDeleted, heard
    <3>2. ASSUME NEW o \in OpId,
                 \/ Lock(o) \/ Commit(o) \/ Refused(o) \/ Proceed(o) \/ Deadline(o)
                 \/ DeadlineInCommit(o) \/ Supervise(o)
                 \/ \E kind \in {"provision", "cleanup"} : Request(o, kind)
          PROVE  heardOp' = heardOp /\ heardWorkspace' = heardWorkspace
      BY <3>2
      DEF Lock, Commit, Refused, Request, Proceed, Deadline, DeadlineInCommit, Supervise, heard
    <3> QED BY <3>1, <3>2 DEF Next, SaveStep
  <2>5. CASE heardOp' = heardOp /\ heardWorkspace'.at \in {heardWorkspace.at, 0}
    BY <2>1, <2>5
  <2>6. ASSUME NEW o \in OpId, EmitWorkspace(o) \/ EmitOperation(o)
        PROVE  /\ heardWorkspace'.at >= heardWorkspace.at
               /\ \A p \in OpId : Rank(heardOp'[p]) >= Rank(heardOp[p])
    <3>1. \A p \in OpId : heardOp'[p] \in {heardOp[p], ops[p]}
      BY <2>2, <2>3, <2>6 DEF TypeOK
    <3>2. \A p \in OpId : Rank(ops[p]) \in Nat
      BY RankIsBounded DEF TypeOK
    <3>3. heardWorkspace'.at \in {heardWorkspace.at, commits}
      BY <2>2, <2>3, <2>6
    <3> QED BY <2>1, <3>1, <3>2, <3>3
  <2> QED BY <2>4, <2>5, <2>6
<1> QED
  BY <1>1, TransitionsAreTyped, InitIsSerialized, StepIsSerialized, PTL DEF Spec, HeardInOrder

-----------------------------------------------------------------------------
(* What a listener may hear after a deletion.                                *)

\* A listener that was told of the deletion, or will be, was told the truth.
ToldOfDeletion == heardDeleted \/ "deleted" \in announcing => workspace = "deleted"

\* A deleted workspace has no runtime and no operation that could give it one.
DeletedIsSettled ==
    workspace = "deleted" => runtime = "none" /\ \A o \in OpId : ops[o].state # "running"

\* Who is about to save has a new operation or a running one.
SaversMayWrite ==
    \A o \in OpId : writer[o].pc \in {"lock", "commit"} => ops[o] = Unknown \/ ops[o].state = "running"

\* The state of a runtime that is about to be announced is that of its row.
AnnouncesRuntime == \A o \in OpId : writer[o].pc = "emit_workspace" => RuntimeWith(writer[o].op) = runtime

BareOnceDeleted == ToldOfDeletion /\ DeletedIsSettled /\ SaversMayWrite /\ AnnouncesRuntime

\* A COMMIT finds a workspace that is not deleted: a deletion waits for running operations, and a
\* new operation is refused after it.
LEMMA CommitStaysBare ==
    ASSUME TypeOK, Serialized, BareOnceDeleted, NEW o \in OpId, Commit(o) \/ DeadlineInCommit(o)
    PROVE  BareOnceDeleted'
<1>1. /\ writer[o].pc = "commit" /\ coordinator = o /\ Accepted(o)
      /\ ops' = [ops EXCEPT ![o] = writer[o].op] /\ runtime' = RuntimeWith(writer[o].op)
      /\ UNCHANGED <<workspace, heardDeleted, announcing>>
  BY DEF Commit, DeadlineInCommit, Written, heard, Serialized, HoldsCoordinator
<1>2. workspace # "deleted"
  <2>1. CASE ops[o] = Unknown
    BY <1>1, <2>1 DEF Accepted
  <2>2. CASE ops[o].state = "running"
    BY <2>2 DEF BareOnceDeleted, DeletedIsSettled
  <2> QED BY <1>1, <2>1, <2>2 DEF BareOnceDeleted, SaversMayWrite
<1>3. \A p \in OpId : p # o => /\ ops'[p] = ops[p] /\ writer'[p] = writer[p]
                               /\ writer[p].pc # "emit_workspace"
  <2>1. \A p \in OpId : p # o => ops'[p] = ops[p] /\ writer'[p] = writer[p]
    BY <1>1 DEF Commit, DeadlineInCommit, Supervised, TypeOK
  <2>2. \A p \in OpId : p # o => writer[p].pc # "emit_workspace"
    BY <1>1 DEF Serialized, HoldsCoordinator, Emitting
  <2> QED BY <2>1, <2>2
<1>4. writer'[o].pc \in {"emit_workspace", "load"} /\ (writer'[o].pc = "emit_workspace" => writer'[o].op = writer[o].op)
  <2>1. CASE Commit(o)
    BY <2>1 DEF Commit, TypeOK, Writer
  <2>2. CASE DeadlineInCommit(o)
    BY <2>2, SupervisorLoads DEF DeadlineInCommit
  <2> QED BY <2>1, <2>2
<1>5. ToldOfDeletion' /\ DeletedIsSettled'
  BY <1>1, <1>2 DEF BareOnceDeleted, ToldOfDeletion, DeletedIsSettled
<1>6. SaversMayWrite'
  BY <1>3, <1>4 DEF BareOnceDeleted, SaversMayWrite
<1>7. AnnouncesRuntime'
  BY <1>1, <1>3, <1>4 DEF AnnouncesRuntime, RuntimeWith
<1> QED BY <1>5, <1>6, <1>7 DEF BareOnceDeleted

\* A writer that touches no row keeps the invariant, if it does not begin to save a finished
\* operation.
LEMMA OtherMovesStayBare ==
    ASSUME TypeOK, Serialized, BareOnceDeleted, NEW o \in OpId,
           \/ Lock(o) \/ Refused(o) \/ EmitWorkspace(o) \/ EmitOperation(o)
           \/ Proceed(o) \/ Deadline(o) \/ Supervise(o)
           \/ \E kind \in {"provision", "cleanup"} : Request(o, kind)
    PROVE  BareOnceDeleted'
<1>1. UNCHANGED <<workspace, runtime, ops, heardDeleted, announcing>>
  BY DEF Lock, Refused, EmitWorkspace, EmitOperation, Proceed, Deadline, Supervise, Request, rows, heard
<1>2. \A p \in OpId : p # o => writer'[p] = writer[p]
  BY DEF Lock, Refused, EmitWorkspace, EmitOperation, Proceed, Deadline, Supervise, Request, Supervised, Saves, TypeOK
<1>3. writer'[o].pc # "emit_workspace"
  <2>1. CASE Lock(o)
    BY <2>1 DEF Lock, TypeOK, Writer
  <2>2. CASE Refused(o) \/ Deadline(o)
    <3>1. CASE Supervised(o)
      BY <3>1, SupervisorLoads
    <3>2. CASE writer' = [writer EXCEPT ![o] = Inactive]
      BY <3>2 DEF Inactive, TypeOK
    <3> QED BY <2>2, <3>1, <3>2 DEF Refused, Deadline
  <2>3. CASE EmitWorkspace(o)
    BY <2>3 DEF EmitWorkspace, TypeOK, Writer
  <2>4. CASE EmitOperation(o)
    BY <2>4 DEF EmitOperation, Inactive, TypeOK, Writer
  <2>5. CASE Proceed(o) \/ Supervise(o) \/ \E kind \in {"provision", "cleanup"} : Request(o, kind)
    BY <2>5 DEF Proceed, Supervise, Request, Saves, Inactive, TypeOK
  <2> QED BY <2>1, <2>2, <2>3, <2>4, <2>5
<1>4. writer'[o].pc \in {"lock", "commit"} => ops[o] = Unknown \/ ops[o].state = "running"
  <2>1. CASE Lock(o)
    BY <2>1 DEF Lock, BareOnceDeleted, SaversMayWrite
  <2>2. CASE Refused(o) \/ Deadline(o)
    <3>1. CASE Supervised(o)
      BY <3>1, SupervisorLoads
    <3>2. CASE writer' = [writer EXCEPT ![o] = Inactive]
      BY <3>2 DEF Inactive, TypeOK
    <3> QED BY <2>2, <3>1, <3>2 DEF Refused, Deadline
  <2>3. CASE EmitWorkspace(o)
    BY <2>3 DEF EmitWorkspace, TypeOK, Writer
  <2>4. CASE EmitOperation(o)
    BY <2>4 DEF EmitOperation, Inactive, TypeOK, Writer
  <2>5. CASE Proceed(o)
    BY <2>5 DEF Proceed, Serialized, WritesAhead
  <2>6. CASE Supervise(o)
    BY <2>6 DEF Supervise, Inactive, TypeOK
  <2>7. CASE \E kind \in {"provision", "cleanup"} : Request(o, kind)
    BY <2>7 DEF Request
  <2> QED BY <2>1, <2>2, <2>3, <2>4, <2>5, <2>6, <2>7
<1>5. ToldOfDeletion' /\ DeletedIsSettled'
  BY <1>1 DEF BareOnceDeleted, ToldOfDeletion, DeletedIsSettled
<1>6. SaversMayWrite' /\ AnnouncesRuntime'
  BY <1>1, <1>2, <1>3, <1>4 DEF BareOnceDeleted, SaversMayWrite, AnnouncesRuntime, RuntimeWith
<1> QED BY <1>5, <1>6 DEF BareOnceDeleted

\* The workspace service deletes only what is bare.
LEMMA ServiceStaysBare ==
    ASSUME TypeOK, BareOnceDeleted, CreateWorkspace \/ AnnounceCreated \/ DeleteWorkspace \/ AnnounceDeleted
    PROVE  BareOnceDeleted'
<1>1. UNCHANGED <<runtime, ops, writer>>
  BY DEF CreateWorkspace, AnnounceCreated, DeleteWorkspace, AnnounceDeleted, rows
<1>2. SaversMayWrite' /\ AnnouncesRuntime'
  BY <1>1 DEF BareOnceDeleted, SaversMayWrite, AnnouncesRuntime, RuntimeWith
<1>3. ToldOfDeletion'
  BY DEF BareOnceDeleted, ToldOfDeletion, CreateWorkspace, AnnounceCreated, DeleteWorkspace, AnnounceDeleted, rows, heard
<1>4. DeletedIsSettled'
  BY <1>1 DEF BareOnceDeleted, DeletedIsSettled, CreateWorkspace, AnnounceCreated, DeleteWorkspace, AnnounceDeleted, rows
<1> QED BY <1>2, <1>3, <1>4 DEF BareOnceDeleted

\* Every step keeps the invariant.
LEMMA StepStaysBare == TypeOK /\ Serialized /\ BareOnceDeleted /\ [Next]_vars => BareOnceDeleted'
<1> SUFFICES ASSUME TypeOK, Serialized, BareOnceDeleted, [Next]_vars PROVE BareOnceDeleted'
  OBVIOUS
<1>1. CASE UNCHANGED vars
  BY <1>1 DEF BareOnceDeleted, ToldOfDeletion, DeletedIsSettled, SaversMayWrite, AnnouncesRuntime, RuntimeWith,
              vars, rows, heard
<1>2. ASSUME NEW o \in OpId, Commit(o) \/ DeadlineInCommit(o) PROVE BareOnceDeleted'
  BY <1>2, CommitStaysBare
<1>3. ASSUME NEW o \in OpId,
             \/ Lock(o) \/ Refused(o) \/ EmitWorkspace(o) \/ EmitOperation(o)
             \/ Proceed(o) \/ Deadline(o) \/ Supervise(o)
             \/ \E kind \in {"provision", "cleanup"} : Request(o, kind)
      PROVE  BareOnceDeleted'
  BY <1>3, OtherMovesStayBare
<1>4. CASE CreateWorkspace \/ AnnounceCreated \/ DeleteWorkspace \/ AnnounceDeleted
  BY <1>4, ServiceStaysBare
<1> QED BY <1>1, <1>2, <1>3, <1>4 DEF Next, SaveStep

\* A workspace that a listener was told is deleted is announced again only without a runtime, although
\* the deletion does not wait for the coordinator: the last save of a runtime that is gone may still
\* have its event to emit.
THEOREM RevivedStaysBare == Spec => RevivedOnlyBare
<1>1. Init => BareOnceDeleted
  BY DEF Init, BareOnceDeleted, ToldOfDeletion, DeletedIsSettled, SaversMayWrite, AnnouncesRuntime, Inactive
<1>2. TypeOK /\ BareOnceDeleted /\ [Next]_vars =>
        [heardDeleted /\ heardWorkspace' # heardWorkspace => heardWorkspace'.runtime = "none"]_vars
  <2> SUFFICES ASSUME TypeOK, BareOnceDeleted, Next, heardDeleted, heardWorkspace' # heardWorkspace
               PROVE  heardWorkspace'.runtime = "none"
    OBVIOUS
  <2>1. AnnounceCreated \/ \E o \in OpId : EmitWorkspace(o)
    BY DEF Next, SaveStep, CreateWorkspace, DeleteWorkspace, AnnounceDeleted, Lock, Commit, Refused, EmitOperation,
           Request, Proceed, Deadline, DeadlineInCommit, Supervise, heard
  <2>2. CASE AnnounceCreated
    BY <2>2 DEF AnnounceCreated
  <2>3. ASSUME NEW o \in OpId, EmitWorkspace(o) PROVE heardWorkspace'.runtime = "none"
    <3>1. RuntimeWith(writer[o].op) = runtime /\ runtime = "none"
      BY <2>3 DEF EmitWorkspace, BareOnceDeleted, ToldOfDeletion, DeletedIsSettled, AnnouncesRuntime
    <3> QED BY <2>3, <3>1 DEF EmitWorkspace
  <2> QED BY <2>1, <2>2, <2>3
<1> QED
  BY <1>1, <1>2, TransitionsAreTyped, InitIsSerialized, StepIsSerialized, StepStaysBare, PTL
  DEF Spec, RevivedOnlyBare
=============================================================================
