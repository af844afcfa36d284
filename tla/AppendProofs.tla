----------------------------- MODULE AppendProofs -----------------------------
(***************************************************************************)
(* The proofs about AppendManager: its inductive invariant, what follows   *)
(* from it, that the manager implements ReplicatedProject, and that every  *)
(* variable keeps its type.                                                *)
(***************************************************************************)
EXTENDS AppendProperties, TLAPS

USE MaxSeqAssumption, EntitiesAssumption
    DEF RecordingInv, CoreTypeOK, TrackerTypeOK, SequenceNumbers,
        AppliedWithinOneOfRecorded, MemoryFollowsBucket, NextIsPublished,
        AppliedByThen, SignalledAreHarmless, Working, AfterAppend

\* The variables RecordingInv speaks of.
coreVars == <<trackerVars, children, signalled, applied, pc>>

\* A new process that has read nothing yet satisfies the inductive invariant.
LEMMA RecordingInit == Init => RecordingInv
  BY DEF Init, TrackerInit, RunnerInit, NoChildren, ChildStates, Awaits, DEFAULT_SEQUENCE_NUMBER

\* A step that leaves the core variables alone keeps it.
LEMMA RecordingStutter == RecordingInv /\ UNCHANGED coreVars => RecordingInv'
  BY DEF coreVars, trackerVars

\* The end of a process: awaited children become signalled children of the next
\* diff; there are some only while the manager is in "append".
LEMMA RecordingExit ==
  ASSUME RecordingInv, NEW code, NEW lockAfter, NEW action, Exit(code, lockAfter, action)
  PROVE  RecordingInv'
  BY DEF Exit, abandonChildren, nextState, NoChildren, Alive, trackerVars, ChildStates, Awaits

\* The steps around an attempt.
LEMMA RecordingLoop == RecordingInv /\ Loop => RecordingInv'
<1> SUFFICES ASSUME RecordingInv, Loop PROVE RecordingInv'
  OBVIOUS
<1> USE RecordingExit DEF At, Goto, trackerVars, runnerVars, Awaits
<1>1. CASE Prepare
  BY <1>1 DEF Prepare, Throw
<1>2. CASE Reserve
  BY <1>2 DEF Reserve, Throw
<1>3. CASE GetStart
  BY <1>3 DEF GetStart, Throw, getStartSequenceNumber
<1>4. CASE GetReplication
  BY <1>4 DEF GetReplication, Throw, getReplicationSequenceNumber
<1>5. CASE UnlockIdle
  BY <1>5 DEF UnlockIdle, MediatorCallFails
<1>6. CASE CreateAction
  BY <1>6 DEF CreateAction, MediatorCallFails
<1>7. CASE Unlock
  BY <1>7 DEF Unlock, MediatorCallFails
<1>8. CASE CompleteAction
  BY <1>8 DEF CompleteAction, MediatorCallFails, NextIteration, abandonChildren,
              nextState, NoChildren, Alive, ChildStates
<1>9. CASE FailAction
  BY <1>9 DEF FailAction, MediatorCallFails
<1>10. CASE Wait
  BY <1>10 DEF Wait, NextIteration, abandonChildren, nextState, NoChildren, Alive, ChildStates
<1> QED
  BY <1>1, <1>2, <1>3, <1>4, <1>5, <1>6, <1>7, <1>8, <1>9, <1>10 DEF Loop

\* The steps of appendProcedure.
LEMMA RecordingProcedure == RecordingInv /\ Procedure => RecordingInv'
<1> SUFFICES ASSUME RecordingInv, Procedure PROVE RecordingInv'
  OBVIOUS
<1> USE DEF At, Goto, Reject, trackerVars, runnerVars, Awaits
<1>1. CASE PreStatus
  BY <1>1 DEF PreStatus
<1>2. CASE GetDiff
  BY <1>2 DEF GetDiff, nextState
<1>3. CASE SimplifyDiff
  BY <1>3 DEF SimplifyDiff, spawnAll, nextState, ChildStates
<1>4. CASE UnlinkDiffs
  BY <1>4 DEF UnlinkDiffs
<1>5. CASE UpdateTimestamp
  BY <1>5 DEF UpdateTimestamp, ToUpload, putStateContent, bumpState, nextState
<1>6. CASE PostStatus
  BY <1>6 DEF PostStatus
<1>7. CASE PostEnrollment
  BY <1>7 DEF PostEnrollment, ToUpload, bumpState, nextState
<1>8. CASE UpdateState
  BY <1>8 DEF UpdateState, putStateContent
<1> QED
  BY <1>1, <1>2, <1>3, <1>4, <1>5, <1>6, <1>7, <1>8 DEF Procedure

\* The exits of the awaited children.
LEMMA RecordingChildren == RecordingInv /\ Children => RecordingInv'
<1> SUFFICES ASSUME RecordingInv, NEW e \in Entities, ChildSucceeds(e) \/ ChildFails(e)
             PROVE  RecordingInv'
  BY DEF Children
<1> USE DEF At, Goto, Reject, trackerVars, Awaits, ChildStates, commit, nextState, Alive
<1>1. CASE ChildSucceeds(e)
  BY <1>1 DEF ChildSucceeds, childSucceeds
<1>2. CASE ChildFails(e)
  BY <1>2 DEF ChildFails, childFails, NoChildren
<1> QED
  BY <1>1, <1>2

\* The upload tasks touch the core only when the last awaited one is done.
LEMMA RecordingTask == RecordingInv /\ Task => RecordingInv'
<1> SUFFICES ASSUME RecordingInv, NEW t \in uploadTasks,
                    \/ TaskReads(t) \/ TaskPut(t) \/ TaskPush(t)
                    \/ TaskUnlinks(t) \/ TaskRejects(t) \/ TaskBreaks(t)
             PROVE  RecordingInv'
  BY DEF Task
<1>1. ASSUME AfterTask(t), TaskFrame PROVE RecordingInv'
  BY <1>1 DEF AfterTask, TaskFrame, Awaited, At, Goto, bumpState, nextState, Awaits
<1>2. CASE TaskRejects(t)
  BY <1>2 DEF TaskRejects, TaskFrame, Awaited, At, Reject, Awaits
<1>3. CASE TaskBreaks(t)
  BY <1>3, RecordingExit DEF TaskBreaks, Throw
<1> QED
  BY <1>1, <1>2, <1>3 DEF TaskReads, TaskPut, TaskPush, TaskUnlinks

\* The steps of everything around the manager.
LEMMA RecordingEnvironment == RecordingInv /\ Environment => RecordingInv'
<1> SUFFICES ASSUME RecordingInv, Environment PROVE RecordingInv'
  OBVIOUS
<1> USE DEF trackerVars, runnerVars, controlVars, Awaits, ChildStates
<1>1. CASE SourcePublishes
  BY <1>1 DEF SourcePublishes, Publish
<1>2. CASE SignalledEnds
  BY <1>2 DEF SignalledEnds, signalledEnds, commit
<1>3. CASE LockExpires
  BY <1>3 DEF LockExpires
<1>4. CASE Sigterm \/ CleanUp
  BY <1>4 DEF Sigterm, CleanUp, interruptChildren
<1>5. CASE TerminusEnds
  BY <1>5, RecordingExit DEF TerminusEnds, Throw
<1>6. CASE Crash
  BY <1>6, RecordingExit DEF Crash, Throw
<1>7. CASE Restart
  BY <1>7 DEF Restart, restartTracker, DEFAULT_SEQUENCE_NUMBER
<1> QED
  BY <1>1, <1>2, <1>3, <1>4, <1>5, <1>6, <1>7 DEF Environment

\* Every step of the specification keeps the inductive invariant.
LEMMA RecordingStep == RecordingInv /\ [Next]_vars => RecordingInv'
<1> SUFFICES ASSUME RecordingInv, [Next]_vars PROVE RecordingInv'
  OBVIOUS
<1>1. CASE Finished \/ Stalled \/ UNCHANGED vars
  BY <1>1, RecordingStutter DEF Finished, Stalled, vars, coreVars, runnerVars, controlVars
<1> QED
  BY <1>1, RecordingLoop, RecordingProcedure, RecordingChildren, RecordingTask,
     RecordingEnvironment DEF Next

\* The inductive invariant holds for any entities, any number of diffs and any
\* number of faults: what the manager has in memory, what its children have
\* committed and what state.txt says agree at every await (appendProcedure,
\* StateTracker, terminateChildren).
THEOREM Recording == Safe => []RecordingInv
<1>1. RecordingInv /\ [Next]_vars => RecordingInv'
  BY RecordingStep
<1> QED
  BY RecordingInit, <1>1, PTL DEF Safe

\* For any entities, any number of diffs and any number of faults: the database is
\* at the recorded state or one diff further, for every entity and at every moment
\* (appendProcedure applies, then records).
THEOREM AppliedFollowsRecorded == Safe => []AppliedWithinOneOfRecorded
<1>1. RecordingInv => AppliedWithinOneOfRecorded
  OBVIOUS
<1> QED
  BY <1>1, Recording, PTL

--------------------------------------------------------------------------------
(* The manager implements the project.                                     *)

\* The variables of the project.
projectVars == <<published, applied, bucket>>

\* The first state is a first state of the project.
LEMMA ProjectInit == Init => Project!Init
  BY DEF Init, TrackerInit, RunnerInit, Project!Init

\* An exit and a failed attempt change nothing of the project.
LEMMA ExitStutters ==
  ASSUME NEW code, NEW lockAfter, NEW action, Exit(code, lockAfter, action)
  PROVE  UNCHANGED projectVars
  BY DEF Exit, abandonChildren, trackerVars, projectVars

\* A commit of the next diff is a step of the project.
LEMMA CommitApplies ==
  ASSUME RecordingInv, NEW e \in Entities, NEW seq, seq = bucket + 1, bucket < published,
         commit(e, seq), UNCHANGED <<published, bucket>>
  PROVE  Project!Next
  BY DEF commit, Project!Next, Project!Advance, Project!Apply

\* Reading the states, the lock and the action change nothing of the project.
LEMMA LoopStutters == RecordingInv /\ Loop => UNCHANGED projectVars
<1> SUFFICES ASSUME RecordingInv, Loop PROVE UNCHANGED projectVars
  OBVIOUS
<1> USE ExitStutters DEF projectVars, trackerVars, runnerVars, Throw, MediatorCallFails,
        NextIteration, abandonChildren
<1>1. CASE Prepare \/ Reserve \/ GetStart \/ GetReplication
  BY <1>1 DEF Prepare, Reserve, GetStart, GetReplication, getStartSequenceNumber,
              getReplicationSequenceNumber
<1>2. CASE UnlockIdle \/ CreateAction \/ Unlock
  BY <1>2 DEF UnlockIdle, CreateAction, Unlock
<1>3. CASE CompleteAction \/ FailAction \/ Wait
  BY <1>3 DEF CompleteAction, FailAction, Wait
<1> QED
  BY <1>1, <1>2, <1>3 DEF Loop

\* Of the steps of appendProcedure, only the put of state.txt is one of the project.
LEMMA ProcedureRefines ==
  RecordingInv /\ Procedure => Project!Next \/ UNCHANGED projectVars
<1> SUFFICES ASSUME RecordingInv, Procedure PROVE Project!Next \/ UNCHANGED projectVars
  OBVIOUS
<1> USE DEF projectVars, trackerVars, runnerVars, At
<1>1. CASE PreStatus \/ GetDiff \/ SimplifyDiff \/ UnlinkDiffs \/ PostStatus
  BY <1>1 DEF PreStatus, GetDiff, SimplifyDiff, spawnAll, UnlinkDiffs, PostStatus
<1>2. CASE UpdateTimestamp
  BY <1>2 DEF UpdateTimestamp, putStateContent
<1>3. CASE PostEnrollment
  BY <1>3 DEF PostEnrollment
<1>4. CASE UpdateState
  BY <1>4 DEF UpdateState, putStateContent, Project!Next, Project!Advance, Project!Record
<1> QED
  BY <1>1, <1>2, <1>3, <1>4 DEF Procedure

\* A child that commits applies the next diff; any other leaves the project alone.
LEMMA ChildrenRefine == RecordingInv /\ Children => Project!Next \/ UNCHANGED projectVars
<1> SUFFICES ASSUME RecordingInv, NEW e \in Entities, ChildSucceeds(e) \/ ChildFails(e)
             PROVE  Project!Next \/ UNCHANGED projectVars
  BY DEF Children
<1>1. nextState = bucket + 1 /\ bucket < published /\ UNCHANGED <<published, bucket>>
  BY DEF ChildSucceeds, ChildFails, At, nextState, trackerVars
<1>2. commit(e, nextState) \/ UNCHANGED applied
  BY DEF ChildSucceeds, childSucceeds, ChildFails, childFails
<1> QED
  BY <1>1, <1>2, CommitApplies DEF projectVars

\* An upload changes nothing of the project.
LEMMA TaskStutters == Task => UNCHANGED projectVars
  BY ExitStutters DEF Task, TaskReads, TaskPut, TaskPush, TaskUnlinks, TaskRejects, TaskBreaks,
     TaskFrame, Throw, projectVars

\* A late commit of a signalled child applies the next diff or repeats the recorded
\* one; signals, crashes and restarts change nothing of the project.
LEMMA EnvironmentRefines ==
  RecordingInv /\ Environment => Project!Next \/ UNCHANGED projectVars
<1> SUFFICES ASSUME RecordingInv, Environment PROVE Project!Next \/ UNCHANGED projectVars
  OBVIOUS
<1> USE DEF projectVars, trackerVars, runnerVars
<1>1. CASE SourcePublishes
  BY <1>1 DEF SourcePublishes, Publish, Project!Next, Project!Publish
<1>2. CASE SignalledEnds
  <2>1. PICK d \in signalled, committed \in BOOLEAN : signalledEnds(d, committed)
    BY <1>2 DEF SignalledEnds
  <2>2. UNCHANGED <<published, bucket>> /\ d[1] \in Entities
    BY <1>2, <2>1 DEF SignalledEnds
  <2>3. CASE ~committed
    BY <2>1, <2>2, <2>3 DEF signalledEnds
  <2>4. CASE committed /\ d[2] = bucket + 1
    BY <2>1, <2>2, <2>4, CommitApplies DEF signalledEnds
  <2>5. CASE committed /\ d[2] = bucket
    \* The diff is recorded: the late commit repeats what every table contains.
    BY <2>1, <2>2, <2>5 DEF signalledEnds, commit
  <2> QED
    BY <2>1, <2>3, <2>4, <2>5
<1>3. CASE LockExpires \/ Sigterm \/ CleanUp \/ TerminusEnds \/ Crash \/ Restart
  BY <1>3, ExitStutters DEF LockExpires, Sigterm, CleanUp, interruptChildren, TerminusEnds,
     Crash, Throw, Restart, restartTracker
<1> QED
  BY <1>1, <1>2, <1>3 DEF Environment

\* The append command implements the project: whatever fails, whenever the process
\* dies and whoever commits late, state.txt moves by one, to a published diff that
\* every entity contains, and no other diff ever reaches the tables.
THEOREM ManagerImplementsProject == Safe => ImplementsProject
<1>1. RecordingInv /\ [Next]_vars => [Project!Next]_(Project!vars)
  <2> SUFFICES ASSUME RecordingInv, [Next]_vars PROVE Project!Next \/ UNCHANGED projectVars
    BY DEF Project!vars, projectVars
  <2>1. CASE Finished \/ Stalled \/ UNCHANGED vars
    BY <2>1 DEF Finished, Stalled, vars, trackerVars, runnerVars, projectVars
  <2> QED
    BY <2>1, LoopStutters, ProcedureRefines, ChildrenRefine, TaskStutters, EnvironmentRefines
       DEF Next
<1> QED
  BY <1>1, ProjectInit, Recording, PTL DEF Safe, ImplementsProject, Project!Safe

--------------------------------------------------------------------------------
(* The types of every variable.  What is filed, enrolled or expired        *)
(* carries the next state, whose range follows from RecordingInv.          *)

HIDE DEF RecordingInv, CoreTypeOK, TrackerTypeOK, SequenceNumbers,
         AppliedWithinOneOfRecorded, MemoryFollowsBucket, NextIsPublished,
         AppliedByThen, SignalledAreHarmless, Working, AfterAppend

USE UploadTargetsAssumption, RoundsAssumption, MaxFaultsAssumption, MediatorAssumption

\* The next state is a published number from the append to updateRemoteState.
LEMMA NextStateInRange ==
  RecordingInv /\ pc \in {"append"} \cup AfterAppend => nextState \in SequenceNumbers
  BY DEF RecordingInv, CoreTypeOK, TrackerTypeOK, SequenceNumbers, MemoryFollowsBucket,
         NextIsPublished, Working, AfterAppend, nextState

\* At any other moment it is one more than a number or than the default.
LEMMA NextStateIsNumber == CoreTypeOK => nextState \in 0 .. MaxSeq + 1
  BY DEF CoreTypeOK, TrackerTypeOK, SequenceNumbers, nextState, DEFAULT_SEQUENCE_NUMBER

\* A commit leaves an expire list of an entity and a diff.
LEMMA CommitFilesTyped ==
  ASSUME expireFiles \subseteq Entities \X SequenceNumbers,
         NEW e \in Entities, NEW seq \in SequenceNumbers, commit(e, seq)
  PROVE  expireFiles' \subseteq Entities \X SequenceNumbers
  BY DEF commit

\* A commit of a diff is a change with an entity and a diff.
LEMMA ChangeTyped ==
  ASSUME ServiceTypeOK, NEW e \in Entities, NEW seq \in SequenceNumbers,
         recordChange(e, seq), UNCHANGED mediatorVars
  PROVE  ServiceTypeOK'
  BY DEF ServiceTypeOK, recordChange, mediatorVars

\* The types of the control variables survive a step to a call.
LEMMA GotoTyped ==
  ASSUME ControlTypeOK, NEW call, Goto(call), NoFault \/ Fault
  PROVE  ControlTypeOK'
  BY DEF ControlTypeOK, Goto, NoFault, Fault

\* And a rejection with an exit code.
LEMMA RejectTyped ==
  ASSUME ControlTypeOK, NEW code \in ExitCodes, Reject(code), NoFault \/ Fault
  PROVE  ControlTypeOK'
  BY DEF ControlTypeOK, Reject, NoFault, Fault

\* The end of a process keeps the types of the uploads, the services and the control.
LEMMA ExitTyped ==
  ASSUME TypeOK, NEW code \in ExitCodes, NEW lockAfter \in {"free", "ours", "left"},
         NEW action \in {NoAction} \cup 0 .. MaxSeq + 1,
         Exit(code, lockAfter, action), NoFault \/ Fault
  PROVE  UploadTypeOK' /\ ServiceTypeOK' /\ ControlTypeOK'
<1>1. UploadTypeOK'
  BY DEF TypeOK, UploadTypeOK, Exit, dropTasks, abandonChildren
<1>2. ServiceTypeOK'
  BY DEF TypeOK, ServiceTypeOK, Exit, abandon, mdrVars, NoAction
<1>3. ControlTypeOK'
  BY DEF TypeOK, ControlTypeOK, Exit, NoFault, Fault
<1> QED
  BY <1>1, <1>2, <1>3

--------------------------------------------------------------------------------
(* The upload tasks.                                                       *)

\* A task with what it still has to serve is a task again, or none.
LEMMA ServeTyped ==
  ASSUME CoreTypeOK, NEW t \in TaskRecord, NEW todo \in Seq({"s3", "queue"}),
         NEW u \in serve(t, todo)
  PROVE  /\ u \in TaskRecord
         /\ u.stage \in {"open", "read", "put", "push"} => u.todo # <<>>
<1> USE NextStateIsNumber DEF TaskRecord, Stages, Labels
<1>1. CASE todo = <<>> /\ fileExists(t)
  BY <1>1 DEF serve
<1>2. CASE todo = <<>> /\ ~fileExists(t)
  BY <1>2 DEF serve
<1>3. CASE todo # <<>> /\ Head(todo) = "s3"
  BY <1>3 DEF serve
<1>4. CASE todo # <<>> /\ Head(todo) # "s3"
  BY <1>4 DEF serve
<1> QED
  BY <1>1, <1>2, <1>3, <1>4

\* What the bucket and the queue hold.
FiledTypeOK ==
  /\ expireLists \in [Entities -> [Labels -> SequenceNumbers \cup {NoList}]]
  /\ puts \subseteq Labelled
  /\ jobs \subseteq Labelled

\* Tasks that are replaced by typed tasks stay typed.
LEMMA ReplaceTyped ==
  ASSUME UploadTypeOK, NEW t, NEW new,
         \A u \in new : /\ u \in TaskRecord
                        /\ u.stage \in {"open", "read", "put", "push"} => u.todo # <<>>,
         uploadTasks' = replaceTask(t, new), UNCHANGED attempt,
         expireFiles' \subseteq Entities \X SequenceNumbers, FiledTypeOK'
  PROVE  UploadTypeOK'
  BY DEF UploadTypeOK, FiledTypeOK, replaceTask

\* The starting of the tasks of an attempt.
LEMMA StartTyped ==
  ASSUME UploadTypeOK, NEW seq \in SequenceNumbers, startUploads(seq), UNCHANGED expireFiles
  PROVE  UploadTypeOK'
<1>1. attempt' \in Rounds
  BY DEF startUploads, FreeRounds
<1>2. UNCHANGED <<expireLists, puts, jobs>>
  BY DEF startUploads
<1>3. \A t \in uploadTasks' \ uploadTasks : t \in TaskRecord /\ t.stage = "lines"
  <2> SUFFICES ASSUME NEW t \in uploadTasks' \ uploadTasks
               PROVE  t \in TaskRecord /\ t.stage = "lines"
    OBVIOUS
  <2>1. PICK e \in Entities :
          t = [entity |-> e, seq |-> seq, attempt |-> attempt', stage |-> "lines",
               todo |-> UploadTargets, label |-> 0]
    BY DEF startUploads, Pending
  <2> QED
    BY <1>1, <2>1 DEF TaskRecord, Stages, Labels
<1> QED
  BY <1>1, <1>2, <1>3 DEF UploadTypeOK

\* What a task files is a list of its entity under a label.
LEMMA FiledTyped ==
  ASSUME NEW t \in TaskRecord
  PROVE  listOf(t) \in Labelled
  BY DEF listOf, Labelled, TaskRecord

\* A put leaves a list of its entity under its label.
LEMMA PutTyped ==
  ASSUME UploadTypeOK, NEW t \in TaskRecord, putObject(t), UNCHANGED jobs
  PROVE  FiledTypeOK'
<1>1. t.entity \in Entities /\ t.label \in Labels /\ t.seq \in SequenceNumbers
  BY DEF TaskRecord
<1>2. expireLists' \in [Entities -> [Labels -> SequenceNumbers \cup {NoList}]]
  BY <1>1 DEF putObject, UploadTypeOK
<1> QED
  BY <1>2, FiledTyped DEF putObject, UploadTypeOK, FiledTypeOK

\* The steps of a task that neither rejects nor breaks.
LEMMA TaskMovesTyped ==
  ASSUME TypeOK, NEW t \in uploadTasks,
         TaskReads(t) \/ TaskPut(t) \/ TaskPush(t) \/ TaskUnlinks(t)
  PROVE  UploadTypeOK'
<1>0. t \in TaskRecord /\ CoreTypeOK /\ UploadTypeOK
      /\ (t.stage \in {"open", "read", "put", "push"} => t.todo # <<>>)
  BY DEF TypeOK, UploadTypeOK
<1>1. t.todo \in Seq({"s3", "queue"}) /\ (t.todo # <<>> => Tail(t.todo) \in Seq({"s3", "queue"}))
  BY <1>0 DEF TaskRecord
<1>f. UNCHANGED <<expireLists, puts, jobs>> => FiledTypeOK'
  BY <1>0 DEF UploadTypeOK, FiledTypeOK
<1>2. CASE linesRead(t)
  BY <1>0, <1>1, <1>2, <1>f, ServeTyped, ReplaceTyped DEF linesRead, UploadTypeOK
<1>3. CASE fileOpened(t)
  <2> DEFINE new == [t EXCEPT !.stage = "read"]
  <2>1. new \in TaskRecord
    BY <1>0 DEF TaskRecord, Stages
  <2>2. new.todo # <<>>
    BY <1>0, <1>3 DEF fileOpened, TaskRecord
  <2>3. /\ uploadTasks' = replaceTask(t, {new})
        /\ UNCHANGED <<attempt, expireFiles, expireLists, puts, jobs>>
    BY <1>3 DEF fileOpened
  <2> HIDE DEF new
  <2>4. \A u \in {new} :
          /\ u \in TaskRecord
          /\ u.stage \in {"open", "read", "put", "push"} => u.todo # <<>>
    BY <2>1, <2>2
  <2> QED
    BY <1>0, <1>f, <2>3, <2>4, ReplaceTyped DEF UploadTypeOK
<1>4. CASE fileRead(t)
  <2> DEFINE new == [t EXCEPT !.stage = "put", !.label = nextState]
  <2>1. new \in TaskRecord
    BY <1>0, NextStateIsNumber DEF TaskRecord, Stages, Labels
  <2>2. new.todo # <<>>
    BY <1>0, <1>4 DEF fileRead, TaskRecord
  <2>3. /\ uploadTasks' = replaceTask(t, {new})
        /\ UNCHANGED <<attempt, expireFiles, expireLists, puts, jobs>>
    BY <1>4 DEF fileRead
  <2> HIDE DEF new
  <2>4. \A u \in {new} :
          /\ u \in TaskRecord
          /\ u.stage \in {"open", "read", "put", "push"} => u.todo # <<>>
    BY <2>1, <2>2
  <2> QED
    BY <1>0, <1>f, <2>3, <2>4, ReplaceTyped DEF UploadTypeOK
<1>5. CASE putAnswers(t)
  <2>1. FiledTypeOK'
    BY <1>0, <1>5, PutTyped DEF putAnswers
  <2>2. Tail(t.todo) \in Seq({"s3", "queue"})
    BY <1>0, <1>1, <1>5 DEF putAnswers
  <2>3. \A u \in serve(t, Tail(t.todo)) :
          /\ u \in TaskRecord
          /\ u.stage \in {"open", "read", "put", "push"} => u.todo # <<>>
    BY <1>0, <2>2, ServeTyped
  <2>4. uploadTasks' = replaceTask(t, serve(t, Tail(t.todo))) /\ UNCHANGED <<attempt, expireFiles>>
    BY <1>5 DEF putAnswers
  <2> QED
    BY <1>0, <2>1, <2>3, <2>4, ReplaceTyped DEF UploadTypeOK
<1>6. CASE pushSkipped(t) \/ \E accepted \in BOOLEAN : pushAnswers(t, accepted)
  <2>1. FiledTypeOK'
    BY <1>0, <1>6, FiledTyped DEF pushSkipped, pushAnswers, UploadTypeOK, FiledTypeOK
  <2>2. Tail(t.todo) \in Seq({"s3", "queue"})
    BY <1>0, <1>1, <1>6 DEF pushSkipped, pushAnswers
  <2>3. \A u \in serve(t, Tail(t.todo)) :
          /\ u \in TaskRecord
          /\ u.stage \in {"open", "read", "put", "push"} => u.todo # <<>>
    BY <1>0, <2>2, ServeTyped
  <2>4. uploadTasks' = replaceTask(t, serve(t, Tail(t.todo))) /\ UNCHANGED <<attempt, expireFiles>>
    BY <1>6 DEF pushSkipped, pushAnswers
  <2> QED
    BY <1>0, <2>1, <2>3, <2>4, ReplaceTyped DEF UploadTypeOK
<1>7. CASE unlinked(t)
  BY <1>0, <1>7 DEF unlinked, UploadTypeOK
<1> QED
  BY <1>2, <1>3, <1>4, <1>5, <1>6, <1>7 DEF TaskReads, TaskPut, TaskPush, TaskUnlinks

\* A task leaves the services alone, and the control up to the end of its attempt.
LEMMA TaskMovesControl ==
  ASSUME TypeOK, NEW t \in uploadTasks,
         TaskReads(t) \/ TaskPut(t) \/ TaskPush(t) \/ TaskUnlinks(t)
  PROVE  ServiceTypeOK' /\ ControlTypeOK'
<1>1. AfterTask(t) /\ (NoFault \/ Fault) /\ TaskFrame
  BY DEF TaskReads, TaskPut, TaskPush, TaskUnlinks, CleanedFault
<1>2. ServiceTypeOK'
  BY <1>1 DEF TypeOK, TaskFrame, ServiceTypeOK, mediatorVars, mdrVars
<1>3. ControlTypeOK'
  BY <1>1 DEF TypeOK, AfterTask, Goto, NoFault, Fault, ControlTypeOK
<1> QED
  BY <1>2, <1>3

\* A task that ends with a rejection, or that ends the process.
LEMMA TaskEndsTyped ==
  ASSUME TypeOK, NEW t \in uploadTasks, TaskRejects(t) \/ TaskBreaks(t)
  PROVE  UploadTypeOK' /\ ServiceTypeOK' /\ ControlTypeOK'
<1>1. CASE TaskRejects(t)
  <2>1. UploadTypeOK'
    <3>1. t \in TaskRecord /\ UploadTypeOK
      BY DEF TypeOK, UploadTypeOK
    <3>2. UNCHANGED jobs /\ (putObject(t) \/ UNCHANGED <<expireLists, puts>>)
      BY <1>1 DEF TaskRejects, putFails, listGone
    <3>3. FiledTypeOK'
      BY <3>1, <3>2, PutTyped DEF UploadTypeOK, FiledTypeOK
    <3> QED
      BY <1>1, <3>1, <3>3 DEF TaskRejects, putFails, listGone, UploadTypeOK, FiledTypeOK
  <2>2. ServiceTypeOK'
    BY <1>1 DEF TypeOK, TaskRejects, TaskFrame, ServiceTypeOK, mediatorVars, mdrVars
  <2>3. ControlTypeOK'
    BY <1>1 DEF TypeOK, TaskRejects, Reject, NoFault, Fault, ControlTypeOK, ExitCodes
  <2> QED
    BY <2>1, <2>2, <2>3
<1>2. CASE TaskBreaks(t)
  <2>1. openAction \in {NoAction} \cup 0 .. MaxSeq + 1 /\ lockAtExit \in {"free", "left"}
    BY DEF TypeOK, ServiceTypeOK, lockAtExit
  <2> QED
    BY <1>2, <2>1, ExitTyped DEF TaskBreaks, Throw, ExitCodes
<1> QED
  BY <1>1, <1>2

--------------------------------------------------------------------------------
(* The manager and its environment.                                        *)

\* The exit codes of the calls are exit codes.
LEMMA CodesTyped ==
  /\ prepareManager \subseteq ExitCodes
  /\ getObjectWrapper \cup streamToString \cup fetchSequenceNumberSafely \subseteq ExitCodes
  /\ invokeHttp \cup fetchSequenceNumberSafely \cup streamToFs \subseteq ExitCodes
  /\ putObjectWrapper \cup getStatus \subseteq ExitCodes
  /\ \A executable : commandWrapper(executable) \subseteq ExitCodes
  /\ {"SUCCESS", "GENERAL_ERROR", "KILLED", "REMOTE_SERVICE_RESPONSE_ERROR", "NONE"} \subseteq ExitCodes
  BY DEF ExitCodes, prepareManager, plainError, prepareEnvironment, headBucketWrapper, load,
         getResourcesFromRemote, processResources, startQueue, getObjectWrapper, streamToString,
         fetchSequenceNumberSafely, invokeHttp, streamToFs, putObjectWrapper, getStatus,
         commandWrapper

\* The three parts of the type invariant that RecordingInv does not contain.
Rest == UploadTypeOK /\ ServiceTypeOK /\ ControlTypeOK

\* An uncaught error.
LEMMA ThrowTyped ==
  ASSUME TypeOK, NEW code \in ExitCodes, Throw(code), NoFault \/ Fault
  PROVE  Rest'
<1>1. openAction \in {NoAction} \cup 0 .. MaxSeq + 1 /\ lockAtExit \in {"free", "left"}
  BY DEF TypeOK, ServiceTypeOK, lockAtExit
<1> QED
  BY <1>1, ExitTyped DEF Throw, Rest

\* A mediator call that fails outside the try block.
LEMMA MediatorCallFailsTyped ==
  ASSUME TypeOK, NEW lockAfter \in {"free", "ours", "left"},
         NEW action \in {NoAction} \cup 0 .. MaxSeq + 1,
         MediatorCallFails(lockAfter, action)
  PROVE  Rest'
  BY ExitTyped, CodesTyped DEF MediatorCallFails, Rest

\* The end of an attempt.
LEMMA NextIterationTyped ==
  ASSUME TypeOK, NextIteration, NoFault
  PROVE  UploadTypeOK' /\ ControlTypeOK' /\ UNCHANGED mdrVars
<1>1. UploadTypeOK'
  BY DEF TypeOK, UploadTypeOK, NextIteration, uploadVars, runnerVars, dropTasks, abandonChildren
<1>2. ControlTypeOK'
  BY CodesTyped DEF TypeOK, ControlTypeOK, NextIteration, Goto, NoFault
<1> QED
  BY <1>1, <1>2 DEF NextIteration

\* The way from the enrollment, or from the timestamp, to the next await.
LEMMA ToUploadTyped ==
  ASSUME TypeOK, RecordingInv, pc \in AfterAppend, ToUpload, NoFault, UNCHANGED expireFiles
  PROVE  UploadTypeOK' /\ ControlTypeOK'
<1>1. UploadTypeOK /\ ControlTypeOK /\ nextState \in SequenceNumbers
  BY NextStateInRange DEF TypeOK
<1>2. UploadTypeOK'
  <2>1. CASE startUploads(nextState)
    BY <1>1, <2>1, StartTyped
  <2>2. CASE UNCHANGED uploadVars
    BY <1>1, <2>2 DEF UploadTypeOK, uploadVars
  <2> QED
    BY <2>1, <2>2 DEF ToUpload
<1> QED
  BY <1>1, <1>2, GotoTyped DEF ToUpload

\* The operations of the mediator.
LEMMA MediatorTyped ==
  ASSUME ServiceTypeOK, NEW state \in 0 .. MaxSeq + 1,
         \/ reserveAccess \/ removeLock \/ createAction(state) \/ updateAction
         \/ UNCHANGED mediatorVars,
         UNCHANGED mdrVars
  PROVE  ServiceTypeOK'
  BY DEF reserveAccess, removeLock, createAction, updateAction, ServiceTypeOK, mediatorVars,
         mdrVars, NoAction

\* The steps around an attempt.
LEMMA LoopTyped == TypeOK /\ Loop => Rest'
<1> SUFFICES ASSUME TypeOK, Loop PROVE Rest'
  OBVIOUS
<1>a. UploadTypeOK /\ ServiceTypeOK /\ ControlTypeOK /\ CoreTypeOK
  BY DEF TypeOK
<1>b. nextState \in 0 .. MaxSeq + 1 /\ openAction \in {NoAction} \cup 0 .. MaxSeq + 1
      /\ lock \in {"free", "ours", "left"}
  BY <1>a, NextStateIsNumber DEF ServiceTypeOK
<1>c. ASSUME UNCHANGED <<uploadVars, runnerVars>> PROVE UploadTypeOK'
  BY <1>a, <1>c DEF UploadTypeOK, uploadVars, runnerVars
<1>d. ASSUME UNCHANGED <<mediatorVars, mdrVars>> PROVE ServiceTypeOK'
  BY <1>a, <1>d DEF ServiceTypeOK, mediatorVars, mdrVars
<1>1. CASE Prepare
  BY <1>1, <1>a, <1>c, <1>d, GotoTyped, ThrowTyped, CodesTyped DEF Prepare, Rest
<1>2. CASE Reserve
  <2>1. CASE reserveAccess /\ Goto("getStart") /\ NoFault /\ UNCHANGED <<runnerVars, uploadVars, mdrVars>>
    BY <2>1, <1>a, <1>b, <1>c, GotoTyped, MediatorTyped DEF Rest
  <2>2. CASE Throw("GENERAL_ERROR") /\ NoFault
    BY <2>2, ThrowTyped, CodesTyped
  <2>3. CASE Fault /\ \E landed \in BOOLEAN :
          Exit("GENERAL_ERROR", IF landed THEN "left" ELSE "free", openAction)
    BY <2>3, <1>b, ExitTyped, CodesTyped DEF Rest
  <2> QED
    BY <1>2, <2>1, <2>2, <2>3 DEF Reserve
<1>3. CASE GetStart
  BY <1>3, <1>a, <1>c, <1>d, GotoTyped, ThrowTyped, CodesTyped DEF GetStart, Rest
<1>4. CASE GetReplication
  BY <1>4, <1>a, <1>c, <1>d, GotoTyped, ThrowTyped, CodesTyped DEF GetReplication, Rest
<1>5. CASE UnlockIdle
  <2>1. CASE removeLock /\ Goto("wait") /\ NoFault /\ UNCHANGED <<runnerVars, uploadVars, mdrVars>>
    BY <2>1, <1>a, <1>b, <1>c, GotoTyped, MediatorTyped DEF Rest
  <2>2. CASE Exit("SUCCESS", "free", openAction) /\ NoFault
    BY <2>2, <1>b, ExitTyped, CodesTyped DEF Rest
  <2>3. CASE \E landed \in BOOLEAN :
          MediatorCallFails(IF landed THEN "free" ELSE "left", openAction)
    BY <2>3, <1>b, MediatorCallFailsTyped
  <2> QED
    BY <1>5, <2>1, <2>2, <2>3 DEF UnlockIdle
<1>6. CASE CreateAction
  <2>1. CASE createAction(nextState) /\ Goto("removeLock") /\ NoFault /\ UNCHANGED <<runnerVars, uploadVars, mdrVars>>
    BY <2>1, <1>a, <1>b, <1>c, GotoTyped, MediatorTyped DEF Rest
  <2>2. CASE \E landed \in BOOLEAN :
          MediatorCallFails("left", IF landed THEN nextState ELSE NoAction)
    BY <2>2, <1>b, MediatorCallFailsTyped
  <2> QED
    BY <1>6, <2>1, <2>2 DEF CreateAction
<1>7. CASE Unlock
  <2>1. CASE removeLock /\ (\E call : Goto(call)) /\ NoFault /\ UNCHANGED <<runnerVars, uploadVars, mdrVars>>
    BY <2>1, <1>a, <1>b, <1>c, GotoTyped, MediatorTyped DEF Rest
  <2>2. CASE \E landed \in BOOLEAN :
          MediatorCallFails(IF landed THEN "free" ELSE "left", openAction)
    BY <2>2, <1>b, MediatorCallFailsTyped
  <2> QED
    BY <1>7, <2>1, <2>2 DEF Unlock
<1>8. CASE CompleteAction
  <2>1. CASE updateAction /\ NextIteration /\ NoFault
    BY <2>1, <1>a, <1>b, NextIterationTyped, MediatorTyped DEF Rest
  <2>2. CASE \E landed \in BOOLEAN :
          MediatorCallFails(lock, IF landed THEN NoAction ELSE openAction)
    BY <2>2, <1>b, MediatorCallFailsTyped
  <2> QED
    BY <1>8, <2>1, <2>2 DEF CompleteAction
<1>9. CASE FailAction
  <2>1. CASE updateAction /\ NoFault /\ failure' = "NONE"
             /\ UNCHANGED <<exitCode, shouldRun, stopping, runnerVars, uploadVars, mdrVars>>
    BY <2>1, <1>a, <1>b, <1>c, CodesTyped, MediatorTyped DEF NoFault, ControlTypeOK, Rest
  <2>2. CASE Exit(failure, lock, NoAction) /\ NoFault
    BY <2>2, <1>a, <1>b, ExitTyped DEF ControlTypeOK, Rest
  <2>3. CASE \E landed \in BOOLEAN :
          MediatorCallFails(lock, IF landed THEN NoAction ELSE openAction)
    BY <2>3, <1>b, MediatorCallFailsTyped
  <2> QED
    BY <1>9, <2>1, <2>2, <2>3 DEF FailAction
<1>10. CASE Wait
  BY <1>10, <1>a, <1>b, NextIterationTyped, MediatorTyped DEF Wait, Rest
<1> QED
  BY <1>1, <1>2, <1>3, <1>4, <1>5, <1>6, <1>7, <1>8, <1>9, <1>10 DEF Loop

\* The steps of appendProcedure.
LEMMA ProcedureTyped == TypeOK /\ RecordingInv /\ Procedure => Rest'
<1> SUFFICES ASSUME TypeOK, RecordingInv, Procedure PROVE Rest'
  OBVIOUS
<1>a. UploadTypeOK /\ ServiceTypeOK /\ ControlTypeOK /\ CoreTypeOK
  BY DEF TypeOK
<1>c. ASSUME UNCHANGED <<uploadVars, expireFiles>> PROVE UploadTypeOK'
  BY <1>a, <1>c DEF UploadTypeOK, uploadVars
<1>d. ASSUME UNCHANGED <<mediatorVars, mdrVars>> PROVE ServiceTypeOK'
  BY <1>a, <1>d DEF ServiceTypeOK, mediatorVars, mdrVars
<1> USE <1>a, GotoTyped, RejectTyped, CodesTyped DEF Rest
<1>1. CASE PreStatus \/ PostStatus
  <2>1. UploadTypeOK'
    BY <1>1, <1>c DEF PreStatus, PostStatus, runnerVars
  <2>2. ServiceTypeOK'
    <3>1. latest \in Int
      BY DEF ServiceTypeOK, latest
    <3> QED
      BY <1>1, <3>1 DEF PreStatus, PostStatus, getPreStatus, getPostStatus, ServiceTypeOK,
                mediatorVars, mdrVars
  <2>3. ControlTypeOK'
    BY <1>1 DEF PreStatus, PostStatus
  <2> QED
    BY <2>1, <2>2, <2>3
<1>2. CASE GetDiff \/ UnlinkDiffs
  BY <1>2, <1>c, <1>d DEF GetDiff, UnlinkDiffs, runnerVars
<1>3. CASE SimplifyDiff
  BY <1>3, <1>c, <1>d DEF SimplifyDiff, spawnAll, runnerVars, CleanedFault
<1>4. CASE UpdateTimestamp
  <2>1. ServiceTypeOK'
    BY <1>4, <1>d DEF UpdateTimestamp
  <2>2. UploadTypeOK' /\ ControlTypeOK'
    <3>1. CASE UNCHANGED uploadVars
      BY <1>4, <3>1, <1>c DEF UpdateTimestamp, ToUpload, runnerVars
    <3>2. CASE ToUpload /\ NoFault
      BY <1>4, <3>2, ToUploadTyped DEF UpdateTimestamp, runnerVars, At, AfterAppend
    <3> QED
      BY <1>4, <3>1, <3>2 DEF UpdateTimestamp, uploadVars
  <2> QED
    BY <2>1, <2>2
<1>5. CASE PostEnrollment
  <2>1. pc = "postEnrollment" /\ UNCHANGED <<runnerVars, mediatorVars>>
    BY <1>5 DEF PostEnrollment, At
  <2>2. ServiceTypeOK'
    BY <1>5, <2>1, NextStateInRange DEF PostEnrollment, postEnrollment, getMdrEnrollmentRange,
       ServiceTypeOK, mediatorVars, mdrVars, AfterAppend
  <2>3. UploadTypeOK' /\ ControlTypeOK'
    <3>1. CASE ToUpload /\ NoFault
      BY <2>1, <3>1, ToUploadTyped DEF runnerVars, AfterAppend
    <3>2. CASE Fault /\ Reject("GENERAL_ERROR") /\ UNCHANGED uploadVars
      BY <2>1, <3>2, <1>c DEF runnerVars
    <3> QED
      BY <1>5, <3>1, <3>2 DEF PostEnrollment
  <2> QED
    BY <2>2, <2>3
<1>6. CASE UpdateState
  BY <1>6, <1>c, <1>d DEF UpdateState, runnerVars
<1> QED
  BY <1>1, <1>2, <1>3, <1>4, <1>5, <1>6 DEF Procedure

\* A commit, or none, keeps the types of the uploads and of the services.
LEMMA MayCommitTyped ==
  ASSUME UploadTypeOK, ServiceTypeOK, NEW e \in Entities, NEW seq \in SequenceNumbers,
         commit(e, seq) \/ UNCHANGED expireFiles, recordChange(e, seq) \/ UNCHANGED mdrVars,
         UNCHANGED <<uploadVars, mediatorVars>>
  PROVE  UploadTypeOK' /\ ServiceTypeOK'
<1>1. expireFiles' \subseteq Entities \X SequenceNumbers
  BY CommitFilesTyped DEF UploadTypeOK
<1>2. UploadTypeOK'
  BY <1>1 DEF UploadTypeOK, uploadVars
<1>3. ServiceTypeOK'
  BY ChangeTyped DEF ServiceTypeOK, mediatorVars, mdrVars
<1> QED
  BY <1>2, <1>3

\* The exits of the awaited children.
LEMMA ChildrenTyped == TypeOK /\ RecordingInv /\ Children => Rest'
<1> SUFFICES ASSUME TypeOK, RecordingInv, NEW e \in Entities, ChildSucceeds(e) \/ ChildFails(e)
             PROVE  Rest'
  BY DEF Children
<1>1. nextState \in SequenceNumbers
  BY NextStateInRange DEF ChildSucceeds, ChildFails, At
<1>2. commit(e, nextState) \/ UNCHANGED expireFiles
  BY DEF ChildSucceeds, ChildFails, childSucceeds, childFails
<1>3. recordChange(e, nextState) \/ UNCHANGED mdrVars
  BY DEF ChildSucceeds, ChildFails
<1>4. UploadTypeOK' /\ ServiceTypeOK'
  BY <1>1, <1>2, <1>3, MayCommitTyped DEF TypeOK, ChildSucceeds, ChildFails
<1>5. ControlTypeOK'
  <2>1. CASE ChildSucceeds(e)
    BY <2>1, GotoTyped DEF TypeOK, ChildSucceeds, NoFault, ControlTypeOK
  <2>2. CASE ChildFails(e)
    <3>1. (NoFault \/ Fault) /\ \E code \in commandWrapper("osm2pgsql") : Reject(code)
      BY <2>2 DEF ChildFails
    <3> QED
      BY <3>1, RejectTyped, CodesTyped DEF TypeOK
  <2> QED
    BY <2>1, <2>2
<1> QED
  BY <1>4, <1>5 DEF Rest

\* The steps of everything around the manager.
LEMMA EnvironmentTyped == TypeOK /\ RecordingInv /\ Environment => Rest'
<1> SUFFICES ASSUME TypeOK, RecordingInv, Environment PROVE Rest'
  OBVIOUS
<1>a. UploadTypeOK /\ ServiceTypeOK /\ ControlTypeOK /\ CoreTypeOK
  BY DEF TypeOK
<1>1. CASE SourcePublishes
  BY <1>1, <1>a DEF SourcePublishes, Publish, UploadTypeOK, ServiceTypeOK, ControlTypeOK,
     runnerVars, uploadVars, mediatorVars, mdrVars, controlVars, Rest
<1>2. CASE SignalledEnds
  <2>1. PICK d \in signalled, committed \in BOOLEAN :
          /\ signalledEnds(d, committed)
          /\ IF committed THEN recordChange(d[1], d[2]) ELSE UNCHANGED mdrVars
    BY <1>2 DEF SignalledEnds
  <2>2. d[1] \in Entities /\ d[2] \in SequenceNumbers
    BY <1>a DEF CoreTypeOK
  <2>3. commit(d[1], d[2]) \/ UNCHANGED expireFiles
    BY <2>1 DEF signalledEnds
  <2>4. UploadTypeOK' /\ ServiceTypeOK'
    BY <1>2, <1>a, <2>1, <2>2, <2>3, MayCommitTyped DEF SignalledEnds
  <2>5. ControlTypeOK'
    BY <1>2, <1>a DEF SignalledEnds, controlVars, ControlTypeOK
  <2> QED
    BY <2>4, <2>5 DEF Rest
<1>3. CASE LockExpires
  BY <1>3, <1>a DEF LockExpires, expireLock, UploadTypeOK, ServiceTypeOK, ControlTypeOK,
     runnerVars, uploadVars, mdrVars, controlVars, Rest
<1>4. CASE Sigterm \/ CleanUp
  <2>1. UploadTypeOK'
    BY <1>4, <1>a DEF Sigterm, CleanUp, interruptChildren, UploadTypeOK, uploadVars, runnerVars
  <2>2. ServiceTypeOK'
    BY <1>4, <1>a DEF Sigterm, CleanUp, ServiceTypeOK, mediatorVars, mdrVars
  <2>3. ControlTypeOK'
    <3>1. faults' \in 0 .. MaxFaults
      BY <1>4, <1>a DEF Sigterm, CleanUp, Fault, NoFault, ControlTypeOK
    <3>2. stopping' \in Stopping /\ UNCHANGED <<failure, exitCode>>
      BY <1>4 DEF Sigterm, CleanUp, Stopping
    <3>3. shouldRun' = (shouldRun /\ ~Listening) \/ shouldRun' = shouldRun
      BY <1>4, Zenon DEF Sigterm, CleanUp
    <3>4. shouldRun' \in BOOLEAN
      BY <1>a, <3>3, Zenon DEF ControlTypeOK
    <3>5. retries' = retries
      BY <1>4 DEF Sigterm, CleanUp, Fault, NoFault
    <3> QED
      BY <1>a, <3>1, <3>2, <3>4, <3>5 DEF ControlTypeOK
  <2> QED
    BY <2>1, <2>2, <2>3 DEF Rest
<1>5. CASE Crash
  BY <1>5, ThrowTyped, CodesTyped DEF Crash
<1>7. CASE TerminusEnds
  <2>1. CASE Throw("KILLED")
    BY <1>7, <2>1, ThrowTyped, CodesTyped DEF TerminusEnds
  <2>2. CASE ~Throw("KILLED")
    <3>1. /\ NoFault
          /\ shouldRun' = FALSE
          /\ stopping' = "swallowed"
          /\ UNCHANGED <<failure, exitCode, runnerVars, uploadVars, mediatorVars, mdrVars>>
      BY <1>7, <2>2, Zenon DEF TerminusEnds
    <3>2. UploadTypeOK' /\ ServiceTypeOK'
      BY <1>a, <3>1 DEF UploadTypeOK, ServiceTypeOK, runnerVars, uploadVars, mediatorVars, mdrVars
    <3>3. ControlTypeOK'
      BY <1>a, <3>1 DEF ControlTypeOK, NoFault, Stopping
    <3> QED
      BY <3>2, <3>3 DEF Rest
  <2> QED
    BY <2>1, <2>2
<1>6. CASE Restart
  <2>1. UploadTypeOK'
    BY <1>6, <1>a DEF Restart, UploadTypeOK, uploadVars
  <2>2. ServiceTypeOK'
    BY <1>6, <1>a DEF Restart, ServiceTypeOK, mediatorVars, mdrVars
  <2>3. ControlTypeOK'
    <3>1. retries' \in 0 .. BackoffLimit
      BY <1>6, <1>a, BackoffLimitAssumption DEF Restart, StartedAgain, ControlTypeOK
    <3> QED
      BY <1>6, <1>a, <3>1 DEF Restart, ControlTypeOK, ExitCodes, Stopping
  <2> QED
    BY <2>1, <2>2, <2>3 DEF Rest
<1> QED
  BY <1>1, <1>2, <1>3, <1>4, <1>5, <1>6, <1>7 DEF Environment

\* Every step keeps the types.
LEMMA StepTyped == TypeOK /\ RecordingInv /\ [Next]_vars => Rest'
<1> SUFFICES ASSUME TypeOK, RecordingInv, [Next]_vars PROVE Rest'
  OBVIOUS
<1>1. CASE Task
  BY <1>1, TaskMovesTyped, TaskMovesControl, TaskEndsTyped DEF Task, Rest
<1>2. CASE Finished \/ Stalled \/ UNCHANGED vars
  BY <1>2 DEF Finished, Stalled, vars, TypeOK, UploadTypeOK, ServiceTypeOK, ControlTypeOK,
     runnerVars, uploadVars, mediatorVars, mdrVars, controlVars, Rest
<1> QED
  BY <1>1, <1>2, LoopTyped, ProcedureTyped, ChildrenTyped, EnvironmentTyped DEF Next

\* The first state has the types.
LEMMA InitTyped == Init => Rest
<1> SUFFICES ASSUME Init PROVE Rest
  OBVIOUS
<1>1. UploadTypeOK
  BY DEF Init, RunnerInit, UploadInit, UploadTypeOK
<1>2. ServiceTypeOK
  BY DEF Init, MediatorInit, MdrInit, ServiceTypeOK
<1>3. ControlTypeOK
  <2>1. failure \in ExitCodes
    BY DEF Init, ExitCodes
  <2>2. exitCode \in ExitCodes
    BY DEF Init, ExitCodes
  <2>3. faults \in 0 .. MaxFaults /\ retries \in 0 .. BackoffLimit
    BY BackoffLimitAssumption DEF Init
  <2> QED
    BY <2>1, <2>2, <2>3 DEF Init, ControlTypeOK, Stopping
<1> QED
  BY <1>1, <1>2, <1>3 DEF Rest

\* Every variable of the append command keeps its type, for any entities, targets,
\* diffs and faults: in particular, what is filed in the bucket or the queue and what
\* is enrolled with MDR carries a number that the source can have published.
THEOREM TypesHold == Safe => []TypeOK
<1>1. RecordingInv /\ Rest => TypeOK
  BY DEF RecordingInv, TypeOK, Rest
<1>2. RecordingInv /\ Rest /\ [Next]_vars => Rest'
  BY <1>1, StepTyped
<1>3. Init => Rest
  BY InitTyped
<1> QED
  BY <1>1, <1>2, <1>3, Recording, PTL DEF Safe
=============================================================================
