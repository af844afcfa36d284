----------------------------- MODULE AppendActions -----------------------------
(***************************************************************************)
(* The proofs about the lock and the action of an append: the database,    *)
(* the bucket, the queue and the enrollments change under the action of    *)
(* their diff, or by what a failed attempt has left, and a process that    *)
(* ends with SUCCESS leaves nothing behind.                                *)
(***************************************************************************)
EXTENDS AppendRecords

USE MaxSeqAssumption, EntitiesAssumption, ForeverAssumption, MediatorAssumption
    DEF ActionInv, ActionIsOpen, UnderItsAction, SuccessIsComplete,
        LockCoversTheReading, ReadingStates, ActionCoversTheAttempt, OneAttemptPerJob,
        FailureIsNoSuccess

\* The variables ActionInv speaks of.
actionVars == <<mediatorVars, trackerVars, signalled, applied, pc, failure, exitCode>>

\* No process has run yet.
LEMMA ActionInit == Init => ActionInv
  BY DEF Init, MediatorInit, RunnerInit, NoAction

\* A step that leaves these variables alone keeps the invariant.
LEMMA ActionStutter == ActionInv /\ UNCHANGED actionVars => ActionInv'
  BY DEF actionVars, mediatorVars, trackerVars, nextState

\* No child is alive outside the append, so that none is abandoned.
LEMMA NobodyAbandoned ==
  ASSUME RecordingInv, pc # "append", NEW seq, abandonChildren(seq)
  PROVE  UNCHANGED <<signalled, applied>>
  BY DEF RecordingInv, AppliedByThen, abandonChildren, Alive

\* A process that fails leaves its lock and its action behind, and is no success.
LEMMA FailedExit ==
  ASSUME ActionInv, NEW code, code # "SUCCESS", NEW lockAfter \in {"free", "left"},
         lockAfter = "left" => MediatorEnabled, NEW action, Exit(code, lockAfter, action)
  PROVE  ActionInv'
  BY DEF Exit, abandon, NoAction

\* An attempt that has closed its action, or had none, ends with another iteration
\* or with SUCCESS.
LEMMA AttemptEnds ==
  ASSUME ActionInv, RecordingInv, NextIteration, lock = "free", lock' = "free",
         openAction' = NoAction, pc # "append", Forever \/ pc = "completeAction"
  PROVE  ActionInv'
<1>1. UNCHANGED <<signalled, applied, bucket, current, failure>>
  BY NobodyAbandoned DEF NextIteration, Goto, trackerVars, runnerVars
<1>2. \/ Forever /\ pc' = "reserveAccess" /\ exitCode' = exitCode
      \/ pc' = "down" /\ exitCode' = "SUCCESS"
  BY Zenon DEF NextIteration, Goto
<1> QED
  BY <1>1, <1>2

\* A failed attempt goes to its catch clause.
LEMMA Rejected ==
  ASSUME ActionInv, NEW code, code # "SUCCESS", Reject(code), UNCHANGED mediatorVars,
         lock = "free"
  PROVE  ActionInv'
  BY DEF Reject, mediatorVars

\* No call fails with the code of a success.
LEMMA CodesOfFailures ==
  "SUCCESS" \notin
    prepareManager \cup getObjectWrapper \cup streamToString \cup fetchSequenceNumberSafely
      \cup invokeHttp \cup streamToFs \cup putObjectWrapper \cup getStatus
      \cup commandWrapper("osmium") \cup commandWrapper("osm2pgsql")
  BY DEF prepareManager, plainError, prepareEnvironment, headBucketWrapper, load,
         getResourcesFromRemote, processResources, startQueue, getObjectWrapper, streamToString,
         fetchSequenceNumberSafely, invokeHttp, streamToFs, putObjectWrapper, getStatus,
         commandWrapper

\* The steps around an attempt.
LEMMA LoopKeepsActions == ActionInv /\ RecordingInv /\ ServiceTypeOK /\ Loop => ActionInv'
<1> SUFFICES ASSUME ActionInv, RecordingInv, ServiceTypeOK, Loop PROVE ActionInv'
  OBVIOUS
<1> USE FailedExit, CodesOfFailures DEF At, Goto, trackerVars, runnerVars, mediatorVars, nextState
<1>0. lockAtExit \in {"free", "left"} /\ (lockAtExit = "left" => MediatorEnabled)
  BY DEF lockAtExit, ServiceTypeOK
<1> USE <1>0
<1>1. CASE Prepare
  BY <1>1 DEF Prepare, Throw
<1>2. CASE Reserve
  <2>1. CASE reserveAccess /\ Goto("getStart")
    BY <1>2, <2>1 DEF Reserve, reserveAccess, ServiceTypeOK
  <2> QED
    BY <1>2, <2>1 DEF Reserve, Throw
<1>3. CASE GetStart
  BY <1>3 DEF GetStart, Throw, getStartSequenceNumber
<1>4. CASE GetReplication
  <2>1. isUpToDate(current, published) => \A e \in Entities : applied[e] = bucket
    BY <1>4 DEF GetReplication, isUpToDate, RecordingInv, CoreTypeOK, TrackerTypeOK,
       SequenceNumbers, AppliedWithinOneOfRecorded, MemoryFollowsBucket, Working, NextIsPublished
  <2> QED
    BY <1>4, <2>1 DEF GetReplication, Throw, getReplicationSequenceNumber
<1>5. CASE UnlockIdle
  <2>1. CASE Forever /\ removeLock /\ Goto("wait")
    BY <1>5, <2>1 DEF UnlockIdle, removeLock
  <2>2. CASE ~Forever /\ Exit("SUCCESS", "free", openAction)
    BY <1>5, <2>2, NobodyAbandoned DEF UnlockIdle, Exit, abandon, NoAction
  <2>3. CASE \E landed \in BOOLEAN :
          MediatorCallFails(IF landed THEN "free" ELSE "left", openAction)
    BY <2>3 DEF MediatorCallFails
  <2> QED
    BY <1>5, <2>1, <2>2, <2>3 DEF UnlockIdle
<1>6. CASE CreateAction
  BY <1>6 DEF CreateAction, MediatorCallFails, createAction
<1>7. CASE Unlock
  BY <1>7 DEF Unlock, MediatorCallFails, removeLock
<1>b. pc \in {"completeAction", "failAction"} => lock = "free"
  BY DEF ServiceTypeOK
<1>8. CASE CompleteAction
  <2>1. CASE updateAction /\ NextIteration
    BY <1>8, <2>1, AttemptEnds DEF CompleteAction, updateAction, ServiceTypeOK
  <2>2. CASE \E landed \in BOOLEAN :
          MediatorCallFails(lock, IF landed THEN NoAction ELSE openAction)
    BY <1>8, <1>b, <2>2 DEF CompleteAction, MediatorCallFails
  <2> QED
    BY <1>8, <2>1, <2>2 DEF CompleteAction
<1>9. CASE FailAction
  <2>1. CASE /\ Forever /\ updateAction /\ pc' = "wait" /\ failure' = "NONE"
             /\ UNCHANGED <<exitCode, trackerVars, runnerVars>>
    <3>1. pc = "failAction"
      BY <1>9 DEF FailAction
    <3> QED
      BY <1>b, <2>1, <3>1 DEF updateAction, runnerVars, trackerVars
  <2>2. CASE ~Forever /\ Exit(failure, lock, NoAction)
    BY <1>9, <2>2, <1>b DEF FailAction
  <2>3. CASE \E landed \in BOOLEAN :
          MediatorCallFails(lock, IF landed THEN NoAction ELSE openAction)
    BY <1>9, <1>b, <2>3 DEF FailAction, MediatorCallFails
  <2> QED
    BY <1>9, <2>1, <2>2, <2>3 DEF FailAction
<1>10. CASE Wait
  BY <1>10, AttemptEnds DEF Wait, ServiceTypeOK
<1> QED
  BY <1>1, <1>2, <1>3, <1>4, <1>5, <1>6, <1>7, <1>8, <1>9, <1>10 DEF Loop

\* The steps of appendProcedure.
LEMMA ProcedureKeepsActions ==
  ActionInv /\ RecordingInv /\ ServiceTypeOK /\ Procedure => ActionInv'
<1> SUFFICES ASSUME ActionInv, RecordingInv, ServiceTypeOK, Procedure PROVE ActionInv'
  OBVIOUS
<1> USE Rejected, CodesOfFailures
        DEF At, Goto, trackerVars, runnerVars, mediatorVars, nextState, ServiceTypeOK
<1>1. CASE PreStatus
  BY <1>1 DEF PreStatus
<1>2. CASE GetDiff
  BY <1>2 DEF GetDiff
<1>3. CASE SimplifyDiff
  BY <1>3 DEF SimplifyDiff, spawnAll
<1>4. CASE UnlinkDiffs
  BY <1>4 DEF UnlinkDiffs
<1>5. CASE UpdateTimestamp
  BY <1>5 DEF UpdateTimestamp, ToUpload, bumpState, putStateContent
<1>6. CASE PostStatus
  BY <1>6 DEF PostStatus
<1>7. CASE PostEnrollment
  BY <1>7 DEF PostEnrollment, ToUpload, bumpState
<1>8. CASE UpdateState
  BY <1>8 DEF UpdateState, putStateContent, RecordingInv, MemoryFollowsBucket, AppliedByThen
<1> QED
  BY <1>1, <1>2, <1>3, <1>4, <1>5, <1>6, <1>7, <1>8 DEF Procedure

\* The exits of the awaited children.
LEMMA ChildrenKeepActions ==
  ActionInv /\ RecordingInv /\ ServiceTypeOK /\ Children => ActionInv'
<1> SUFFICES ASSUME ActionInv, ServiceTypeOK, NEW e \in Entities,
                    ChildSucceeds(e) \/ ChildFails(e)
             PROVE  ActionInv'
  BY DEF Children
<1> USE Rejected, CodesOfFailures
        DEF At, Goto, trackerVars, mediatorVars, nextState, ServiceTypeOK
<1>1. CASE ChildSucceeds(e)
  BY <1>1 DEF ChildSucceeds, childSucceeds
<1>2. CASE ChildFails(e)
  BY <1>2 DEF ChildFails
<1> QED
  BY <1>1, <1>2

\* The upload tasks end with their attempt's action open.
LEMMA TaskKeepsActions ==
  ActionInv /\ RecordingInv /\ ServiceTypeOK /\ Task => ActionInv'
<1> SUFFICES ASSUME ActionInv, RecordingInv, ServiceTypeOK, NEW t \in uploadTasks,
                    \/ TaskReads(t) \/ TaskPut(t) \/ TaskPush(t)
                    \/ TaskUnlinks(t) \/ TaskRejects(t) \/ TaskBreaks(t)
             PROVE  ActionInv'
  BY DEF Task
<1> USE DEF At, Goto, mediatorVars, nextState, ServiceTypeOK
<1>1. ASSUME AfterTask(t), TaskFrame PROVE ActionInv'
  BY <1>1 DEF AfterTask, TaskFrame, Awaited, bumpState
<1>2. CASE TaskRejects(t)
  BY <1>2, Rejected DEF TaskRejects, TaskFrame, Awaited
<1>3. CASE TaskBreaks(t)
  BY <1>3, FailedExit DEF TaskBreaks, Throw, lockAtExit
<1> QED
  BY <1>1, <1>2, <1>3 DEF TaskReads, TaskPut, TaskPush, TaskUnlinks

\* The steps of everything around the manager.
LEMMA EnvironmentKeepsActions ==
  ActionInv /\ RecordingInv /\ ServiceTypeOK /\ Environment => ActionInv'
<1> SUFFICES ASSUME ActionInv, RecordingInv, ServiceTypeOK, Environment PROVE ActionInv'
  OBVIOUS
<1> USE DEF trackerVars, runnerVars, controlVars, mediatorVars, nextState, ServiceTypeOK
<1>1. CASE SourcePublishes
  BY <1>1 DEF SourcePublishes, Publish
<1>2. CASE SignalledEnds
  BY <1>2 DEF SignalledEnds, signalledEnds
<1>3. CASE LockExpires
  BY <1>3 DEF LockExpires, expireLock
<1>4. CASE Sigterm \/ CleanUp
  BY <1>4 DEF Sigterm, CleanUp, interruptChildren
<1>5. CASE TerminusEnds \/ Crash
  BY <1>5, FailedExit DEF TerminusEnds, Crash, Throw, lockAtExit
<1>6. CASE Restart
  BY <1>6 DEF Restart, restartTracker
<1> QED
  BY <1>1, <1>2, <1>3, <1>4, <1>5, <1>6 DEF Environment

\* Every step keeps the invariant.
LEMMA ActionStep ==
  ActionInv /\ RecordingInv /\ ServiceTypeOK /\ [Next]_vars => ActionInv'
<1> SUFFICES ASSUME ActionInv, RecordingInv, ServiceTypeOK, [Next]_vars PROVE ActionInv'
  OBVIOUS
<1>1. CASE Finished \/ Stalled \/ UNCHANGED vars
  BY <1>1, ActionStutter DEF Finished, Stalled, vars, actionVars, runnerVars, controlVars
<1> QED
  BY <1>1, LoopKeepsActions, ProcedureKeepsActions, ChildrenKeepActions, TaskKeepsActions,
     EnvironmentKeepsActions DEF Next

--------------------------------------------------------------------------------
(* What changes outside, and under which action.                           *)

\* What WorksUnderItsAction says of each of them, for one step.
CommitsUnderIt ==
  \A e \in Entities :
    applied'[e] # applied[e] => UnderItsAction(applied'[e]) \/ LeftChild(e, applied'[e])

ListsUnderIt ==
  \A l \in (puts' \ puts) \cup (jobs' \ jobs) :
    UnderItsAction(l.seq) \/ LeftTask(l.entity, l.seq)

EnrollsUnderIt == \A en \in enrollments' \ enrollments : UnderItsAction(en.state)

RecordsUnderIt == bucket' # bucket => UnderItsAction(bucket')

\* The tables change by a commit: of the awaited children, under the action, or of a
\* child that was left.
LEMMA CommitsHaveTheirAction ==
  ASSUME MediatorEnabled, ActionInv, RecordingInv, [Next]_vars
  PROVE  CommitsUnderIt
<1>1. CASE UNCHANGED applied
  BY <1>1 DEF CommitsUnderIt
<1>2. CASE Children
  <2>1. PICK f \in Entities : ChildSucceeds(f) \/ ChildFails(f)
    BY <1>2 DEF Children
  <2>2. UnderItsAction(nextState)
    BY <2>1 DEF ChildSucceeds, ChildFails, At
  <2>3. applied' \in {applied, [applied EXCEPT ![f] = nextState]}
    BY <2>1 DEF ChildSucceeds, ChildFails, childSucceeds, childFails, commit
  <2> QED
    BY <2>2, <2>3 DEF CommitsUnderIt, RecordingInv, CoreTypeOK
<1>3. CASE SignalledEnds
  <2>1. PICK d \in signalled : applied' \in {applied, [applied EXCEPT ![d[1]] = d[2]]}
    BY <1>3 DEF SignalledEnds, signalledEnds, commit
  <2>2. d = <<d[1], d[2]>>
    BY DEF RecordingInv, CoreTypeOK
  <2> QED
    BY <2>1, <2>2 DEF CommitsUnderIt, LeftChild, RecordingInv, CoreTypeOK
<1>4. Loop \/ Procedure \/ Task \/ Finished \/ Stalled \/ UNCHANGED vars => UNCHANGED applied
  <2>1. CASE Loop
    BY <2>1, LoopStutters DEF projectVars
  <2>2. CASE Procedure
    BY <2>2 DEF Procedure, PreStatus, GetDiff, SimplifyDiff, spawnAll, UnlinkDiffs,
       UpdateTimestamp, PostStatus, PostEnrollment, UpdateState, runnerVars
  <2>3. CASE Task
    BY <2>3, TaskStutters DEF projectVars
  <2>4. CASE Finished \/ Stalled \/ UNCHANGED vars
    BY <2>4 DEF Finished, Stalled, vars, runnerVars
  <2> QED
    BY <2>1, <2>2, <2>3, <2>4
<1>5. Environment => SignalledEnds \/ UNCHANGED applied
  BY ExitStutters DEF Environment, SourcePublishes, LockExpires, Sigterm, CleanUp,
     interruptChildren, TerminusEnds, Crash, Throw, Restart, runnerVars, projectVars
<1> QED
  BY <1>1, <1>2, <1>3, <1>4, <1>5 DEF Next

\* Lists are filed by the tasks alone: by those the attempt awaits, under its action, or
\* by orphans.
LEMMA OnlyTasksFile ==
  ASSUME [Next]_vars, ~Task
  PROVE  UNCHANGED <<puts, jobs>>
<1> USE DEF uploadVars
<1>1. \A code, lockAfter, action :
        Exit(code, lockAfter, action) => UNCHANGED <<puts, jobs>>
  BY DEF Exit, dropTasks
<1>2. NextIteration => UNCHANGED <<puts, jobs>>
  BY DEF NextIteration, dropTasks
<1>3. ToUpload => UNCHANGED <<puts, jobs>>
  BY DEF ToUpload, startUploads
<1>4. CASE Loop
  BY <1>1, <1>2, <1>4 DEF Loop, Prepare, Reserve, GetStart, GetReplication, UnlockIdle,
     CreateAction, Unlock, CompleteAction, FailAction, Wait, MediatorCallFails, Throw
<1>5. CASE Procedure
  BY <1>3, <1>5 DEF Procedure, PreStatus, GetDiff, SimplifyDiff, UnlinkDiffs, UpdateTimestamp,
     PostStatus, PostEnrollment, UpdateState
<1>6. CASE Children
  BY <1>6 DEF Children, ChildSucceeds, ChildFails
<1>7. CASE Environment
  BY <1>1, <1>7 DEF Environment, SourcePublishes, SignalledEnds, LockExpires, Sigterm, CleanUp,
     TerminusEnds, Crash, Throw, Restart
<1>8. CASE Finished \/ Stalled \/ UNCHANGED vars
  BY <1>8 DEF Finished, Stalled, vars
<1> QED
  BY <1>4, <1>5, <1>6, <1>7, <1>8 DEF Next

LEMMA ListsHaveTheirAction ==
  ASSUME MediatorEnabled, ActionInv, UploadInv, [Next]_vars
  PROVE  ListsUnderIt
<1>1. CASE ~Task
  BY <1>1, OnlyTasksFile DEF ListsUnderIt
<1>2. ASSUME NEW t \in uploadTasks,
             puts' \in {puts, puts \cup {listOf(t)}}, jobs' \in {jobs, jobs \cup {listOf(t)}}
      PROVE  ListsUnderIt
  <2>1. Awaited(t) => UnderItsAction(t.seq)
    BY DEF Awaited, At, UploadInv, AwaitedTasksFileRight
  <2>2. \A l \in (puts' \ puts) \cup (jobs' \ jobs) : l.entity = t.entity /\ l.seq = t.seq
    BY <1>2 DEF listOf
  <2> QED
    BY <2>1, <2>2 DEF ListsUnderIt, LeftTask
<1>3. CASE Task
  <2>1. PICK t \in uploadTasks : \/ TaskReads(t) \/ TaskPut(t) \/ TaskPush(t)
                                 \/ TaskUnlinks(t) \/ TaskRejects(t) \/ TaskBreaks(t)
    BY <1>3 DEF Task
  <2>2. /\ puts' \in {puts, puts \cup {listOf(t)}}
        /\ jobs' \in {jobs, jobs \cup {listOf(t)}}
    BY <2>1 DEF TaskReads, linesRead, fileOpened, fileRead, TaskPut, putAnswers, putObject,
       TaskPush, pushSkipped, pushAnswers, TaskUnlinks, unlinked, TaskRejects, putFails, listGone,
       TaskBreaks, Throw, Exit, dropTasks
  <2> QED
    BY <1>2, <2>2
<1> QED
  BY <1>1, <1>3

\* postEnrollment is awaited under the action of the state it names.
LEMMA EnrollmentsHaveTheirAction ==
  ASSUME MediatorEnabled, ActionInv, [Next]_vars
  PROVE  EnrollsUnderIt
<1> USE DEF mdrVars, recordChange
<1>1. CASE UNCHANGED enrollments
  BY <1>1 DEF EnrollsUnderIt
<1>2. CASE PostEnrollment
  <2>1. UnderItsAction(nextState)
    BY <1>2 DEF PostEnrollment, At
  <2>2. \A en \in enrollments' \ enrollments : en.state = nextState
    BY <1>2 DEF PostEnrollment, postEnrollment
  <2> QED
    BY <2>1, <2>2 DEF EnrollsUnderIt
<1>3. \A code, lockAfter, action :
        Exit(code, lockAfter, action) => UNCHANGED enrollments
  BY DEF Exit
<1>4. Loop => UNCHANGED enrollments
  BY <1>3 DEF Loop, Prepare, Reserve, GetStart, GetReplication, UnlockIdle,
     CreateAction, Unlock, CompleteAction, FailAction, Wait, NextIteration, MediatorCallFails, Throw
<1>5. Procedure => PostEnrollment \/ UNCHANGED enrollments
  BY DEF Procedure, PreStatus, getPreStatus, GetDiff, SimplifyDiff, UnlinkDiffs, UpdateTimestamp,
     PostStatus, getPostStatus, UpdateState
<1>6. Children => UNCHANGED enrollments
  BY DEF Children, ChildSucceeds, ChildFails
<1>7. Task => UNCHANGED enrollments
  BY <1>3 DEF Task, TaskReads, TaskPut, TaskPush, TaskUnlinks, TaskRejects, TaskBreaks, Throw,
     TaskFrame
<1>8. Environment => UNCHANGED enrollments
  BY <1>3 DEF Environment, SourcePublishes, SignalledEnds, LockExpires, Sigterm, CleanUp,
     TerminusEnds, Crash, Throw, Restart
<1>9. Finished \/ Stalled \/ UNCHANGED vars => UNCHANGED enrollments
  BY DEF Finished, Stalled, vars
<1> QED
  BY <1>1, <1>2, <1>4, <1>5, <1>6, <1>7, <1>8, <1>9 DEF Next

\* The number moves in updateRemoteState alone.
LEMMA RecordsHaveTheirAction ==
  ASSUME MediatorEnabled, ActionInv, RecordingInv, [Next]_vars
  PROVE  RecordsUnderIt
  BY NumberMoves DEF RecordsUnderIt

HIDE DEF ActionInv, ActionIsOpen, UnderItsAction, SuccessIsComplete

\* For any entities, diffs and faults: the action of an attempt is open for the very diff
\* it works on, and its lock released, at each of its awaits, and a process that exits
\* with SUCCESS leaves neither lock nor action, nor, in a job, a live child or a table
\* that is not at the recorded state (append, appendForever, the mediator's calls).
THEOREM ActionsHold == Safe => []ActionInv
<1>1. TypeOK => ServiceTypeOK
  BY DEF TypeOK
<1> QED
  BY <1>1, ActionInit, ActionStep, Recording, TypesHold, PTL DEF Safe

\* The part of it that a reader of the code asks for first: what a process that
\* exits with SUCCESS leaves behind.
THEOREM SuccessLeavesNothing == Safe => []SuccessIsComplete
<1>1. ActionInv => SuccessIsComplete
  BY DEF ActionInv
<1> QED
  BY <1>1, ActionsHold, PTL

\* And the part that protects the outside: every change of the tables, of the bucket, of
\* the queue and of the enrollments is made under the open action of its diff, or by a
\* child or a task that a failed attempt has left (appendProcedure between createAction
\* and updateAction, terminateChildren, the orphans of Promise.all).
THEOREM WorkIsUnderItsAction == Safe => WorksUnderItsAction
<1>1. ActionInv /\ RecordingInv /\ UploadInv /\ [Next]_vars =>
        [MediatorEnabled =>
           /\ \A e \in Entities : applied'[e] # applied[e] =>
                UnderItsAction(applied'[e]) \/ LeftChild(e, applied'[e])
           /\ \A l \in (puts' \ puts) \cup (jobs' \ jobs) :
                UnderItsAction(l.seq) \/ LeftTask(l.entity, l.seq)
           /\ \A en \in enrollments' \ enrollments : UnderItsAction(en.state)
           /\ bucket' # bucket => UnderItsAction(bucket')]_vars
  BY CommitsHaveTheirAction, ListsHaveTheirAction, EnrollmentsHaveTheirAction,
     RecordsHaveTheirAction
     DEF CommitsUnderIt, ListsUnderIt, EnrollsUnderIt, RecordsUnderIt
<1> QED
  BY <1>1, ActionsHold, Recording, Uploads, PTL DEF Safe, WorksUnderItsAction
=============================================================================
