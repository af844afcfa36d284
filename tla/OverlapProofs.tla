----------------------------- MODULE OverlapProofs -----------------------------
(***************************************************************************)
(* The proofs about two managers that append at a time: how far apart the  *)
(* recorded state, the tables, the late commits and the numbers the two    *)
(* have in memory can be, as long as no attempt ends between its two puts  *)
(* of state.txt.  The steps of the second manager are those of the first   *)
(* one with the roles exchanged, and so are the lemmas about them.         *)
(***************************************************************************)
EXTENDS OverlappingManagers, TLAPS

USE DEF Holders, Reading, HasRead, BeforeThePuts, Attempting, ManagersOK, ManagerOK,
        M1!ChildStates, M1!NoChildren, M2!NoChildren, M1!NoAction, M2!NoAction,
        LockStaysWith, lockOf, NoteHalfWritten, memory1, memory2

\* No manager has read anything yet, and the tables are at the recorded state.
LEMMA OverlapInit == Init => OverlapInv
<1> SUFFICES ASSUME Init PROVE OverlapInv
  OBVIOUS
<1> USE MaxSeqAssumption
        DEF Init, M1!Init, M1!TrackerInit, M1!RunnerInit, M1!MediatorInit, M1!SequenceNumbers,
            M2!Init, M2!TrackerInit, M2!RunnerInit, M2!MediatorInit, M2!SequenceNumbers
<1>1. ManagersOK
  OBVIOUS
<1>2. NumbersOK
  BY DEF NumbersOK, LateCommitsOK, AttemptOK, NumberReadOK
<1> QED
  BY <1>1, <1>2 DEF OverlapInv

--------------------------------------------------------------------------------
(* The steps of the first manager.                                         *)

\* The end of its process: the lock it holds is left, its action is abandoned and its
\* children live on for a while.
LEMMA FirstExitKeepsManagers ==
  ASSUME ManagersOK, LockStaysWith("second"), UNCHANGED memory2, NEW code,
         NEW lockAfter \in {"free", "left"}, NEW action, M1!Exit(code, lockAfter, action)
  PROVE  ManagersOK'
  BY DEF M1!Exit, M1!abandonChildren, M1!abandon, M1!Alive, M1!nextState, M1!trackerVars

\* The lock, the action and the memory in the steps around an attempt.
LEMMA FirstLoopKeepsManagers == ManagersOK /\ Step1 /\ M1!Loop => ManagersOK'
<1> SUFFICES ASSUME ManagersOK, Step1, M1!Loop PROVE ManagersOK'
  OBVIOUS
<1> USE FirstExitKeepsManagers
    DEF Step1, M1!At, M1!Goto, M1!trackerVars, M1!runnerVars, M1!mediatorVars, M1!Throw,
        M1!lockAtExit, M1!MediatorCallFails
<1>1. CASE M1!Prepare
  BY <1>1 DEF M1!Prepare
<1>2. CASE M1!Reserve
  BY <1>2 DEF M1!Reserve, M1!reserveAccess
<1>3. CASE M1!GetStart
  BY <1>3 DEF M1!GetStart, M1!getStartSequenceNumber
<1>4. CASE M1!GetReplication
  BY <1>4 DEF M1!GetReplication, M1!getReplicationSequenceNumber
<1>5. CASE M1!UnlockIdle
  BY <1>5 DEF M1!UnlockIdle, M1!removeLock
<1>6. CASE M1!CreateAction
  <2>1. CASE M1!createAction(M1!nextState) /\ M1!Goto("removeLock")
             /\ UNCHANGED <<M1!trackerVars, M1!runnerVars>>
    BY <1>6, <2>1 DEF M1!CreateAction, M1!createAction, M1!nextState
  <2>2. CASE \E landed \in BOOLEAN :
          M1!MediatorCallFails("left", IF landed THEN M1!nextState ELSE M1!NoAction)
    BY <2>2
  <2> QED
    BY <1>6, <2>1, <2>2 DEF M1!CreateAction
<1>7. CASE M1!Unlock
  BY <1>7 DEF M1!Unlock, M1!removeLock
<1>8. CASE M1!CompleteAction
  BY <1>8 DEF M1!CompleteAction, M1!updateAction, M1!NextIteration, M1!abandonChildren,
              M1!Alive, M1!nextState
<1>9. CASE M1!FailAction
  BY <1>9 DEF M1!FailAction, M1!updateAction
<1>10. CASE M1!Wait
  BY <1>10 DEF M1!Wait, M1!NextIteration, M1!abandonChildren, M1!Alive, M1!nextState
<1> QED
  BY <1>1, <1>2, <1>3, <1>4, <1>5, <1>6, <1>7, <1>8, <1>9, <1>10 DEF M1!Loop

\* In the steps of an attempt and of its children.
LEMMA FirstAttemptKeepsManagers ==
  ManagersOK /\ Step1 /\ (M1!Procedure \/ M1!Children) => ManagersOK'
<1> SUFFICES ASSUME ManagersOK, Step1, M1!Procedure \/ M1!Children PROVE ManagersOK'
  OBVIOUS
<1> USE DEF Step1, M1!At, M1!Goto, M1!Reject, M1!trackerVars, M1!runnerVars,
            M1!mediatorVars
<1>1. CASE M1!PreStatus \/ M1!PostStatus \/ M1!PostEnrollment
  BY <1>1 DEF M1!PreStatus, M1!PostStatus, M1!PostEnrollment
<1>2. CASE M1!GetDiff \/ M1!UnlinkDiffs
  BY <1>2 DEF M1!GetDiff, M1!UnlinkDiffs
<1>3. CASE M1!SimplifyDiff
  BY <1>3 DEF M1!SimplifyDiff, M1!spawnAll
<1>4. CASE M1!UpdateTimestamp
  BY <1>4 DEF M1!UpdateTimestamp, M1!putStateContent, M1!ToUpload, M1!bumpState,
              M1!nextState, M1!uploadVars
<1>5. CASE M1!UpdateState
  BY <1>5 DEF M1!UpdateState, M1!putStateContent
<1>6. CASE M1!Children
  BY <1>6 DEF M1!Children, M1!ChildSucceeds, M1!ChildFails, M1!childSucceeds,
              M1!childFails, M1!commit, M1!Alive, M1!nextState
<1> QED
  BY <1>1, <1>2, <1>3, <1>4, <1>5, <1>6 DEF M1!Procedure

\* And in the steps of everything around it.
LEMMA FirstEnvironmentKeepsManagers == ManagersOK /\ Step1 /\ M1!Environment => ManagersOK'
<1> SUFFICES ASSUME ManagersOK, Step1, M1!Environment PROVE ManagersOK'
  OBVIOUS
<1> USE DEF Step1, M1!trackerVars, M1!runnerVars, M1!mediatorVars, M1!controlVars
<1>1. CASE M1!SourcePublishes \/ M1!LockExpires
  BY <1>1 DEF M1!SourcePublishes, M1!Publish, M1!LockExpires, M1!expireLock
<1>2. CASE M1!SignalledEnds
  BY <1>2 DEF M1!SignalledEnds, M1!signalledEnds, M1!commit
<1>3. CASE M1!Sigterm \/ M1!CleanUp
  BY <1>3 DEF M1!Sigterm, M1!CleanUp, M1!interruptChildren
<1>4. CASE M1!TerminusEnds
  BY <1>4, FirstExitKeepsManagers DEF M1!TerminusEnds, M1!Throw, M1!lockAtExit
<1>5. CASE M1!Crash
  BY <1>5, FirstExitKeepsManagers DEF M1!Crash, M1!Throw, M1!lockAtExit
<1>6. CASE M1!Restart
  BY <1>6 DEF M1!Restart, M1!restartTracker
<1> QED
  BY <1>1, <1>2, <1>3, <1>4, <1>5, <1>6 DEF M1!Environment

\* The end of the process between two attempts, or in one before its puts: the children it
\* leaves behind are those of the diff it has worked on.
LEMMA FirstExitKeepsNumbers ==
  ASSUME ManagersOK, NumbersOK, UNCHANGED memory2, pc1 \notin {"updateTimestamp", "updateState"},
         NEW code, NEW lockAfter, NEW action, M1!Exit(code, lockAfter, action)
  PROVE  NumbersOK'
<1>1. /\ UNCHANGED <<bucket, applied, current1, signalled2>> /\ pc1' = "down"
      /\ children1' = M1!NoChildren
      /\ signalled1' = signalled1 \cup {<<e, current1 + 1>> : e \in {g \in Entities : M1!Alive(g)}}
  BY DEF M1!Exit, M1!abandonChildren, M1!nextState, M1!trackerVars
<1>2. \A d \in signalled1' : d \in signalled1 \/ (pc1 = "append" /\ d[2] = current1 + 1)
  BY <1>1 DEF M1!Alive
<1>3. \A d \in signalled1' \cup signalled2' :
        d[2] = bucket + 1 \/ (d[2] = bucket /\ Settled(bucket))
  BY <1>1, <1>2 DEF NumbersOK, LateCommitsOK, AttemptOK
<1>4. Settled(bucket) /\ ~(pc1 = "append" /\ current1 = bucket) => Settled(bucket)'
  BY <1>1, <1>2 DEF Settled, NumbersOK, AttemptOK
<1>5. LateCommitsOK'
  <2>1. CASE pc1 = "append" /\ current1 = bucket
    BY <1>1, <1>2, <2>1 DEF LateCommitsOK, NumbersOK, AttemptOK
  <2> QED
    BY <1>1, <1>3, <1>4, <2>1 DEF LateCommitsOK
<1>6. AttemptOK(pc1, current1, children1)' /\ AttemptOK(pc2, current2, children2)'
  <2>1. AttemptOK(pc1, current1, children1)'
    BY <1>1 DEF AttemptOK
  <2>2. CASE pc1 = "append"
    BY <1>1, <2>2 DEF AttemptOK
  <2>3. CASE pc1 # "append"
    <3>1. UNCHANGED <<bucket, applied, pc2, current2, children2, signalled1, signalled2>>
      BY <1>1, <2>3 DEF M1!Alive
    <3> QED
      BY <3>1, <2>1 DEF NumbersOK, AttemptOK, Settled
  <2> QED
    BY <2>1, <2>2, <2>3
<1>7. NumberReadOK(pc1, current1, pc2)' /\ NumberReadOK(pc2, current2, pc1)'
  BY <1>1, <1>4 DEF NumbersOK, NumberReadOK
<1> QED
  BY <1>1, <1>5, <1>6, <1>7 DEF NumbersOK

\* The numbers in the steps around an attempt.
LEMMA FirstLoopKeepsNumbers ==
  ManagersOK /\ NumbersOK /\ Step1 /\ ~halfWritten' /\ M1!Loop => NumbersOK'
<1> SUFFICES ASSUME ManagersOK, NumbersOK, Step1, ~halfWritten', M1!Loop PROVE NumbersOK'
  OBVIOUS
<1> USE FirstExitKeepsNumbers
    DEF Step1, NumbersOK, LateCommitsOK, AttemptOK, NumberReadOK, Settled, M1!At, M1!Goto,
        M1!trackerVars, M1!runnerVars, M1!mediatorVars, M1!Throw, M1!MediatorCallFails
<1>1. CASE M1!Prepare
  BY <1>1 DEF M1!Prepare
<1>2. CASE M1!Reserve
  BY <1>2 DEF M1!Reserve, M1!reserveAccess
<1>3. CASE M1!GetStart
  BY <1>3 DEF M1!GetStart, M1!getStartSequenceNumber
<1>4. CASE M1!GetReplication
  BY <1>4 DEF M1!GetReplication, M1!getReplicationSequenceNumber
<1>5. CASE M1!UnlockIdle
  BY <1>5 DEF M1!UnlockIdle, M1!removeLock
<1>6. CASE M1!CreateAction
  <2>1. CASE M1!createAction(M1!nextState) /\ M1!Goto("removeLock")
             /\ UNCHANGED <<M1!trackerVars, M1!runnerVars>>
    BY <1>6, <2>1 DEF M1!CreateAction, M1!createAction, M1!nextState
  <2>2. CASE \E landed \in BOOLEAN :
          M1!MediatorCallFails("left", IF landed THEN M1!nextState ELSE M1!NoAction)
    BY <1>6, <2>2 DEF M1!CreateAction
  <2> QED
    BY <1>6, <2>1, <2>2 DEF M1!CreateAction
<1>7. CASE M1!Unlock
  BY <1>7 DEF M1!Unlock, M1!removeLock
<1>8. CASE M1!CompleteAction
  BY <1>8 DEF M1!CompleteAction, M1!updateAction, M1!NextIteration, M1!abandonChildren,
              M1!Alive, M1!nextState
<1>9. CASE M1!FailAction
  BY <1>9 DEF M1!FailAction, M1!updateAction
<1>10. CASE M1!Wait
  BY <1>10 DEF M1!Wait, M1!NextIteration, M1!abandonChildren, M1!Alive, M1!nextState
<1> QED
  BY <1>1, <1>2, <1>3, <1>4, <1>5, <1>6, <1>7, <1>8, <1>9, <1>10 DEF M1!Loop

\* A step of an attempt before its puts, or one of its children.
LEMMA FirstAttemptKeepsNumbers ==
  ManagersOK /\ NumbersOK /\ Step1 /\ ~halfWritten' /\ (M1!Procedure \/ M1!Children)
    => NumbersOK'
<1> SUFFICES ASSUME ManagersOK, NumbersOK, Step1, ~halfWritten',
                    M1!Procedure \/ M1!Children
             PROVE  NumbersOK'
  OBVIOUS
<1> USE DEF Step1, NumbersOK, LateCommitsOK, AttemptOK, NumberReadOK, Settled, M1!At, M1!Goto,
            M1!Reject, M1!trackerVars, M1!runnerVars, M1!mediatorVars
<1>1. CASE M1!PreStatus \/ M1!PostStatus \/ M1!PostEnrollment
  BY <1>1 DEF M1!PreStatus, M1!PostStatus, M1!PostEnrollment
<1>2. CASE M1!GetDiff \/ M1!UnlinkDiffs
  BY <1>2 DEF M1!GetDiff, M1!UnlinkDiffs
<1>3. CASE M1!SimplifyDiff
  BY <1>3 DEF M1!SimplifyDiff, M1!spawnAll, M1!nextState, EarlierChildrenGone
<1>4. CASE M1!UpdateTimestamp
  BY <1>4 DEF M1!UpdateTimestamp, M1!putStateContent, M1!ToUpload, M1!bumpState,
              M1!nextState, M1!uploadVars
<1>5. CASE M1!UpdateState
  \* A put that fails ends the attempt half written.
  <2>1. /\ bucket' = bucket + 1 /\ current1 = bucket + 1 /\ Settled(bucket + 1)
        /\ pc1 = "updateState" /\ pc1' = "completeAction"
        /\ UNCHANGED <<applied, current1, children1, signalled1, signalled2>>
    BY <1>5 DEF M1!UpdateState, M1!putStateContent
  <2>2. Settled(bucket)' /\ LateCommitsOK'
    BY <2>1
  <2>3. AttemptOK(pc1, current1, children1)' /\ AttemptOK(pc2, current2, children2)'
    BY <2>1
  <2>4. NumberReadOK(pc1, current1, pc2)' /\ NumberReadOK(pc2, current2, pc1)'
    BY <2>1
  <2> QED
    BY <2>1, <2>2, <2>3, <2>4
<1>6. CASE M1!Children
  BY <1>6 DEF M1!Children, M1!ChildSucceeds, M1!ChildFails, M1!childSucceeds,
              M1!childFails, M1!commit, M1!Alive, M1!nextState
<1> QED
  BY <1>1, <1>2, <1>3, <1>4, <1>5, <1>6 DEF M1!Procedure

\* A step of everything around it.
LEMMA FirstEnvironmentKeepsNumbers ==
  ManagersOK /\ NumbersOK /\ Step1 /\ ~halfWritten' /\ M1!Environment => NumbersOK'
<1> SUFFICES ASSUME ManagersOK, NumbersOK, Step1, ~halfWritten', M1!Environment
             PROVE  NumbersOK'
  OBVIOUS
<1> USE DEF Step1, M1!trackerVars, M1!runnerVars, M1!mediatorVars, M1!controlVars
<1>1. CASE M1!TerminusEnds \/ M1!Crash
  <2>1. CASE pc1' = "down"
    BY <1>1, <2>1, FirstExitKeepsNumbers DEF M1!TerminusEnds, M1!Crash, M1!Throw
  <2>2. CASE pc1' # "down"
    BY <1>1, <2>2 DEF M1!TerminusEnds, M1!Crash, M1!Throw, M1!Exit, NumbersOK, LateCommitsOK,
       AttemptOK, NumberReadOK, Settled
  <2> QED
    BY <2>1, <2>2
<1> USE DEF NumbersOK, LateCommitsOK, AttemptOK, NumberReadOK, Settled
<1>2. CASE M1!SourcePublishes \/ M1!LockExpires
  BY <1>2 DEF M1!SourcePublishes, M1!Publish, M1!LockExpires, M1!expireLock
<1>3. CASE M1!SignalledEnds
  BY <1>3 DEF M1!SignalledEnds, M1!signalledEnds, M1!commit
<1>4. CASE M1!Sigterm
  BY <1>4 DEF M1!Sigterm
<1>5. CASE M1!CleanUp
  BY <1>5 DEF M1!CleanUp, M1!interruptChildren
<1>6. CASE M1!Restart
  BY <1>6 DEF M1!Restart, M1!restartTracker
<1> QED
  BY <1>1, <1>2, <1>3, <1>4, <1>5, <1>6 DEF M1!Environment

\* createAction refused by the service ends the process as any error of it does.
LEMMA FirstRefusedKeeps ==
  ASSUME OverlapInv, Refused1
  PROVE  OverlapInv'
<1>1. ManagersOK'
  BY FirstExitKeepsManagers DEF OverlapInv, Refused1
<1>2. NumbersOK => NumbersOK'
  BY FirstExitKeepsNumbers DEF OverlapInv, Refused1
<1> QED
  BY <1>1, <1>2 DEF OverlapInv, Refused1

\* All its steps.  Uploads and enrollments are off, and it is never at rest.
LEMMA FirstStepKeeps ==
  ASSUME OverlapInv, Step1
  PROVE  OverlapInv'
<1>1. M1!Loop \/ M1!Procedure \/ M1!Children \/ M1!Environment \/ UNCHANGED M1!vars
  BY DEF Step1, M1!Next, M1!Task, M1!Finished, M1!Stalled
<1>2. ~halfWritten' => ~halfWritten
  BY DEF Step1
<1>3. CASE M1!Loop
  BY <1>2, <1>3, FirstLoopKeepsManagers, FirstLoopKeepsNumbers DEF OverlapInv
<1>4. CASE M1!Procedure \/ M1!Children
  BY <1>2, <1>4, FirstAttemptKeepsManagers, FirstAttemptKeepsNumbers DEF OverlapInv
<1>5. CASE M1!Environment
  BY <1>2, <1>5, FirstEnvironmentKeepsManagers, FirstEnvironmentKeepsNumbers DEF OverlapInv
<1>6. CASE UNCHANGED M1!vars
  <2>1. UNCHANGED <<bucket, applied, memory1, memory2>>
    BY <1>6 DEF Step1, M1!vars, M1!trackerVars, M1!runnerVars, M1!mediatorVars,
                M1!controlVars
  <2>2. UNCHANGED holder
    <3>1. lockOf("first")' = lockOf("first")
      BY <1>6 DEF M1!vars, M1!mediatorVars
    <3> QED
      BY <3>1 DEF OverlapInv, Step1, Manager
  <2> QED
    BY <1>2, <2>1, <2>2 DEF OverlapInv, NumbersOK, LateCommitsOK, AttemptOK, NumberReadOK, Settled
<1> QED
  BY <1>1, <1>3, <1>4, <1>5, <1>6

\* What its steps do to the recorded state and to the tables.
LEMMA FirstStepInOrder ==
  ASSUME ManagersOK, NumbersOK, Step1
  PROVE  /\ bucket' >= bucket - 1
         /\ \A e \in Entities : applied'[e] \in {applied[e], applied[e] + 1}
<1> USE DEF Step1, M1!trackerVars
<1>1. CASE UNCHANGED <<bucket, applied>>
  BY <1>1
<1>2. CASE M1!UpdateTimestamp \/ M1!UpdateState
  BY <1>2 DEF NumbersOK, AttemptOK, M1!UpdateTimestamp, M1!UpdateState, M1!putStateContent,
              M1!runnerVars, M1!mediatorVars, M1!At
<1>3. CASE M1!Children
  BY <1>3 DEF NumbersOK, AttemptOK, Settled, M1!Children, M1!ChildSucceeds, M1!ChildFails,
              M1!childSucceeds, M1!childFails, M1!commit, M1!Alive, M1!nextState, M1!At
<1>4. CASE M1!SignalledEnds
  BY <1>4 DEF NumbersOK, LateCommitsOK, Settled, M1!SignalledEnds, M1!signalledEnds, M1!commit
<1>5. CASE M1!Loop
  <2>1. UNCHANGED <<bucket, applied>>
    BY <1>5 DEF M1!Loop, M1!Prepare, M1!Reserve, M1!GetStart, M1!GetReplication, M1!UnlockIdle,
       M1!CreateAction, M1!Unlock, M1!CompleteAction, M1!FailAction, M1!Wait, M1!NextIteration,
       M1!Throw, M1!Exit, M1!MediatorCallFails, M1!abandonChildren, M1!runnerVars,
       M1!getStartSequenceNumber, M1!getReplicationSequenceNumber
  <2> QED
    BY <1>1, <2>1
<1>6. CASE M1!Procedure /\ ~M1!UpdateTimestamp /\ ~M1!UpdateState
  <2>1. UNCHANGED <<bucket, applied>>
    BY <1>6 DEF M1!Procedure, M1!PreStatus, M1!GetDiff, M1!SimplifyDiff, M1!spawnAll,
       M1!UnlinkDiffs, M1!PostStatus, M1!PostEnrollment, M1!runnerVars, M1!At
  <2> QED
    BY <1>1, <2>1
<1>7. CASE M1!Environment /\ ~M1!SignalledEnds
  <2>1. UNCHANGED <<bucket, applied>>
    BY <1>7 DEF M1!Environment, M1!SourcePublishes, M1!Publish, M1!LockExpires, M1!Sigterm,
       M1!CleanUp, M1!interruptChildren, M1!TerminusEnds, M1!Crash, M1!Restart,
       M1!restartTracker, M1!Throw, M1!Exit, M1!abandonChildren, M1!runnerVars
  <2> QED
    BY <1>1, <2>1
<1>8. CASE UNCHANGED M1!vars
  BY <1>1, <1>8 DEF M1!vars, M1!runnerVars
<1>9. M1!Loop \/ M1!Procedure \/ M1!Children \/ M1!Environment \/ UNCHANGED M1!vars
  BY DEF M1!Next, M1!Task, M1!Finished, M1!Stalled
<1> QED
  BY <1>1, <1>2, <1>3, <1>4, <1>5, <1>6, <1>7, <1>8, <1>9

--------------------------------------------------------------------------------
(* The steps of the second manager.                                        *)

\* The end of its process: the lock it holds is left, its action is abandoned and its
\* children live on for a while.
LEMMA SecondExitKeepsManagers ==
  ASSUME ManagersOK, LockStaysWith("first"), UNCHANGED memory1, NEW code,
         NEW lockAfter \in {"free", "left"}, NEW action, M2!Exit(code, lockAfter, action)
  PROVE  ManagersOK'
  BY DEF M2!Exit, M2!abandonChildren, M2!abandon, M2!Alive, M2!nextState, M2!trackerVars

\* The lock, the action and the memory in the steps around an attempt.
LEMMA SecondLoopKeepsManagers == ManagersOK /\ Step2 /\ M2!Loop => ManagersOK'
<1> SUFFICES ASSUME ManagersOK, Step2, M2!Loop PROVE ManagersOK'
  OBVIOUS
<1> USE SecondExitKeepsManagers
    DEF Step2, M2!At, M2!Goto, M2!trackerVars, M2!runnerVars, M2!mediatorVars, M2!Throw,
        M2!lockAtExit, M2!MediatorCallFails
<1>1. CASE M2!Prepare
  BY <1>1 DEF M2!Prepare
<1>2. CASE M2!Reserve
  BY <1>2 DEF M2!Reserve, M2!reserveAccess
<1>3. CASE M2!GetStart
  BY <1>3 DEF M2!GetStart, M2!getStartSequenceNumber
<1>4. CASE M2!GetReplication
  BY <1>4 DEF M2!GetReplication, M2!getReplicationSequenceNumber
<1>5. CASE M2!UnlockIdle
  BY <1>5 DEF M2!UnlockIdle, M2!removeLock
<1>6. CASE M2!CreateAction
  <2>1. CASE M2!createAction(M2!nextState) /\ M2!Goto("removeLock")
             /\ UNCHANGED <<M2!trackerVars, M2!runnerVars>>
    BY <1>6, <2>1 DEF M2!CreateAction, M2!createAction, M2!nextState
  <2>2. CASE \E landed \in BOOLEAN :
          M2!MediatorCallFails("left", IF landed THEN M2!nextState ELSE M2!NoAction)
    BY <2>2
  <2> QED
    BY <1>6, <2>1, <2>2 DEF M2!CreateAction
<1>7. CASE M2!Unlock
  BY <1>7 DEF M2!Unlock, M2!removeLock
<1>8. CASE M2!CompleteAction
  BY <1>8 DEF M2!CompleteAction, M2!updateAction, M2!NextIteration, M2!abandonChildren,
              M2!Alive, M2!nextState
<1>9. CASE M2!FailAction
  BY <1>9 DEF M2!FailAction, M2!updateAction
<1>10. CASE M2!Wait
  BY <1>10 DEF M2!Wait, M2!NextIteration, M2!abandonChildren, M2!Alive, M2!nextState
<1> QED
  BY <1>1, <1>2, <1>3, <1>4, <1>5, <1>6, <1>7, <1>8, <1>9, <1>10 DEF M2!Loop

\* In the steps of an attempt and of its children.
LEMMA SecondAttemptKeepsManagers ==
  ManagersOK /\ Step2 /\ (M2!Procedure \/ M2!Children) => ManagersOK'
<1> SUFFICES ASSUME ManagersOK, Step2, M2!Procedure \/ M2!Children PROVE ManagersOK'
  OBVIOUS
<1> USE DEF Step2, M2!At, M2!Goto, M2!Reject, M2!trackerVars, M2!runnerVars,
            M2!mediatorVars
<1>1. CASE M2!PreStatus \/ M2!PostStatus \/ M2!PostEnrollment
  BY <1>1 DEF M2!PreStatus, M2!PostStatus, M2!PostEnrollment
<1>2. CASE M2!GetDiff \/ M2!UnlinkDiffs
  BY <1>2 DEF M2!GetDiff, M2!UnlinkDiffs
<1>3. CASE M2!SimplifyDiff
  BY <1>3 DEF M2!SimplifyDiff, M2!spawnAll
<1>4. CASE M2!UpdateTimestamp
  BY <1>4 DEF M2!UpdateTimestamp, M2!putStateContent, M2!ToUpload, M2!bumpState,
              M2!nextState, M2!uploadVars
<1>5. CASE M2!UpdateState
  BY <1>5 DEF M2!UpdateState, M2!putStateContent
<1>6. CASE M2!Children
  BY <1>6 DEF M2!Children, M2!ChildSucceeds, M2!ChildFails, M2!childSucceeds,
              M2!childFails, M2!commit, M2!Alive, M2!nextState
<1> QED
  BY <1>1, <1>2, <1>3, <1>4, <1>5, <1>6 DEF M2!Procedure

\* And in the steps of everything around it.
LEMMA SecondEnvironmentKeepsManagers == ManagersOK /\ Step2 /\ M2!Environment => ManagersOK'
<1> SUFFICES ASSUME ManagersOK, Step2, M2!Environment PROVE ManagersOK'
  OBVIOUS
<1> USE DEF Step2, M2!trackerVars, M2!runnerVars, M2!mediatorVars, M2!controlVars
<1>1. CASE M2!SourcePublishes \/ M2!LockExpires
  BY <1>1 DEF M2!SourcePublishes, M2!Publish, M2!LockExpires, M2!expireLock
<1>2. CASE M2!SignalledEnds
  BY <1>2 DEF M2!SignalledEnds, M2!signalledEnds, M2!commit
<1>3. CASE M2!Sigterm \/ M2!CleanUp
  BY <1>3 DEF M2!Sigterm, M2!CleanUp, M2!interruptChildren
<1>4. CASE M2!TerminusEnds
  BY <1>4, SecondExitKeepsManagers DEF M2!TerminusEnds, M2!Throw, M2!lockAtExit
<1>5. CASE M2!Crash
  BY <1>5, SecondExitKeepsManagers DEF M2!Crash, M2!Throw, M2!lockAtExit
<1>6. CASE M2!Restart
  BY <1>6 DEF M2!Restart, M2!restartTracker
<1> QED
  BY <1>1, <1>2, <1>3, <1>4, <1>5, <1>6 DEF M2!Environment

\* The end of the process between two attempts, or in one before its puts: the children it
\* leaves behind are those of the diff it has worked on.
LEMMA SecondExitKeepsNumbers ==
  ASSUME ManagersOK, NumbersOK, UNCHANGED memory1, pc2 \notin {"updateTimestamp", "updateState"},
         NEW code, NEW lockAfter, NEW action, M2!Exit(code, lockAfter, action)
  PROVE  NumbersOK'
<1>1. /\ UNCHANGED <<bucket, applied, current2, signalled1>> /\ pc2' = "down"
      /\ children2' = M2!NoChildren
      /\ signalled2' = signalled2 \cup {<<e, current2 + 1>> : e \in {g \in Entities : M2!Alive(g)}}
  BY DEF M2!Exit, M2!abandonChildren, M2!nextState, M2!trackerVars
<1>2. \A d \in signalled2' : d \in signalled2 \/ (pc2 = "append" /\ d[2] = current2 + 1)
  BY <1>1 DEF M2!Alive
<1>3. \A d \in signalled2' \cup signalled1' :
        d[2] = bucket + 1 \/ (d[2] = bucket /\ Settled(bucket))
  BY <1>1, <1>2 DEF NumbersOK, LateCommitsOK, AttemptOK
<1>4. Settled(bucket) /\ ~(pc2 = "append" /\ current2 = bucket) => Settled(bucket)'
  BY <1>1, <1>2 DEF Settled, NumbersOK, AttemptOK
<1>5. LateCommitsOK'
  <2>1. CASE pc2 = "append" /\ current2 = bucket
    BY <1>1, <1>2, <2>1 DEF LateCommitsOK, NumbersOK, AttemptOK
  <2> QED
    BY <1>1, <1>3, <1>4, <2>1 DEF LateCommitsOK
<1>6. AttemptOK(pc2, current2, children2)' /\ AttemptOK(pc1, current1, children1)'
  <2>1. AttemptOK(pc2, current2, children2)'
    BY <1>1 DEF AttemptOK
  <2>2. CASE pc2 = "append"
    BY <1>1, <2>2 DEF AttemptOK
  <2>3. CASE pc2 # "append"
    <3>1. UNCHANGED <<bucket, applied, pc1, current1, children1, signalled2, signalled1>>
      BY <1>1, <2>3 DEF M2!Alive
    <3> QED
      BY <3>1, <2>1 DEF NumbersOK, AttemptOK, Settled
  <2> QED
    BY <2>1, <2>2, <2>3
<1>7. NumberReadOK(pc2, current2, pc1)' /\ NumberReadOK(pc1, current1, pc2)'
  BY <1>1, <1>4 DEF NumbersOK, NumberReadOK
<1> QED
  BY <1>1, <1>5, <1>6, <1>7 DEF NumbersOK

\* The numbers in the steps around an attempt.
LEMMA SecondLoopKeepsNumbers ==
  ManagersOK /\ NumbersOK /\ Step2 /\ ~halfWritten' /\ M2!Loop => NumbersOK'
<1> SUFFICES ASSUME ManagersOK, NumbersOK, Step2, ~halfWritten', M2!Loop PROVE NumbersOK'
  OBVIOUS
<1> USE SecondExitKeepsNumbers
    DEF Step2, NumbersOK, LateCommitsOK, AttemptOK, NumberReadOK, Settled, M2!At, M2!Goto,
        M2!trackerVars, M2!runnerVars, M2!mediatorVars, M2!Throw, M2!MediatorCallFails
<1>1. CASE M2!Prepare
  BY <1>1 DEF M2!Prepare
<1>2. CASE M2!Reserve
  BY <1>2 DEF M2!Reserve, M2!reserveAccess
<1>3. CASE M2!GetStart
  BY <1>3 DEF M2!GetStart, M2!getStartSequenceNumber
<1>4. CASE M2!GetReplication
  BY <1>4 DEF M2!GetReplication, M2!getReplicationSequenceNumber
<1>5. CASE M2!UnlockIdle
  BY <1>5 DEF M2!UnlockIdle, M2!removeLock
<1>6. CASE M2!CreateAction
  <2>1. CASE M2!createAction(M2!nextState) /\ M2!Goto("removeLock")
             /\ UNCHANGED <<M2!trackerVars, M2!runnerVars>>
    BY <1>6, <2>1 DEF M2!CreateAction, M2!createAction, M2!nextState
  <2>2. CASE \E landed \in BOOLEAN :
          M2!MediatorCallFails("left", IF landed THEN M2!nextState ELSE M2!NoAction)
    BY <1>6, <2>2 DEF M2!CreateAction
  <2> QED
    BY <1>6, <2>1, <2>2 DEF M2!CreateAction
<1>7. CASE M2!Unlock
  BY <1>7 DEF M2!Unlock, M2!removeLock
<1>8. CASE M2!CompleteAction
  BY <1>8 DEF M2!CompleteAction, M2!updateAction, M2!NextIteration, M2!abandonChildren,
              M2!Alive, M2!nextState
<1>9. CASE M2!FailAction
  BY <1>9 DEF M2!FailAction, M2!updateAction
<1>10. CASE M2!Wait
  BY <1>10 DEF M2!Wait, M2!NextIteration, M2!abandonChildren, M2!Alive, M2!nextState
<1> QED
  BY <1>1, <1>2, <1>3, <1>4, <1>5, <1>6, <1>7, <1>8, <1>9, <1>10 DEF M2!Loop

\* A step of an attempt before its puts, or one of its children.
LEMMA SecondAttemptKeepsNumbers ==
  ManagersOK /\ NumbersOK /\ Step2 /\ ~halfWritten' /\ (M2!Procedure \/ M2!Children)
    => NumbersOK'
<1> SUFFICES ASSUME ManagersOK, NumbersOK, Step2, ~halfWritten',
                    M2!Procedure \/ M2!Children
             PROVE  NumbersOK'
  OBVIOUS
<1> USE DEF Step2, NumbersOK, LateCommitsOK, AttemptOK, NumberReadOK, Settled, M2!At, M2!Goto,
            M2!Reject, M2!trackerVars, M2!runnerVars, M2!mediatorVars
<1>1. CASE M2!PreStatus \/ M2!PostStatus \/ M2!PostEnrollment
  BY <1>1 DEF M2!PreStatus, M2!PostStatus, M2!PostEnrollment
<1>2. CASE M2!GetDiff \/ M2!UnlinkDiffs
  BY <1>2 DEF M2!GetDiff, M2!UnlinkDiffs
<1>3. CASE M2!SimplifyDiff
  BY <1>3 DEF M2!SimplifyDiff, M2!spawnAll, M2!nextState, EarlierChildrenGone
<1>4. CASE M2!UpdateTimestamp
  BY <1>4 DEF M2!UpdateTimestamp, M2!putStateContent, M2!ToUpload, M2!bumpState,
              M2!nextState, M2!uploadVars
<1>5. CASE M2!UpdateState
  \* A put that fails ends the attempt half written.
  <2>1. /\ bucket' = bucket + 1 /\ current2 = bucket + 1 /\ Settled(bucket + 1)
        /\ pc2 = "updateState" /\ pc2' = "completeAction"
        /\ UNCHANGED <<applied, current2, children2, signalled2, signalled1>>
    BY <1>5 DEF M2!UpdateState, M2!putStateContent
  <2>2. Settled(bucket)' /\ LateCommitsOK'
    BY <2>1
  <2>3. AttemptOK(pc1, current1, children1)' /\ AttemptOK(pc2, current2, children2)'
    BY <2>1
  <2>4. NumberReadOK(pc1, current1, pc2)' /\ NumberReadOK(pc2, current2, pc1)'
    BY <2>1
  <2> QED
    BY <2>1, <2>2, <2>3, <2>4
<1>6. CASE M2!Children
  BY <1>6 DEF M2!Children, M2!ChildSucceeds, M2!ChildFails, M2!childSucceeds,
              M2!childFails, M2!commit, M2!Alive, M2!nextState
<1> QED
  BY <1>1, <1>2, <1>3, <1>4, <1>5, <1>6 DEF M2!Procedure

\* A step of everything around it.
LEMMA SecondEnvironmentKeepsNumbers ==
  ManagersOK /\ NumbersOK /\ Step2 /\ ~halfWritten' /\ M2!Environment => NumbersOK'
<1> SUFFICES ASSUME ManagersOK, NumbersOK, Step2, ~halfWritten', M2!Environment
             PROVE  NumbersOK'
  OBVIOUS
<1> USE DEF Step2, M2!trackerVars, M2!runnerVars, M2!mediatorVars, M2!controlVars
<1>1. CASE M2!TerminusEnds \/ M2!Crash
  <2>1. CASE pc2' = "down"
    BY <1>1, <2>1, SecondExitKeepsNumbers DEF M2!TerminusEnds, M2!Crash, M2!Throw
  <2>2. CASE pc2' # "down"
    BY <1>1, <2>2 DEF M2!TerminusEnds, M2!Crash, M2!Throw, M2!Exit, NumbersOK, LateCommitsOK,
       AttemptOK, NumberReadOK, Settled
  <2> QED
    BY <2>1, <2>2
<1> USE DEF NumbersOK, LateCommitsOK, AttemptOK, NumberReadOK, Settled
<1>2. CASE M2!SourcePublishes \/ M2!LockExpires
  BY <1>2 DEF M2!SourcePublishes, M2!Publish, M2!LockExpires, M2!expireLock
<1>3. CASE M2!SignalledEnds
  BY <1>3 DEF M2!SignalledEnds, M2!signalledEnds, M2!commit
<1>4. CASE M2!Sigterm
  BY <1>4 DEF M2!Sigterm
<1>5. CASE M2!CleanUp
  BY <1>5 DEF M2!CleanUp, M2!interruptChildren
<1>6. CASE M2!Restart
  BY <1>6 DEF M2!Restart, M2!restartTracker
<1> QED
  BY <1>1, <1>2, <1>3, <1>4, <1>5, <1>6 DEF M2!Environment

\* createAction refused by the service ends the process as any error of it does.
LEMMA SecondRefusedKeeps ==
  ASSUME OverlapInv, Refused2
  PROVE  OverlapInv'
<1>1. ManagersOK'
  BY SecondExitKeepsManagers DEF OverlapInv, Refused2
<1>2. NumbersOK => NumbersOK'
  BY SecondExitKeepsNumbers DEF OverlapInv, Refused2
<1> QED
  BY <1>1, <1>2 DEF OverlapInv, Refused2

\* All its steps.  Uploads and enrollments are off, and it is never at rest.
LEMMA SecondStepKeeps ==
  ASSUME OverlapInv, Step2
  PROVE  OverlapInv'
<1>1. M2!Loop \/ M2!Procedure \/ M2!Children \/ M2!Environment \/ UNCHANGED M2!vars
  BY DEF Step2, M2!Next, M2!Task, M2!Finished, M2!Stalled
<1>2. ~halfWritten' => ~halfWritten
  BY DEF Step2
<1>3. CASE M2!Loop
  BY <1>2, <1>3, SecondLoopKeepsManagers, SecondLoopKeepsNumbers DEF OverlapInv
<1>4. CASE M2!Procedure \/ M2!Children
  BY <1>2, <1>4, SecondAttemptKeepsManagers, SecondAttemptKeepsNumbers DEF OverlapInv
<1>5. CASE M2!Environment
  BY <1>2, <1>5, SecondEnvironmentKeepsManagers, SecondEnvironmentKeepsNumbers DEF OverlapInv
<1>6. CASE UNCHANGED M2!vars
  <2>1. UNCHANGED <<bucket, applied, memory1, memory2>>
    BY <1>6 DEF Step2, M2!vars, M2!trackerVars, M2!runnerVars, M2!mediatorVars,
                M2!controlVars
  <2>2. UNCHANGED holder
    <3>1. lockOf("second")' = lockOf("second")
      BY <1>6 DEF M2!vars, M2!mediatorVars
    <3> QED
      BY <3>1 DEF OverlapInv, Step2, Manager
  <2> QED
    BY <1>2, <2>1, <2>2 DEF OverlapInv, NumbersOK, LateCommitsOK, AttemptOK, NumberReadOK, Settled
<1> QED
  BY <1>1, <1>3, <1>4, <1>5, <1>6

\* What its steps do to the recorded state and to the tables.
LEMMA SecondStepInOrder ==
  ASSUME ManagersOK, NumbersOK, Step2
  PROVE  /\ bucket' >= bucket - 1
         /\ \A e \in Entities : applied'[e] \in {applied[e], applied[e] + 1}
<1> USE DEF Step2, M2!trackerVars
<1>1. CASE UNCHANGED <<bucket, applied>>
  BY <1>1
<1>2. CASE M2!UpdateTimestamp \/ M2!UpdateState
  BY <1>2 DEF NumbersOK, AttemptOK, M2!UpdateTimestamp, M2!UpdateState, M2!putStateContent,
              M2!runnerVars, M2!mediatorVars, M2!At
<1>3. CASE M2!Children
  BY <1>3 DEF NumbersOK, AttemptOK, Settled, M2!Children, M2!ChildSucceeds, M2!ChildFails,
              M2!childSucceeds, M2!childFails, M2!commit, M2!Alive, M2!nextState, M2!At
<1>4. CASE M2!SignalledEnds
  BY <1>4 DEF NumbersOK, LateCommitsOK, Settled, M2!SignalledEnds, M2!signalledEnds, M2!commit
<1>5. CASE M2!Loop
  <2>1. UNCHANGED <<bucket, applied>>
    BY <1>5 DEF M2!Loop, M2!Prepare, M2!Reserve, M2!GetStart, M2!GetReplication, M2!UnlockIdle,
       M2!CreateAction, M2!Unlock, M2!CompleteAction, M2!FailAction, M2!Wait, M2!NextIteration,
       M2!Throw, M2!Exit, M2!MediatorCallFails, M2!abandonChildren, M2!runnerVars,
       M2!getStartSequenceNumber, M2!getReplicationSequenceNumber
  <2> QED
    BY <1>1, <2>1
<1>6. CASE M2!Procedure /\ ~M2!UpdateTimestamp /\ ~M2!UpdateState
  <2>1. UNCHANGED <<bucket, applied>>
    BY <1>6 DEF M2!Procedure, M2!PreStatus, M2!GetDiff, M2!SimplifyDiff, M2!spawnAll,
       M2!UnlinkDiffs, M2!PostStatus, M2!PostEnrollment, M2!runnerVars, M2!At
  <2> QED
    BY <1>1, <2>1
<1>7. CASE M2!Environment /\ ~M2!SignalledEnds
  <2>1. UNCHANGED <<bucket, applied>>
    BY <1>7 DEF M2!Environment, M2!SourcePublishes, M2!Publish, M2!LockExpires, M2!Sigterm,
       M2!CleanUp, M2!interruptChildren, M2!TerminusEnds, M2!Crash, M2!Restart,
       M2!restartTracker, M2!Throw, M2!Exit, M2!abandonChildren, M2!runnerVars
  <2> QED
    BY <1>1, <2>1
<1>8. CASE UNCHANGED M2!vars
  BY <1>1, <1>8 DEF M2!vars, M2!runnerVars
<1>9. M2!Loop \/ M2!Procedure \/ M2!Children \/ M2!Environment \/ UNCHANGED M2!vars
  BY DEF M2!Next, M2!Task, M2!Finished, M2!Stalled
<1> QED
  BY <1>1, <1>2, <1>3, <1>4, <1>5, <1>6, <1>7, <1>8, <1>9

--------------------------------------------------------------------------------
(* The two together.                                                       *)

\* No step of either process leaves the invariant.
LEMMA OverlapStep == OverlapInv /\ [Next]_vars => OverlapInv'
<1> SUFFICES ASSUME OverlapInv, [Next]_vars PROVE OverlapInv'
  OBVIOUS
<1>1. CASE Step1
  BY <1>1, FirstStepKeeps
<1>2. CASE Step2
  BY <1>2, SecondStepKeeps
<1>3. CASE Refused1
  BY <1>3, FirstRefusedKeeps
<1>4. CASE Refused2
  BY <1>4, SecondRefusedKeeps
<1>5. CASE UNCHANGED vars
  BY <1>5 DEF vars, OverlapInv, NumbersOK, LateCommitsOK, AttemptOK, NumberReadOK, Settled
<1> QED
  BY <1>1, <1>2, <1>3, <1>4, <1>5 DEF Next

\* What any step does to the recorded state and to the tables.
LEMMA OverlapStepInOrder ==
  ASSUME OverlapInv, ~halfWritten, [Next]_vars
  PROVE  /\ bucket' >= bucket - 1
         /\ \A e \in Entities : applied'[e] \in {applied[e], applied[e] + 1}
<1>1. ManagersOK /\ NumbersOK
  BY DEF OverlapInv
<1>2. CASE Step1
  BY <1>1, <1>2, FirstStepInOrder
<1>3. CASE Step2
  BY <1>1, <1>3, SecondStepInOrder
<1>4. CASE Refused1 \/ Refused2 \/ UNCHANGED vars
  <2>1. UNCHANGED <<bucket, applied>>
    BY <1>4 DEF Refused1, Refused2, M1!Exit, M2!Exit, M1!trackerVars, M2!trackerVars,
                M1!abandonChildren, M2!abandonChildren, vars
  <2> QED
    BY <1>1, <2>1
<1> QED
  BY <1>2, <1>3, <1>4 DEF Next

--------------------------------------------------------------------------------
\* The inductive invariant of two managers on one project holds for any entities, any
\* length of the source and any number of faults.
THEOREM OverlapHolds == Spec => []OverlapInv
<1> HIDE DEF OverlapInv, Init, Next, vars
<1> QED
  BY OverlapInit, OverlapStep, PTL DEF Spec

\* The tables stay at the recorded state or one diff further, whichever of two managers
\* appends and however stale the number it has read.
THEOREM TablesStayNear == Spec => []AppliedWithinOneOfRecorded
<1>1. OverlapInv => AppliedWithinOneOfRecorded
  BY DEF OverlapInv, NumbersOK, AppliedWithinOneOfRecorded
<1> QED
  BY <1>1, OverlapHolds, PTL

\* No diff is left out and none is committed after a later one, by either manager or by a
\* child one of them has left behind.
THEOREM DiffsStayInOrder == Spec => TablesInOrder
<1>1. OverlapInv /\ [Next]_vars =>
        [~halfWritten => \A e \in Entities : applied'[e] \in {applied[e], applied[e] + 1}]_vars
  BY OverlapStepInOrder
<1> HIDE DEF OverlapInv, Init, Next, vars
<1> QED
  BY <1>1, OverlapHolds, PTL DEF Spec, TablesInOrder

\* The recorded state is taken back by one diff at most.
THEOREM StateStaysNear == Spec => StateSlipsByOneAtMost
<1>1. OverlapInv /\ [Next]_vars => [~halfWritten => bucket' >= bucket - 1]_vars
  BY OverlapStepInOrder
<1> HIDE DEF OverlapInv, Init, Next, vars
<1> QED
  BY <1>1, OverlapHolds, PTL DEF Spec, StateSlipsByOneAtMost
================================================================================
