----------------------------- MODULE AppendManager -----------------------------
(***************************************************************************)
(* The append command: AppendManager.append and AppendManager.appendForever *)
(* with everything they await, composed from the state tracker, the        *)
(* osm2pgsql children, the expire-list uploads, the mediator and MDR.      *)
(*                                                                         *)
(* One step of the manager runs from one await to the next.  "pc" names    *)
(* the call the manager awaits; the step is the answer to that call and    *)
(* the code up to the next one.  A call can fail, with or without its      *)
(* effect having taken place, MaxFaults times in a behaviour; a crash or a *)
(* SIGTERM counts as a fault too.                                          *)
(***************************************************************************)
EXTENDS ExpireUpload, Mediator, Mdr, Clients

CONSTANTS Forever,      \* the "forever" option: appendForever, or one append
          BackoffLimit, \* how often Kubernetes starts a failed job again
          MaxFaults     \* bound on failed calls, crashes and signals

ASSUME ForeverAssumption == Forever \in BOOLEAN
ASSUME BackoffLimitAssumption == BackoffLimit \in Nat
ASSUME MaxFaultsAssumption == MaxFaults \in Nat

VARIABLES pc,           \* the call the manager awaits
          failure,      \* the exit code of the error that failed the attempt
          exitCode,     \* how the last process ended
          shouldRun,    \* the flag of the loop in appendForever
          stopping,     \* how far terminus is in its answer to SIGTERM
          faults,
          retries       \* how often this job was started again

controlVars == <<pc, failure, exitCode, shouldRun, stopping, faults, retries>>

vars == <<trackerVars, runnerVars, uploadVars, mediatorVars, mdrVars, controlVars>>

\* prepareManager is over at "reserveAccess"; "wait" is the timer of the loop;
\* "brokenStream" is a promise that never settles, and "down" the time between
\* two processes.
Awaits ==
  {"prepareManager", "reserveAccess", "getStart", "getReplication",
   "removeLockIdle", "createAction", "removeLock", "preStatus", "getDiff",
   "simplifyDiff", "append", "unlinkDiffs", "updateTimestamp", "postStatus",
   "postEnrollment", "uploadExpired", "updateState", "completeAction",
   "failAction", "wait", "brokenStream", "down"}

\* Terminus closes the server, then triggers the clean-up registry, then sends
\* itself SIGTERM, which the listener of the loop may swallow.
Stopping == {"no", "closing", "cleaned", "swallowed"}

Init ==
  /\ TrackerInit
  /\ RunnerInit(bucket)
  /\ UploadInit
  /\ MediatorInit
  /\ MdrInit
  /\ pc = "prepareManager"
  /\ failure = "NONE"
  /\ exitCode = "NONE"
  /\ shouldRun = TRUE
  /\ stopping = "no"
  /\ faults = 0
  /\ retries = 0

Fault == faults < MaxFaults /\ faults' = faults + 1 /\ UNCHANGED retries

NoFault == UNCHANGED <<faults, retries>>

At(call) == pc = call

Goto(call) ==
  /\ pc' = call
  /\ UNCHANGED <<failure, exitCode, shouldRun, stopping>>

\* The process ends: its memory, its container and the calls in flight go; its
\* lock and its action, as far as the last call left them, stay in the mediator.
Exit(code, lockAfter, action) ==
  /\ pc' = "down"
  /\ exitCode' = code
  /\ abandonChildren(nextState)
  /\ dropTasks
  /\ abandon(lockAfter, action)
  /\ UNCHANGED <<failure, shouldRun, stopping, trackerVars, mdrVars>>

\* An error that append or appendForever does not catch.
Throw(code) == Exit(code, lockAtExit, openAction)

\* appendProcedure rejects: the catch clause awaits updateAction(FAILED).
Reject(code) ==
  /\ pc' = "failAction"
  /\ failure' = code
  /\ UNCHANGED <<exitCode, shouldRun, stopping>>

--------------------------------------------------------------------------------
(* The start of the process, and the loop around an attempt.               *)

\* prepareManager: the bucket is there, the resources are loaded, the queue is
\* started; or one of these fails.
Prepare ==
  /\ At("prepareManager")
  /\ \/ /\ Goto("reserveAccess") /\ NoFault
        /\ UNCHANGED <<trackerVars, runnerVars, uploadVars, mediatorVars, mdrVars>>
     \/ /\ Fault
        /\ \E code \in prepareManager : Throw(code)

\* A lock left by an earlier process makes the reservation fail.
Reserve ==
  /\ At("reserveAccess")
  /\ \/ /\ reserveAccess /\ Goto("getStart") /\ NoFault
        /\ UNCHANGED <<trackerVars, runnerVars, uploadVars, mdrVars>>
     \/ /\ MediatorEnabled /\ lock = "left"
        /\ Throw("GENERAL_ERROR") /\ NoFault
     \/ /\ MediatorEnabled /\ lock = "free" /\ Fault
        /\ \E landed \in BOOLEAN :
          Exit("GENERAL_ERROR", IF landed THEN "left" ELSE "free", openAction)

GetStart ==
  /\ At("getStart")
  /\ \/ /\ getStartSequenceNumber /\ Goto("getReplication") /\ NoFault
        /\ UNCHANGED <<runnerVars, uploadVars, mediatorVars, mdrVars>>
     \/ /\ Fault
        /\ \E code \in getObjectWrapper \cup streamToString \cup fetchSequenceNumberSafely :
             Throw(code)

\* isUpToDate is evaluated on the number just read.
GetReplication ==
  /\ At("getReplication")
  /\ \/ /\ getReplicationSequenceNumber /\ NoFault
        /\ Goto(IF isUpToDate(current, published) THEN "removeLockIdle" ELSE "createAction")
        /\ UNCHANGED <<runnerVars, uploadVars, mediatorVars, mdrVars>>
     \/ /\ Fault
        /\ \E code \in invokeHttp \cup fetchSequenceNumberSafely : Throw(code)

\* A mediator call outside the try block that fails, carried out or not.
MediatorCallFails(lockAfter, actionAfter) ==
  /\ MediatorEnabled
  /\ Fault
  /\ Exit("GENERAL_ERROR", lockAfter, actionAfter)

\* Up to date: the one append is over, the loop waits.
UnlockIdle ==
  /\ At("removeLockIdle")
  /\ \/ /\ Forever /\ removeLock /\ Goto("wait") /\ NoFault
        /\ UNCHANGED <<trackerVars, runnerVars, uploadVars, mdrVars>>
     \/ ~Forever /\ Exit("SUCCESS", "free", openAction) /\ NoFault
     \/ \E landed \in BOOLEAN :
          MediatorCallFails(IF landed THEN "free" ELSE "left", openAction)

\* A variant with a plausible slip: the action is opened for the current state.
CreateActionForCurrent ==
  /\ At("createAction")
  /\ createAction(current) /\ Goto("removeLock") /\ NoFault
  /\ UNCHANGED <<trackerVars, runnerVars, uploadVars, mdrVars>>

CreateAction ==
  /\ At("createAction")
  /\ \/ /\ createAction(nextState) /\ Goto("removeLock") /\ NoFault
        /\ UNCHANGED <<trackerVars, runnerVars, uploadVars, mdrVars>>
     \/ \E landed \in BOOLEAN :
          MediatorCallFails("left", IF landed THEN nextState ELSE NoAction)

\* A variant with a plausible slip: the lock is kept during the append.
UnlockForgotten ==
  /\ At("removeLock")
  /\ Goto(IF MdrEnabled THEN "preStatus" ELSE "getDiff") /\ NoFault
  /\ UNCHANGED <<trackerVars, runnerVars, uploadVars, mediatorVars, mdrVars>>

Unlock ==
  /\ At("removeLock")
  /\ \/ /\ removeLock /\ NoFault
        /\ Goto(IF MdrEnabled THEN "preStatus" ELSE "getDiff")
        /\ UNCHANGED <<trackerVars, runnerVars, uploadVars, mdrVars>>
     \/ \E landed \in BOOLEAN :
          MediatorCallFails(IF landed THEN "free" ELSE "left", openAction)

\* The end of an attempt: the loop goes on as long as shouldRun says so.
NextIteration ==
  \/ /\ Forever /\ shouldRun /\ Goto("reserveAccess")
     /\ UNCHANGED <<trackerVars, runnerVars, uploadVars, mdrVars>>
  \/ /\ ~(Forever /\ shouldRun)
     /\ pc' = "down" /\ exitCode' = "SUCCESS"
     /\ abandonChildren(nextState) /\ dropTasks
     /\ UNCHANGED <<failure, shouldRun, stopping, trackerVars, mdrVars>>

\* A variant with a plausible slip: the loop goes on without closing the action.
CompleteActionForgotten ==
  /\ At("completeAction")
  /\ NextIteration /\ NoFault /\ UNCHANGED mediatorVars

CompleteAction ==
  /\ At("completeAction")
  /\ \/ updateAction /\ NextIteration /\ NoFault
     \/ \E landed \in BOOLEAN :
          MediatorCallFails(lock, IF landed THEN NoAction ELSE openAction)

\* A variant with a plausible slip: the catch clause does not throw the error on.
FailActionSwallows ==
  /\ At("failAction")
  /\ Exit("SUCCESS", lock, NoAction) /\ NoFault

\* updateAction(FAILED) in the catch clause; an error of its own replaces the
\* one that failed the attempt.
FailAction ==
  /\ At("failAction")
  /\ \/ /\ Forever /\ updateAction /\ NoFault
        /\ pc' = "wait" /\ failure' = "NONE"
        /\ UNCHANGED <<exitCode, shouldRun, stopping, trackerVars, runnerVars,
                       uploadVars, mdrVars>>
     \/ ~Forever /\ Exit(failure, lock, NoAction) /\ NoFault
     \/ \E landed \in BOOLEAN :
          MediatorCallFails(lock, IF landed THEN NoAction ELSE openAction)

Wait ==
  /\ At("wait")
  /\ NextIteration /\ NoFault
  /\ UNCHANGED mediatorVars

--------------------------------------------------------------------------------
(* appendProcedure.                                                        *)

PreStatus ==
  /\ At("preStatus")
  /\ \/ getPreStatus /\ Goto("getDiff") /\ NoFault
     \/ Fault /\ (\E code \in getStatus : Reject(code)) /\ UNCHANGED mdrVars
  /\ UNCHANGED <<trackerVars, runnerVars, uploadVars, mediatorVars>>

\* The source answers with an error for a diff it does not have yet.  When the
\* stream of an answer breaks, the pipe never ends the file that streamToFs
\* waits for: nothing but the end of the process gets the manager out of that.
GetDiff ==
  /\ At("getDiff")
  /\ \/ nextState <= published /\ Goto("simplifyDiff") /\ NoFault
     \/ nextState > published /\ Reject("REMOTE_SERVICE_RESPONSE_ERROR") /\ NoFault
     \/ /\ Fault
        /\ \/ \E code \in invokeHttp \cup streamToFs : Reject(code)
           \/ Goto("brokenStream")
  /\ UNCHANGED <<trackerVars, runnerVars, uploadVars, mediatorVars, mdrVars>>

\* The clean-up has signalled the children, stopped the queue and destroyed the S3
\* client: what fails of it after that fails without a fault of its own.
CleanedFault == IF stopping \in {"cleaned", "swallowed"} THEN NoFault ELSE Fault

\* osmium merges the diff; then every entity's osm2pgsql starts in one tick.
SimplifyDiff ==
  /\ At("simplifyDiff")
  /\ \/ spawnAll(nextState) /\ Goto("append") /\ NoFault
     \/ CleanedFault /\ (\E code \in commandWrapper("osmium") : Reject(code)) /\ UNCHANGED runnerVars
  /\ UNCHANGED <<trackerVars, uploadVars, mediatorVars, mdrVars>>

\* Promise.all resolves with the last child.
ChildSucceeds(e) ==
  /\ At("append")
  /\ childSucceeds(e, nextState)
  /\ recordChange(e, nextState)
  /\ IF \A f \in Entities : children'[f] = "done"
     THEN Goto("unlinkDiffs")
     ELSE UNCHANGED <<pc, failure, exitCode, shouldRun, stopping>>
  /\ NoFault
  /\ UNCHANGED <<trackerVars, uploadVars, mediatorVars>>

\* A variant with a plausible slip: the failure of a child is not awaited
\* (Promise.allSettled).
ChildFailsIgnored(e) ==
  /\ At("append") /\ Alive(e)
  /\ IF children[e] = "interrupted" THEN NoFault ELSE Fault
  /\ children' = [children EXCEPT ![e] = "done"]
  /\ IF \A f \in Entities : children'[f] = "done"
     THEN Goto("unlinkDiffs")
     ELSE UNCHANGED <<pc, failure, exitCode, shouldRun, stopping>>
  /\ UNCHANGED <<signalled, applied, expireFiles, trackerVars, uploadVars, mediatorVars, mdrVars>>

\* Promise.all rejects with the first child that fails.
ChildFails(e) ==
  /\ At("append")
  /\ IF children[e] = "interrupted" THEN NoFault ELSE Fault
  /\ \E committed \in BOOLEAN :
       /\ childFails(e, nextState, committed)
       /\ IF committed THEN recordChange(e, nextState) ELSE UNCHANGED mdrVars
  /\ \E code \in commandWrapper("osm2pgsql") : Reject(code)
  /\ UNCHANGED <<trackerVars, uploadVars, mediatorVars>>

UnlinkDiffs ==
  /\ At("unlinkDiffs")
  /\ \/ Goto("updateTimestamp") /\ NoFault
     \/ Fault /\ Reject("GENERAL_ERROR")
  /\ UNCHANGED <<trackerVars, runnerVars, uploadVars, mediatorVars, mdrVars>>

\* uploadExpired when it is configured, up to its first awaits, and
\* updateRemoteState up to its await when there is no list to upload.
ToUpload ==
  IF GenerateExpire /\ Pending(nextState) # {}
  THEN /\ startUploads(nextState)
       /\ Goto("uploadExpired")
       /\ UNCHANGED <<current, stateContent>>
  ELSE /\ bumpState
       /\ Goto("updateState")
       /\ UNCHANGED uploadVars

UpdateTimestamp ==
  /\ At("updateTimestamp")
  /\ \/ /\ putStateContent(TRUE) /\ NoFault
        /\ IF MdrEnabled
           THEN Goto("postStatus") /\ UNCHANGED <<current, stateContent, uploadVars>>
           ELSE ToUpload
     \/ /\ Fault /\ \E code \in putObjectWrapper : Reject(code)
        /\ \E landed \in BOOLEAN : putStateContent(landed)
        /\ UNCHANGED <<current, stateContent, uploadVars>>
  /\ UNCHANGED <<published, replicationRemoteState, runnerVars, mediatorVars, mdrVars>>

PostStatus ==
  /\ At("postStatus")
  /\ \/ getPostStatus /\ Goto("postEnrollment") /\ NoFault
     \/ Fault /\ (\E code \in getStatus : Reject(code)) /\ UNCHANGED mdrVars
  /\ UNCHANGED <<trackerVars, runnerVars, uploadVars, mediatorVars>>

PostEnrollment ==
  /\ At("postEnrollment")
  /\ \/ postEnrollment(nextState) /\ ToUpload /\ NoFault
     \/ /\ Fault /\ Reject("GENERAL_ERROR")
        /\ postEnrollment(nextState) \/ UNCHANGED mdrVars
        /\ UNCHANGED <<current, stateContent, uploadVars>>
  /\ UNCHANGED <<bucket, published, replicationRemoteState, runnerVars, mediatorVars>>

UpdateState ==
  /\ At("updateState")
  /\ \/ putStateContent(TRUE) /\ Goto("completeAction") /\ NoFault
     \/ /\ Fault /\ \E code \in putObjectWrapper : Reject(code)
        /\ \E landed \in BOOLEAN : putStateContent(landed)
  /\ UNCHANGED <<published, current, replicationRemoteState, stateContent,
                 runnerVars, uploadVars, mediatorVars, mdrVars>>

--------------------------------------------------------------------------------
(* The upload tasks, those of the current attempt and the orphans.         *)

Awaited(t) == At("uploadExpired") /\ t.attempt = attempt

\* After a task has moved: Promise.all resolves with the last awaited task.
AfterTask(t) ==
  IF Awaited(t) /\ ~ \E u \in uploadTasks' : u.attempt = attempt
  THEN bumpState /\ Goto("updateState")
  ELSE UNCHANGED <<current, stateContent, pc, failure, exitCode, shouldRun, stopping>>

TaskFrame ==
  UNCHANGED <<bucket, published, replicationRemoteState, children, signalled,
              applied, mediatorVars, mdrVars>>

TaskReads(t) ==
  /\ linesRead(t) \/ fileOpened(t) \/ fileRead(t)
  /\ AfterTask(t) /\ NoFault /\ TaskFrame

\* A variant with a plausible slip: a failed put is caught and dropped.
TaskPutSwallows(t) ==
  /\ \/ putAnswers(t) /\ NoFault
     \/ /\ t.stage = "put" /\ Fault
        /\ uploadTasks' = replaceTask(t, serve(t, Tail(t.todo)))
        /\ UNCHANGED <<attempt, expireLists, puts, jobs, expireFiles>>
  /\ AfterTask(t) /\ TaskFrame

TaskPut(t) ==
  /\ putAnswers(t)
  /\ AfterTask(t) /\ NoFault /\ TaskFrame

TaskPush(t) ==
  /\ \/ pushSkipped(t) /\ NoFault
     \/ pushAnswers(t, TRUE) /\ NoFault
     \/ CleanedFault /\ \E accepted \in BOOLEAN : pushAnswers(t, accepted)
  /\ AfterTask(t) /\ TaskFrame

TaskUnlinks(t) ==
  /\ unlinked(t)
  /\ AfterTask(t) /\ NoFault /\ TaskFrame

\* The rejection of an awaited task fails the attempt, an orphan's is ignored.
TaskRejects(t) ==
  /\ \/ Fault /\ \E landed \in BOOLEAN : putFails(t, landed)
     \/ listGone(t) /\ NoFault
  /\ IF Awaited(t)
     THEN Reject(IF t.stage = "put" THEN "S3_ERROR" ELSE "GENERAL_ERROR")
     ELSE UNCHANGED <<pc, failure, exitCode, shouldRun, stopping>>
  /\ UNCHANGED <<current, stateContent, expireFiles>>
  /\ TaskFrame

TaskBreaks(t) ==
  /\ streamBreaks(t)
  /\ Throw("GENERAL_ERROR") /\ NoFault

Task == \E t \in uploadTasks :
  TaskReads(t) \/ TaskPut(t) \/ TaskPush(t) \/ TaskUnlinks(t) \/ TaskRejects(t) \/ TaskBreaks(t)

--------------------------------------------------------------------------------
(* What happens around the manager.                                        *)

SourcePublishes ==
  /\ Publish
  /\ UNCHANGED <<runnerVars, uploadVars, mediatorVars, mdrVars, controlVars>>

SignalledEnds ==
  /\ \E d \in signalled, committed \in BOOLEAN :
       /\ signalledEnds(d, committed)
       /\ IF committed THEN recordChange(d[1], d[2]) ELSE UNCHANGED mdrVars
  /\ UNCHANGED <<trackerVars, uploadVars, mediatorVars, controlVars>>

LockExpires ==
  /\ expireLock
  /\ UNCHANGED <<trackerVars, runnerVars, uploadVars, mdrVars, controlVars>>

\* process.once('SIGTERM') of appendForever: armed with the loop, gone with the
\* first signal.
Listening == Forever /\ pc # "prepareManager" /\ shouldRun

\* SIGTERM reaches the loop, when it runs already, and terminus.
Sigterm ==
  /\ pc # "down" /\ stopping = "no"
  /\ Fault
  /\ shouldRun' = (shouldRun /\ ~Listening)
  /\ stopping' = "closing"
  /\ UNCHANGED <<pc, failure, exitCode, trackerVars, runnerVars, uploadVars, mediatorVars, mdrVars>>

\* The server is closed; the clean-up registry signals the children of that moment.
CleanUp ==
  /\ pc # "down" /\ stopping = "closing"
  /\ stopping' = "cleaned"
  /\ interruptChildren
  /\ NoFault
  /\ UNCHANGED <<pc, failure, exitCode, shouldRun, trackerVars, uploadVars, mediatorVars, mdrVars>>

\* The clean-up is through: terminus sends the signal to its own process.  A loop
\* that was entered after the first SIGTERM takes this one for its own, and the
\* process lives until its iteration is over.
TerminusEnds ==
  /\ pc # "down" /\ stopping = "cleaned"
  /\ NoFault
  /\ \/ /\ Listening
        /\ shouldRun' = FALSE /\ stopping' = "swallowed"
        /\ UNCHANGED <<pc, failure, exitCode, trackerVars, runnerVars, uploadVars,
                       mediatorVars, mdrVars>>
     \/ ~Listening /\ Throw("KILLED")

Crash ==
  /\ pc # "down"
  /\ Fault
  /\ Throw("KILLED")

\* Kubernetes starts the container again: always in a deployment; in a job after
\* a failure, until its backoffLimit is used up.  The data directory is in the
\* container.
StartedAgain ==
  \/ Forever /\ UNCHANGED retries
  \/ /\ ~Forever /\ exitCode # "SUCCESS"
     /\ retries < BackoffLimit /\ retries' = retries + 1

Restart ==
  /\ pc = "down"
  /\ StartedAgain
  /\ signalled = {}
  /\ pc' = "prepareManager"
  /\ failure' = "NONE"
  /\ exitCode' = "NONE"
  /\ shouldRun' = TRUE
  /\ stopping' = "no"
  /\ restartTracker
  /\ expireFiles' = {}
  /\ UNCHANGED <<faults, children, signalled, applied, uploadVars, mediatorVars, mdrVars>>

\* The job has ended, with success or with its retries used up.
JobOver == pc = "down" /\ ~Forever /\ (exitCode = "SUCCESS" \/ retries = BackoffLimit)

Finished == JobOver /\ UNCHANGED vars

\* The liveness probe answers all the same, so that nobody restarts the process.
Stalled == pc = "brokenStream" /\ UNCHANGED vars

--------------------------------------------------------------------------------
Loop ==
  \/ Prepare \/ Reserve \/ GetStart \/ GetReplication \/ UnlockIdle
  \/ CreateAction \/ Unlock \/ CompleteAction \/ FailAction \/ Wait

Procedure ==
  \/ PreStatus \/ GetDiff \/ SimplifyDiff \/ UnlinkDiffs \/ UpdateTimestamp
  \/ PostStatus \/ PostEnrollment \/ UpdateState

Children == \E e \in Entities : ChildSucceeds(e) \/ ChildFails(e)

Environment ==
  \/ SourcePublishes \/ SignalledEnds \/ LockExpires \/ Sigterm \/ CleanUp
  \/ TerminusEnds \/ Crash \/ Restart

Next == Loop \/ Procedure \/ Children \/ Task \/ Environment \/ Finished \/ Stalled

Safe == Init /\ [][Next]_vars

\* Every call but a broken stream answers in the end (the clients have timeouts),
\* every child and every signalled child ends, a left lock expires, and a stopped
\* pod is started, that of a job as often as its backoffLimit allows.
Fairness ==
  /\ WF_vars(Loop)
  /\ WF_vars(Procedure)
  /\ WF_vars(Children)
  /\ WF_vars(Task)
  /\ WF_vars(SignalledEnds)
  /\ WF_vars(LockExpires)
  /\ WF_vars(CleanUp)
  /\ WF_vars(TerminusEnds)
  /\ WF_vars(Restart)

Spec == Safe /\ Fairness
=============================================================================
