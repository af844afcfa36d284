--------------------------- MODULE AppendProperties ---------------------------
(***************************************************************************)
(* What must hold of the append command, stated over AppendManager.        *)
(***************************************************************************)
EXTENDS AppendManager, FiniteSets

Labelled == [entity : Entities, label : Labels, seq : SequenceNumbers]

TaskRecord ==
  [entity : Entities, seq : SequenceNumbers, attempt : Rounds, stage : Stages,
   todo : Seq({"s3", "queue"}), label : Labels]

CoreTypeOK ==
  /\ TrackerTypeOK
  /\ children \in [Entities -> ChildStates]
  /\ signalled \subseteq Entities \X SequenceNumbers
  /\ applied \in [Entities -> SequenceNumbers]
  /\ pc \in Awaits

UploadTypeOK ==
  /\ expireFiles \subseteq Entities \X SequenceNumbers
  /\ uploadTasks \subseteq TaskRecord
  /\ \A t \in uploadTasks : t.stage \in {"open", "read", "put", "push"} => t.todo # <<>>
  /\ attempt \in Rounds
  /\ expireLists \in [Entities -> [Labels -> SequenceNumbers \cup {NoList}]]
  /\ puts \subseteq Labelled
  /\ jobs \subseteq Labelled

ServiceTypeOK ==
  /\ lock \in {"free", "ours", "left"}
  /\ openAction \in {NoAction} \cup 0 .. MaxSeq + 1
  /\ abandonedActions \subseteq 0 .. MaxSeq + 1
  /\ changes \in Seq(Entities \X SequenceNumbers)
  /\ preLatest \in Int
  /\ postLatest \in Int
  /\ enrollments \subseteq [state : SequenceNumbers, from : Int, to : Int]

ControlTypeOK ==
  /\ failure \in ExitCodes
  /\ exitCode \in ExitCodes
  /\ shouldRun \in BOOLEAN
  /\ stopping \in Stopping
  /\ faults \in 0 .. MaxFaults
  /\ retries \in 0 .. BackoffLimit

\* Every variable of the composed specification has its type.
TypeOK == CoreTypeOK /\ UploadTypeOK /\ ServiceTypeOK /\ ControlTypeOK

--------------------------------------------------------------------------------
\* The database is at the recorded state or one diff further, for every entity
\* and at every moment: no interleaving of failing children, signalled children
\* that commit late, failed puts and restarts makes an entity skip a diff, fall
\* behind state.txt or run ahead of it by two (appendProcedure applies before it
\* records; updateRemoteState counts by one).
AppliedWithinOneOfRecorded ==
  \A e \in Entities : applied[e] \in {bucket, bucket + 1}

\* The inductive strengthening.  What the manager has in memory follows from the
\* call it awaits: between the reading of the states and updateRemoteState it
\* works on the diff after the bucket's; during updateRemoteState its memory is
\* one ahead of the bucket.
AfterAppend == {"unlinkDiffs", "updateTimestamp", "postStatus", "postEnrollment", "uploadExpired"}
Working ==
  {"getReplication", "removeLockIdle", "createAction", "removeLock", "preStatus",
   "getDiff", "simplifyDiff", "append"} \cup AfterAppend

MemoryFollowsBucket ==
  /\ pc \in Working => current = bucket /\ stateContent = bucket
  /\ pc = "updateState" => current = bucket + 1 /\ stateContent = bucket + 1

\* The diff being applied is one the source has published.
NextIsPublished ==
  /\ pc \in {"simplifyDiff", "append", "updateState"} \cup AfterAppend => bucket < published
  /\ \A e \in Entities : applied[e] = bucket + 1 => bucket < published
  /\ \A d \in signalled : d[2] = bucket + 1 => bucket < published

\* Where the children are, and what has been applied by then.
AppliedByThen ==
  /\ pc # "append" => \A e \in Entities : children[e] \in {"idle", "done"}
  /\ pc = "append" => \A e \in Entities : children[e] = "done" => applied[e] = bucket + 1
  /\ pc \in {"updateState"} \cup AfterAppend => \A e \in Entities : applied[e] = bucket + 1

\* A signalled child works on the next diff, or on the recorded one when its
\* retry was recorded before it ended; then no child of the next diff has
\* started, so that its late commit repeats what is there.
SignalledAreHarmless ==
  /\ \A d \in signalled : d[2] \in {bucket, bucket + 1}
  /\ \A d \in signalled : d[2] = bucket =>
       /\ pc \notin {"append", "updateState"} \cup AfterAppend
       /\ \A c \in signalled : c[2] = bucket
       /\ \A e \in Entities : applied[e] = bucket

RecordingInv ==
  /\ CoreTypeOK
  /\ AppliedWithinOneOfRecorded
  /\ MemoryFollowsBucket
  /\ NextIsPublished
  /\ AppliedByThen
  /\ SignalledAreHarmless

Project == INSTANCE ReplicatedProject WITH recorded <- bucket

\* The manager implements ReplicatedProject: state.txt moves by one, to a diff the
\* source has published, and only when every entity's tables contain that diff;
\* and the tables are never touched by any diff but the next one.
ImplementsProject == Project!Safe

\* With s3 among the targets, a state is recorded only after the list of every entity
\* that has one was put under that state's number, whoever put it: the attempt that
\* records it or an orphan of a failed one.  The list is then still under its key,
\* unless an orphan has filed the list of an earlier diff of the entity there.
ServesS3(targets) == \E i \in DOMAIN targets : targets[i] = "s3"

HasList(e, n) == hasTiles(e, n) /\ ServesS3(UploadTargets)

Delivered(e, n) == [entity |-> e, label |-> n, seq |-> n] \in puts

MisfiledUnder(e, n) == \E l \in puts : l.entity = e /\ l.label = n /\ l.seq < n

Missing(e, n) == HasList(e, n) /\ ~Delivered(e, n)

AllDelivered(n) == \A e \in Entities : ~Missing(e, n)

KeptOrMisfiled(n) ==
  \A e \in Entities : HasList(e, n) => expireLists[e][n] = n \/ MisfiledUnder(e, n)

DeliveredBeforeRecorded ==
  [][bucket' # bucket => AllDelivered(bucket') /\ KeptOrMisfiled(bucket')]_vars

\* A list is never filed under an earlier number than its own, neither in the
\* bucket nor in the queue, although tasks read the number as late as they can.
NeverFiledEarly ==
  \A l \in puts \cup jobs : l.label >= l.seq

\* The tasks of the attempt in progress file their lists under the number of the
\* diff they belong to.
AwaitedTasksFileRight ==
  \A t \in uploadTasks :
    Awaited(t) => t.seq = nextState /\ (t.stage \in {"put", "push"} => t.label = t.seq)

\* The inductive strengthening of the three.  A task serves its targets in order.
TasksServeInOrder ==
  \A t \in uploadTasks :
    /\ t.stage = "lines" => t.todo = UploadTargets
    /\ t.stage \in {"open", "read", "put"} => t.todo # <<>> /\ Head(t.todo) = "s3"
    /\ t.stage = "push" => t.todo # <<>> /\ Head(t.todo) = "queue"
    /\ t.stage = "unlink" => t.todo = <<>>

\* A task belongs to the diff after a state that was recorded when it started; what
\* it reads is at most one ahead of what is recorded now, and never behind it.
TasksReadForward ==
  /\ pc \in {"down", "prepareManager"} => uploadTasks = {}
  /\ uploadTasks # {} => current \in {bucket, bucket + 1}
  /\ \A t \in uploadTasks :
       t.seq <= bucket + 1 /\ (t.stage \in {"put", "push"} => t.label >= t.seq)

\* The manager moves its memory on when every list of the next state is delivered,
\* and keeps it there when the put of state.txt fails, until it reads the state again.
MemoryIsDelivered == current = bucket + 1 => AllDelivered(bucket + 1)

\* A task of the diff that is not recorded yet, an orphan or not, is still to deliver
\* its list under the right number when the list is missing.
TasksDeliver ==
  \A t \in uploadTasks :
    t.seq = bucket + 1 /\ Missing(t.entity, t.seq) =>
      ServesS3(t.todo) /\ (t.stage = "put" => t.label = t.seq)

\* The list an entity has for the next state is on the disk from the end of its child
\* to the upload, or delivered already by an orphan that has then deleted it.
ChildIsThrough(e) ==
  (pc = "append" /\ children[e] = "done") \/ pc \in AfterAppend \ {"uploadExpired"}

ListsAreKept ==
  \A e \in Entities :
    /\ ChildIsThrough(e) /\ Missing(e, bucket + 1) => <<e, bucket + 1>> \in expireFiles
    /\ pc = "uploadExpired" /\ Missing(e, bucket + 1) =>
         \E t \in uploadTasks : t.entity = e /\ t.seq = bucket + 1 /\ t.attempt = attempt

\* A key holds one of the lists that were put under it, from the first put on.
KeysHoldPuts ==
  /\ \A l \in puts : expireLists[l.entity][l.label] # NoList
  /\ \A e \in Entities, n \in Labels :
       expireLists[e][n] # NoList => [entity |-> e, label |-> n, seq |-> expireLists[e][n]] \in puts

UploadInv ==
  /\ NeverFiledEarly
  /\ KeysHoldPuts
  /\ AwaitedTasksFileRight
  /\ TasksServeInOrder
  /\ TasksReadForward
  /\ MemoryIsDelivered
  /\ TasksDeliver
  /\ ListsAreKept

\* With a mediator, whatever changes the tables, the bucket, the queue or the
\* enrollments does so while the action of the very diff is open, the lock, which
\* covers the reading of the states only, being released; or it is left of an attempt
\* that has failed: a child that was sent SIGINT and commits all the same, or an
\* orphaned task that files its list.  Those act when their action is closed, and
\* under the action of the retry or of a later diff (FAILED is reported without
\* waiting for them).
UnderItsAction(n) == openAction = n /\ lock # "ours"

LeftChild(e, n) == <<e, n>> \in signalled

LeftTask(e, n) == \E t \in uploadTasks : ~Awaited(t) /\ t.entity = e /\ t.seq = n

WorksUnderItsAction ==
  [][MediatorEnabled =>
       /\ \A e \in Entities : applied'[e] # applied[e] =>
            UnderItsAction(applied'[e]) \/ LeftChild(e, applied'[e])
       /\ \A l \in (puts' \ puts) \cup (jobs' \ jobs) :
            UnderItsAction(l.seq) \/ LeftTask(l.entity, l.seq)
       /\ \A en \in enrollments' \ enrollments : UnderItsAction(en.state)
       /\ bucket' # bucket => UnderItsAction(bucket')]_vars

\* A process that exits with SUCCESS leaves no lock and no open action of its own;
\* one append also leaves every entity at the recorded state and no child alive.
SuccessIsComplete ==
  (pc = "down" /\ exitCode = "SUCCESS") =>
    /\ lock = "free"
    /\ openAction = NoAction
    /\ Forever \/ (signalled = {} /\ \A e \in Entities : applied[e] = bucket)

\* The inductive strengthening of the two.  The action of an attempt is open at each
\* of its awaits.
ActionIsOpen ==
  MediatorEnabled =>
    /\ pc \in {"preStatus", "getDiff", "simplifyDiff", "append", "unlinkDiffs",
               "updateTimestamp", "postStatus", "postEnrollment", "uploadExpired"}
         => UnderItsAction(nextState)
    /\ pc \in {"updateState", "completeAction"} => UnderItsAction(current)

\* The lock is held from its reservation to
\* its removal only, and a lock that was left is gone before anything else happens.
ReadingStates == {"getStart", "getReplication", "removeLockIdle", "createAction", "removeLock"}

LockCoversTheReading ==
  /\ lock = "ours" => pc \in ReadingStates
  /\ lock = "left" => pc \in {"down", "prepareManager", "reserveAccess"}
  /\ ~MediatorEnabled => lock = "free"

\* An action is open from its creation to the end of its attempt.
ActionCoversTheAttempt ==
  /\ pc \in {"down", "prepareManager", "reserveAccess", "wait"} \cup (ReadingStates \ {"removeLock"})
       => openAction = NoAction
  /\ (MediatorEnabled /\ pc = "removeLock") => openAction = nextState

\* The process of a job makes one attempt, so that no child of an earlier one is
\* alive, and the ends that exit with SUCCESS find the recorded state in the tables.
OneAttemptPerJob ==
  ~Forever =>
    /\ pc # "wait"
    /\ pc \notin {"failAction", "down"} => signalled = {}
    /\ pc \in {"removeLockIdle", "completeAction"} => \A e \in Entities : applied[e] = bucket

FailureIsNoSuccess == failure # "SUCCESS"

ActionInv ==
  /\ ActionIsOpen
  /\ SuccessIsComplete
  /\ LockCoversTheReading
  /\ ActionCoversTheAttempt
  /\ OneAttemptPerJob
  /\ FailureIsNoSuccess

\* With MDR, a state is recorded only when an enrollment of that state covers a
\* change of every entity.
Covers(from, to, e, n) == \E i \in from .. to : changes[i + 1] = <<e, n>>

EnrolledAs(e, n) == \E en \in enrollments : en.state = n /\ Covers(en.from, en.to, e, n)

RecordedStateIsEnrolled ==
  [][(MdrEnabled /\ bucket' # bucket) => \A e \in Entities : EnrolledAs(e, bucket')]_vars

\* No change is enrolled twice, whatever failed between two enrollments.
EnrolledOnce ==
  \A en1, en2 \in enrollments : en1 # en2 => en1.to < en2.from \/ en2.to < en1.from

\* The inductive strengthening of the two.  Ranges lie within the changes there are,
\* and the status read before an append is past all of them.
BeforePost ==
  {"getDiff", "simplifyDiff", "append", "unlinkDiffs", "updateTimestamp", "postStatus",
   "postEnrollment"}

RangesAreCommitted ==
  /\ preLatest \in -1 .. latest /\ postLatest <= latest
  /\ \A en \in enrollments : en.from >= 0 /\ en.to <= latest
  /\ pc \in BeforePost => \A en \in enrollments : en.to <= preLatest
  /\ ~MdrEnabled => enrollments = {} /\ pc \notin {"preStatus", "postStatus", "postEnrollment"}

\* The change of an entity is past the status read before the append from its commit on;
\* the status read after the append fixes the range and the enrollment then carries it.
IsCommitted(e) ==
  (pc = "append" /\ children[e] = "done") \/ pc \in {"unlinkDiffs", "updateTimestamp", "postStatus"}

ChangesAreEnrolled ==
  MdrEnabled =>
    \A e \in Entities :
      /\ IsCommitted(e) => Covers(preLatest + 1, latest, e, bucket + 1)
      /\ pc = "postEnrollment" => Covers(preLatest + 1, postLatest, e, bucket + 1)
      /\ pc \in {"uploadExpired", "updateState"} => EnrolledAs(e, bucket + 1)

EnrollmentInv == EnrolledOnce /\ RangesAreCommitted /\ ChangesAreEnrolled

--------------------------------------------------------------------------------
Stuck == <>[](pc = "brokenStream")

\* Whatever the source publishes is recorded in the end, however the attempts
\* fail, as long as they do not fail for ever and no stream breaks for good
\* (appendForever with its retries, restarts and the expiration of the lock).
CatchesUp ==
  Stuck \/ \A n \in SequenceNumbers : (published >= n) ~> (bucket >= n)

\* A job on a source that is not behind the dump ends, unless a stream breaks for good:
\* with success, or with its backoffLimit used up, which takes a run that is refused
\* because the lock of a dead one has not expired yet (as long as the limit is no
\* smaller than the number of failures).
Refused == pc = "reserveAccess" /\ lock = "left"

JobEnds ==
  (bucket <= published) =>
    \/ Stuck
    \/ <>(JobOver /\ exitCode = "SUCCESS")
    \/ <>JobOver /\ <>Refused

--------------------------------------------------------------------------------
(* What the documentation says and the code does not do.                   *)

\* README.md:68: "the expired tiles will be parsed into bounding boxes in WGS84
\* and pushed into the pgboss job queue for further processing".  Stated as: a
\* state is recorded only after the queue has a job for each of its lists.
QueuedBeforeRecorded ==
  [][bucket' # bucket =>
       \A e \in Entities :
         (GenerateExpire /\ Tiles[e][bucket'] = "inside") =>
           \E l \in jobs : l.entity = e /\ l.seq = bucket']_vars

\* README.md:67: "For the s3 option the expired tiles a.k.a expire.list of each sub
\* part will be uploaded to the bucket as well under
\* /projectId/subId/sequenceNumber/expire.list".  Stated as: when a state is recorded,
\* the key of each of its lists holds that list.
ListsOfTheState ==
  [][bucket' # bucket =>
       \A e \in Entities : HasList(e, bucket') => expireLists'[e][bucket'] = bucket']_vars
=============================================================================
