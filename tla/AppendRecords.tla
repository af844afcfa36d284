----------------------------- MODULE AppendRecords -----------------------------
(***************************************************************************)
(* The proofs about what must be outside before a state is recorded: the   *)
(* expire lists of the diff in the bucket, under its number, and its       *)
(* changes enrolled with MDR.                                              *)
(***************************************************************************)
EXTENDS AppendProofs

\* The numbers the manager calculates with, and what it has in memory at an await.
LEMMA Numbers ==
  ASSUME RecordingInv
  PROVE  /\ bucket \in Nat /\ current \in Int
         /\ pc \in Working => current = bucket
         /\ pc = "updateState" => current = bucket + 1 /\ stateContent = bucket + 1
         /\ pc \in Working => stateContent = bucket
  BY MaxSeqAssumption
     DEF RecordingInv, CoreTypeOK, TrackerTypeOK, SequenceNumbers, MemoryFollowsBucket,
         DEFAULT_SEQUENCE_NUMBER

--------------------------------------------------------------------------------
(* The expire lists.                                                       *)

\* No task, no list and no job is there before the first attempt.
LEMMA UploadsInit == Init => UploadInv
<1>1. Init => KeysHoldPuts
  BY DEF Init, UploadInit, KeysHoldPuts
<1> QED
  BY <1>1, MaxSeqAssumption
     DEF Init, TrackerInit, UploadInit, UploadInv, NeverFiledEarly, AwaitedTasksFileRight,
         TasksServeInOrder, TasksReadForward, MemoryIsDelivered, TasksDeliver, ListsAreKept,
         ChildIsThrough, AfterAppend, SequenceNumbers, DEFAULT_SEQUENCE_NUMBER

\* A key holds one of the lists put under it as long as nobody puts, and after a put.
LEMMA KeysStay == KeysHoldPuts /\ UNCHANGED <<expireLists, puts>> => KeysHoldPuts'
  BY DEF KeysHoldPuts

LEMMA PutKeepsKeys ==
  ASSUME KeysHoldPuts, UploadTypeOK, NEW t \in TaskRecord, putObject(t)
  PROVE  KeysHoldPuts'
<1>1. t.entity \in Entities /\ t.label \in Labels /\ t.seq \in SequenceNumbers
  BY DEF TaskRecord
<1>2. /\ t.seq # NoList
      /\ expireLists' = [expireLists EXCEPT ![t.entity][t.label] = t.seq]
      /\ puts' = puts \cup {listOf(t)}
      /\ expireLists \in [Entities -> [Labels -> SequenceNumbers \cup {NoList}]]
      /\ puts \subseteq Labelled
  BY <1>1, MaxSeqAssumption DEF putObject, UploadTypeOK, SequenceNumbers, NoList
<1>3. ASSUME NEW e \in Entities, NEW n \in Labels
      PROVE  expireLists'[e][n] =
               IF e = t.entity /\ n = t.label THEN t.seq ELSE expireLists[e][n]
  BY <1>1, <1>2
<1>4. ASSUME NEW l \in puts'
      PROVE  expireLists'[l.entity][l.label] # NoList
  <2>1. l \in puts \/ (l.entity = t.entity /\ l.label = t.label)
    BY <1>2 DEF listOf
  <2>2. l.entity \in Entities /\ l.label \in Labels
    BY <1>1, <1>2, <2>1 DEF Labelled
  <2> QED
    BY <1>2, <1>3, <2>1, <2>2 DEF KeysHoldPuts
<1>5. ASSUME NEW e \in Entities, NEW n \in Labels, expireLists'[e][n] # NoList
      PROVE  [entity |-> e, label |-> n, seq |-> expireLists'[e][n]] \in puts'
  <2>1. CASE e = t.entity /\ n = t.label
    BY <1>2, <1>3, <2>1 DEF listOf
  <2>2. CASE ~(e = t.entity /\ n = t.label)
    BY <1>2, <1>3, <1>5, <2>2 DEF KeysHoldPuts
  <2> QED
    BY <2>1, <2>2
<1> QED
  BY <1>4, <1>5 DEF KeysHoldPuts

\* A step that leaves the tasks and the numbers alone, deletes no list and ends no child
\* without its list.
LEMMA QuietStep ==
  ASSUME UploadInv, UNCHANGED <<bucket, current, uploadVars>>, expireFiles \subseteq expireFiles',
         pc' \in {"down", "prepareManager"} => uploadTasks = {},
         pc' = "uploadExpired" => pc = "uploadExpired",
         \A e \in Entities :
           ChildIsThrough(e)' =>
             \/ ChildIsThrough(e)
             \/ hasTiles(e, bucket + 1) => <<e, bucket + 1>> \in expireFiles'
  PROVE  UploadInv'
<1> USE DEF uploadVars
<1>1. NeverFiledEarly' /\ TasksServeInOrder' /\ MemoryIsDelivered' /\ TasksDeliver'
  BY DEF UploadInv, NeverFiledEarly, TasksServeInOrder, MemoryIsDelivered, TasksDeliver,
         AllDelivered, Missing, Delivered
<1>2. AwaitedTasksFileRight' /\ TasksReadForward'
  BY DEF UploadInv, AwaitedTasksFileRight, TasksReadForward, Awaited, At, nextState
<1>3. ListsAreKept'
  <2> SUFFICES ASSUME NEW e \in Entities, Missing(e, bucket + 1)'
               PROVE  /\ ChildIsThrough(e)' => <<e, bucket + 1>> \in expireFiles'
                      /\ pc' = "uploadExpired" =>
                           \E t \in uploadTasks :
                             t.entity = e /\ t.seq = bucket + 1 /\ t.attempt = attempt
    BY DEF ListsAreKept
  <2>1. Missing(e, bucket + 1)
    BY DEF Missing, Delivered
  <2> QED
    BY <2>1 DEF UploadInv, ListsAreKept, Missing, HasList
<1> QED
  BY <1>1, <1>2, <1>3, KeysStay DEF UploadInv

\* The end of a process takes its tasks with it.
LEMMA EndStep ==
  ASSUME UploadInv, UNCHANGED <<bucket, current>>, dropTasks, pc' = "down"
  PROVE  UploadInv'
  BY KeysStay DEF dropTasks, UploadInv, NeverFiledEarly, AwaitedTasksFileRight, TasksServeInOrder,
         TasksReadForward, MemoryIsDelivered, TasksDeliver, ListsAreKept, ChildIsThrough,
         AfterAppend, AllDelivered, Missing, Delivered

\* The reading of the start number, whichever attempt or orphan is alive.
LEMMA ReadStep ==
  ASSUME UploadInv, RecordingInv, UNCHANGED <<bucket, uploadVars>>, current' = bucket,
         pc' = "getReplication"
  PROVE  UploadInv'
<1>1. AwaitedTasksFileRight' /\ ListsAreKept'
  BY DEF AwaitedTasksFileRight, Awaited, At, ListsAreKept, ChildIsThrough, AfterAppend
<1>2. MemoryIsDelivered' /\ TasksReadForward'
  BY Numbers DEF MemoryIsDelivered, TasksReadForward, UploadInv, uploadVars
<1>3. NeverFiledEarly' /\ TasksServeInOrder' /\ TasksDeliver'
  BY DEF UploadInv, NeverFiledEarly, TasksServeInOrder, TasksDeliver, Missing, Delivered, uploadVars
<1> QED
  BY <1>1, <1>2, <1>3, KeysStay DEF UploadInv, uploadVars

\* The put of state.txt: the number moves on to the one every list is delivered for.
LEMMA RecordStep ==
  ASSUME UploadInv, RecordingInv, UploadTypeOK,
         pc = "updateState", pc' \in {"completeAction", "failAction"},
         UNCHANGED <<current, uploadVars>>, bucket' \in {bucket, stateContent}
  PROVE  UploadInv'
<1>1. current = bucket + 1 /\ bucket' \in {bucket, bucket + 1} /\ bucket \in Nat
  BY Numbers
<1>2. AwaitedTasksFileRight' /\ ListsAreKept'
  BY DEF AwaitedTasksFileRight, Awaited, At, ListsAreKept, ChildIsThrough, AfterAppend
<1>3. MemoryIsDelivered' /\ TasksReadForward'
  <2>1. \A t \in uploadTasks : t.seq \in Nat
    BY MaxSeqAssumption DEF UploadTypeOK, TaskRecord, SequenceNumbers
  <2>2. TasksReadForward'
    <3>1. \A t \in uploadTasks :
            t.seq <= bucket' + 1 /\ (t.stage \in {"put", "push"} => t.label >= t.seq)
      BY <1>1, <2>1 DEF TasksReadForward, UploadInv
    <3>2. UNCHANGED uploadTasks /\ current' \in {bucket', bucket' + 1}
          /\ pc' \notin {"down", "prepareManager"}
      BY <1>1 DEF uploadVars
    <3> QED
      BY <3>1, <3>2 DEF TasksReadForward
  <2>3. MemoryIsDelivered'
    BY <1>1 DEF MemoryIsDelivered, UploadInv, uploadVars, AllDelivered, Missing, Delivered
  <2> QED
    BY <2>2, <2>3
<1>4. NeverFiledEarly' /\ TasksServeInOrder'
  BY DEF UploadInv, NeverFiledEarly, TasksServeInOrder, uploadVars
<1>5. TasksDeliver'
  <2>1. \A t \in uploadTasks : t.seq <= bucket + 1
    BY DEF UploadInv, TasksReadForward
  <2> QED
    BY <1>1, <2>1 DEF UploadInv, TasksDeliver, Missing, Delivered, uploadVars
<1> QED
  BY <1>2, <1>3, <1>4, <1>5, KeysStay DEF UploadInv, uploadVars

\* The starting of the tasks: one for every list that is missing.
LEMMA StartStep ==
  ASSUME UploadInv, RecordingInv, pc \in {"updateTimestamp", "postEnrollment"},
         startUploads(nextState), pc' = "uploadExpired",
         UNCHANGED <<bucket, current, expireFiles>>
  PROVE  UploadInv'
<1> DEFINE task(e) == [entity |-> e, seq |-> nextState, attempt |-> attempt', stage |-> "lines",
                       todo |-> UploadTargets, label |-> 0]
<1>1. /\ nextState = bucket + 1 /\ current = bucket /\ bucket \in Nat
      /\ UNCHANGED <<expireLists, puts, jobs>>
      /\ uploadTasks' = uploadTasks \cup {task(e) : e \in Pending(nextState)}
  BY Numbers DEF Working, AfterAppend, nextState, startUploads
<1>2. \A t \in uploadTasks : t.attempt # attempt'
  BY DEF startUploads, FreeRounds
<1>3. \A t \in uploadTasks' \ uploadTasks :
        t.seq = bucket + 1 /\ t.stage = "lines" /\ t.todo = UploadTargets
  BY <1>1
<1> HIDE DEF task
<1>4. NeverFiledEarly' /\ MemoryIsDelivered'
  BY <1>1 DEF UploadInv, NeverFiledEarly, MemoryIsDelivered, AllDelivered, Missing, Delivered
<1>5. AwaitedTasksFileRight'
  BY <1>1, <1>2, <1>3 DEF AwaitedTasksFileRight, Awaited, At, nextState
<1>6. TasksServeInOrder' /\ TasksReadForward'
  BY <1>1, <1>3 DEF UploadInv, TasksServeInOrder, TasksReadForward
<1>7. TasksDeliver'
  <2>1. \A e, n : Missing(e, n)' <=> Missing(e, n)
    BY <1>1 DEF Missing, Delivered
  <2>2. \A e, n : Missing(e, n) => ServesS3(UploadTargets)
    BY DEF Missing, HasList
  <2>3. \A t \in uploadTasks' :
          t \in uploadTasks \/ (t.stage = "lines" /\ t.todo = UploadTargets)
    BY <1>3
  <2> QED
    BY <1>1, <2>1, <2>2, <2>3 DEF UploadInv, TasksDeliver
<1>8. ListsAreKept'
  <2> SUFFICES ASSUME NEW e \in Entities, Missing(e, bucket + 1)
               PROVE  \E t \in uploadTasks' :
                        t.entity = e /\ t.seq = bucket + 1 /\ t.attempt = attempt'
    BY <1>1 DEF ListsAreKept, ChildIsThrough, AfterAppend, Missing, Delivered
  <2>1. e \in Pending(nextState)
    BY <1>1 DEF UploadInv, ListsAreKept, ChildIsThrough, AfterAppend, Pending
  <2>2. task(e) \in uploadTasks' /\ task(e).entity = e /\ task(e).seq = bucket + 1
        /\ task(e).attempt = attempt'
    BY <1>1, <2>1 DEF task
  <2> QED
    BY <2>2
<1> QED
  BY <1>1, <1>4, <1>5, <1>6, <1>7, <1>8, KeysStay DEF UploadInv

\* Without a task to start, the memory moves on: no list is missing.
LEMMA SkipStep ==
  ASSUME UploadInv, RecordingInv, pc \in {"updateTimestamp", "postEnrollment"},
         ~(GenerateExpire /\ Pending(nextState) # {}), bumpState, pc' = "updateState",
         UNCHANGED <<bucket, uploadVars, expireFiles>>
  PROVE  UploadInv'
<1>1. nextState = bucket + 1 /\ current = bucket /\ current' = bucket + 1 /\ bucket \in Nat
  BY Numbers DEF Working, AfterAppend, nextState, bumpState
<1>2. AllDelivered(bucket + 1)
  BY <1>1 DEF AllDelivered, UploadInv, ListsAreKept, ChildIsThrough, AfterAppend, Pending,
              Missing, HasList, hasTiles
<1>3. MemoryIsDelivered' /\ TasksReadForward'
  BY <1>1, <1>2 DEF MemoryIsDelivered, AllDelivered, Missing, Delivered, UploadInv,
                    TasksReadForward, uploadVars
<1>4. AwaitedTasksFileRight' /\ ListsAreKept'
  BY DEF AwaitedTasksFileRight, Awaited, At, ListsAreKept, ChildIsThrough, AfterAppend
<1>5. NeverFiledEarly' /\ TasksServeInOrder' /\ TasksDeliver'
  BY DEF UploadInv, NeverFiledEarly, TasksServeInOrder, TasksDeliver, Missing, Delivered, uploadVars
<1> QED
  BY <1>3, <1>4, <1>5, KeysStay DEF UploadInv, uploadVars

--------------------------------------------------------------------------------
(* The steps of a task.                                                    *)

\* What a task may rely on: it is not ahead of the next state, it belongs to it when it
\* is awaited, and the memory is on the recorded state while a list of the next is missing.
LEMMA TaskReadsRight ==
  ASSUME UploadInv, RecordingInv, UploadTypeOK, NEW t \in uploadTasks
  PROVE  /\ t \in TaskRecord /\ t.seq \in Nat /\ bucket \in Nat /\ nextState \in Int
         /\ nextState >= t.seq
         /\ Awaited(t) => t.seq = nextState /\ t.seq = bucket + 1
         /\ t.seq = bucket + 1 /\ Missing(t.entity, t.seq) => nextState = t.seq
<1>1. t \in TaskRecord /\ t.seq \in Nat /\ t.entity \in Entities
  BY MaxSeqAssumption DEF UploadTypeOK, TaskRecord, SequenceNumbers
<1>2. current \in {bucket, bucket + 1} /\ t.seq <= bucket + 1
  BY DEF UploadInv, TasksReadForward
<1>3. Awaited(t) => t.seq = nextState /\ t.seq = bucket + 1
  BY Numbers DEF UploadInv, AwaitedTasksFileRight, Awaited, At, nextState, Working, AfterAppend
<1>4. t.seq = bucket + 1 /\ Missing(t.entity, t.seq) => current # bucket + 1
  BY <1>1 DEF UploadInv, MemoryIsDelivered, AllDelivered
<1> QED
  BY <1>1, <1>2, <1>3, <1>4, Numbers DEF nextState

\* How a task that moves on is replaced: by itself, with what is left to serve.
Continues(t, u) ==
  /\ u.entity = t.entity /\ u.seq = t.seq /\ u.attempt = t.attempt
  /\ u.stage \in {"open", "read", "put"} => u.todo # <<>> /\ Head(u.todo) = "s3"
  /\ u.stage = "push" => u.todo # <<>> /\ Head(u.todo) = "queue"
  /\ u.stage = "unlink" => u.todo = <<>>
  /\ u.stage # "lines"
  /\ u.stage \in {"put", "push"} => u.label = nextState

\* Such a step keeps the invariant when the task goes on until its list is delivered, and
\* deletes no list that is missing in the bucket.
LEMMA MoveStep ==
  ASSUME UploadInv, RecordingInv, UploadTypeOK, NEW t \in uploadTasks, NEW new,
         uploadTasks' = replaceTask(t, new), \A u \in new : Continues(t, u),
         UNCHANGED <<attempt, bucket, children>>, AfterTask(t),
         puts \subseteq puts', NeverFiledEarly', KeysHoldPuts',
         t.seq = bucket + 1 /\ Missing(t.entity, t.seq)' =>
           /\ new # {} /\ \A u \in new : ServesS3(u.todo)
           /\ UNCHANGED expireFiles,
         expireFiles' \in {expireFiles, expireFiles \ {<<t.entity, t.seq>>}}
  PROVE  UploadInv'
<1>1. /\ t.seq \in Nat /\ bucket \in Nat /\ nextState \in Int
      /\ nextState >= t.seq
      /\ Awaited(t) => t.seq = nextState /\ t.seq = bucket + 1
      /\ t.seq = bucket + 1 /\ Missing(t.entity, t.seq) => nextState = t.seq
  BY TaskReadsRight
<1>2. \A e, n : Missing(e, n)' => Missing(e, n)
  BY DEF Missing, Delivered
<1>3. \A u \in uploadTasks' : u \in uploadTasks \/ (u \in new /\ Continues(t, u))
  BY DEF replaceTask
<1>4. \/ /\ Awaited(t) /\ ~ \E u \in uploadTasks' : u.attempt = attempt
         /\ pc' = "updateState" /\ current' = bucket + 1
      \/ UNCHANGED <<pc, current>>
  BY <1>1 DEF AfterTask, Goto, bumpState
<1>5. TasksServeInOrder'
  BY <1>3 DEF UploadInv, TasksServeInOrder, Continues
<1>6. TasksReadForward'
  BY <1>1, <1>3, <1>4 DEF UploadInv, TasksReadForward, Continues
<1>7. AwaitedTasksFileRight'
  BY <1>1, <1>3, <1>4 DEF UploadInv, AwaitedTasksFileRight, Continues, Awaited, At, nextState
<1>8. TasksDeliver'
  BY <1>1, <1>2, <1>3 DEF UploadInv, TasksDeliver, Continues
<1>9. ASSUME NEW e \in Entities, pc = "uploadExpired", Missing(e, bucket + 1)'
      PROVE  \E u \in uploadTasks' : u.entity = e /\ u.seq = bucket + 1 /\ u.attempt = attempt
  <2>1. PICK v \in uploadTasks : v.entity = e /\ v.seq = bucket + 1 /\ v.attempt = attempt
    BY <1>2, <1>9 DEF UploadInv, ListsAreKept
  <2>2. CASE v # t
    BY <2>1, <2>2 DEF replaceTask
  <2>3. CASE v = t
    <3>1. PICK u \in new : TRUE
      BY <1>9, <2>1, <2>3
    <3> QED
      BY <2>1, <2>3, <3>1 DEF Continues, replaceTask
  <2> QED
    BY <2>2, <2>3
<1>10. MemoryIsDelivered'
  <2> SUFFICES ASSUME current' = bucket + 1, NEW e \in Entities, Missing(e, bucket + 1)'
               PROVE  FALSE
    BY DEF MemoryIsDelivered, AllDelivered
  <2>1. CASE UNCHANGED current
    BY <1>2, <2>1 DEF UploadInv, MemoryIsDelivered, AllDelivered
  <2>2. CASE Awaited(t) /\ ~ \E u \in uploadTasks' : u.attempt = attempt
    BY <1>9, <2>2 DEF Awaited, At
  <2> QED
    BY <1>4, <2>1, <2>2
<1>11. ListsAreKept'
  <2> SUFFICES ASSUME NEW e \in Entities, Missing(e, bucket + 1)'
               PROVE  /\ ChildIsThrough(e)' => <<e, bucket + 1>> \in expireFiles'
                      /\ pc' = "uploadExpired" =>
                           \E u \in uploadTasks' :
                             u.entity = e /\ u.seq = bucket + 1 /\ u.attempt = attempt
    BY DEF ListsAreKept
  <2>1. CASE pc' = "updateState"
    BY <2>1 DEF ChildIsThrough, AfterAppend
  <2>2. CASE UNCHANGED pc
    <3>1. ChildIsThrough(e) => <<e, bucket + 1>> \in expireFiles
      BY <1>2 DEF UploadInv, ListsAreKept
    <3>2. <<e, bucket + 1>> \in expireFiles => <<e, bucket + 1>> \in expireFiles'
      OBVIOUS
    <3> QED
      BY <1>9, <2>2, <3>1, <3>2 DEF ChildIsThrough
  <2> QED
    BY <1>4, <2>1, <2>2
<1> QED
  BY <1>5, <1>6, <1>7, <1>8, <1>10, <1>11 DEF UploadInv

\* A task that rejects leaves its list where it is and fails its attempt when awaited.
LEMMA RejectStep ==
  ASSUME UploadInv, RecordingInv, UploadTypeOK, NEW t \in uploadTasks, TaskRejects(t)
  PROVE  UploadInv'
<1>1. /\ uploadTasks' = uploadTasks \ {t} /\ UNCHANGED <<attempt, jobs, expireFiles, current>>
      /\ UNCHANGED <<bucket, children>>
      /\ puts' \in {puts, puts \cup {listOf(t)}}
      /\ t.stage = "put" \/ UNCHANGED puts
      /\ putObject(t) \/ UNCHANGED <<expireLists, puts>>
  BY DEF TaskRejects, putFails, putObject, listGone, TaskFrame
<1>2. \/ Awaited(t) /\ pc' = "failAction"
      \/ ~Awaited(t) /\ UNCHANGED pc
  BY DEF TaskRejects, Reject
<1>3. NeverFiledEarly'
  BY <1>1 DEF UploadInv, NeverFiledEarly, TasksReadForward, listOf
<1>4. TasksServeInOrder' /\ TasksReadForward' /\ AwaitedTasksFileRight'
  BY <1>1, <1>2 DEF UploadInv, TasksServeInOrder, TasksReadForward, AwaitedTasksFileRight,
                    Awaited, At, nextState
<1>5. MemoryIsDelivered' /\ TasksDeliver'
  BY <1>1 DEF UploadInv, MemoryIsDelivered, TasksDeliver, AllDelivered, Missing, Delivered
<1>6. ListsAreKept'
  <2>1. CASE pc' = "failAction"
    BY <2>1 DEF ListsAreKept, ChildIsThrough, AfterAppend
  <2>2. CASE ~Awaited(t) /\ UNCHANGED pc
    BY <1>1, <2>2 DEF UploadInv, ListsAreKept, ChildIsThrough, Missing, Delivered, Awaited, At
  <2> QED
    BY <1>2, <2>1, <2>2
<1>7. KeysHoldPuts'
  BY <1>1, KeysStay, PutKeepsKeys DEF UploadInv, UploadTypeOK
<1> QED
  BY <1>3, <1>4, <1>5, <1>6, <1>7 DEF UploadInv

\* What is left of a task that has served its targets up to todo.
LEMMA ServeContinues ==
  ASSUME NEW t \in TaskRecord, NEW todo \in Seq({"s3", "queue"})
  PROVE  /\ \A u \in serve(t, todo) : Continues(t, u) /\ u.todo = todo
         /\ todo # <<>> => serve(t, todo) # {}
<1> USE DEF TaskRecord, Continues
<1>1. CASE todo = <<>> /\ fileExists(t)
  BY <1>1 DEF serve
<1>2. CASE todo = <<>> /\ ~fileExists(t)
  BY <1>2 DEF serve
<1>3. CASE todo # <<>> /\ Head(todo) = "s3"
  <2>1. serve(t, todo) = {[t EXCEPT !.stage = "open", !.todo = todo]}
    BY <1>3 DEF serve
  <2> QED
    BY <1>3, <2>1
<1>4. CASE todo # <<>> /\ Head(todo) # "s3"
  <2>1. Head(todo) = "queue"
    BY <1>4
  <2>2. serve(t, todo) = {[t EXCEPT !.stage = "push", !.todo = todo, !.label = nextState]}
    BY <1>4 DEF serve
  <2> QED
    BY <1>4, <2>1, <2>2
<1> QED
  BY <1>1, <1>2, <1>3, <1>4

\* A target that is still to be served is, after another one, still to be served.
LEMMA TailServesS3 ==
  ASSUME NEW todo \in Seq({"s3", "queue"}), todo # <<>>, Head(todo) # "s3", ServesS3(todo)
  PROVE  Tail(todo) # <<>> /\ ServesS3(Tail(todo))
<1>1. PICK i \in 1 .. Len(todo) : todo[i] = "s3"
  BY DEF ServesS3
<1>2. i - 1 \in 1 .. Len(Tail(todo)) /\ Tail(todo)[i - 1] = "s3"
  BY <1>1
<1>3. Tail(todo) \in Seq({"s3", "queue"}) /\ DOMAIN Tail(todo) = 1 .. Len(Tail(todo))
  OBVIOUS
<1>4. ServesS3(Tail(todo))
  BY <1>2, <1>3 DEF ServesS3
<1>5. ~ServesS3(<<>>)
  BY DEF ServesS3
<1> QED
  BY <1>4, <1>5

\* A task that moves on.
LEMMA TaskMoves ==
  ASSUME UploadInv, RecordingInv, UploadTypeOK, NEW t \in uploadTasks,
         TaskReads(t) \/ TaskPut(t) \/ TaskPush(t) \/ TaskUnlinks(t)
  PROVE  UploadInv'
<1>1. /\ t \in TaskRecord /\ t.todo \in Seq({"s3", "queue"})
      /\ t.todo # <<>> => Tail(t.todo) \in Seq({"s3", "queue"})
  BY DEF UploadTypeOK, TaskRecord
<1>2. AfterTask(t) /\ UNCHANGED <<bucket, children>>
  BY DEF TaskReads, TaskPut, TaskPush, TaskUnlinks, TaskFrame
<1>3. \A e, n : puts \subseteq puts' => (Missing(e, n)' => Missing(e, n))
  BY DEF Missing, Delivered
<1>4. t.seq = bucket + 1 /\ Missing(t.entity, t.seq) =>
        ServesS3(t.todo) /\ t.todo # <<>> /\ (t.stage = "put" => t.label = t.seq)
  <2>1. ~ServesS3(<<>>)
    BY DEF ServesS3
  <2> QED
    BY <2>1 DEF UploadInv, TasksDeliver
<1>5. /\ t.stage \in {"open", "read", "put"} => t.todo # <<>> /\ Head(t.todo) = "s3"
      /\ t.stage = "push" => t.todo # <<>> /\ Head(t.todo) = "queue"
      /\ t.stage = "unlink" => t.todo = <<>>
      /\ t.stage \in {"put", "push"} => t.label >= t.seq
  BY DEF UploadInv, TasksServeInOrder, TasksReadForward
<1>6. NeverFiledEarly /\ KeysHoldPuts
  BY DEF UploadInv
<1>7. CASE linesRead(t)
  <2>1. /\ uploadTasks' = replaceTask(t, serve(t, t.todo))
        /\ UNCHANGED <<attempt, expireLists, puts, jobs, expireFiles>>
    BY <1>7 DEF linesRead
  <2>2. NeverFiledEarly' /\ KeysHoldPuts'
    BY <1>6, <2>1, KeysStay DEF NeverFiledEarly
  <2> QED
    BY <1>1, <1>2, <1>3, <1>4, <2>1, <2>2, ServeContinues, MoveStep
<1>8. CASE fileOpened(t) \/ fileRead(t)
  <2> DEFINE new == IF t.stage = "open" THEN [t EXCEPT !.stage = "read"]
                    ELSE [t EXCEPT !.stage = "put", !.label = nextState]
  <2>1. /\ uploadTasks' = replaceTask(t, {new}) /\ t.stage \in {"open", "read"}
        /\ UNCHANGED <<attempt, expireLists, puts, jobs, expireFiles>>
    BY <1>8 DEF fileOpened, fileRead
  <2>2. Continues(t, new) /\ new.todo = t.todo
    BY <1>1, <1>5, <2>1 DEF Continues, TaskRecord
  <2>3. NeverFiledEarly' /\ KeysHoldPuts'
    BY <1>6, <2>1, KeysStay DEF NeverFiledEarly
  <2> HIDE DEF new
  <2>4. \A u \in {new} : Continues(t, u) /\ u.todo = t.todo
    BY <2>2
  <2>5. t.seq = bucket + 1 /\ Missing(t.entity, t.seq)' =>
          {new} # {} /\ (\A u \in {new} : ServesS3(u.todo)) /\ UNCHANGED expireFiles
    BY <1>3, <1>4, <2>1, <2>4
  <2> QED
    BY <1>2, <2>1, <2>3, <2>4, <2>5, MoveStep
<1>9. CASE putAnswers(t)
  <2>1. /\ uploadTasks' = replaceTask(t, serve(t, Tail(t.todo))) /\ t.stage = "put"
        /\ putObject(t) /\ puts' = puts \cup {listOf(t)}
        /\ UNCHANGED <<attempt, jobs, expireFiles>>
    BY <1>9 DEF putAnswers, putObject
  <2>2. NeverFiledEarly' /\ KeysHoldPuts'
    BY <1>1, <1>5, <1>6, <2>1, PutKeepsKeys DEF NeverFiledEarly, listOf
  <2>3. t.seq = bucket + 1 => ~Missing(t.entity, t.seq)'
    <3> SUFFICES ASSUME t.seq = bucket + 1, Missing(t.entity, t.seq)' PROVE FALSE
      OBVIOUS
    <3>1. listOf(t) = [entity |-> t.entity, label |-> t.seq, seq |-> t.seq]
      BY <1>3, <1>4, <2>1 DEF listOf
    <3> QED
      BY <2>1, <3>1 DEF Missing, Delivered
  <2> QED
    BY <1>1, <1>2, <1>5, <2>1, <2>2, <2>3, ServeContinues, MoveStep
<1>10. CASE pushSkipped(t) \/ \E accepted \in BOOLEAN : pushAnswers(t, accepted)
  <2>1. /\ uploadTasks' = replaceTask(t, serve(t, Tail(t.todo))) /\ t.stage = "push"
        /\ jobs' \in {jobs, jobs \cup {listOf(t)}}
        /\ UNCHANGED <<attempt, expireLists, puts, expireFiles>>
    BY <1>10 DEF pushSkipped, pushAnswers
  <2>2. NeverFiledEarly' /\ KeysHoldPuts'
    BY <1>5, <1>6, <2>1, KeysStay DEF NeverFiledEarly, listOf
  <2>3. t.seq = bucket + 1 /\ Missing(t.entity, t.seq)' =>
          Tail(t.todo) # <<>> /\ ServesS3(Tail(t.todo))
    BY <1>1, <1>3, <1>4, <1>5, <2>1, TailServesS3
  <2>4. /\ \A u \in serve(t, Tail(t.todo)) : Continues(t, u) /\ u.todo = Tail(t.todo)
        /\ Tail(t.todo) # <<>> => serve(t, Tail(t.todo)) # {}
    BY <1>1, <1>5, <2>1, ServeContinues
  <2> QED
    BY <1>2, <2>1, <2>2, <2>3, <2>4, MoveStep
<1>11. CASE unlinked(t)
  <2>1. /\ uploadTasks' = replaceTask(t, {}) /\ t.todo = <<>>
        /\ expireFiles' = expireFiles \ {<<t.entity, t.seq>>}
        /\ UNCHANGED <<attempt, expireLists, puts, jobs>>
    BY <1>5, <1>11 DEF unlinked, replaceTask
  <2>2. NeverFiledEarly' /\ KeysHoldPuts'
    BY <1>6, <2>1, KeysStay DEF NeverFiledEarly
  <2> QED
    BY <1>2, <1>3, <1>4, <2>1, <2>2, MoveStep
<1> QED
  BY <1>7, <1>8, <1>9, <1>10, <1>11 DEF TaskReads, TaskPut, TaskPush, TaskUnlinks

\* The steps of the tasks, those of the attempt and the orphans.
LEMMA TaskKeepsUploads == UploadInv /\ RecordingInv /\ UploadTypeOK /\ Task => UploadInv'
<1> SUFFICES ASSUME UploadInv, RecordingInv, UploadTypeOK, NEW t \in uploadTasks,
                    \/ TaskReads(t) \/ TaskPut(t) \/ TaskPush(t)
                    \/ TaskUnlinks(t) \/ TaskRejects(t) \/ TaskBreaks(t)
             PROVE  UploadInv'
  BY DEF Task
<1>1. CASE TaskBreaks(t)
  BY <1>1, EndStep DEF TaskBreaks, Throw, Exit, trackerVars
<1> QED
  BY <1>1, TaskMoves, RejectStep

--------------------------------------------------------------------------------
(* The steps of the manager and of its environment.                        *)

\* The end of a process.
LEMMA ExitKeepsUploads ==
  ASSUME UploadInv, NEW code, NEW lockAfter, NEW action, Exit(code, lockAfter, action)
  PROVE  UploadInv'
  BY EndStep DEF Exit, trackerVars

\* The end of an attempt.
LEMMA IterationKeepsUploads ==
  ASSUME UploadInv, NextIteration
  PROVE  UploadInv'
<1>1. CASE Goto("reserveAccess") /\ UNCHANGED <<trackerVars, runnerVars, uploadVars>>
  BY <1>1, QuietStep DEF Goto, ChildIsThrough, AfterAppend, trackerVars, runnerVars
<1>2. CASE pc' = "down" /\ dropTasks /\ UNCHANGED trackerVars
  BY <1>2, EndStep DEF trackerVars
<1> QED
  BY <1>1, <1>2 DEF NextIteration

\* The steps around an attempt.
LEMMA LoopKeepsUploads == UploadInv /\ RecordingInv /\ Loop => UploadInv'
<1> SUFFICES ASSUME UploadInv, RecordingInv, Loop PROVE UploadInv'
  OBVIOUS
<1>1. ASSUME UNCHANGED <<bucket, current, uploadVars, expireFiles>>,
             pc' \in {"reserveAccess", "getStart", "getReplication", "removeLockIdle",
                     "createAction", "removeLock", "preStatus", "getDiff", "wait"}
      PROVE  UploadInv'
  BY <1>1, QuietStep DEF ChildIsThrough, AfterAppend
<1> USE ExitKeepsUploads DEF Goto, trackerVars, runnerVars, Throw, MediatorCallFails
<1>2. CASE Prepare \/ Reserve
  BY <1>1, <1>2 DEF Prepare, Reserve
<1>3. CASE GetStart
  BY <1>3, ReadStep DEF GetStart, getStartSequenceNumber
<1>4. CASE GetReplication
  BY <1>1, <1>4 DEF GetReplication, getReplicationSequenceNumber
<1>5. CASE UnlockIdle \/ CreateAction \/ Unlock
  BY <1>1, <1>5 DEF UnlockIdle, CreateAction, Unlock
<1>6. CASE CompleteAction \/ Wait
  BY <1>6, IterationKeepsUploads DEF CompleteAction, Wait
<1>7. CASE FailAction
  BY <1>1, <1>7 DEF FailAction
<1> QED
  BY <1>2, <1>3, <1>4, <1>5, <1>6, <1>7 DEF Loop

\* uploadExpired is entered, or updateRemoteState without it.
LEMMA ToUploadKeepsUploads ==
  ASSUME UploadInv, RecordingInv, pc \in {"updateTimestamp", "postEnrollment"}, ToUpload,
         UNCHANGED <<bucket, expireFiles>>
  PROVE  UploadInv'
<1>1. CASE startUploads(nextState) /\ pc' = "uploadExpired" /\ UNCHANGED current
  BY <1>1, StartStep
<1>2. CASE ~(GenerateExpire /\ Pending(nextState) # {}) /\ bumpState /\ pc' = "updateState"
           /\ UNCHANGED uploadVars
  BY <1>2, SkipStep
<1> QED
  BY <1>1, <1>2 DEF ToUpload, Goto

\* The steps of appendProcedure.
LEMMA ProcedureKeepsUploads ==
  UploadInv /\ RecordingInv /\ UploadTypeOK /\ Procedure => UploadInv'
<1> SUFFICES ASSUME UploadInv, RecordingInv, UploadTypeOK, Procedure PROVE UploadInv'
  OBVIOUS
<1>1. ASSUME UNCHANGED <<bucket, current, uploadVars, expireFiles>>,
             \/ pc' \in {"getDiff", "simplifyDiff", "brokenStream", "failAction"}
             \/ pc' = "append" /\ \A e \in Entities : children'[e] # "done"
             \/ /\ pc \in AfterAppend \ {"uploadExpired"} /\ pc' \in AfterAppend \ {"uploadExpired"}
      PROVE  UploadInv'
  BY <1>1, QuietStep DEF ChildIsThrough, AfterAppend
<1> USE DEF Goto, Reject, trackerVars, runnerVars, At
<1>2. CASE PreStatus \/ GetDiff
  BY <1>1, <1>2 DEF PreStatus, GetDiff
<1>3. CASE SimplifyDiff
  BY <1>1, <1>3 DEF SimplifyDiff, spawnAll
<1>4. CASE UnlinkDiffs \/ PostStatus
  BY <1>1, <1>4 DEF UnlinkDiffs, PostStatus, AfterAppend
<1>5. CASE UpdateTimestamp
  <2>1. UNCHANGED <<bucket, expireFiles>>
    BY <1>5, Numbers DEF UpdateTimestamp, putStateContent, Working, AfterAppend
  <2> QED
    BY <1>1, <1>5, <2>1, ToUploadKeepsUploads DEF UpdateTimestamp, AfterAppend
<1>6. CASE PostEnrollment
  BY <1>1, <1>6, ToUploadKeepsUploads DEF PostEnrollment
<1>7. CASE UpdateState
  BY <1>7, RecordStep DEF UpdateState, putStateContent
<1> QED
  BY <1>2, <1>3, <1>4, <1>5, <1>6, <1>7 DEF Procedure

\* The exits of the awaited children: each leaves its list.
LEMMA ChildrenKeepUploads == UploadInv /\ RecordingInv /\ Children => UploadInv'
<1> SUFFICES ASSUME UploadInv, RecordingInv, NEW e \in Entities,
                    ChildSucceeds(e) \/ ChildFails(e)
             PROVE  UploadInv'
  BY DEF Children
<1>1. pc = "append" /\ nextState = bucket + 1 /\ UNCHANGED <<bucket, current, uploadVars>>
  BY Numbers DEF ChildSucceeds, ChildFails, At, Working, nextState, trackerVars
<1>2. CASE ChildSucceeds(e)
  <2>1. /\ pc' \in {"append", "unlinkDiffs"}
        /\ pc' = "unlinkDiffs" => \A f \in Entities : children'[f] = "done"
        /\ children' = [children EXCEPT ![e] = "done"]
        /\ expireFiles \subseteq expireFiles'
        /\ hasTiles(e, bucket + 1) => <<e, bucket + 1>> \in expireFiles'
    BY <1>1, <1>2 DEF ChildSucceeds, childSucceeds, commit, Goto
  <2>2. \A f \in Entities : f # e /\ ChildIsThrough(f)' => ChildIsThrough(f)
    BY <1>1, <2>1 DEF ChildIsThrough, AfterAppend, RecordingInv, CoreTypeOK
  <2> QED
    BY <1>1, <2>1, <2>2, QuietStep
<1>3. CASE ChildFails(e)
  <2>1. pc' = "failAction" /\ expireFiles \subseteq expireFiles'
    BY <1>3 DEF ChildFails, childFails, commit, Reject
  <2> QED
    BY <1>1, <2>1, QuietStep DEF ChildIsThrough, AfterAppend
<1> QED
  BY <1>2, <1>3

\* Signals, late commits, crashes and restarts.
LEMMA EnvironmentKeepsUploads == UploadInv /\ RecordingInv /\ Environment => UploadInv'
<1> SUFFICES ASSUME UploadInv, RecordingInv, Environment PROVE UploadInv'
  OBVIOUS
<1>0. pc \in {"down", "prepareManager"} => uploadTasks = {}
  BY DEF UploadInv, TasksReadForward
<1>1. ASSUME UNCHANGED <<bucket, current, uploadVars, pc>>, expireFiles \subseteq expireFiles',
             \A e \in Entities : children'[e] = "done" => children[e] = "done"
      PROVE  UploadInv'
  BY <1>0, <1>1, QuietStep DEF ChildIsThrough
<1> USE DEF trackerVars, runnerVars, controlVars
<1>2. CASE SourcePublishes \/ LockExpires \/ Sigterm
  BY <1>1, <1>2 DEF SourcePublishes, Publish, LockExpires, Sigterm
<1>3. CASE SignalledEnds
  BY <1>1, <1>3 DEF SignalledEnds, signalledEnds, commit
<1>4. CASE CleanUp
  BY <1>1, <1>4 DEF CleanUp, interruptChildren
<1>5. CASE TerminusEnds \/ Crash
  BY <1>1, <1>5, ExitKeepsUploads DEF TerminusEnds, Crash, Throw
<1>6. CASE Restart
  <2>1. uploadTasks = {} /\ pc' = "prepareManager" /\ UNCHANGED <<bucket, uploadVars>>
        /\ current' = -1 /\ bucket \in Nat
    BY <1>0, <1>6, Numbers DEF Restart, restartTracker, DEFAULT_SEQUENCE_NUMBER
  <2>2. MemoryIsDelivered' /\ TasksReadForward' /\ AwaitedTasksFileRight' /\ ListsAreKept'
    BY <2>1 DEF MemoryIsDelivered, TasksReadForward, AwaitedTasksFileRight, ListsAreKept,
                ChildIsThrough, AfterAppend, uploadVars
  <2> QED
    BY <2>1, <2>2, KeysStay
       DEF UploadInv, NeverFiledEarly, TasksServeInOrder, TasksDeliver, uploadVars
<1> QED
  BY <1>2, <1>3, <1>4, <1>5, <1>6 DEF Environment

\* Every step keeps the invariant.
LEMMA UploadStep == UploadInv /\ RecordingInv /\ UploadTypeOK /\ [Next]_vars => UploadInv'
<1> SUFFICES ASSUME UploadInv, RecordingInv, UploadTypeOK, [Next]_vars PROVE UploadInv'
  OBVIOUS
<1>1. CASE Finished \/ Stalled \/ UNCHANGED vars
  <2>1. UNCHANGED <<bucket, current, uploadVars, expireFiles, pc, children>>
    BY <1>1 DEF Finished, Stalled, vars, trackerVars, runnerVars, controlVars
  <2>2. pc \in {"down", "prepareManager"} => uploadTasks = {}
    BY DEF UploadInv, TasksReadForward
  <2> QED
    BY <2>1, <2>2, QuietStep DEF ChildIsThrough
<1> QED
  BY <1>1, LoopKeepsUploads, ProcedureKeepsUploads, ChildrenKeepUploads, TaskKeepsUploads,
     EnvironmentKeepsUploads DEF Next

\* Only the put of updateRemoteState moves the number, to the one in memory.
LEMMA NumberMoves ==
  ASSUME RecordingInv, [Next]_vars, bucket' # bucket
  PROVE  pc = "updateState" /\ bucket' = current /\ current = bucket + 1
<1>1. CASE Loop \/ Children \/ Task \/ Environment \/ Finished \/ Stalled \/ UNCHANGED vars
  <2>1. CASE Loop
    BY <2>1, LoopStutters DEF projectVars
  <2>2. CASE Children
    BY <2>2 DEF Children, ChildSucceeds, ChildFails, trackerVars
  <2>3. CASE Task
    BY <2>3, TaskStutters DEF projectVars
  <2>4. CASE Environment
    BY <2>4, ExitStutters DEF Environment, SourcePublishes, Publish, SignalledEnds, LockExpires,
       Sigterm, CleanUp, TerminusEnds, Crash, Throw, Restart, restartTracker, trackerVars,
       projectVars
  <2>5. CASE Finished \/ Stalled \/ UNCHANGED vars
    BY <2>5 DEF Finished, Stalled, vars, trackerVars
  <2> QED
    BY <1>1, <2>1, <2>2, <2>3, <2>4, <2>5
<1>2. CASE Procedure
  BY <1>2, Numbers DEF Procedure, PreStatus, GetDiff, SimplifyDiff, UnlinkDiffs, UpdateTimestamp,
     PostStatus, PostEnrollment, UpdateState, putStateContent, trackerVars, At, Working, AfterAppend
<1> QED
  BY <1>1, <1>2 DEF Next

HIDE DEF UploadInv, NeverFiledEarly, AwaitedTasksFileRight, DeliveredBeforeRecorded

\* For any entities, tiles, targets, diffs and faults: what the tasks of an attempt and the
\* orphans of failed ones read, file and delete fits the number that is recorded, at every
\* await (uploadExpired, its tasks and the state tracker they read).
THEOREM Uploads == Safe => []UploadInv
<1>1. TypeOK => UploadTypeOK
  BY DEF TypeOK
<1> QED
  BY <1>1, UploadsInit, UploadStep, Recording, TypesHold, PTL DEF Safe

\* No list is ever filed under an earlier number than its own, in the bucket or in the
\* queue, although every task reads the number when it sends (uploadExpired).
THEOREM ListsAreNotEarly == Safe => []NeverFiledEarly
<1>1. UploadInv => NeverFiledEarly
  BY DEF UploadInv
<1> QED
  BY <1>1, Uploads, PTL

\* The tasks the attempt awaits file under the number of its diff.
THEOREM ListsAreFiledRight == Safe => []AwaitedTasksFileRight
<1>1. UploadInv => AwaitedTasksFileRight
  BY DEF UploadInv
<1> QED
  BY <1>1, Uploads, PTL

\* The list of the recorded state is under its key, or that of an earlier diff is: the key
\* is not empty, what it holds was put there, and nothing later was.
LEMMA KeptUnderItsKey ==
  ASSUME UploadInv, UploadTypeOK, NEW n \in Labels, AllDelivered(n)
  PROVE  KeptOrMisfiled(n)
<1> SUFFICES ASSUME NEW e \in Entities, HasList(e, n), expireLists[e][n] # n
             PROVE  MisfiledUnder(e, n)
  BY DEF KeptOrMisfiled
<1> DEFINE held == [entity |-> e, label |-> n, seq |-> expireLists[e][n]]
           right == [entity |-> e, label |-> n, seq |-> n]
<1>1. KeysHoldPuts /\ NeverFiledEarly
  BY DEF UploadInv
<1>2. right \in puts
  BY DEF AllDelivered, Missing, Delivered
<1>3. expireLists[e][n] # NoList
  <2>1. expireLists[right.entity][right.label] # NoList
    BY <1>1, <1>2 DEF KeysHoldPuts
  <2> QED
    BY <2>1
<1>4. held \in puts
  BY <1>1, <1>3 DEF KeysHoldPuts
<1>5. held.entity = e /\ held.label = n /\ held.seq = expireLists[e][n]
  OBVIOUS
<1>6. held.label >= held.seq
  BY <1>1, <1>4 DEF NeverFiledEarly
<1>7. held.seq \in Int /\ n \in Int
  BY <1>4, MaxSeqAssumption DEF UploadTypeOK, Labelled, SequenceNumbers, Labels
<1> HIDE DEF held
<1>8. held.seq < n
  BY <1>5, <1>6, <1>7
<1> QED
  BY <1>4, <1>5, <1>8 DEF MisfiledUnder

\* With s3 among the targets, a state is recorded only after the list of every entity that
\* has one was put under its number, by the attempt or by an orphan of a failed one; the
\* key then holds that list, unless an orphan has put the list of an earlier diff there
\* (uploadExpired before updateRemoteState; PutObject replaces).
THEOREM ListsBeforeState == Safe => DeliveredBeforeRecorded
<1>1. /\ UploadInv /\ RecordingInv /\ TypeOK /\ [Next]_vars
        => [bucket' # bucket => AllDelivered(bucket') /\ KeptOrMisfiled(bucket')]_vars
  <2> SUFFICES ASSUME UploadInv, RecordingInv, TypeOK, [Next]_vars, bucket' # bucket
               PROVE  AllDelivered(bucket') /\ KeptOrMisfiled(bucket')
    OBVIOUS
  <2>1. bucket' = current /\ current = bucket + 1
    BY NumberMoves
  <2>2. AllDelivered(bucket')
    BY <2>1 DEF UploadInv, MemoryIsDelivered
  <2>3. bucket' \in Labels
    BY <2>1, MaxSeqAssumption
    DEF RecordingInv, CoreTypeOK, TrackerTypeOK, SequenceNumbers, Labels
  <2>4. KeptOrMisfiled(bucket')
    BY <2>2, <2>3, KeptUnderItsKey DEF TypeOK
  <2> QED
    BY <2>2, <2>4
<1> QED
  BY <1>1, Uploads, Recording, TypesHold, PTL DEF Safe, DeliveredBeforeRecorded

--------------------------------------------------------------------------------
(* The enrollments.                                                        *)

\* Nothing is committed and nothing enrolled before the first attempt.
LEMMA EnrollmentInit == Init => EnrollmentInv
  BY DEF Init, MdrInit, EnrollmentInv, EnrolledOnce, RangesAreCommitted, ChangesAreEnrolled,
         IsCommitted, BeforePost, latest

\* The changes MDR has numbered keep their numbers.
Numbered ==
  changes' = changes \/ \E c \in Entities \X SequenceNumbers : changes' = Append(changes, c)

\* A range of committed changes covers what it covered before.
LEMMA RangesAreStable ==
  ASSUME ServiceTypeOK, Numbered
  PROVE  /\ latest \in Int /\ latest' \in Int /\ latest <= latest'
         /\ \A i \in 0 .. latest : changes'[i + 1] = changes[i + 1]
  BY DEF ServiceTypeOK, Numbered, latest

\* The new change has the last number.
LEMMA NewChange ==
  ASSUME ServiceTypeOK, NEW c \in Entities \X SequenceNumbers, changes' = Append(changes, c)
  PROVE  latest' = latest + 1 /\ changes'[latest' + 1] = c
  BY DEF ServiceTypeOK, latest

\* A step that enrolls nothing, asks for no status and at most commits.
LEMMA CommitStep ==
  ASSUME EnrollmentInv, ServiceTypeOK, Numbered,
         UNCHANGED <<bucket, preLatest, postLatest, enrollments>>,
         pc' \in BeforePost => pc \in BeforePost \/ ~MdrEnabled,
         ~MdrEnabled => pc' \notin {"preStatus", "postStatus", "postEnrollment"},
         pc' = "postEnrollment" => pc = "postEnrollment",
         pc' \in {"uploadExpired", "updateState"} /\ MdrEnabled
           => pc \in {"uploadExpired", "updateState"},
         \A e \in Entities :
           MdrEnabled /\ IsCommitted(e)' =>
             IsCommitted(e) \/ Covers(preLatest + 1, latest, e, bucket + 1)'
  PROVE  EnrollmentInv'
<1>1. /\ latest \in Int /\ latest' \in Int /\ latest <= latest'
      /\ \A i \in 0 .. latest : changes'[i + 1] = changes[i + 1]
  BY RangesAreStable
<1>2. /\ preLatest \in -1 .. latest /\ postLatest \in Int /\ postLatest <= latest
      /\ \A en \in enrollments :
           en.from \in Int /\ en.to \in Int /\ en.from >= 0 /\ en.to <= latest
  BY DEF EnrollmentInv, RangesAreCommitted, ServiceTypeOK
<1>3. ASSUME NEW from \in Int, NEW to \in Int, from >= 0, to <= latest, NEW i \in from .. to
      PROVE  changes'[i + 1] = changes[i + 1]
  BY <1>1, <1>3
<1>4. EnrolledOnce'
  BY DEF EnrollmentInv, EnrolledOnce
<1>5. RangesAreCommitted'
  BY <1>1, <1>2 DEF EnrollmentInv, RangesAreCommitted
<1>6. ChangesAreEnrolled'
  <2> SUFFICES ASSUME MdrEnabled, NEW e \in Entities
               PROVE  /\ IsCommitted(e)' => Covers(preLatest + 1, latest, e, bucket + 1)'
                      /\ pc' = "postEnrollment" => Covers(preLatest + 1, postLatest, e, bucket + 1)'
                      /\ pc' \in {"uploadExpired", "updateState"} => EnrolledAs(e, bucket + 1)'
    BY DEF ChangesAreEnrolled
  <2>1. Covers(preLatest + 1, latest, e, bucket + 1)
          => Covers(preLatest + 1, latest, e, bucket + 1)'
    <3> SUFFICES ASSUME NEW i \in preLatest + 1 .. latest, changes[i + 1] = <<e, bucket + 1>>
                 PROVE  Covers(preLatest + 1, latest, e, bucket + 1)'
      BY DEF Covers
    <3>1. i \in preLatest + 1 .. latest' /\ changes'[i + 1] = <<e, bucket + 1>>
      BY <1>1, <1>2, <1>3
    <3> QED
      BY <3>1 DEF Covers
  <2>2. Covers(preLatest + 1, postLatest, e, bucket + 1) =>
          Covers(preLatest + 1, postLatest, e, bucket + 1)'
    <3> SUFFICES ASSUME NEW i \in preLatest + 1 .. postLatest, changes[i + 1] = <<e, bucket + 1>>
                 PROVE  Covers(preLatest + 1, postLatest, e, bucket + 1)'
      BY DEF Covers
    <3>1. changes'[i + 1] = <<e, bucket + 1>>
      BY <1>1, <1>2, <1>3
    <3> QED
      BY <3>1 DEF Covers
  <2>3. EnrolledAs(e, bucket + 1) => EnrolledAs(e, bucket + 1)'
    <3> SUFFICES ASSUME NEW en \in enrollments, en.state = bucket + 1,
                        NEW i \in en.from .. en.to, changes[i + 1] = <<e, bucket + 1>>
                 PROVE  EnrolledAs(e, bucket + 1)'
      BY DEF EnrolledAs, Covers
    <3>1. changes'[i + 1] = <<e, bucket + 1>>
      BY <1>2, <1>3
    <3> QED
      BY <3>1 DEF EnrolledAs, Covers
  <2> QED
    BY <2>1, <2>2, <2>3 DEF EnrollmentInv, ChangesAreEnrolled
<1> QED
  BY <1>4, <1>5, <1>6 DEF EnrollmentInv

\* The status before the append is past all that is enrolled.
LEMMA PreStatusStep ==
  ASSUME EnrollmentInv, ServiceTypeOK, getPreStatus, pc' = "getDiff"
  PROVE  EnrollmentInv'
<1>1. latest \in Int /\ latest >= -1
  BY DEF ServiceTypeOK, latest
<1>2. UNCHANGED <<changes, postLatest, enrollments>> /\ preLatest' = latest /\ UNCHANGED latest
  BY DEF getPreStatus, latest
<1>3. EnrolledOnce' /\ ChangesAreEnrolled'
  BY <1>2 DEF EnrollmentInv, EnrolledOnce, ChangesAreEnrolled, IsCommitted
<1>4. RangesAreCommitted'
  BY <1>1, <1>2 DEF EnrollmentInv, RangesAreCommitted
<1> QED
  BY <1>3, <1>4 DEF EnrollmentInv

\* The status after the append fixes the range with every change in it.
LEMMA PostStatusStep ==
  ASSUME EnrollmentInv, ServiceTypeOK, getPostStatus, pc = "postStatus", pc' = "postEnrollment",
         UNCHANGED <<bucket>>
  PROVE  EnrollmentInv'
<1>1. latest \in Int
  BY DEF ServiceTypeOK, latest
<1>2. UNCHANGED <<changes, preLatest, enrollments>> /\ postLatest' = latest /\ UNCHANGED latest
  BY DEF getPostStatus, latest
<1>3. EnrolledOnce'
  BY <1>2 DEF EnrollmentInv, EnrolledOnce
<1>4. RangesAreCommitted'
  BY <1>1, <1>2 DEF EnrollmentInv, RangesAreCommitted, BeforePost
<1>5. ChangesAreEnrolled'
  BY <1>2 DEF EnrollmentInv, ChangesAreEnrolled, IsCommitted, Covers
<1> QED
  BY <1>3, <1>4, <1>5 DEF EnrollmentInv

\* The enrollment carries that range, which begins after every other one.
LEMMA EnrollStep ==
  ASSUME EnrollmentInv, ServiceTypeOK, RecordingInv, pc = "postEnrollment",
         postEnrollment(nextState), pc' \in {"uploadExpired", "updateState", "failAction"},
         UNCHANGED <<bucket>>
  PROVE  EnrollmentInv'
<1> DEFINE new == [state |-> bucket + 1, from |-> preLatest + 1, to |-> postLatest]
<1>1. /\ latest \in Int /\ preLatest \in Int /\ postLatest \in Int
      /\ preLatest >= -1 /\ postLatest <= latest
      /\ \A en \in enrollments : en.from \in Int /\ en.to \in Int
  BY DEF ServiceTypeOK, latest, EnrollmentInv, RangesAreCommitted
<1>2. /\ UNCHANGED <<changes, preLatest, postLatest>> /\ UNCHANGED latest
      /\ enrollments' = enrollments \cup {new}
  BY Numbers DEF postEnrollment, getMdrEnrollmentRange, latest, nextState, Working, AfterAppend
<1>3. new.state = bucket + 1 /\ new.from = preLatest + 1 /\ new.to = postLatest
  OBVIOUS
<1> HIDE DEF new
<1>4. \A en \in enrollments : en.to < new.from
  BY <1>1, <1>3 DEF EnrollmentInv, RangesAreCommitted, BeforePost
<1>5. EnrolledOnce'
  BY <1>2, <1>4 DEF EnrollmentInv, EnrolledOnce
<1>6. RangesAreCommitted'
  BY <1>1, <1>2, <1>3 DEF EnrollmentInv, RangesAreCommitted, BeforePost
<1>7. ChangesAreEnrolled'
  BY <1>2, <1>3 DEF EnrollmentInv, ChangesAreEnrolled, IsCommitted, EnrolledAs, Covers
<1> QED
  BY <1>5, <1>6, <1>7 DEF EnrollmentInv

\* Where the manager is after the put of state.txt, nothing more is claimed.
LEMMA PutStep ==
  ASSUME EnrollmentInv, pc' \in {"completeAction", "failAction"}, UNCHANGED mdrVars
  PROVE  EnrollmentInv'
  BY DEF EnrollmentInv, EnrolledOnce, RangesAreCommitted, ChangesAreEnrolled, IsCommitted,
         BeforePost, mdrVars, latest

\* Where nothing is claimed of the changes, nothing is lost.
LEMMA AsideStep ==
  ASSUME EnrollmentInv, ServiceTypeOK, UNCHANGED <<bucket, mdrVars>>,
         \/ pc' \notin BeforePost \cup {"preStatus", "uploadExpired", "updateState"}
         \/ pc' = "preStatus" /\ MdrEnabled
         \/ pc' = "getDiff" /\ ~MdrEnabled
  PROVE  EnrollmentInv'
<1>1. \A e \in Entities : MdrEnabled => ~IsCommitted(e)'
  BY DEF IsCommitted, BeforePost
<1> QED
  BY <1>1, CommitStep DEF BeforePost, mdrVars, Numbered

\* The steps around an attempt.
LEMMA LoopKeepsEnrollments == EnrollmentInv /\ ServiceTypeOK /\ Loop => EnrollmentInv'
<1> SUFFICES ASSUME EnrollmentInv, ServiceTypeOK, Loop PROVE EnrollmentInv'
  OBVIOUS
<1> USE AsideStep DEF Goto, trackerVars, Throw, MediatorCallFails, Exit, BeforePost
<1>1. CASE Prepare \/ Reserve
  BY <1>1 DEF Prepare, Reserve
<1>2. CASE GetStart \/ GetReplication
  BY <1>2 DEF GetStart, GetReplication, getStartSequenceNumber, getReplicationSequenceNumber
<1>3. CASE UnlockIdle \/ CreateAction \/ Unlock
  BY <1>3 DEF UnlockIdle, CreateAction, Unlock
<1>4. CASE CompleteAction \/ FailAction \/ Wait
  BY <1>4 DEF CompleteAction, FailAction, Wait, NextIteration
<1> QED
  BY <1>1, <1>2, <1>3, <1>4 DEF Loop

\* The way to updateRemoteState ends at one of two awaits.
LEMMA ToUploadGoesOn == ToUpload => pc' \in {"uploadExpired", "updateState"}
  BY DEF ToUpload, Goto

\* The steps of appendProcedure.
LEMMA ProcedureKeepsEnrollments ==
  EnrollmentInv /\ ServiceTypeOK /\ RecordingInv /\ Procedure => EnrollmentInv'
<1> SUFFICES ASSUME EnrollmentInv, ServiceTypeOK, RecordingInv, Procedure PROVE EnrollmentInv'
  OBVIOUS
<1>0. ~MdrEnabled => pc \notin {"preStatus", "postStatus", "postEnrollment"}
  BY DEF EnrollmentInv, RangesAreCommitted
<1>1. ASSUME UNCHANGED <<bucket, mdrVars>>, pc' \in {"failAction", "brokenStream"}
      PROVE  EnrollmentInv'
  BY <1>1, AsideStep DEF BeforePost
<1>2. ASSUME UNCHANGED <<bucket, mdrVars>>, pc \in BeforePost,
             pc' \in {"simplifyDiff", "updateTimestamp", "postStatus", "append"},
             \A e \in Entities : MdrEnabled /\ IsCommitted(e)' => IsCommitted(e),
             pc' = "postStatus" => MdrEnabled
      PROVE  EnrollmentInv'
  BY <1>2, CommitStep DEF BeforePost, mdrVars, Numbered
<1> USE DEF Goto, Reject, trackerVars, runnerVars, At
<1>3. CASE PreStatus
  <2>1. CASE getPreStatus /\ pc' = "getDiff"
    BY <2>1, PreStatusStep
  <2> QED
    BY <1>1, <1>3, <2>1 DEF PreStatus
<1>4. CASE GetDiff
  BY <1>1, <1>2, <1>4 DEF GetDiff, BeforePost, IsCommitted
<1>5. CASE SimplifyDiff
  BY <1>1, <1>2, <1>5 DEF SimplifyDiff, spawnAll, BeforePost, IsCommitted
<1>6. CASE UnlinkDiffs
  BY <1>1, <1>2, <1>6 DEF UnlinkDiffs, BeforePost, IsCommitted
<1>7. CASE UpdateTimestamp
  <2>1. UNCHANGED <<bucket, mdrVars>> /\ pc = "updateTimestamp"
    BY <1>7, Numbers DEF UpdateTimestamp, putStateContent, Working, AfterAppend
  <2>2. CASE pc' = "postStatus" /\ MdrEnabled
    BY <1>2, <2>1, <2>2 DEF BeforePost, IsCommitted
  <2>3. CASE ~MdrEnabled /\ pc' \in {"uploadExpired", "updateState"}
    <3>1. \A e \in Entities : ~IsCommitted(e)'
      BY <2>3 DEF IsCommitted
    <3> QED
      BY <2>1, <2>3, <3>1, CommitStep DEF BeforePost, mdrVars, Numbered
  <2> QED
    BY <1>1, <1>7, <2>1, <2>2, <2>3, ToUploadGoesOn DEF UpdateTimestamp
<1>8. CASE PostStatus
  <2>1. CASE getPostStatus /\ pc' = "postEnrollment" /\ pc = "postStatus" /\ UNCHANGED bucket
    BY <2>1, PostStatusStep
  <2> QED
    BY <1>1, <1>8, <2>1 DEF PostStatus
<1>9. CASE PostEnrollment
  BY <1>1, <1>9, EnrollStep, ToUploadGoesOn DEF PostEnrollment
<1>10. CASE UpdateState
  BY <1>10, PutStep DEF UpdateState
<1> QED
  BY <1>3, <1>4, <1>5, <1>6, <1>7, <1>8, <1>9, <1>10 DEF Procedure

\* The exits of the awaited children: a commit is a change of its diff.
LEMMA ChildrenKeepEnrollments ==
  EnrollmentInv /\ ServiceTypeOK /\ RecordingInv /\ Children => EnrollmentInv'
<1> SUFFICES ASSUME EnrollmentInv, ServiceTypeOK, RecordingInv, NEW e \in Entities,
                    ChildSucceeds(e) \/ ChildFails(e)
             PROVE  EnrollmentInv'
  BY DEF Children
<1>1. pc = "append" /\ nextState = bucket + 1 /\ nextState \in SequenceNumbers /\ UNCHANGED bucket
  BY Numbers, NextStateInRange DEF ChildSucceeds, ChildFails, At, Working, nextState, trackerVars
<1>2. Numbered /\ UNCHANGED <<preLatest, postLatest, enrollments>>
  BY <1>1 DEF ChildSucceeds, ChildFails, recordChange, Numbered, mdrVars
<1>3. CASE ChildSucceeds(e)
  <2>1. /\ pc' \in {"append", "unlinkDiffs"}
        /\ pc' = "unlinkDiffs" => \A f \in Entities : children'[f] = "done"
        /\ children' = [children EXCEPT ![e] = "done"]
    BY <1>1, <1>3 DEF ChildSucceeds, childSucceeds, Goto
  <2>2. \A f \in Entities : f # e /\ IsCommitted(f)' => IsCommitted(f)
    BY <1>1, <2>1 DEF IsCommitted, RecordingInv, CoreTypeOK
  <2>3. MdrEnabled => Covers(preLatest + 1, latest, e, bucket + 1)'
    <3> SUFFICES ASSUME MdrEnabled PROVE Covers(preLatest + 1, latest, e, bucket + 1)'
      OBVIOUS
    <3>1. changes' = Append(changes, <<e, bucket + 1>>)
      BY <1>1, <1>3 DEF ChildSucceeds, recordChange
    <3>2. latest' = latest + 1 /\ changes'[latest' + 1] = <<e, bucket + 1>>
      BY <1>1, <3>1, NewChange
    <3>3. preLatest \in Int /\ latest \in Int /\ preLatest <= latest
      BY DEF EnrollmentInv, RangesAreCommitted, ServiceTypeOK, latest
    <3>4. latest' \in preLatest + 1 .. latest'
      BY <3>2, <3>3
    <3> QED
      BY <1>1, <1>2, <3>2, <3>4 DEF Covers
  <2> QED
    BY <1>1, <1>2, <2>1, <2>2, <2>3, CommitStep DEF BeforePost
<1>4. CASE ChildFails(e)
  BY <1>1, <1>2, <1>4, CommitStep DEF ChildFails, Reject, BeforePost, IsCommitted
<1> QED
  BY <1>3, <1>4

\* The upload tasks are told of no change.
LEMMA TaskKeepsEnrollments == EnrollmentInv /\ ServiceTypeOK /\ Task => EnrollmentInv'
<1> SUFFICES ASSUME EnrollmentInv, ServiceTypeOK, NEW t \in uploadTasks,
                    \/ TaskReads(t) \/ TaskPut(t) \/ TaskPush(t)
                    \/ TaskUnlinks(t) \/ TaskRejects(t) \/ TaskBreaks(t)
             PROVE  EnrollmentInv'
  BY DEF Task
<1>1. ASSUME TaskFrame,
             \/ pc = "uploadExpired" /\ pc' \in {"updateState", "failAction"}
             \/ UNCHANGED pc
      PROVE  EnrollmentInv'
  <2>1. UNCHANGED <<bucket, mdrVars, children>>
    BY <1>1 DEF TaskFrame
  <2>2. \A e \in Entities : IsCommitted(e)' => IsCommitted(e)
    BY <1>1, <2>1 DEF IsCommitted
  <2>3. ~MdrEnabled => pc \notin {"preStatus", "postStatus", "postEnrollment"}
    BY DEF EnrollmentInv, RangesAreCommitted
  <2> QED
    BY <1>1, <2>1, <2>2, <2>3, CommitStep DEF BeforePost, mdrVars, Numbered
<1>2. CASE TaskBreaks(t)
  BY <1>2, AsideStep DEF TaskBreaks, Throw, Exit, trackerVars, BeforePost
<1> QED
  BY <1>1, <1>2 DEF TaskReads, TaskPut, TaskPush, TaskUnlinks, TaskRejects, AfterTask, Awaited, At,
     Goto, Reject

\* Late commits of signalled children are changes too; the rest commits nothing.
LEMMA EnvironmentKeepsEnrollments ==
  EnrollmentInv /\ ServiceTypeOK /\ RecordingInv /\ Environment => EnrollmentInv'
<1> SUFFICES ASSUME EnrollmentInv, ServiceTypeOK, RecordingInv, Environment PROVE EnrollmentInv'
  OBVIOUS
<1>1. ASSUME UNCHANGED <<bucket, pc, preLatest, postLatest, enrollments>>, Numbered,
             \A e \in Entities : children'[e] = "done" => children[e] = "done"
      PROVE  EnrollmentInv'
  <2>1. ~MdrEnabled => pc \notin {"preStatus", "postStatus", "postEnrollment"}
    BY DEF EnrollmentInv, RangesAreCommitted
  <2>2. \A e \in Entities : IsCommitted(e)' => IsCommitted(e)
    BY <1>1 DEF IsCommitted
  <2> QED
    BY <1>1, <2>1, <2>2, CommitStep
<1> USE DEF trackerVars, runnerVars, controlVars, mdrVars, Numbered
<1>2. CASE SourcePublishes \/ LockExpires \/ Sigterm
  BY <1>1, <1>2 DEF SourcePublishes, Publish, LockExpires, Sigterm
<1>3. CASE SignalledEnds
  <2>1. \A d \in signalled : <<d[1], d[2]>> \in Entities \X SequenceNumbers
    BY DEF RecordingInv, CoreTypeOK
  <2> QED
    BY <1>1, <1>3, <2>1 DEF SignalledEnds, signalledEnds, recordChange
<1>4. CASE CleanUp
  BY <1>1, <1>4 DEF CleanUp, interruptChildren
<1>5. CASE TerminusEnds \/ Crash
  BY <1>1, <1>5, AsideStep DEF TerminusEnds, Crash, Throw, Exit, BeforePost
<1>6. CASE Restart
  BY <1>6, AsideStep DEF Restart, restartTracker, BeforePost
<1> QED
  BY <1>2, <1>3, <1>4, <1>5, <1>6 DEF Environment

\* Every step keeps the invariant.
LEMMA EnrollmentStep ==
  EnrollmentInv /\ ServiceTypeOK /\ RecordingInv /\ [Next]_vars => EnrollmentInv'
<1> SUFFICES ASSUME EnrollmentInv, ServiceTypeOK, RecordingInv, [Next]_vars PROVE EnrollmentInv'
  OBVIOUS
<1>1. CASE Finished \/ Stalled \/ UNCHANGED vars
  <2>1. UNCHANGED <<bucket, mdrVars, pc, children>>
    BY <1>1 DEF Finished, Stalled, vars, trackerVars, runnerVars, controlVars
  <2> QED
    BY <2>1 DEF EnrollmentInv, EnrolledOnce, RangesAreCommitted, ChangesAreEnrolled, IsCommitted,
       EnrolledAs, Covers, mdrVars, latest
<1> QED
  BY <1>1, LoopKeepsEnrollments, ProcedureKeepsEnrollments, ChildrenKeepEnrollments,
     TaskKeepsEnrollments, EnvironmentKeepsEnrollments DEF Next

HIDE DEF EnrollmentInv, EnrolledOnce, RecordedStateIsEnrolled

\* For any entities, diffs and faults: the ranges of the enrollments lie within the
\* committed changes, one after the other, and the changes of the diff of an attempt
\* are in the range it is about to enroll (the status before and after the append).
THEOREM Enrollments == Safe => []EnrollmentInv
<1>1. TypeOK => ServiceTypeOK
  BY DEF TypeOK
<1> QED
  BY <1>1, EnrollmentInit, EnrollmentStep, Recording, TypesHold, PTL DEF Safe

\* No change is enrolled twice, whatever fails between two enrollments.
THEOREM ChangesEnrolledOnce == Safe => []EnrolledOnce
<1>1. EnrollmentInv => EnrolledOnce
  BY DEF EnrollmentInv
<1> QED
  BY <1>1, Enrollments, PTL

\* With MDR, a state is recorded only when an enrollment of that very state covers a change
\* of every entity (the enrollment precedes updateRemoteState).
THEOREM EnrolledBeforeState == Safe => RecordedStateIsEnrolled
<1>1. EnrollmentInv /\ RecordingInv /\ [Next]_vars =>
        [(MdrEnabled /\ bucket' # bucket) => \A e \in Entities : EnrolledAs(e, bucket')]_vars
  BY NumberMoves DEF EnrollmentInv, ChangesAreEnrolled
<1> QED
  BY <1>1, Enrollments, Recording, PTL DEF Safe, RecordedStateIsEnrolled
=============================================================================
