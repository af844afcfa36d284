----------------------------- MODULE ExpireUpload -----------------------------
(***************************************************************************)
(* AppendManager.uploadExpired: one asynchronous task per entity that has  *)
(* an expire list, each serving the upload targets in order.  Promise.all  *)
(* rejects with the first task that rejects and does not stop the others:  *)
(* those go on as orphans while the manager fails, waits and retries, and  *)
(* they read the state tracker again every time they need a number.        *)
(***************************************************************************)
EXTENDS CommandRunner, Sequences

CONSTANTS UploadTargets,    \* the configured targets, without duplicates
          Rounds            \* bound: attempts with live tasks at one time

ASSUME UploadTargetsAssumption == UploadTargets \in Seq({"s3", "queue"})
ASSUME RoundsAssumption == Rounds \subseteq Nat /\ Rounds # {}

VARIABLES uploadTasks,  \* the tasks in flight
          attempt,      \* the round of this append: tells its tasks from orphans
          expireLists,  \* per entity and state, the diff whose list the key holds
          puts,         \* history: the puts of a list the bucket has carried out
          jobs          \* the jobs the queue accepted

uploadVars == <<uploadTasks, attempt, expireLists, puts, jobs>>

NoList == -1

\* The states a key can name: projectId/entityId/nextState/expire.list.
Labels == 0 .. MaxSeq + 1

Stages == {"lines", "open", "read", "put", "push", "unlink"}

UploadInit ==
  /\ uploadTasks = {}
  /\ attempt = (CHOOSE r \in Rounds : TRUE)
  /\ expireLists = [e \in Entities |-> [n \in Labels |-> NoList]]
  /\ puts = {}
  /\ jobs = {}

\* existsSync on the local list of the entity for a diff.
fileExists(t) == <<t.entity, t.seq>> \in expireFiles

Pending(seq) == {e \in Entities : <<e, seq>> \in expireFiles}

\* A round that no live task belongs to.
FreeRounds == Rounds \ {t.attempt : t \in uploadTasks}

startUploads(seq) ==
  /\ FreeRounds # {}
  /\ attempt' = (CHOOSE r \in FreeRounds : TRUE)
  /\ uploadTasks' = uploadTasks \cup
       {[entity |-> e, seq |-> seq, attempt |-> attempt', stage |-> "lines",
         todo |-> UploadTargets, label |-> 0] : e \in Pending(seq)}
  /\ UNCHANGED <<expireLists, puts, jobs>>

\* A variant with a plausible slip: the payload carries the state of the source.
serveRemoteNumber(t, todo) ==
  CASE todo = <<>> /\ fileExists(t)  -> {[t EXCEPT !.stage = "unlink", !.todo = todo]}
    [] todo = <<>> /\ ~fileExists(t) -> {}
    [] todo # <<>> /\ Head(todo) = "s3" -> {[t EXCEPT !.stage = "open", !.todo = todo]}
    [] OTHER -> {[t EXCEPT !.stage = "push", !.todo = todo, !.label = replicationRemoteState]}

\* Where a task stands when the targets in todo are still to be served: it is
\* opening the file for s3, pushing the payload it built for the queue with the
\* number read now, deleting the list, or, without a list to delete, finished.
serve(t, todo) ==
  CASE todo = <<>> /\ fileExists(t)  -> {[t EXCEPT !.stage = "unlink", !.todo = todo]}
    [] todo = <<>> /\ ~fileExists(t) -> {}
    [] todo # <<>> /\ Head(todo) = "s3" -> {[t EXCEPT !.stage = "open", !.todo = todo]}
    [] OTHER -> {[t EXCEPT !.stage = "push", !.todo = todo, !.label = nextState]}

replaceTask(t, new) == (uploadTasks \ {t}) \cup new

\* A task moves on without an effect outside: streamToUniqueLines is through
\* the file; readFile has opened it; readFile has read it, deleted meanwhile or
\* not, and the put is sent under the number read now.
linesRead(t) ==
  /\ t.stage = "lines" /\ fileExists(t)
  /\ uploadTasks' = replaceTask(t, serve(t, t.todo))
  /\ UNCHANGED <<attempt, expireLists, puts, jobs, expireFiles>>

fileOpened(t) ==
  /\ t.stage = "open" /\ fileExists(t)
  /\ uploadTasks' = replaceTask(t, {[t EXCEPT !.stage = "read"]})
  /\ UNCHANGED <<attempt, expireLists, puts, jobs, expireFiles>>

\* A variant with a plausible slip: the key is built from the current state.
fileReadCurrent(t) ==
  /\ t.stage = "read"
  /\ uploadTasks' = replaceTask(t, {[t EXCEPT !.stage = "put", !.label = current]})
  /\ UNCHANGED <<attempt, expireLists, puts, jobs, expireFiles>>

fileRead(t) ==
  /\ t.stage = "read"
  /\ uploadTasks' = replaceTask(t, {[t EXCEPT !.stage = "put", !.label = nextState]})
  /\ UNCHANGED <<attempt, expireLists, puts, jobs, expireFiles>>

listOf(t) == [entity |-> t.entity, label |-> t.label, seq |-> t.seq]

\* PutObject replaces what is under the key, the list of another diff included.
putObject(t) ==
  /\ expireLists' = [expireLists EXCEPT ![t.entity][t.label] = t.seq]
  /\ puts' = puts \cup {listOf(t)}

putAnswers(t) ==
  /\ t.stage = "put"
  /\ putObject(t)
  /\ uploadTasks' = replaceTask(t, serve(t, Tail(t.todo)))
  /\ UNCHANGED <<attempt, jobs, expireFiles>>

\* pushExpiredTilesToQueue builds no payload when every tile is filtered out.
pushSkipped(t) ==
  /\ t.stage = "push" /\ Tiles[t.entity][t.seq] # "inside"
  /\ uploadTasks' = replaceTask(t, serve(t, Tail(t.todo)))
  /\ UNCHANGED <<attempt, expireLists, puts, jobs, expireFiles>>

\* pushPayloadToQueue catches every error: the task moves on in any case.
pushAnswers(t, accepted) ==
  /\ t.stage = "push" /\ Tiles[t.entity][t.seq] = "inside"
  /\ jobs' = IF accepted THEN jobs \cup {listOf(t)} ELSE jobs
  /\ uploadTasks' = replaceTask(t, serve(t, Tail(t.todo)))
  /\ UNCHANGED <<attempt, expireLists, puts, expireFiles>>

unlinked(t) ==
  /\ t.stage = "unlink" /\ fileExists(t)
  /\ expireFiles' = expireFiles \ {<<t.entity, t.seq>>}
  /\ uploadTasks' = uploadTasks \ {t}
  /\ UNCHANGED <<attempt, expireLists, puts, jobs>>

\* The rejections: a put that fails, carried out or not, and a list that
\* another task has deleted between existsSync and readFile or unlink.
putFails(t, landed) ==
  /\ t.stage = "put"
  /\ IF landed THEN putObject(t) ELSE UNCHANGED <<expireLists, puts>>
  /\ uploadTasks' = uploadTasks \ {t}
  /\ UNCHANGED <<attempt, jobs>>

listGone(t) ==
  /\ t.stage \in {"open", "unlink"} /\ ~fileExists(t)
  /\ uploadTasks' = uploadTasks \ {t}
  /\ UNCHANGED <<attempt, expireLists, puts, jobs>>

\* The read stream of "lines" opens a list that is gone: its error event has
\* no listener, which ends the process.
streamBreaks(t) == t.stage = "lines" /\ ~fileExists(t)

dropTasks ==
  /\ uploadTasks' = {}
  /\ UNCHANGED <<attempt, expireLists, puts, jobs>>
=============================================================================
