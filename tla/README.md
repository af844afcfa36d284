# A TLA+ model of osm2pgsql-wrapper

osm2pgsql-wrapper keeps a database of OpenStreetMap data in step with a replication
source. It wraps the `osm2pgsql` executable in two commands: `create` imports a dump,
`append` applies the next replication diff, once (a job) or for ever (a deployment). This
directory holds a TLA+ model of the two commands, the TLC configurations that check it on
small instances, and proofs that TLAPS checks for every value of the constants.

Line numbers below are those of `src/src/`.

## 1. The system

### Components, state, operations

| component | state it keeps | operations | what makes it correct |
| --- | --- | --- | --- |
| `StateTracker` (`cli/commands/append/stateTracker.ts`) | `current`, `replicationRemoteState`, `stateContent`; remotely, the project's `state.txt` in S3 and the source's `state.txt` | read both, `isUpToDate`, `nextState`, put the timestamp, put the next state | `state.txt` moves by one, never past the source, and never before the database |
| `AppendManager`, `appendFactory` (`cli/commands/append/`) | the await it is in, `shouldRun`; the local diff and expire files | `prepareManager`, `append`, `appendForever`, `appendProcedure` | every diff is applied to every entity, in order; failures are retried and nothing is skipped |
| `OsmCommandRunner`, `spawner` (`commandRunner/`) | the list of live children | `spawnChild`, `terminateChildren` | a child that is no longer awaited does no harm |
| expire-list upload (`appendManager.ts:336-500`) | local lists; S3 objects; queue jobs; asynchronous tasks | one task per entity: read, put, push, unlink | lists are delivered before the state is recorded, under the right number |
| `ExpireTilesParser` (`expireTilesParser.ts`, `expireTilesFilters.ts`) | filters | parse a list into bounding boxes | the boxes cover the expired tiles of the top zoom, exactly |
| mediator (library `arstotzka-mediator`) | a lock, a registry of actions | `reserveAccess`, `createAction`, `removeLock`, `updateAction` | what an attempt writes, it writes under its open action; nothing is left open by a success |
| MDR client (`httpClient/mdrClient.ts`) | remotely, numbered changes | `getStatus`, `postEnrollment` | a change is enrolled once, and before its state is recorded |
| `CreateManager`, `createFactory` (`cli/commands/create/`) | the dump file, the tables | `loadDump`, `create`, enrollment | the state of the project is that of the imported dump; success means imported |
| diff paths (`common/util.ts:67-79`) | none | number to path | successive numbers are successive files of the source |
| clients (`baseClient.ts`, `s3Client.ts`, `errors.ts`) | none | HTTP and S3 requests | every failure has an exit code |
| `RemoteResourceManager` (`remoteResource/`) | the store of loaded resources | `load`, `getResource` | an append works on resources that are all there, processed and valid |
| queue (`queue/`) | pg-boss | `startQueue`, `push`, `stopQueue` | a job per payload; a started queue is stopped |
| process (`index.ts`, `liveness.ts`, `containerConfig.ts`) | exit code, clean-up registry, HTTP server | start, SIGTERM, exit | the process ends, after its clean-up, and says SUCCESS only when its work is done |
| command line (`cli/cliBuilderFactory.ts`, `cli/checks/`, `cli/middlewares/`) | none; the middlewares register the S3 client and the queue for the clean-up | checks, middlewares | a command starts on valid arguments |
| deployment (`helm/`, `start.sh`) | the pods of a project | start, rolling update, restart | one manager at a time, or two that do no harm |
| validation schemas, configuration, tracing, metrics | none that the commands depend on | | |

### How they interact

The manager awaits everything it does: the mediator, S3, the source, the children, MDR, the
uploads. Between two awaits it runs alone. Concurrency comes from

* the children, which run beside the manager and beside each other, and which outlive a
  failed attempt (`terminateChildren` sends SIGINT and does not wait);
* the upload tasks, which outlive the rejection of their `Promise.all` and read the state
  tracker whenever they need a number;
* the source and the dump server, which publish at any time;
* SIGTERM, which ends the loop (`appendManager.ts:168`) and, through terminus, triggers the
  clean-up (`liveness.ts:17`) in the middle of any await;
* a second manager of the same project, which a rolling update starts before it stops the
  first (`helm/templates/deployment.yaml:22`);
* crashes, restarts and the expiration of the mediator's lock.

### What is hard

Every call can fail with or without its effect (a lost answer); every attempt can be cut
between applying and recording; the same diff is then applied again by children that may
overlap the ones of the attempt before. `PROJECT.json` lists the hazards line by line under
`hazards`, with the properties that would catch each.

## 2. The modules

    ReplicatedProject  <--- refines --- AppendManager --- EXTENDS ---> ExpireUpload
         (abstract)                          |                           CommandRunner
                                             |                             StateTracker
                                             +--> Mediator, Mdr, Clients
    OverlappingManagers  --- two INSTANCEs of ---> AppendManager
    ProcessLifecycle     --- EXTENDS ---> RemoteResources ---> Clients
    CreateCommand        --- EXTENDS ---> Mediator, Mdr, Clients
    DiffDirectories    <--- refines --- DiffPath
    ExpireTiles

| module | what it models |
| --- | --- |
| `ReplicatedProject` | what the append command promises: diffs applied in order, recorded when every entity has them |
| `StateTracker` | the tracker and the two state files |
| `CommandRunner` | the `osm2pgsql` children, the tables and the expire lists they leave |
| `ExpireUpload` | the upload tasks of the attempt in progress and the orphans of earlier ones |
| `Mediator`, `Mdr` | the two services as the commands use them; both commands share these modules |
| `Clients` | the exit codes each call can reject with |
| `AppendManager` | the append command: composition of all of these |
| `AppendProperties`, `MCAppend` | its properties, its small instances |
| `OverlappingManagers` | two managers of one project: shared bucket, tables, source and mediator; memory, children and signals of their own |
| `OverlapProofs` | the proofs about the two |
| `RemoteResources` | `load`: the concurrent gets, the store by id, the processing |
| `ProcessLifecycle`, `MCLifecycle` | a process from `getCli` to `process.exit`: registration, handler, clean-up registry, terminus |
| `LifecycleProofs` | the proofs about a process and its resources |
| `AppendProofs`, `AppendActions`, `AppendRecords` | its proofs: recording, refinement and types; the lock and the action; the expire lists and the enrollments |
| `DiffDirectories`, `DiffPath`, `DiffPathProofs`, `MCDiffPath` | the directories of the source, the path of a diff, the proof that one walks the other |
| `ExpireTiles`, `MCExpireTiles` | lines of an expire list to bounding boxes |
| `ExpireTilesProofs` | the proof that the boxes are exact |
| `CreateCommand`, `CreateProperties`, `CreateProofs`, `MCCreate` | the create command, its properties, its proofs, its small instance |

### Reading AppendManager against the code

`pc` names the call the manager awaits: `"reserveAccess"` is `await mediator?.reserveAccess()`,
and so on in the order of `appendManager.ts`. An action is the answer to that call and the
synchronous code up to the next one; its disjuncts are the answers (it resolves, or it
rejects with one of the codes `Clients` gives it, with the effect on the remote side or
without). `Reject` is a rejection inside the `try` of `append` and `appendForever`, `Throw`
one outside, which ends the process.

| action | code |
| --- | --- |
| `Prepare` | `prepareManager`, `appendManager.ts:75-125` |
| `Reserve`, `GetStart`, `GetReplication`, `UnlockIdle`, `CreateAction`, `Unlock` | the start of `append` and of an iteration, 127-149 and 176-201 |
| `CompleteAction`, `FailAction`, `Wait` | the end of an attempt, 151-165 and 203-224 |
| `PreStatus`, `GetDiff`, `SimplifyDiff`, `ChildSucceeds`, `ChildFails`, `UnlinkDiffs`, `UpdateTimestamp`, `PostStatus`, `PostEnrollment`, `UpdateState` | `appendProcedure` and `appendNextState`, 226-334 |
| `TaskReads`, `TaskPut`, `TaskPush`, `TaskUnlinks`, `TaskRejects`, `TaskBreaks` | `uploadExpired` and what it calls, 336-500 |
| `Sigterm`, `CleanUp`, `TerminusEnds` | `process.once('SIGTERM')`, the clean-up of terminus, the SIGTERM it then sends to its own process |
| `SourcePublishes`, `SignalledEnds`, `LockExpires`, `Crash`, `Restart` | the environment |

`expireLists` is what the bucket holds: per entity and state, the diff whose list is under the
key `projectId/entityId/state/expire.list`. A put replaces what is there (`putObject`), so that an
orphan of an earlier diff can take the place of the right list. `puts` is the history of the puts,
which the properties need to say that a list has been delivered; no guard reads it. `retries` counts
the restarts of a job; a deployment leaves it alone.

`bumpState` is the part of `updateRemoteState` before its await: it belongs to the action
that gets there, because no other step can come between. `MediatorEnabled`, `MdrEnabled`,
`GenerateExpire`, `UploadTargets` and `Forever` are options of the program. `mediator?.x()`
without a mediator is a step that changes nothing.

A SIGTERM has three steps. It reaches the loop's listener, if the loop runs already, and
terminus, which closes the server (`"closing"`), runs the clean-up (`"cleaned"`) and then sends
SIGTERM to the process, which kills it, unless the loop was entered in between: its listener
takes that one for its own (`"swallowed"`), and the process finishes its iteration with a queue
and an S3 client that are shut down.

### Reading ProcessLifecycle against the code

`at` is the await the main flow of `index.ts` is in, from `getCli()` to `process.exit()`, with the
phases of `prepareManager` and of the work of a handler in the middle; `command` says which
command it is and whether the queue is among its targets. `shutDownFn` is the end of the flow:
it triggers the clean-up and waits (`"cleanUp"`), or finds it triggered and exits at once.
`registered` and `cleaned` are the items of the clean-up registry. A child is `"late"` when it
was spawned after the clean-up had signalled the others. `UpToDate` is an append that finds nothing
to do and ends its work without a child. What the children do to the database is
`AppendManager`'s and `CreateCommand`'s business; this module is about who waits for them.

### Reading OverlappingManagers

The suffix of a variable is the manager it belongs to; `M1!Next` and `M2!Next` are `Next` of
`AppendManager` with the shared variables as they are and `lock` seen by each. `halfWritten` is a
history variable: an attempt of either has ended between its two puts of `state.txt`.

`CreateCommand` is read the same way as `AppendManager`. Its `dumpFile` is the file on disk with the dump its
bytes come from, `database` the dump the tables come from.

A definition whose comment calls it a variant with a plausible slip (`getStartSequenceNumberOnce`,
`FailSwallows`, ...) is in no next-state relation: it is what a bug in the definition after it
would look like, and each property is known to fail with one of them (`mutants` in
`PROJECT.json`).

## 3. What is checked

| run | question | properties |
| --- | --- | --- |
| `forever_expire` | with the mediator, expire lists to both targets, failed calls, killed children, crashes and late commits: does what is recorded follow what is applied, are lists filed right and put before the state is recorded, and is every change made under its action or left of a failed attempt? | `TypeOK`, `AppliedWithinOneOfRecorded`, `RecordingInv`, `ImplementsProject`, `NeverFiledEarly`, `AwaitedTasksFileRight`, `UploadInv`, `DeliveredBeforeRecorded`, `WorksUnderItsAction` |
| `forever_services` | with mediator and MDR, lost and failed calls, SIGTERM and crashes: does the loop catch up, enroll every state once, and end clean? | `SuccessIsComplete`, `EnrolledOnce`, `EnrollmentInv`, `RecordedStateIsEnrolled`, `CatchesUp` |
| `job_all_on` | does a job with every option on end, with success unless a run was refused on the lock of a dead one, and is its success complete? | `ActionInv`, `SuccessIsComplete`, `JobEnds` |
| `diff_path` | do successive numbers ask for successive files? | `WalksTheDirectories` |
| `expire_tiles` | do the boxes cover what survives the filters, exactly? | `BoxesCoverOneZoom` |
| `create` | from every source of the dump, with and without a mediator: is the state that of the imported dump, and does success mean imported? | `CompletedMeansImported`, `StateIsOfTheDump`, `WholeDumpOnly`, `CreateInv`, `TablesChangeUnderAction`, `CreateEnds` |
| `overlap` | two managers of one project with the mediator and a failure: how far can `state.txt` slip, and do the tables stay with it? | `AppliedWithinOneOfRecorded`, `OverlapInv`, `StateSlipsByOneAtMost`, `TablesInOrder` |
| `lifecycle` | a process of each command, with a SIGTERM at any point: when does it exit, what is left, what does SUCCESS mean, does it work on loaded resources, does it end? | `TypeOK`, `LifecycleInv`, `ExitsCleanly`, `OnlyLateChildrenSurvive`, `SuccessIsDone`, `WorksOnProcessedResources`, `ProcessEnds` |

Four runs end in a violation: the code does not do what a document says.

| run | the document | the code |
| --- | --- | --- |
| `queue_lost` | `README.md:68`: the expired tiles "will be parsed into bounding boxes in WGS84 and pushed into the pgboss job queue" | `pushPayloadToQueue` (`appendManager.ts:492`) drops every error, so that the list is deleted and the state recorded without a job |
| `list_replaced` | `README.md:67`: "the expired tiles a.k.a `expire.list` of each sub part will be uploaded to the bucket as well under `/projectId/subId/sequenceNumber/expire.list`" | the key is built after the list was read (`appendManager.ts:423-424`): a task that a failed attempt has left, and that is still reading the list it has opened while a later attempt works, puts it over the list of the later state |
| `overlap_state` | `README.md:29`: a job "results in updating the state of the project, an incremental sequence number coupled to the replication source" | `updateRemoteTimestamp` (`stateTracker.ts:114`) puts the content read before the append: the second of two managers writes back the number it read while the first was still appending |
| `expire_top_zoom` | `helm/README.md:69`: "the bounding boxes of the expired tiles on the top zoom level" | the top zoom is that of the line that sorts last as text (`expireTilesParser.ts:73`), in which 9 comes after 10 |

`list_replaced` needs one failed put and a read of an open file that outlasts a whole retry; a task
that has not opened its list by then finds it deleted and rejects. What holds all the same is
`DeliveredBeforeRecorded`: every list of a state has been put under its key before the state is
recorded, and the key then holds it or the list of an earlier diff that was misfiled there, never
nothing and never a later one.

`WorksUnderItsAction` says what the action protects and what it does not. Between `createAction` and
`updateAction` the attempt commits, puts, pushes, enrolls and records under the action of its diff.
FAILED is reported without waiting for the children that were sent SIGINT and for the uploads that
go on (`appendManager.ts:207-212`): their commits and lists come when the action is closed, or under
the action of the retry or of a later diff. The property allows these two and nothing else. Its
clause about enrollments is not exercised by `forever_expire`, where MDR is off; it is proved.

Two more things the models show, of which no document says anything. A single `append` applies
one diff, however far the source is ahead, and there is no limit option (`example/README.md:32`
speaks of one). And with two managers, an attempt that ends between the put of the timestamp and
the put of the state can leave a number that is behind the tables: the next attempt applies an old
diff on top of newer ones. `AppliedWithinOneOfRecorded` and `TablesInOrder` of `OverlappingManagers`
hold as long as that has not happened (`halfWritten`), and fail without that condition.

### Bounds

* `MaxSeq` 2 or 3: a project at a state, the next diff, and one more, so that a step by two, a
  repeated diff and a lagging source are all possible.
* `Entities` 1 or 2: two are needed for one child to fail while the other commits, and for one
  task of a `Promise.all` to reject while the other goes on. A third adds no new kind of pair.
* `MaxFaults` up to 4: a failed attempt, a failed retry and a crash between them. Liveness runs
  have fewer: they need the failures to end, which is what the bound says.
* `Rounds`: attempts that have live tasks at one time; the number of an attempt is used again
  once no task carries it. Four rounds are more than two faults can leave alive.
* `BackoffLimit` is 6 in `job_all_on`, the chart's value. Deployments do not look at it.
* `ExpireTiles`: all 512 subsets of nine tiles around the numerals 9, 10 and 11 on three zooms,
  two orders, three kinds of geometry.
* `DiffPath`: 40 diffs from each of six numbers just below a boundary of a directory.
* `OverlappingManagers`: two entities, three states and one failure. The violation needs one entity
  and no failure.
* `ProcessLifecycle`: two children, so that one can be awaited while the other is late; two entities
  with a shared script and one geometry, so that an id is fetched twice and both kinds occur; every
  content an object may have is an initial state. One SIGTERM: terminus does not listen to a second.
* `CreateCommand`: three dumps, so that one is old, one is fetched and one is newer.

### Fairness

A call answers in the end, with a result or an error: the clients have timeouts. A child ends.
A lock that was left expires (`LockExpires`). Kubernetes starts a deployment's container again,
always, and a job's as long as it failed and its `backoffLimit` is not used up
(`helm/values.yaml:74-76`, `helm/templates/job.yaml:23`). Nothing forces the source to publish, a
fault to happen or a SIGTERM to come. One promise has no fairness: `streamToFs`
(`common/util.ts:48`) does not listen to the stream it reads, so that a response that breaks leaves
the manager waiting for good while the liveness probe answers; `CatchesUp`, `JobEnds` and
`CreateEnds` say "unless a stream breaks for good".

A job can end failed. A process that dies with the lock leaves it to its successors, which are
refused until it expires; a refusal is no fault of its own and uses up a retry, so that six of them
end the job. `JobEnds` therefore says: the job ends with success, or it ends after a run was refused
on a left lock. Two faults alone do not use up six retries.

`CreateEnds` is about a create that is run again after every failure, by its job or by whoever runs
it: `Rerun` has no limit. A job alone stops at its `backoffLimit`, after which somebody has to start
it again.

In `ProcessLifecycle` the same: calls answer, children end, the items of the clean-up end, terminus
closes the server within its second. `ProcessEnds` excepts one case, the loop that has swallowed
the signal of terminus and then waits for a stream that is broken.

No liveness is claimed of the loop with uploads on. An orphan and the retry delete the same list;
whoever is second rejects, which leaves orphans for the next retry, and nothing in the code breaks
that circle but the wait between two attempts (`waitTime`), which the model has no length for.
`CatchesUp` is checked with the uploads off; in `JobEnds` they are on, but a process makes a single
attempt, and its end takes its tasks with it.

## 4. What is proved

`AppendProofs` proves, for any set of entities, any `MaxSeq`, any options and any number of faults:

* `Recording`: `Safe => []RecordingInv`. `AppliedWithinOneOfRecorded` is not inductive: it
  says nothing of memory, from which the next state is computed. `RecordingInv` adds what
  memory is at each await (`MemoryFollowsBucket`), that the diff being applied is published
  (`NextIsPublished`), which entities have it by then (`AppliedByThen`) and which diff a child
  that nobody awaits works on (`SignalledAreHarmless`). One lemma per group of actions, one
  step per action.
* `AppliedFollowsRecorded`: `Safe => []AppliedWithinOneOfRecorded`.
* `ManagerImplementsProject`: `Safe => ImplementsProject`, the refinement of
  `ReplicatedProject` with `recorded <- bucket`. The put of `state.txt` is `Record`, a commit is
  `Apply`, the late commit of a child whose diff is recorded already is a stutter, and so is
  everything else.
* `TypesHold`: `Safe => []TypeOK`. What is filed, enrolled or left on disk carries `nextState`,
  so that its range is no local matter: it follows from `RecordingInv` (the diff being applied is
  published), which the proof assumes at every step.

`AppendActions` proves what the mediator is for. It comes last of the three, because what an
upload task does under which action follows from `AppendRecords`:

* `ActionsHold`: `Safe => []ActionInv`. `SuccessIsComplete` is not inductive. `ActionInv` adds
  that the action of the diff is open at each await of an attempt (`ActionIsOpen`), when the lock is
  held or left (`LockCoversTheReading`), when an action is open (`ActionCoversTheAttempt`), and that a
  job's process makes a single attempt (`OneAttemptPerJob`), which is why no child of an earlier
  attempt is alive when it succeeds. `RecordingInv` enters where the state is found up to date
  (every table is then at the recorded state) and where it is put.
* `SuccessLeavesNothing`: `Safe => []SuccessIsComplete`.
* `WorkIsUnderItsAction`: `Safe => WorksUnderItsAction`. One lemma for each of the four things a
  step may change outside. A commit is that of an awaited child, at an await where the action of
  `nextState` is open, or of a child in `signalled` (`CommitsHaveTheirAction`). Only tasks put and
  push (`OnlyTasksFile`); the list an awaited one carries belongs to `nextState`
  (`AwaitedTasksFileRight`), so that its action is open, and any other task is an orphan
  (`ListsHaveTheirAction`). Enrollments name `nextState` (`EnrollmentsHaveTheirAction`), and the
  number moves in `updateRemoteState` alone, to the state in memory (`RecordsHaveTheirAction`).

`AppendRecords` proves what is true of the two records of a diff that others read, for any tiles
and any targets. Both invariants are proved beside `RecordingInv` and `TypeOK`, which tell what
`nextState` is and that numbers are numbers.

* `Uploads`: `Safe => []UploadInv`. `NeverFiledEarly` is about numbers that are read late, by tasks
  that may belong to an attempt that has failed long ago. What makes it true is that a live task
  is never one of a diff beyond the next, and that memory is then at the recorded state or one ahead
  (`TasksReadForward`). A task serves its targets in order (`TasksServeInOrder`).
  `DeliveredBeforeRecorded` needs that a list the next state misses is on
  the disk until the upload and has a task of the attempt during it (`ListsAreKept`), that every
  task of that diff, an orphan too, is still to put a missing list under the right number
  (`TasksDeliver`), so that whoever deletes it has delivered it, and that memory moves on only when
  nothing is missing (`MemoryIsDelivered`). Delivered means put: a later put under the same key
  replaces the list. What the key then holds is one of the lists that were put under it
  (`KeysHoldPuts`), of no later diff than the state it names (`NeverFiledEarly`); hence the second
  part of `DeliveredBeforeRecorded` (`KeptUnderItsKey`). The three are `ListsAreNotEarly`,
  `ListsAreFiledRight`, `ListsBeforeState`.
* `Enrollments`: `Safe => []EnrollmentInv`. `EnrolledOnce` needs that the range about to be enrolled
  starts after every enrolled one, that is, that the status read before the append is not
  older than the last enrollment (`RangesAreCommitted`). `RecordedStateIsEnrolled` needs that the
  commits of the attempt lie in its range from the moment of the commit on (`ChangesAreEnrolled`).
  The two are `ChangesEnrolledOnce` and `EnrolledBeforeState`.

`CreateProofs` proves, for any dumps, overrides, mediator and MDR settings and number of failed runs,
`CreateHolds`: `Safe => []CreateInv`. The four properties speak of the tables and of the end of a
run; the invariant says what the file is by then (`FileIsWhole`: the name is used again after a
failed run, so that only the await tells a whole file from a part), which dump and state the
metadata fixed (`StateFollowsMetadata`), what of the file the tables hold (`TablesFollowFile`), and
what MDR and the mediator know (`EnrollmentFollows`, `MediatorFollows`, `EndFollows`). Its
consequences: `CompletedIsImported`, `OnlyWholeDumps`, `StateMatchesTables`, `TablesAreProtected`.

`OverlapProofs` proves, for any entities and any number of faults of two managers, `OverlapHolds`:
`Spec => []OverlapInv`. Its first part, `ManagersOK`, always holds: the lock is held exactly while a
manager reads, its action is open exactly during its attempt, and it has in memory what it read.
The second, `NumbersOK`, holds until an attempt ends half written. The number a manager has read
(`NumberReadOK`) is the recorded one, the one the other is about to record, or, when the other has
put back what it read, one less; an attempt works on the next diff or repeats the recorded one, and
in the second case every entity has that diff and nobody works on another (`AttemptOK`,
`Settled`); a child left behind commits one of the two (`LateCommitsOK`). From it follow
`TablesStayNear`, `DiffsStayInOrder` and `StateStaysNear`. The lemmas about the second manager are
those about the first with the roles exchanged.

`LifecycleProofs` proves, for any set of children and any set of requests in which equal ids have
equal types (`RequestsAssumption`):

* `LifecycleHolds`: `Safe => []LifecycleInv`. `ExitsCleanly` needs to know what is true long before
  the exit: that without a SIGTERM only the end of the main flow triggers the clean-up, which then
  finds no child it has not signalled (`CleanUpSignalsAll`), and that a queue is started only after
  its clean-up was registered (`QueueIsRegistered`). `SuccessIsDone` needs that nothing starts after
  SUCCESS is registered (`SuccessIsFinal`). `WorksOnProcessedResources` needs what the map of the
  resources is while gets are in flight (`MapFollowsGets`) and that the work is entered with a load
  that has resolved (`LoadedBeforeTheWork`); that no get can then undo the processing follows from
  every get having answered before the first resource is processed.
* `LifecycleTypes`, `ExitIsClean`, `OnlyLateChildren`, `SuccessMeansDone`, `WorksOnResources`: its
  consequences, one per property of the run.

`DiffPathProofs` proves for every number that equal paths are paths of equal numbers
(`PathIsInjective`), and that a project walks the directories of the source file by file
(`ManagerWalksTheDirectories`).

`ExpireTilesProofs` proves `BoxesAreExact`: `Spec => []BoxesCoverOneZoom`, for any finite set of
tiles with any coordinates, any finest zoom, any geometry and either sort. The state machine has one
step; what has to be shown is what the parser computes. In the order of the code:

* Numerals. Different numbers have different numerals, and of two numerals of one length that of
  the smaller number has the smaller digit where they first differ (`SmallerNumeral`).
* Texts. The first slash is where the first number ends (`SplitAtSlash`), so that different tiles
  have different texts, and the order of the texts is strict and total.
* `sortArrAlphabetically` returns every line once, in that order (`SortedList`): as many places as
  lines, and no two lines at one place.
* `getMaxZoom` is a zoom of the list, and the largest when the zooms have as many digits as each
  other (`ZoomOfBoxes`). This is where the condition of the property comes from, and the run
  `expire_top_zoom` shows that it is needed.
* The filtered tiles are the lines that survive (`FilteredTiles`), and the ranges hold each of them
  once, as chains of tiles one below the other (`TileRanges`, by `PushedTile`).
* The box from the bottom of a chain to its top has the cells of its tiles (`BoxOfChain`): for a cell
  of the box, the tile is the first of the column that reaches below it. Tiles of one zoom
  share no cell (`TilesApart`), hence neither do boxes (`RangesCover`).

`TopZoomIsCovered` draws the consequence for `helm/README.md:69`: what it promises of the top zoom
holds of every list whose zooms have as many digits as each other, whichever its tiles.

The scale of a zoom, the numerals, the filtered tiles and the ranges are recursive functions of a
number. Neither that such a function exists nor what it computes can be had from the library's
induction theorems, which take an operator; both follow from the least number for which they would
fail (`Least`, `UpTo`), by the well-foundedness of "less than" on the natural numbers.

The proofs use the named assumptions on constants and nothing else. What stays with TLC is liveness:
`CatchesUp`, `JobEnds`, `CreateEnds`, `ProcessEnds`, which the prover does not
reach. Every other property of a passing run, invariant or action property, is a theorem.

## 5. Assumptions of the model, and what is left out

* A child that was sent SIGINT is gone before the children of a *later* diff start (the guard of
  `spawnAll`); children of the same diff may overlap. The program does not check this; it relies
  on the wait between attempts and on the time a diff takes.
* Every run of `osm2pgsql` that commits is one transaction, one MDR change and one expire list.
  Which tiles a diff expires depends on the entity and the diff. An empty list is no list.
* A request that has failed for its client does not take effect later (a put that times out and is
  carried out after a retry).
* A put takes effect when it answers, and replaces what is under its key. `readFile` of a list that
  was opened before it was deleted reads it, however late; the model puts no bound on how long.
* Streams of responses break at the diff and at the dump only.
* Jobs are a set per entity and state: pg-boss refuses a second job with the same singleton key.
  The key hashes the boxes and the state without the entity (`queue/pgBossQueueProvider.ts:67-70`); two entities
  whose lists give equal boxes would share one job, which the model counts as two.
* State files are their sequence numbers; timestamps are not compared by the code.
* A dead `create`'s child is gone before the command is run again.
* Two managers: the mediator's service lets one action of a project be open at a time, and an action
  whose process is gone does not stand in the way of the next one. A child that was sent SIGINT by
  either manager is gone before a *later* diff is simplified. Expire lists and MDR are off.
* A second trigger of the clean-up registry (the library's, not the repository's) waits for the items
  once more or fails; both are in `TerminusTriggers`.
* The objects of the bucket do not change while they are loaded.
* `start.sh` runs under a `bash` that does not forward SIGTERM to node. In a container built from
  the `Dockerfile` a stop is then a SIGKILL, which is `Crash`; the actions of SIGTERM are those of the
  program when the signal does reach it.
* The coordinates of `ExpireTiles` are the grid of the finest zoom, a monotone image of the degrees.
* Metrics, logging, tracing, command-line parsing, the schemas of the validation and dependency
  registration are not modelled: they are functions of the arguments and the configuration, or
  observation, and nothing the commands do depends on a state of theirs.

## 6. Plan

1. Done: the append command, its proofs, the diff path, the boxes, the create command; two managers
   of one project; the process with its clean-up and the loading of its resources, and its proofs.
2. Done: the proofs about the expire lists and the enrollments (`AppendRecords`), the create command
   (`CreateProofs`) and two managers (`OverlapProofs`).
3. Done: the boxes (`ExpireTilesProofs`), for which the ranges, the filtered tiles and the scale of a
   zoom are recursive functions instead of folds.
4. Left: nothing that the prover or the model checker reaches with the present abstractions. What a
   next step would have to add to the model is in section 5, two jobs under one singleton key and
   requests that take effect after they have failed before anything else; and the length of the waits,
   without which the circle of orphans and retries cannot be excluded.
