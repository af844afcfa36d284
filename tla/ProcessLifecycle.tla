--------------------------- MODULE ProcessLifecycle ---------------------------
(***************************************************************************)
(* The life of one process of the wrapper (index.ts): the container and    *)
(* the command line, the preparation and the work of a command handler,    *)
(* the clean-up registry, and terminus, which answers SIGTERM.  What the   *)
(* handlers do in detail is in AppendManager and CreateCommand; here their *)
(* work is the children they spawn.                                        *)
(*                                                                         *)
(* The clean-up is triggered by the end of the handler or by terminus.     *)
(* Whoever comes second finds it triggered and does not wait for it.       *)
(***************************************************************************)
EXTENDS RemoteResources

CONSTANTS Kids      \* the children an append may have at one time

VARIABLES
  command,                          \* the command, and whether it has the queue as a target
  at,                               \* where the main flow of index.ts is
  exitCode,                         \* EXIT_CODE in the container
  exit,                             \* how the process ended
  toSpawn,                          \* the children this iteration has still to spawn
  children,                         \* whether a child runs, and what it has been sent
  queue,                            \* pg-boss
  shouldRun,                        \* the flag of the loop in appendForever
  terminus, sigterm,                \* terminus, and whether a SIGTERM has come
  triggered, registered, cleaned    \* the clean-up registry

mainVars == <<at, exitCode, exit>>
workVars == <<toSpawn, children>>
signalVars == <<shouldRun, terminus, sigterm>>
registryVars == <<triggered, registered, cleaned>>

\* What only the loading of the resources changes, and what nothing does.
inputVars == <<command, resourceVars>>

vars == <<mainVars, workVars, queue, signalVars, registryVars, inputVars>>

Commands == [name : {"create", "append", "forever"}, queue : BOOLEAN]

Phases ==
  {"getCli", "checks", "prepareEnvironment", "load", "startQueue", "work", "hung",
   "failed", "cleanUp", "exited"}

Items == {"terminateChildren", "tracer", "server", "s3", "queue"}

\* "late" is a child that was spawned after the clean-up had signalled the others.
ChildStates == {"none", "running", "late", "signalled"}

Init ==
  /\ ResourceInit
  /\ command \in {c \in Commands : c.name = "create" => ~c.queue}
  /\ at = "getCli"
  /\ exitCode = "NONE" /\ exit = "NONE"
  /\ toSpawn = Kids
  /\ children = [k \in Kids |-> "none"]
  /\ queue = "none"
  /\ shouldRun = TRUE
  /\ terminus = "absent" /\ sigterm = FALSE
  /\ triggered = FALSE /\ registered = {} /\ cleaned = {}

--------------------------------------------------------------------------------
Exit(code) ==
  /\ at' = "exited"
  /\ exit' = code

\* terminateChildren sends SIGINT to whoever is in its list.
terminateChildren ==
  children' = [k \in Kids |-> IF children[k] = "none" THEN "none" ELSE "signalled"]

\* Variants with a plausible slip: items count as done that nobody has registered;
\* a registry without terminateChildren.
triggerUnregistered ==
  /\ triggered' = TRUE
  /\ cleaned' = {"terminateChildren", "s3"}
  /\ terminateChildren
  /\ UNCHANGED registered

triggerWithoutChildren ==
  /\ triggered' = TRUE
  /\ cleaned' = registered \cap {"terminateChildren", "s3"}
  /\ UNCHANGED <<registered, children>>

\* Every item is started at once; two of them end at once as well.
trigger ==
  /\ triggered' = TRUE
  /\ cleaned' = registered \cap {"terminateChildren", "s3"}
  /\ terminateChildren
  /\ UNCHANGED registered

\* A variant with a plausible slip: the clean-up is not awaited.
shutDownFnUnawaited(code) ==
  IF triggered
  THEN Exit(code) /\ UNCHANGED <<children, registryVars>>
  ELSE Exit(code) /\ trigger

\* shutDownFn and exitProcess: a clean-up that is already triggered, perhaps still
\* on its way, is not waited for.
shutDownFn(code) ==
  IF triggered
  THEN Exit(code) /\ UNCHANGED <<children, registryVars>>
  ELSE at' = "cleanUp" /\ UNCHANGED exit /\ trigger

\* The handler, or what comes before it, ends with a code.
HandlerEnds(code) ==
  /\ exitCode' = code
  /\ shutDownFn(code)
  /\ UNCHANGED <<toSpawn, queue, signalVars>>

GoOn(phase) ==
  /\ at' = phase
  /\ UNCHANGED <<exitCode, exit, workVars, signalVars>>

\* What the container, index.ts and the two middlewares register for the clean-up.
containerItems == {"terminateChildren", "tracer"}
serverItem == {"server"}
s3RegistrationMiddleware == {"s3"}
uploadTargetsRegistrationMiddleware == {i \in {"queue"} : command.queue}

\* Without a configuration there is no container, and nothing is registered yet.
GetCli ==
  /\ at = "getCli"
  /\ \/ /\ at' = "checks" /\ exitCode' = "GENERAL_ERROR" /\ terminus' = "armed"
        /\ registered' = containerItems \cup serverItem
        /\ UNCHANGED <<exit, triggered>>
     \/ /\ Exit("GENERAL_ERROR") /\ triggered' = TRUE
        /\ UNCHANGED <<exitCode, terminus, registered>>
  /\ UNCHANGED <<workVars, queue, shouldRun, sigterm, cleaned, inputVars>>

\* The checks of the arguments, then the middlewares and the handler in one tick.
\* Nothing is registered with a registry that was triggered meanwhile.
CheckArguments ==
  /\ at = "checks"
  /\ \/ /\ GoOn("prepareEnvironment")
        /\ registered' = IF triggered THEN registered
                         ELSE registered \cup s3RegistrationMiddleware
                                         \cup uploadTargetsRegistrationMiddleware
        /\ UNCHANGED <<queue, triggered, cleaned>>
     \/ HandlerEnds("GENERAL_ERROR")
  /\ UNCHANGED inputVars

\* create has no preparation of its own.
PrepareEnvironment ==
  /\ at = "prepareEnvironment"
  /\ IF command.name = "create"
     THEN GoOn("work") /\ UNCHANGED <<queue, registryVars, inputVars>>
     ELSE \/ GoOn("load") /\ startLoad /\ UNCHANGED <<command, queue, registryVars>>
          \/ (\E code \in prepareEnvironment : HandlerEnds(code)) /\ UNCHANGED inputVars

\* load moves on: still at it, through, or rejected.
AfterLoad(codes) ==
  CASE at = "load" /\ loading' = "resolved" ->
         /\ GoOn(IF command.queue THEN "startQueue" ELSE "work")
         /\ UNCHANGED <<queue, registryVars>>
    [] at = "load" /\ loading' = "failed" -> \E code \in codes : HandlerEnds(code)
    [] OTHER -> UNCHANGED <<mainVars, workVars, queue, signalVars, registryVars>>

\* Gets go on after load was rejected, as long as the process lives.
Fetch ==
  /\ at # "exited" /\ UNCHANGED command
  /\ \E r \in Requests :
       (resourceFetched(r) \/ resourceFails(r)) /\ AfterLoad(getResourcesFromRemote)

Process ==
  /\ at = "load" /\ UNCHANGED command
  /\ \E id \in DOMAIN resourceMap :
       \/ processed(id) /\ AfterLoad({})
       \/ processFails(id) /\ AfterLoad(processFailures(resourceMap[id]))

StartQueue ==
  /\ at = "startQueue"
  /\ \/ GoOn("work") /\ queue' = "started" /\ UNCHANGED registryVars
     \/ \E code \in startQueue : HandlerEnds(code)
  /\ UNCHANGED inputVars

Awaited == {k \in Kids : children[k] \in {"running", "late"}}

\* An append spawns a child per entity at once, create one after the other.
Spawn(k) ==
  /\ at = "work" /\ k \in toSpawn /\ children[k] = "none"
  /\ command.name = "create" => Awaited = {}
  /\ toSpawn' = toSpawn \ {k}
  /\ children' = [children EXCEPT ![k] = IF triggered THEN "late" ELSE "running"]
  /\ UNCHANGED <<mainVars, queue, signalVars, registryVars, inputVars>>

\* The state is that of the source: there is nothing to append.
UpToDate ==
  /\ at = "work" /\ command.name # "create" /\ toSpawn = Kids /\ Awaited = {}
  /\ toSpawn' = {}
  /\ UNCHANGED <<mainVars, children, queue, signalVars, registryVars, inputVars>>

NextIteration ==
  /\ toSpawn' = Kids
  /\ UNCHANGED <<mainVars, children, queue, signalVars, registryVars>>

\* Variants with a plausible slip: the children are not awaited; the loop does not
\* look at its flag.
WorkDoneUnawaited ==
  /\ at = "work" /\ toSpawn = {}
  /\ IF command.name = "forever" /\ shouldRun THEN NextIteration ELSE HandlerEnds("SUCCESS")
  /\ UNCHANGED inputVars

WorkDoneForever ==
  /\ at = "work" /\ toSpawn = {} /\ Awaited = {}
  /\ IF command.name = "forever" THEN NextIteration ELSE HandlerEnds("SUCCESS")
  /\ UNCHANGED inputVars

\* The work of an iteration is done: the loop goes on, or the handler returns.
WorkDone ==
  /\ at = "work" /\ toSpawn = {} /\ Awaited = {}
  /\ IF command.name = "forever" /\ shouldRun THEN NextIteration ELSE HandlerEnds("SUCCESS")
  /\ UNCHANGED inputVars

\* The catch clause of an append sends SIGINT to its children; the loop waits and
\* goes on, the one append throws.  So does create, and the loop with an error from
\* outside the try block, before an iteration spawns or after its children have ended.
WorkFails ==
  /\ at = "work"
  /\ \/ /\ command.name # "create"
        /\ terminateChildren /\ toSpawn' = {}
        /\ at' = IF command.name = "forever" THEN "work" ELSE "failed"
     \/ /\ Awaited = {} /\ (command.name = "create" \/ toSpawn \in {{}, Kids})
        /\ at' = "failed"
        /\ UNCHANGED workVars
  /\ UNCHANGED <<exitCode, exit, queue, signalVars, registryVars, inputVars>>

\* updateAction(FAILED) is over, and the error leaves the handler.
HandlerFails ==
  /\ at = "failed"
  /\ \E code \in commandWrapper("osm2pgsql") \cup plainError : HandlerEnds(code)
  /\ UNCHANGED inputVars

\* A stream breaks, and the promise that waits for its file never settles.
StreamBreaks ==
  /\ at = "work" /\ Awaited = {}
  /\ GoOn("hung")
  /\ UNCHANGED <<queue, registryVars, inputVars>>

ChildEnds(k) ==
  /\ at # "exited" /\ children[k] # "none"
  /\ children' = [children EXCEPT ![k] = "none"]
  /\ UNCHANGED <<mainVars, toSpawn, queue, signalVars, registryVars, inputVars>>

--------------------------------------------------------------------------------
(* The clean-up and the signal.                                            *)

\* The tracer is stopped, the server is closed, the queue is stopped.
ItemEnds(i) ==
  /\ at # "exited" /\ triggered /\ i \in registered \ cleaned
  /\ cleaned' = cleaned \cup {i}
  /\ queue' = IF i = "queue" /\ queue = "started" THEN "stopped" ELSE queue
  /\ UNCHANGED <<mainVars, workVars, signalVars, triggered, registered, inputVars>>

exitProcess ==
  /\ at = "cleanUp" /\ registered \subseteq cleaned
  /\ Exit(exitCode)
  /\ UNCHANGED <<exitCode, workVars, queue, signalVars, registryVars, inputVars>>

Listening == command.name = "forever" /\ at \in {"work", "hung"} /\ shouldRun

\* Before createTerminus the signal kills.  After it, terminus stops the server and
\* exits with 1 when that fails, which it does once the clean-up has closed it.
Sigterm ==
  /\ at # "exited" /\ ~sigterm
  /\ sigterm' = TRUE
  /\ shouldRun' = (shouldRun /\ ~Listening)
  /\ \/ terminus = "absent" /\ Exit("KILLED") /\ UNCHANGED terminus
     \/ terminus = "armed" /\ ~triggered /\ terminus' = "stopping" /\ UNCHANGED <<at, exit>>
     \/ terminus = "armed" /\ triggered /\ Exit("GENERAL_ERROR") /\ UNCHANGED terminus
  /\ UNCHANGED <<exitCode, workVars, queue, registryVars, inputVars>>

\* onSignal.  What a second trigger does is the registry's business: terminus waits
\* for the items once more, or gets an error and exits.
TerminusTriggers ==
  /\ at # "exited" /\ terminus = "stopping"
  /\ \/ ~triggered /\ trigger /\ terminus' = "triggered" /\ UNCHANGED <<at, exit>>
     \/ triggered /\ terminus' = "triggered" /\ UNCHANGED <<at, exit, children, registryVars>>
     \/ triggered /\ Exit("GENERAL_ERROR") /\ UNCHANGED <<terminus, children, registryVars>>
  /\ UNCHANGED <<exitCode, toSpawn, queue, shouldRun, sigterm, inputVars>>

\* Terminus sends SIGTERM to its own process; a loop that was entered meanwhile has
\* a listener for it, and the process lives on.
TerminusEnds ==
  /\ at # "exited" /\ terminus = "triggered" /\ registered \subseteq cleaned
  /\ terminus' = "over"
  /\ shouldRun' = (shouldRun /\ ~Listening)
  /\ IF Listening THEN UNCHANGED <<at, exit>> ELSE Exit("KILLED")
  /\ UNCHANGED <<exitCode, workVars, queue, sigterm, registryVars, inputVars>>

Exited == at = "exited" /\ UNCHANGED vars

\* Nothing but a signal gets the process out of this.
Hung == at = "hung" /\ UNCHANGED vars

Start == GetCli \/ CheckArguments \/ PrepareEnvironment \/ StartQueue
Resources == Fetch \/ Process
Work ==
  \/ (\E k \in Kids : Spawn(k)) \/ UpToDate
  \/ WorkDone \/ WorkFails \/ HandlerFails \/ StreamBreaks
CleanUp == (\E i \in Items : ItemEnds(i)) \/ exitProcess
Terminus == TerminusTriggers \/ TerminusEnds

Next ==
  \/ Start \/ Resources \/ Work \/ (\E k \in Kids : ChildEnds(k))
  \/ CleanUp \/ Sigterm \/ Terminus \/ Exited \/ Hung

Safe == Init /\ [][Next]_vars

\* Every call answers (but a broken stream), every child ends, every item of the
\* clean-up ends or expires, and terminus stops the server within a second.
Fairness ==
  /\ WF_vars(Start) /\ WF_vars(Resources) /\ WF_vars(Work)
  /\ \A k \in Kids : WF_vars(ChildEnds(k))
  /\ WF_vars(CleanUp) /\ WF_vars(Terminus)

Spec == Safe /\ Fairness

--------------------------------------------------------------------------------
ProcessTypeOK ==
  /\ command \in Commands
  /\ at \in Phases
  /\ exitCode \in ExitCodes /\ exit \in ExitCodes
  /\ toSpawn \subseteq Kids
  /\ children \in [Kids -> ChildStates]
  /\ queue \in {"none", "started", "stopped"}
  /\ shouldRun \in BOOLEAN
  /\ terminus \in {"absent", "armed", "stopping", "triggered", "over"} /\ sigterm \in BOOLEAN
  /\ triggered \in BOOLEAN
  /\ registered \subseteq Items /\ cleaned \subseteq registered

\* Every variable has its type, and only what is registered is cleaned.
TypeOK == ProcessTypeOK /\ ResourceTypeOK

\* A process that no SIGTERM reached exits only after its clean-up: every registered
\* item has ended, the queue it started is stopped, and no child of it is alive that
\* was not told to stop (index.ts awaits shutDownFn before it exits).
ExitsCleanly ==
  (at = "exited" /\ ~sigterm) =>
    /\ registered \subseteq cleaned
    /\ queue # "started"
    /\ \A k \in Kids : children[k] \in {"none", "signalled"}

\* However the process ends, signal, error or success, in whatever order: a child
\* that outlives it without having been told to stop was spawned after the clean-up.
OnlyLateChildrenSurvive ==
  at = "exited" => \A k \in Kids : children[k] # "running"

\* The exit code SUCCESS is that of a handler whose work is done, or that has found
\* nothing to append, also when the clean-up that another one triggered cuts its end
\* short; a loop is done only once a SIGTERM has stopped it.
SuccessIsDone ==
  exit = "SUCCESS" =>
    /\ toSpawn = {} /\ Awaited = {}
    /\ command.name = "forever" => sigterm

\* An append works only on resources that are all there, processed and valid, of
\* every entity, although gets of the same id overwrite each other's entry.
WorksOnProcessedResources ==
  (at \in {"startQueue", "work", "hung"} /\ command.name # "create") =>
    \A r \in Requests :
      /\ r.id \in DOMAIN resourceMap
      /\ resourceMap[r.id].processed
      /\ r.type = "geometry" => remote[r.id] \in {"geojson", "bbox"}

\* A SIGTERM, or the end of the handler, ends the process, unless the loop has
\* swallowed the signal that terminus sends and then waits for a broken stream.
ProcessEnds ==
  (sigterm \/ at = "cleanUp") ~> (at = "exited" \/ (terminus = "over" /\ at = "hung"))

--------------------------------------------------------------------------------
(* The inductive strengthening of the invariants above.                    *)

\* Nothing has happened yet as long as there is no container, and then only.
BeforeTheContainer ==
  /\ at = "getCli" =>
       /\ terminus = "absent" /\ ~triggered /\ registered = {} /\ queue = "none"
       /\ \A k \in Kids : children[k] = "none"
  /\ (terminus = "absent" /\ at # "exited") => at = "getCli"
  /\ ~sigterm => terminus \in {"absent", "armed"} /\ shouldRun

\* Without a SIGTERM only the end of the main flow triggers the clean-up; once it is
\* triggered no child is left that was not told to stop, but for late ones.
CleanUpSignalsAll ==
  /\ (triggered /\ ~sigterm) => at \in {"cleanUp", "exited"}
  /\ ~triggered => cleaned = {}
  /\ at = "cleanUp" \/ terminus = "triggered" => triggered
  /\ triggered => \A k \in Kids : children[k] # "running"
  /\ at = "cleanUp" => \A k \in Kids : children[k] \in {"none", "signalled"}

\* Without a SIGTERM a queue is started only after its clean-up was registered.
QueueIsRegistered ==
  /\ at = "startQueue" => command.queue
  /\ ~sigterm =>
       /\ (command.queue /\ at \in {"prepareEnvironment", "load", "startQueue"})
            => "queue" \in registered
       /\ queue = "started" => "queue" \in registered \ cleaned

\* The code SUCCESS is registered at the end of the work, after which nothing starts.
SuccessIsFinal ==
  /\ exitCode = "SUCCESS" =>
       /\ at \in {"cleanUp", "exited"}
       /\ toSpawn = {} /\ Awaited = {}
       /\ command.name = "forever" => sigterm
  /\ exit \in IF at = "exited" THEN {"GENERAL_ERROR", "KILLED", exitCode} ELSE {"NONE"}

\* The map holds what the answered gets found, and a resource is processed when valid.
MapFollowsGets ==
  /\ \A r \in Requests : gets[r] = "answered" => r.id \in DOMAIN resourceMap
  /\ \A id \in DOMAIN resourceMap :
       /\ resourceMap[id].content = remote[id]
       /\ \A r \in Requests : r.id = id => resourceMap[id].type = r.type
       /\ resourceMap[id].processed => isValid(resourceMap[id])
  /\ loading \in {"processing", "resolved"} => \A r \in Requests : gets[r] = "answered"
  /\ loading = "resolved" => \A id \in DOMAIN resourceMap : resourceMap[id].processed

LoadedBeforeTheWork ==
  (at \in {"startQueue", "work", "hung"} /\ command.name # "create") => loading = "resolved"

ProcessInv ==
  /\ ProcessTypeOK
  /\ BeforeTheContainer
  /\ CleanUpSignalsAll
  /\ QueueIsRegistered
  /\ SuccessIsFinal
  /\ ExitsCleanly
  /\ OnlyLateChildrenSurvive

ResourceInv == ResourceTypeOK /\ MapFollowsGets

\* The inductive invariant as a whole: of the process, of the loading, of both.
LifecycleInv == ProcessInv /\ ResourceInv /\ LoadedBeforeTheWork
=============================================================================
