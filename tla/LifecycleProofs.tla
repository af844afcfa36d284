---------------------------- MODULE LifecycleProofs ----------------------------
(***************************************************************************)
(* The proofs about the life of a process: how it exits, what it leaves    *)
(* behind, and what an append works on, for every set of children and of   *)
(* requested resources.                                                    *)
(***************************************************************************)
EXTENDS ProcessLifecycle, TLAPS

USE RequestsAssumption

\* No call fails with the code of a success.
LEMMA FailuresAreNoSuccess ==
  /\ prepareEnvironment \cup getResourcesFromRemote \cup startQueue \cup plainError
       \cup commandWrapper("osm2pgsql") \subseteq ExitCodes \ {"SUCCESS"}
  /\ \A resource : processFailures(resource) \subseteq ExitCodes \ {"SUCCESS"}
  BY DEF prepareEnvironment, headBucketWrapper, plainError, getResourcesFromRemote, startQueue,
         commandWrapper, processFailures, ExitCodes

--------------------------------------------------------------------------------
(* The loading of the resources.                                           *)

LEMMA ResourceStart == ResourceInit => ResourceInv
  BY DEF ResourceInit, ResourceInv, ResourceTypeOK, MapFollowsGets, Loading

\* Every step of load keeps its invariant, and the map of a load that has resolved.
LEMMA LoadKeepsResources ==
  ASSUME ResourceInv, startLoad
  PROVE  ResourceInv'
  BY DEF ResourceInv, ResourceTypeOK, MapFollowsGets, startLoad, Loading, isValid

LEMMA FetchKeepsResources ==
  ASSUME ResourceInv, NEW r \in Requests, resourceFetched(r) \/ resourceFails(r)
  PROVE  ResourceInv' /\ (loading = "resolved" => loading' = "resolved")
<1>0. /\ remote \in [Ids -> Objects]
      /\ gets \in [Requests -> {"none", "pending", "answered", "failed"}]
      /\ loading \in Loading
      /\ \A id \in DOMAIN resourceMap : id \in Ids /\ resourceMap[id] \in
           [type : {"script", "geometry"}, content : Objects, processed : BOOLEAN]
  BY DEF ResourceInv, ResourceTypeOK
<1>1. CASE resourceFetched(r)
  <2> DEFINE entry == [type |-> r.type, content |-> remote[r.id], processed |-> FALSE]
  <2>1. r.id \in Ids /\ r.type \in {"script", "geometry"}
    BY DEF Ids
  <2>2. /\ entry \in [type : {"script", "geometry"}, content : Objects, processed : BOOLEAN]
        /\ entry.type = r.type /\ entry.content = remote[r.id] /\ ~entry.processed
    BY <1>0, <2>1
  <2>3. /\ DOMAIN resourceMap' = DOMAIN resourceMap \cup {r.id}
        /\ resourceMap'[r.id] = entry
        /\ \A id \in DOMAIN resourceMap' : id # r.id =>
             id \in DOMAIN resourceMap /\ resourceMap'[id] = resourceMap[id]
    BY <1>1 DEF resourceFetched, fetched
  <2>4. /\ gets[r] = "pending" /\ remote' = remote
        /\ gets' \in [Requests -> {"none", "pending", "answered", "failed"}]
        /\ \A q \in Requests : gets'[q] = IF q = r THEN "answered" ELSE gets[q]
        /\ loading' = IF \A q \in Requests : gets'[q] = "answered" THEN "processing" ELSE loading
    BY <1>0, <1>1 DEF resourceFetched
  <2>5. loading \notin {"processing", "resolved"}
    BY <2>4 DEF ResourceInv, MapFollowsGets
  <2> HIDE DEF entry
  <2>6. ResourceTypeOK'
    BY <1>0, <2>1, <2>2, <2>3, <2>4 DEF ResourceTypeOK, Loading
  <2>7. \A q \in Requests : gets'[q] = "answered" => q.id \in DOMAIN resourceMap'
    BY <2>3, <2>4 DEF ResourceInv, MapFollowsGets
  <2>8. ASSUME NEW id \in DOMAIN resourceMap'
        PROVE  /\ resourceMap'[id].content = remote'[id]
               /\ \A q \in Requests : q.id = id => resourceMap'[id].type = q.type
               /\ resourceMap'[id].processed => isValid(resourceMap'[id])
    <3>1. CASE id = r.id
      BY <3>1, <2>2, <2>3, <2>4
    <3>2. CASE id # r.id
      BY <3>2, <2>3, <2>4 DEF ResourceInv, MapFollowsGets
    <3> QED
      BY <3>1, <3>2
  <2>9. MapFollowsGets'
    BY <2>4, <2>5, <2>7, <2>8 DEF MapFollowsGets, isValid
  <2> QED
    BY <2>5, <2>6, <2>9 DEF ResourceInv
<1>2. CASE resourceFails(r)
  BY <1>2 DEF resourceFails, ResourceInv, ResourceTypeOK, MapFollowsGets, Loading, isValid
<1> QED
  BY <1>1, <1>2

LEMMA ProcessKeepsResources ==
  ASSUME ResourceInv, NEW id \in DOMAIN resourceMap, processed(id) \/ processFails(id)
  PROVE  ResourceInv'
<1>0. /\ remote \in [Ids -> Objects]
      /\ gets \in [Requests -> {"none", "pending", "answered", "failed"}]
      /\ loading \in Loading
      /\ \A i \in DOMAIN resourceMap : i \in Ids /\ resourceMap[i] \in
           [type : {"script", "geometry"}, content : Objects, processed : BOOLEAN]
  BY DEF ResourceInv, ResourceTypeOK
<1>1. CASE processed(id)
  <2>1. /\ DOMAIN resourceMap' = DOMAIN resourceMap
        /\ \A i \in DOMAIN resourceMap : i # id => resourceMap'[i] = resourceMap[i]
        /\ resourceMap'[id] = [resourceMap[id] EXCEPT !.processed = TRUE]
    BY <1>1 DEF processed
  <2>2. /\ resourceMap'[id] \in
             [type : {"script", "geometry"}, content : Objects, processed : BOOLEAN]
        /\ resourceMap'[id].type = resourceMap[id].type
        /\ resourceMap'[id].content = resourceMap[id].content
        /\ resourceMap'[id].processed
    BY <1>0, <2>1
  <2>3. /\ isValid(resourceMap[id])
        /\ gets' = gets /\ remote' = remote
        /\ loading = "processing" /\ loading' \in {"processing", "resolved"}
        /\ loading' = "resolved" => \A i \in DOMAIN resourceMap' : resourceMap'[i].processed
    BY <1>1, <2>1 DEF processed
  <2>4. ResourceTypeOK'
    BY <1>0, <2>1, <2>2, <2>3 DEF ResourceTypeOK, Loading
  <2>5. ASSUME NEW i \in DOMAIN resourceMap'
        PROVE  /\ resourceMap'[i].content = remote'[i]
               /\ \A q \in Requests : q.id = i => resourceMap'[i].type = q.type
               /\ resourceMap'[i].processed => isValid(resourceMap'[i])
    BY <2>1, <2>2, <2>3 DEF ResourceInv, MapFollowsGets, isValid
  <2>6. MapFollowsGets'
    BY <2>1, <2>3, <2>5 DEF ResourceInv, MapFollowsGets, isValid
  <2> QED
    BY <2>4, <2>6 DEF ResourceInv
<1>2. CASE processFails(id)
  BY <1>2 DEF processFails, ResourceInv, ResourceTypeOK, MapFollowsGets, Loading, isValid
<1> QED
  BY <1>1, <1>2

\* No step of the process alone touches the resources.
LEMMA OthersKeepResources == ResourceInv /\ UNCHANGED resourceVars => ResourceInv'
  BY DEF ResourceInv, ResourceTypeOK, MapFollowsGets, resourceVars, isValid

--------------------------------------------------------------------------------
(* The process.                                                            *)

LEMMA ProcessStart == Init => ProcessInv
  BY DEF Init, ProcessInv, ProcessTypeOK, BeforeTheContainer, CleanUpSignalsAll,
         QueueIsRegistered, SuccessIsFinal, ExitsCleanly, OnlyLateChildrenSurvive, Commands,
         Phases, ExitCodes, ChildStates, Items

\* A step that leaves the process alone keeps its invariant.
LEMMA ProcessStutter ==
  ProcessInv /\ UNCHANGED <<command, mainVars, workVars, queue, signalVars, registryVars>>
    => ProcessInv'
  BY DEF ProcessInv, ProcessTypeOK, BeforeTheContainer, CleanUpSignalsAll, QueueIsRegistered,
         SuccessIsFinal, ExitsCleanly, OnlyLateChildrenSurvive, Awaited, mainVars, workVars,
         signalVars, registryVars

\* The clean-up leaves nobody who was not told to stop.
LEMMA TerminateChildrenTells ==
  ASSUME terminateChildren
  PROVE  /\ children' \in [Kids -> ChildStates]
         /\ \A k \in Kids : children'[k] \in {"none", "signalled"}
  BY DEF terminateChildren, ChildStates

\* The end of the handler: with a code that is no success, or with its work done.
LEMMA EndKeepsProcess ==
  ASSUME ProcessInv, at \notin {"getCli", "cleanUp", "exited"}, UNCHANGED command,
         NEW code \in ExitCodes, HandlerEnds(code),
         code = "SUCCESS" =>
           toSpawn = {} /\ Awaited = {} /\ (command.name = "forever" => sigterm)
  PROVE  ProcessInv'
<1> USE DEF ProcessInv, ProcessTypeOK, BeforeTheContainer, CleanUpSignalsAll,
            QueueIsRegistered, SuccessIsFinal, ExitsCleanly, OnlyLateChildrenSurvive, Awaited,
            HandlerEnds, Phases, Items, signalVars, registryVars
<1>1. CASE triggered
  BY <1>1 DEF shutDownFn, Exit
<1>2. CASE ~triggered
  <2>1. /\ at' = "cleanUp" /\ exit' = exit /\ exitCode' = code /\ toSpawn' = toSpawn
        /\ triggered' = TRUE /\ registered' = registered
        /\ cleaned' = registered \cap {"terminateChildren", "s3"}
        /\ UNCHANGED <<queue, shouldRun, terminus, sigterm>>
    BY <1>2 DEF shutDownFn, trigger
  <2>2. /\ children' \in [Kids -> ChildStates]
        /\ \A k \in Kids : children'[k] \in {"none", "signalled"}
    BY <1>2, TerminateChildrenTells DEF shutDownFn, trigger
  <2>3. ProcessTypeOK'
    BY <2>1, <2>2
  <2>4. BeforeTheContainer' /\ CleanUpSignalsAll' /\ ExitsCleanly' /\ OnlyLateChildrenSurvive'
    BY <2>1, <2>2
  <2>5. QueueIsRegistered'
    BY <2>1
  <2>6. SuccessIsFinal'
    BY <2>1, <2>2
  <2> QED
    BY <2>3, <2>4, <2>5, <2>6
<1> QED
  BY <1>1, <1>2

\* The start of the process, up to the work.
LEMMA StartKeepsProcess ==
  ASSUME ProcessInv, Start
  PROVE  ProcessInv'
<1> USE DEF ProcessInv, ProcessTypeOK, BeforeTheContainer, CleanUpSignalsAll,
            QueueIsRegistered, SuccessIsFinal, ExitsCleanly, OnlyLateChildrenSurvive, Awaited,
            Phases, Items, workVars, signalVars, registryVars, inputVars, ExitCodes, GoOn,
            containerItems, serverItem
<1>1. CASE GetCli
  <2>1. /\ at = "getCli" /\ cleaned = {} /\ registered = {} /\ queue = "none"
        /\ exitCode # "SUCCESS" /\ Awaited = {} /\ ~triggered
        /\ UNCHANGED <<workVars, queue, shouldRun, sigterm, cleaned, command>>
    BY <1>1 DEF GetCli
  <2>2. CASE at' = "checks"
    BY <1>1, <2>1, <2>2 DEF GetCli, Exit
  <2>3. CASE at' = "exited"
    BY <1>1, <2>1, <2>3 DEF GetCli, Exit
  <2> QED
    BY <1>1, <2>2, <2>3 DEF GetCli, Exit
<1>2. CASE CheckArguments
  <2>1. command.queue \in BOOLEAN
    BY DEF Commands
  <2>2. CASE HandlerEnds("GENERAL_ERROR")
    BY <1>2, <2>2, EndKeepsProcess DEF CheckArguments
  <2>3. CASE /\ GoOn("prepareEnvironment")
             /\ registered' = IF triggered THEN registered
                              ELSE registered \cup s3RegistrationMiddleware
                                              \cup uploadTargetsRegistrationMiddleware
             /\ UNCHANGED <<queue, triggered, cleaned>>
    <3>1. /\ registered \subseteq registered' /\ registered' \subseteq Items
          /\ ~triggered /\ command.queue => "queue" \in registered'
      BY <2>1, <2>3 DEF s3RegistrationMiddleware, uploadTargetsRegistrationMiddleware
    <3>2. at = "checks" /\ UNCHANGED command
      BY <1>2 DEF CheckArguments
    <3> QED
      BY <2>3, <3>1, <3>2
  <2> QED
    BY <1>2, <2>2, <2>3 DEF CheckArguments
<1>3. CASE PrepareEnvironment
  <2>1. CASE \E code \in prepareEnvironment : HandlerEnds(code)
    BY <1>3, <2>1, EndKeepsProcess, FailuresAreNoSuccess DEF PrepareEnvironment
  <2>2. CASE GoOn("work") /\ UNCHANGED <<queue, registryVars, inputVars>>
    BY <1>3, <2>2 DEF PrepareEnvironment
  <2>3. CASE GoOn("load") /\ UNCHANGED <<command, queue, registryVars>>
    BY <1>3, <2>3 DEF PrepareEnvironment
  <2> QED
    BY <1>3, <2>1, <2>2, <2>3 DEF PrepareEnvironment
<1>4. CASE StartQueue
  <2>1. CASE \E code \in startQueue : HandlerEnds(code)
    BY <1>4, <2>1, EndKeepsProcess, FailuresAreNoSuccess DEF StartQueue
  <2>2. CASE GoOn("work") /\ queue' = "started" /\ UNCHANGED registryVars
    BY <1>4, <2>2 DEF StartQueue
  <2> QED
    BY <1>4, <2>1, <2>2 DEF StartQueue
<1> QED
  BY <1>1, <1>2, <1>3, <1>4 DEF Start

\* load moves on or ends the handler.
LEMMA ResourcesKeepProcess ==
  ASSUME ProcessInv, Resources
  PROVE  ProcessInv'
<1>1. ASSUME NEW codes, codes \subseteq ExitCodes \ {"SUCCESS"}, AfterLoad(codes),
             UNCHANGED command
      PROVE  ProcessInv'
  <2>1. CASE at = "load" /\ loading' = "resolved"
    BY <1>1, <2>1
    DEF AfterLoad, GoOn, ProcessInv, ProcessTypeOK, BeforeTheContainer, CleanUpSignalsAll,
        QueueIsRegistered, SuccessIsFinal, ExitsCleanly, OnlyLateChildrenSurvive, Awaited,
        Phases, workVars, signalVars, registryVars
  <2>2. CASE at = "load" /\ loading' = "failed"
    BY <1>1, <2>2, EndKeepsProcess DEF AfterLoad
  <2>3. CASE ~(at = "load" /\ loading' \in {"resolved", "failed"})
    BY <1>1, <2>3, ProcessStutter DEF AfterLoad
  <2> QED
    BY <2>1, <2>2, <2>3
<1>2. CASE Fetch
  BY <1>1, <1>2, FailuresAreNoSuccess DEF Fetch
<1>3. CASE Process
  BY <1>1, <1>3, FailuresAreNoSuccess DEF Process
<1> QED
  BY <1>2, <1>3 DEF Resources

\* The work, its failures and its children.
LEMMA WorkKeepsProcess ==
  ASSUME ProcessInv, Work \/ (\E k \in Kids : ChildEnds(k))
  PROVE  ProcessInv'
<1> USE DEF ProcessInv, ProcessTypeOK, BeforeTheContainer, CleanUpSignalsAll,
            QueueIsRegistered, SuccessIsFinal, ExitsCleanly, OnlyLateChildrenSurvive, Awaited,
            Phases, mainVars, workVars, signalVars, registryVars, inputVars
<1>1. ASSUME NEW k \in Kids, Spawn(k)
      PROVE  ProcessInv'
  BY <1>1 DEF Spawn, ChildStates
<1>2. CASE WorkDone
  <2>1. CASE NextIteration
    BY <1>2, <2>1 DEF WorkDone, NextIteration
  <2>2. CASE ~NextIteration
    BY <1>2, <2>2, EndKeepsProcess DEF WorkDone, ExitCodes
  <2> QED
    BY <2>1, <2>2
<1>3. CASE WorkFails
  <2>1. CASE terminateChildren /\ toSpawn' = {}
    BY <1>3, <2>1, TerminateChildrenTells DEF WorkFails
  <2>2. CASE at' = "failed" /\ UNCHANGED workVars
    BY <1>3, <2>2 DEF WorkFails
  <2> QED
    BY <1>3, <2>1, <2>2 DEF WorkFails
<1>4. CASE HandlerFails
  BY <1>4, EndKeepsProcess, FailuresAreNoSuccess DEF HandlerFails
<1>5. CASE StreamBreaks
  BY <1>5 DEF StreamBreaks, GoOn
<1>6. ASSUME NEW k \in Kids, ChildEnds(k)
      PROVE  ProcessInv'
  BY <1>6 DEF ChildEnds, ChildStates
<1>7. CASE UpToDate
  BY <1>7 DEF UpToDate
<1> QED
  BY <1>1, <1>2, <1>3, <1>4, <1>5, <1>6, <1>7 DEF Work

\* The clean-up, the signal, and terminus.
LEMMA CleanUpKeepsProcess ==
  ASSUME ProcessInv, CleanUp \/ Sigterm \/ Terminus
  PROVE  ProcessInv'
<1> USE DEF ProcessInv, ProcessTypeOK, BeforeTheContainer, CleanUpSignalsAll,
            QueueIsRegistered, SuccessIsFinal, ExitsCleanly, OnlyLateChildrenSurvive, Awaited,
            Phases, Items, ExitCodes, mainVars, workVars, signalVars, registryVars, inputVars,
            Exit
<1>1. ASSUME NEW i \in Items, ItemEnds(i)
      PROVE  ProcessInv'
  BY <1>1 DEF ItemEnds
<1>2. CASE exitProcess
  BY <1>2 DEF exitProcess
<1>3. CASE Sigterm
  BY <1>3 DEF Sigterm, Listening
<1>4. CASE TerminusTriggers
  <2>0. /\ at # "exited" /\ terminus = "stopping" /\ sigterm
        /\ UNCHANGED <<exitCode, toSpawn, queue, shouldRun, sigterm, command>>
    BY <1>4 DEF TerminusTriggers
  <2>1. CASE ~triggered
    <3>1. /\ at' = at /\ exit' = exit /\ terminus' = "triggered"
          /\ triggered' = TRUE /\ registered' = registered
          /\ cleaned' = registered \cap {"terminateChildren", "s3"}
          /\ terminateChildren
      BY <1>4, <2>1 DEF TerminusTriggers, trigger
    <3>2. ProcessTypeOK' /\ BeforeTheContainer' /\ CleanUpSignalsAll'
      BY <2>0, <2>1, <3>1, TerminateChildrenTells
    <3>3. QueueIsRegistered' /\ ExitsCleanly' /\ OnlyLateChildrenSurvive'
      BY <2>0, <2>1, <3>1
    <3>4. SuccessIsFinal'
      BY <2>0, <2>1, <3>1, TerminateChildrenTells
    <3> QED
      BY <3>2, <3>3, <3>4
  <2>2. CASE triggered
    <3>1. /\ UNCHANGED <<children, registryVars>>
          /\ \/ terminus' = "triggered" /\ UNCHANGED <<at, exit>>
             \/ Exit("GENERAL_ERROR") /\ UNCHANGED terminus
      BY <1>4, <2>2 DEF TerminusTriggers
    <3> QED
      BY <2>0, <2>2, <3>1
  <2> QED
    BY <2>1, <2>2
<1>5. CASE TerminusEnds
  BY <1>5 DEF TerminusEnds, Listening
<1> QED
  BY <1>1, <1>2, <1>3, <1>4, <1>5 DEF CleanUp, Terminus

--------------------------------------------------------------------------------
(* Both together.                                                          *)

\* The phases in which an append has its resources are entered from such a phase, or
\* with a load that has resolved.
LEMMA WorkIsEnteredLoaded ==
  ASSUME LifecycleInv, Next
  PROVE  LoadedBeforeTheWork'
<1> USE DEF LoadedBeforeTheWork, LifecycleInv, mainVars, inputVars, resourceVars
<1>1. CASE Start
  BY <1>1 DEF Start, GetCli, CheckArguments, PrepareEnvironment, StartQueue, GoOn, HandlerEnds,
              shutDownFn, Exit
<1>2. CASE Resources
  <2>1. ASSUME NEW codes, AfterLoad(codes), UNCHANGED command,
               loading = "resolved" => loading' = "resolved"
        PROVE  LoadedBeforeTheWork'
    BY <2>1 DEF AfterLoad, GoOn, HandlerEnds, shutDownFn, Exit
  <2>2. CASE Fetch
    BY <1>2, <2>1, <2>2, FetchKeepsResources DEF Fetch
  <2>3. CASE Process
    BY <1>2, <2>1, <2>3 DEF Process, processed, processFails
  <2> QED
    BY <1>2, <2>2, <2>3 DEF Resources
<1>3. CASE Work \/ (\E k \in Kids : ChildEnds(k))
  BY <1>3 DEF Work, Spawn, UpToDate, WorkDone, WorkFails, HandlerFails, StreamBreaks, ChildEnds,
              NextIteration, GoOn, HandlerEnds, shutDownFn, Exit
<1>4. CASE CleanUp \/ Sigterm \/ Terminus \/ Exited \/ Hung
  BY <1>4 DEF CleanUp, ItemEnds, exitProcess, Sigterm, Terminus, TerminusTriggers,
              TerminusEnds, Exited, Hung, Exit, vars
<1> QED
  BY <1>1, <1>2, <1>3, <1>4 DEF Next

LEMMA StepKeepsLifecycle ==
  ASSUME LifecycleInv, [Next]_vars
  PROVE  LifecycleInv'
<1>1. CASE UNCHANGED vars
  BY <1>1, ProcessStutter, OthersKeepResources
  DEF LifecycleInv, LoadedBeforeTheWork, vars, inputVars, mainVars, resourceVars
<1>2. CASE Next
  <2>1. ProcessInv'
    BY <1>2, StartKeepsProcess, ResourcesKeepProcess, WorkKeepsProcess, CleanUpKeepsProcess,
       ProcessStutter
    DEF Next, LifecycleInv, Exited, Hung, vars, inputVars
  <2>2. ResourceInv'
    <3>1. CASE Start
      BY <3>1, LoadKeepsResources, OthersKeepResources
      DEF LifecycleInv, Start, GetCli, CheckArguments, PrepareEnvironment, StartQueue, inputVars
    <3>2. CASE Resources
      BY <3>2, FetchKeepsResources, ProcessKeepsResources
      DEF LifecycleInv, Resources, Fetch, Process
    <3>3. CASE UNCHANGED resourceVars
      BY <3>3, OthersKeepResources DEF LifecycleInv
    <3> QED
      BY <1>2, <3>1, <3>2, <3>3
      DEF Next, Work, Spawn, UpToDate, WorkDone, WorkFails, HandlerFails, StreamBreaks, ChildEnds,
          CleanUp, ItemEnds, exitProcess, Sigterm, Terminus, TerminusTriggers, TerminusEnds, Exited,
          Hung, vars, inputVars
  <2> QED
    BY <1>2, <2>1, <2>2, WorkIsEnteredLoaded DEF LifecycleInv
<1> QED
  BY <1>1, <1>2

HIDE DEF LifecycleInv

\* For any children and any requested resources: what a process has registered,
\* signalled and loaded at every point of its life, whatever a SIGTERM interrupts
\* (index.ts, the clean-up registry, terminus, RemoteResourceManager).
THEOREM LifecycleHolds == Safe => []LifecycleInv
<1>1. Init => LifecycleInv
  BY ProcessStart, ResourceStart DEF LifecycleInv, LoadedBeforeTheWork, Init
<1>2. LifecycleInv /\ [Next]_vars => LifecycleInv'
  BY StepKeepsLifecycle
<1> QED
  BY <1>1, <1>2, PTL DEF Safe

\* Every variable keeps its type, and only what is registered is cleaned.
THEOREM LifecycleTypes == Safe => []TypeOK
<1>1. LifecycleInv => TypeOK
  BY DEF LifecycleInv, ProcessInv, ResourceInv, TypeOK
<1> QED
  BY <1>1, LifecycleHolds, PTL

\* A process that no SIGTERM reached exits only after its clean-up (index.ts).
THEOREM ExitIsClean == Safe => []ExitsCleanly
<1>1. LifecycleInv => ExitsCleanly
  BY DEF LifecycleInv, ProcessInv
<1> QED
  BY <1>1, LifecycleHolds, PTL

\* A child that outlives the process untold was spawned after the clean-up
\* (terminateChildren, spawnChild).
THEOREM OnlyLateChildren == Safe => []OnlyLateChildrenSurvive
<1>1. LifecycleInv => OnlyLateChildrenSurvive
  BY DEF LifecycleInv, ProcessInv
<1> QED
  BY <1>1, LifecycleHolds, PTL

\* The exit code SUCCESS is that of a handler whose work is done (exitProcess).
THEOREM SuccessMeansDone == Safe => []SuccessIsDone
<1>1. LifecycleInv => SuccessIsDone
  BY DEF LifecycleInv, ProcessInv, SuccessIsFinal, SuccessIsDone
<1> QED
  BY <1>1, LifecycleHolds, PTL

\* An append works only on resources that are there, processed and valid
\* (RemoteResourceManager.load).
THEOREM WorksOnResources == Safe => []WorksOnProcessedResources
<1>1. LifecycleInv => WorksOnProcessedResources
  <2> SUFFICES ASSUME LifecycleInv, at \in {"startQueue", "work", "hung"},
                      command.name # "create", NEW r \in Requests
               PROVE  /\ r.id \in DOMAIN resourceMap
                      /\ resourceMap[r.id].processed
                      /\ r.type = "geometry" => remote[r.id] \in {"geojson", "bbox"}
    BY DEF WorksOnProcessedResources
  <2>1. loading = "resolved" /\ MapFollowsGets
    BY DEF LifecycleInv, LoadedBeforeTheWork, ResourceInv
  <2>2. r.id \in DOMAIN resourceMap
    BY <2>1 DEF MapFollowsGets
  <2>3. /\ resourceMap[r.id].processed /\ isValid(resourceMap[r.id])
        /\ resourceMap[r.id].content = remote[r.id] /\ resourceMap[r.id].type = r.type
    BY <2>1, <2>2 DEF MapFollowsGets
  <2> QED
    BY <2>2, <2>3 DEF isValid
<1> QED
  BY <1>1, LifecycleHolds, PTL
=============================================================================
