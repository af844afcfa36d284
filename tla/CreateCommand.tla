----------------------------- MODULE CreateCommand -----------------------------
(***************************************************************************)
(* The create command: the handler of createFactory with the CreateManager *)
(* operations it awaits, between the mediator, MDR, a dump server that     *)
(* goes on publishing dumps, and the database.                             *)
(*                                                                         *)
(* As in AppendManager a step is the answer to the call that "pc" names    *)
(* and the code up to the next one.  A failed or killed create is started  *)
(* again, by the restart policy of its job or by whoever ran it.           *)
(***************************************************************************)
EXTENDS Mediator, Mdr, Clients

CONSTANTS StateOverrides,   \* the values of the stateOverride argument, or NoState
          Unnumbered,       \* dumps the dump server has no sequenceNumber for
          MaxDumps,         \* bound: the dumps that are ever published
          MaxFaults         \* bound: failed calls, broken streams and crashes

NoState == -1
DEFAULT_PROJECT_CREATION_STATE == 1

ASSUME StateOverridesAssumption == StateOverrides \subseteq Nat \cup {NoState}
ASSUME MaxDumpsAssumption == MaxDumps \in Nat \ {0} /\ Unnumbered \subseteq 1 .. MaxDumps
ASSUME CreateFaultsAssumption == MaxFaults \in Nat

\* A dump is the sequence number of the data in it; NoDump is no dump at all.
NoDump == 0
NoFile == [dump |-> NoDump, complete |-> FALSE]

\* The dump behind a plain url, or in a local file.
PlainDump == MaxDumps

DumpSourceTypes == {"LOCAL_FILE", "REMOTE_URL", "DUMP_SERVER"}

VARIABLES dumpSourceType, stateOverride,    \* the arguments of the command
          dumps,        \* the dumps published so far are 1 .. dumps
          metadata,     \* the dump whose url is being fetched
          dumpFile,     \* the dump file on the local disk
          localDump,    \* the sequenceNumber loadDump returned
          database,     \* the dump the tables come from
          pc, failure, exitCode,
          closedAs,     \* the status the last action was closed with
          faults

createVars == <<dumps, metadata, dumpFile, localDump, database>>
controlVars == <<pc, failure, exitCode, closedAs, faults>>
arguments == <<dumpSourceType, stateOverride>>
vars == <<mediatorVars, mdrVars, createVars, controlVars, arguments>>

Statuses == {"OPEN", "COMPLETED", "FAILED"}

Awaits ==
  {"reserveAccess", "getDumpsMetadata", "getDump", "streamToFs", "brokenStream",
   "createAction", "removeLock", "load", "osm2pgsql", "getStatus",
   "postEnrollment", "complete", "fail", "down"}

\* The tables of an earlier project, or none; the dump server may be empty; a
\* local file is there, which dumpSourceCheck sees to.
Init ==
  /\ MediatorInit
  /\ MdrInit
  /\ dumpSourceType \in DumpSourceTypes
  /\ stateOverride \in StateOverrides
  /\ dumps \in 0 .. MaxDumps
  /\ metadata = NoDump
  /\ dumpFile = IF dumpSourceType = "LOCAL_FILE" THEN [dump |-> PlainDump, complete |-> TRUE] ELSE NoFile
  /\ localDump = NoState
  /\ database = NoFile
  /\ pc = "reserveAccess"
  /\ failure = "NONE"
  /\ exitCode = "NONE"
  /\ closedAs = "OPEN"
  /\ faults = 0

At(call) == pc = call

Goto(call) == pc' = call /\ UNCHANGED <<failure, exitCode, closedAs>>

NoFault == UNCHANGED faults
Fault == faults < MaxFaults /\ faults' = faults + 1

\* A rejection inside the try block: the catch clause awaits updateAction(FAILED).
Reject(code) ==
  /\ pc' = "fail"
  /\ failure' = code
  /\ UNCHANGED <<exitCode, closedAs>>

\* The end of the process; what it holds in the mediator is left behind.
Exit(code, action) ==
  /\ pc' = "down"
  /\ exitCode' = code
  /\ abandon(lockAtExit, action)
  /\ UNCHANGED failure

--------------------------------------------------------------------------------
\* A mediator call of the try block, which fails with or without its effect.
MediatorCall(call, operation, next) ==
  /\ At(call)
  /\ \/ operation /\ Goto(next) /\ NoFault
     \/ /\ MediatorEnabled /\ Fault
        /\ operation \/ UNCHANGED mediatorVars
        /\ Reject("GENERAL_ERROR")
  /\ UNCHANGED <<mdrVars, createVars>>

StartOfLoadDump ==
  CASE dumpSourceType = "LOCAL_FILE" -> "createAction"
    [] dumpSourceType = "REMOTE_URL" -> "getDump"
    [] OTHER -> "getDumpsMetadata"

\* stateOverride ?? sequenceNumber of the metadata ?? the default; a dump behind a
\* plain url or in a local file comes without metadata.
sequenceNumberOf(dump) ==
  IF stateOverride # NoState THEN stateOverride
  ELSE IF dump \in Unnumbered \cup {NoDump} THEN DEFAULT_PROJECT_CREATION_STATE
  ELSE dump

\* A local file needs no call, so that the lock is followed by the action.
Reserve ==
  /\ At("reserveAccess")
  /\ \/ /\ reserveAccess /\ Goto(StartOfLoadDump) /\ NoFault
        /\ localDump' = IF dumpSourceType = "LOCAL_FILE" THEN sequenceNumberOf(NoDump) ELSE localDump
     \/ /\ MediatorEnabled /\ lock = "left"
        /\ Reject("GENERAL_ERROR") /\ NoFault
        /\ UNCHANGED <<mediatorVars, localDump>>
     \/ /\ MediatorEnabled /\ Fault
        /\ reserveAccess \/ UNCHANGED mediatorVars
        /\ Reject("GENERAL_ERROR")
        /\ UNCHANGED localDump
  /\ UNCHANGED <<mdrVars, dumps, metadata, dumpFile, database>>

\* A variant with a plausible slip: the limit of the request is 0.
GetDumpsMetadataOfNone ==
  /\ At("getDumpsMetadata")
  /\ UNCHANGED metadata /\ NoFault
  /\ Reject("DUMP_SERVER_EMPTY_RESPONSE_ERROR")
  /\ UNCHANGED <<mediatorVars, mdrVars, dumps, dumpFile, localDump, database>>

\* The latest dump, by the metadata of the dump server.
GetDumpsMetadata ==
  /\ At("getDumpsMetadata")
  /\ \/ dumps # 0 /\ metadata' = dumps /\ Goto("getDump") /\ NoFault
     \/ /\ dumps = 0 /\ UNCHANGED metadata /\ NoFault
        /\ Reject("DUMP_SERVER_EMPTY_RESPONSE_ERROR")
     \/ /\ Fault /\ UNCHANGED metadata
        /\ \E code \in invokeHttp : Reject(code)
  /\ UNCHANGED <<mediatorVars, mdrVars, dumps, dumpFile, localDump, database>>

\* A variant with a plausible slip: the file is fetched as the server's latest.
GetDumpLatest ==
  /\ At("getDump")
  /\ dumpFile' = [dump |-> IF dumps # 0 THEN dumps ELSE PlainDump, complete |-> FALSE]
  /\ Goto("streamToFs") /\ NoFault
  /\ UNCHANGED <<mediatorVars, mdrVars, dumps, metadata, localDump, database>>

\* The response has started: its stream is piped into a file that is created, or
\* truncated, at the same moment.
GetDump ==
  /\ At("getDump")
  /\ \/ /\ dumpFile' = [dump |-> IF metadata # NoDump THEN metadata ELSE PlainDump, complete |-> FALSE]
        /\ Goto("streamToFs") /\ NoFault
     \/ /\ Fault /\ UNCHANGED dumpFile
        /\ \E code \in invokeHttp : Reject(code)
  /\ UNCHANGED <<mediatorVars, mdrVars, dumps, metadata, localDump, database>>

\* A variant with a plausible slip: the end of the file is not awaited.
StreamToFsUnawaited ==
  /\ At("streamToFs")
  /\ UNCHANGED dumpFile
  /\ localDump' = sequenceNumberOf(metadata)
  /\ Goto("createAction") /\ NoFault
  /\ UNCHANGED <<mediatorVars, mdrVars, dumps, metadata, database>>

\* The file is written; or writing fails; or the response breaks, after which the
\* pipe never ends the file and the promise never settles.
StreamToFs ==
  /\ At("streamToFs")
  /\ \/ /\ dumpFile' = [dumpFile EXCEPT !.complete = TRUE]
        /\ localDump' = sequenceNumberOf(metadata)
        /\ Goto("createAction") /\ NoFault
     \/ /\ Fault /\ UNCHANGED <<dumpFile, localDump>>
        /\ \/ \E code \in streamToFs : Reject(code)
           \/ Goto("brokenStream")
  /\ UNCHANGED <<mediatorVars, mdrVars, dumps, metadata, database>>

CreateAction == MediatorCall("createAction", createAction(localDump), "removeLock")

\* A variant with a plausible slip: the lock is kept during the import.
UnlockForgotten == MediatorCall("removeLock", UNCHANGED mediatorVars, "load")

Unlock == MediatorCall("removeLock", removeLock, "load")

\* The script is loaded; then osm2pgsql drops the tables and starts to import.
Load ==
  /\ At("load")
  /\ \/ /\ Goto("osm2pgsql") /\ NoFault
        /\ database' = [dump |-> dumpFile.dump, complete |-> FALSE]
     \/ /\ Fault /\ UNCHANGED database
        /\ \E code \in load : Reject(code)
  /\ UNCHANGED <<mediatorVars, mdrVars, dumps, metadata, dumpFile, localDump>>

\* A child that fails may have imported everything; every import that completes
\* is one change to MDR.
Osm2pgsqlCreate ==
  /\ At("osm2pgsql")
  /\ \/ /\ database' = dumpFile
        /\ recordChange("create", localDump)
        /\ Goto(IF MdrEnabled THEN "getStatus" ELSE "complete") /\ NoFault
     \/ /\ Fault
        /\ \/ database' = dumpFile /\ recordChange("create", localDump)
           \/ UNCHANGED <<database, mdrVars>>
        /\ \E code \in commandWrapper("osm2pgsql") : Reject(code)
  /\ UNCHANGED <<mediatorVars, dumps, metadata, dumpFile, localDump>>

GetStatus ==
  /\ At("getStatus")
  /\ \/ getPostStatus /\ Goto("postEnrollment") /\ NoFault
     \/ Fault /\ (\E code \in getStatus : Reject(code)) /\ UNCHANGED mdrVars
  /\ UNCHANGED <<mediatorVars, createVars>>

\* The full range, "latest ?? 0".
enrollFull(state) ==
  /\ enrollments' = enrollments \cup
       {[state |-> state, from |-> 0, to |-> IF postLatest = -1 THEN 0 ELSE postLatest]}
  /\ UNCHANGED <<changes, preLatest, postLatest>>

PostEnrollment ==
  /\ At("postEnrollment")
  /\ \/ enrollFull(localDump) /\ Goto("complete") /\ NoFault
     \/ /\ Fault /\ (\E code \in getStatus : Reject(code))
        /\ enrollFull(localDump) \/ UNCHANGED mdrVars
  /\ UNCHANGED <<mediatorVars, createVars>>

\* updateAction(COMPLETED) is inside the try block: when it fails, the catch
\* clause closes the same action once more, as failed.
Complete ==
  /\ At("complete")
  /\ \/ Exit("SUCCESS", NoAction) /\ closedAs' = "COMPLETED" /\ NoFault
     \/ /\ MediatorEnabled /\ Fault
        /\ \/ updateAction /\ closedAs' = "COMPLETED"
           \/ UNCHANGED <<mediatorVars, closedAs>>
        /\ pc' = "fail" /\ failure' = "GENERAL_ERROR" /\ UNCHANGED exitCode
  /\ UNCHANGED <<mdrVars, createVars>>

\* A variant with a plausible slip: the error ends in the catch clause.
FailSwallows ==
  /\ At("fail")
  /\ Exit("SUCCESS", NoAction) /\ closedAs' = "FAILED" /\ NoFault
  /\ UNCHANGED <<mdrVars, createVars>>

\* An action that a failed call has closed as completed may be closed again.
statusAfterFail ==
  CASE openAction # NoAction -> {"FAILED"}
    [] openAction = NoAction /\ closedAs = "COMPLETED" -> {"COMPLETED", "FAILED"}
    [] OTHER -> {closedAs}

\* The catch clause; without an open action the mediator may refuse the update,
\* and its error replaces the one that is being handled.  The lock is not removed.
Fail ==
  /\ At("fail")
  /\ \/ /\ Exit(failure, NoAction) /\ NoFault
        /\ closedAs' \in statusAfterFail
     \/ /\ MediatorEnabled /\ openAction = NoAction
        /\ Exit("GENERAL_ERROR", NoAction) /\ NoFault /\ UNCHANGED closedAs
     \/ /\ MediatorEnabled /\ Fault
        /\ Exit("GENERAL_ERROR", openAction) /\ UNCHANGED closedAs
  /\ UNCHANGED <<mdrVars, createVars>>

--------------------------------------------------------------------------------
\* The process is killed; an osm2pgsql child may still finish its import, and is
\* gone before the command is run again.
Crash ==
  /\ pc # "down"
  /\ Fault
  /\ Exit("KILLED", openAction)
  /\ \/ pc = "osm2pgsql" /\ database' = dumpFile /\ recordChange("create", localDump)
     \/ UNCHANGED <<database, mdrVars>>
  /\ UNCHANGED <<closedAs, dumps, metadata, dumpFile, localDump, arguments>>

\* The next run, with the same arguments and the files the last one left on the disk.
Rerun ==
  /\ pc = "down" /\ exitCode # "SUCCESS"
  /\ pc' = "reserveAccess"
  /\ failure' = "NONE" /\ exitCode' = "NONE" /\ closedAs' = "OPEN"
  /\ metadata' = NoDump
  /\ localDump' = NoState
  /\ NoFault
  /\ UNCHANGED <<mediatorVars, mdrVars, dumps, dumpFile, database, arguments>>

DumpServerPublishes ==
  /\ dumps < MaxDumps
  /\ dumps' = dumps + 1
  /\ UNCHANGED <<mediatorVars, mdrVars, metadata, dumpFile, localDump, database, controlVars,
                 arguments>>

LockExpires == expireLock /\ UNCHANGED <<mdrVars, createVars, controlVars, arguments>>

Created == pc = "down" /\ exitCode = "SUCCESS" /\ UNCHANGED vars

Stalled == pc = "brokenStream" /\ UNCHANGED vars

Handler ==
  /\ \/ Reserve \/ GetDumpsMetadata \/ GetDump \/ StreamToFs \/ CreateAction \/ Unlock
     \/ Load \/ Osm2pgsqlCreate \/ GetStatus \/ PostEnrollment \/ Complete \/ Fail
  /\ UNCHANGED arguments

Next ==
  \/ Handler \/ Crash \/ Rerun \/ DumpServerPublishes \/ LockExpires \/ Created \/ Stalled

Safe == Init /\ [][Next]_vars

\* Every call but a broken stream answers, a left lock expires, and the command is
\* run again until it succeeds.  Nobody has to publish another dump.
Spec == Safe /\ WF_vars(Handler) /\ WF_vars(LockExpires) /\ WF_vars(Rerun)
================================================================================
