---------------------------- MODULE CreateProperties ---------------------------
(***************************************************************************)
(* What must hold of the create command, stated over CreateCommand.        *)
(***************************************************************************)
EXTENDS CreateCommand

\* An action is closed as COMPLETED, and the process exits with SUCCESS, only when
\* the tables hold the whole dump that was loaded, MDR has been told of every change
\* under the state of that dump, and nothing of the mediator is left behind, in
\* whatever run that is after however many failed ones.
CompletedMeansImported ==
  /\ (closedAs = "COMPLETED" \/ exitCode = "SUCCESS") =>
       /\ database.complete /\ database = dumpFile
       /\ MdrEnabled => \E en \in enrollments :
            en.state = localDump /\ en.from = 0 /\ en.to >= latest
  /\ exitCode = "SUCCESS" => lock = "free" /\ openAction = NoAction

\* The tables are touched only while the action of the state they will have is
\* open and the lock is released: a process that leaves its lock behind, which
\* any failure of loadDump makes it do, has left the tables alone.
TablesChangeUnderAction ==
  [][database' # database =>
       lock = "free" /\ (MediatorEnabled => openAction = localDump)]_vars

\* The state of a project created from the dump server is that of the dump in its
\* tables, although newer dumps are published while the older one is fetched
\* (loadDump: metadata first, then the file behind its url).
StateIsOfTheDump ==
  /\ dumpSourceType = "DUMP_SERVER" /\ stateOverride = NoState
  /\ pc \in {"osm2pgsql", "getStatus", "postEnrollment", "complete"}
  /\ database.dump \notin Unnumbered
  => localDump = database.dump

\* osm2pgsql is never given a file that is still being written or that an earlier
\* run left unfinished under the same name.
WholeDumpOnly == pc = "osm2pgsql" => dumpFile.complete

--------------------------------------------------------------------------------
(* The inductive strengthening of the four.                                *)

Dump == [dump : 0 .. MaxDumps, complete : BOOLEAN]

ServiceTypeOK ==
  /\ lock \in {"free", "ours", "left"}
  /\ openAction \in Nat \cup {NoAction}
  /\ abandonedActions \subseteq Nat
  /\ changes \in Seq({"create"} \X Nat)
  /\ postLatest \in Int
  /\ enrollments \subseteq [state : Nat, from : Int, to : Int]

DataTypeOK ==
  /\ dumpSourceType \in DumpSourceTypes /\ stateOverride \in StateOverrides
  /\ dumps \in 0 .. MaxDumps /\ metadata \in 0 .. MaxDumps
  /\ dumpFile \in Dump /\ database \in Dump
  /\ localDump \in Nat \cup {NoState}

ControlTypeOK ==
  /\ pc \in Awaits
  /\ failure \in ExitCodes \ {"SUCCESS"} /\ exitCode \in ExitCodes
  /\ closedAs \in Statuses
  /\ faults \in 0 .. MaxFaults

\* Every variable of the command has its type; no error has the code of a success.
TypeOK == ServiceTypeOK /\ DataTypeOK /\ ControlTypeOK

\* From the import on the tables come from the dump file; from the end of loadDump
\* on that file is whole and the state of the project is known.
Importing == {"osm2pgsql", "getStatus", "postEnrollment", "complete"}
Unlocked == {"load"} \cup Importing
Loaded == {"createAction", "removeLock"} \cup Unlocked

Enrolled == \E en \in enrollments : en.state = localDump /\ en.from = 0 /\ en.to >= latest

\* The file is never written by a run that has it as its argument.
FileIsWhole ==
  /\ dumpSourceType = "LOCAL_FILE" =>
       dumpFile.complete /\ pc \notin {"getDumpsMetadata", "getDump", "streamToFs", "brokenStream"}
  /\ pc \in Loaded => dumpFile.complete /\ localDump \in Nat

\* The file and the state of the project follow from the metadata that was fetched.
StateFollowsMetadata ==
  dumpSourceType = "DUMP_SERVER" =>
    /\ pc \in {"getDump", "streamToFs"} \cup Loaded => metadata # NoDump
    /\ pc \in {"streamToFs"} \cup Loaded => dumpFile.dump = metadata
    /\ pc \in Loaded => localDump = sequenceNumberOf(metadata)

TablesFollowFile ==
  /\ pc \in Importing => database.dump = dumpFile.dump
  /\ pc \in Importing \ {"osm2pgsql"} => database = dumpFile

\* What MDR has been told by then.
EnrollmentFollows ==
  /\ pc \in {"getStatus", "postEnrollment"} => MdrEnabled
  /\ pc = "postEnrollment" => postLatest = latest
  /\ (pc = "complete" /\ MdrEnabled) => Enrolled

\* The lock is gone before the import, and an action is open from its creation on.
MediatorFollows ==
  /\ pc \in Unlocked => lock = "free"
  /\ ~MediatorEnabled => lock = "free" /\ openAction = NoAction
  /\ pc \notin (Loaded \ {"createAction"}) \cup {"fail"} => openAction = NoAction
  /\ (MediatorEnabled /\ pc \in Loaded \ {"createAction"}) => openAction = localDump

\* How a run ends.
EndFollows ==
  /\ pc \notin {"fail", "down"} => closedAs = "OPEN"
  /\ pc # "down" => exitCode = "NONE"

CreateInv ==
  /\ TypeOK
  /\ FileIsWhole
  /\ StateFollowsMetadata
  /\ TablesFollowFile
  /\ EnrollmentFollows
  /\ MediatorFollows
  /\ EndFollows
  /\ CompletedMeansImported

--------------------------------------------------------------------------------
\* Run again after every failure, the command succeeds, unless the stream of a dump
\* breaks for good or the dump server stays empty.
CreateEnds ==
  \/ <>[](pc = "brokenStream")
  \/ dumpSourceType = "DUMP_SERVER" /\ [](dumps = 0)
  \/ <>(pc = "down" /\ exitCode = "SUCCESS")
================================================================================
