------------------------------ MODULE CreateProofs ------------------------------
(***************************************************************************)
(* The proofs about CreateCommand: its inductive invariant, and what       *)
(* follows from it of the tables, the state and the enrollment of a        *)
(* created project.                                                        *)
(***************************************************************************)
EXTENDS CreateProperties, TLAPS

USE StateOverridesAssumption, MaxDumpsAssumption, CreateFaultsAssumption, MediatorAssumption,
    MdrAssumption
    DEF CreateInv, TypeOK, ServiceTypeOK, DataTypeOK, ControlTypeOK, Dump, Importing, Unlocked,
        Loaded, FileIsWhole, StateFollowsMetadata, TablesFollowFile, EnrollmentFollows,
        MediatorFollows, EndFollows, CompletedMeansImported, NoDump, NoState, NoAction, Statuses,
        DumpSourceTypes

\* The exit codes of the calls are exit codes, and none is that of a success.
LEMMA CodesOfFailures ==
  invokeHttp \cup streamToFs \cup load \cup getStatus \cup commandWrapper("osm2pgsql")
      \cup {"GENERAL_ERROR", "DUMP_SERVER_EMPTY_RESPONSE_ERROR", "KILLED", "NONE"}
    \subseteq ExitCodes \ {"SUCCESS"}
  BY DEF ExitCodes, plainError, load, getResourcesFromRemote, processResources, invokeHttp,
         streamToFs, getStatus, commandWrapper

\* The state of a project is a number, whatever dump it comes from.
LEMMA StateIsNumber ==
  ASSUME stateOverride \in StateOverrides, NEW dump \in 0 .. MaxDumps
  PROVE  sequenceNumberOf(dump) \in Nat
  BY DEF sequenceNumberOf, DEFAULT_PROJECT_CREATION_STATE

\* A dump and whether it is there as a whole.
LEMMA DumpTyped ==
  ASSUME NEW dump \in 0 .. MaxDumps
  PROVE  /\ [dump |-> dump, complete |-> FALSE] \in Dump
         /\ [dump |-> dump, complete |-> TRUE] \in Dump
  BY Zenon

\* Every change of the tables is one of this command.
LEMMA ChangeTyped ==
  ASSUME changes \in Seq({"create"} \X Nat),
         UNCHANGED changes \/ (localDump \in Nat /\ recordChange("create", localDump))
  PROVE  changes' \in Seq({"create"} \X Nat)
<1>1. CASE UNCHANGED changes
  BY <1>1
<1>2. CASE localDump \in Nat /\ recordChange("create", localDump)
  <2>1. <<"create", localDump>> \in {"create"} \X Nat
    BY <1>2
  <2> QED
    BY <1>2, <2>1 DEF recordChange
<1> QED
  BY <1>1, <1>2

\* No run has started yet.
LEMMA CreateInit == Init => CreateInv
<1> SUFFICES ASSUME Init PROVE CreateInv
  OBVIOUS
<1>1. failure \in ExitCodes \ {"SUCCESS"} /\ exitCode \in ExitCodes /\ pc \in Awaits
  BY DEF Init, ExitCodes, Awaits
<1>2. dumpFile \in Dump /\ database \in Dump
  BY DEF Init, NoFile, PlainDump
<1> QED
  BY <1>1, <1>2 DEF Init, MediatorInit, MdrInit, NoFile

\* A step that changes nothing keeps the invariant.
LEMMA CreateStutter == CreateInv /\ UNCHANGED vars => CreateInv'
  BY DEF vars, mediatorVars, mdrVars, createVars, controlVars, arguments, Enrolled, latest,
         sequenceNumberOf

\* The steps of loadDump.
LEMMA LoadDumpKeeps ==
  ASSUME CreateInv, UNCHANGED arguments,
         Reserve \/ GetDumpsMetadata \/ GetDump \/ StreamToFs
  PROVE  CreateInv'
<1> USE CodesOfFailures, StateIsNumber
        DEF At, Goto, Reject, NoFault, Fault, Awaits, mediatorVars, mdrVars, createVars, arguments,
            Enrolled, latest
<1>1. CASE Reserve
  <2>1. ServiceTypeOK'
    BY <1>1 DEF Reserve, reserveAccess, StartOfLoadDump, sequenceNumberOf
  <2>2. DataTypeOK'
    BY <1>1 DEF Reserve, reserveAccess, StartOfLoadDump, sequenceNumberOf
  <2>3. ControlTypeOK'
    BY <1>1 DEF Reserve, reserveAccess, StartOfLoadDump, sequenceNumberOf
  <2>4. FileIsWhole' /\ StateFollowsMetadata' /\ TablesFollowFile'
    BY <1>1 DEF Reserve, reserveAccess, StartOfLoadDump, sequenceNumberOf
  <2>5. EnrollmentFollows' /\ MediatorFollows' /\ EndFollows'
    BY <1>1 DEF Reserve, reserveAccess, StartOfLoadDump, sequenceNumberOf
  <2>6. CompletedMeansImported'
    BY <1>1 DEF Reserve, reserveAccess, StartOfLoadDump, sequenceNumberOf
  <2> QED
    BY <2>1, <2>2, <2>3, <2>4, <2>5, <2>6
<1>2. CASE GetDumpsMetadata
  <2>1. ServiceTypeOK' /\ DataTypeOK'
    BY <1>2 DEF GetDumpsMetadata
  <2>2. ControlTypeOK'
    BY <1>2 DEF GetDumpsMetadata
  <2>3. FileIsWhole' /\ StateFollowsMetadata' /\ TablesFollowFile' /\ EnrollmentFollows'
    BY <1>2 DEF GetDumpsMetadata
  <2>4. MediatorFollows' /\ EndFollows' /\ CompletedMeansImported'
    BY <1>2 DEF GetDumpsMetadata
  <2> QED
    BY <2>1, <2>2, <2>3, <2>4
<1>3. CASE GetDump
  <2>1. ServiceTypeOK'
    BY <1>3 DEF GetDump, PlainDump
  <2>2. DataTypeOK'
    <3>1. \/ dumpFile' = dumpFile
          \/ \E d \in 0 .. MaxDumps : dumpFile' = [dump |-> d, complete |-> FALSE]
      BY <1>3 DEF GetDump, PlainDump
    <3>2. dumpFile' \in Dump
      BY <3>1, DumpTyped
    <3> QED
      BY <1>3, <3>2 DEF GetDump
  <2>3. ControlTypeOK'
    BY <1>3 DEF GetDump, PlainDump
  <2>4. FileIsWhole' /\ StateFollowsMetadata' /\ TablesFollowFile'
    BY <1>3 DEF GetDump, PlainDump
  <2>5. EnrollmentFollows' /\ MediatorFollows' /\ EndFollows'
    BY <1>3 DEF GetDump, PlainDump
  <2>6. CompletedMeansImported'
    BY <1>3 DEF GetDump, PlainDump
  <2> QED
    BY <2>1, <2>2, <2>3, <2>4, <2>5, <2>6
<1>4. CASE StreamToFs
  <2>1. ServiceTypeOK'
    BY <1>4 DEF StreamToFs, sequenceNumberOf
  <2>2. DataTypeOK'
    <3>1. dumpFile' = dumpFile \/ dumpFile' = [dump |-> dumpFile.dump, complete |-> TRUE]
      BY <1>4 DEF StreamToFs
    <3>2. dumpFile' \in Dump
      BY <3>1, DumpTyped
    <3>3. localDump' = localDump \/ localDump' = sequenceNumberOf(metadata)
      BY <1>4 DEF StreamToFs
    <3> QED
      BY <1>4, <3>2, <3>3 DEF StreamToFs
  <2>3. ControlTypeOK'
    BY <1>4 DEF StreamToFs, sequenceNumberOf
  <2>4. FileIsWhole' /\ StateFollowsMetadata' /\ TablesFollowFile'
    BY <1>4 DEF StreamToFs, sequenceNumberOf
  <2>5. EnrollmentFollows' /\ MediatorFollows' /\ EndFollows'
    BY <1>4 DEF StreamToFs, sequenceNumberOf
  <2>6. CompletedMeansImported'
    BY <1>4 DEF StreamToFs, sequenceNumberOf
  <2> QED
    BY <2>1, <2>2, <2>3, <2>4, <2>5, <2>6
<1> QED
  BY <1>1, <1>2, <1>3, <1>4

\* The calls of the mediator.
LEMMA MediatorKeeps ==
  ASSUME CreateInv, UNCHANGED arguments, CreateAction \/ Unlock \/ Complete \/ Fail
  PROVE  CreateInv'
<1> USE CodesOfFailures, StateIsNumber
        DEF At, Goto, Reject, NoFault, Fault, Awaits, mediatorVars, mdrVars, createVars, arguments,
            Enrolled, latest
<1>1. CASE CreateAction
  <2>1. ServiceTypeOK'
    BY <1>1 DEF CreateAction, MediatorCall, createAction, sequenceNumberOf
  <2>2. DataTypeOK'
    BY <1>1 DEF CreateAction, MediatorCall, createAction, sequenceNumberOf
  <2>3. ControlTypeOK'
    BY <1>1 DEF CreateAction, MediatorCall, createAction, sequenceNumberOf
  <2>4. FileIsWhole' /\ StateFollowsMetadata' /\ TablesFollowFile'
    BY <1>1 DEF CreateAction, MediatorCall, createAction, sequenceNumberOf
  <2>5. EnrollmentFollows' /\ MediatorFollows' /\ EndFollows'
    BY <1>1 DEF CreateAction, MediatorCall, createAction, sequenceNumberOf
  <2>6. CompletedMeansImported'
    BY <1>1 DEF CreateAction, MediatorCall, createAction, sequenceNumberOf
  <2> QED
    BY <2>1, <2>2, <2>3, <2>4, <2>5, <2>6
<1>2. CASE Unlock
  <2>1. ServiceTypeOK'
    BY <1>2 DEF Unlock, MediatorCall, removeLock, sequenceNumberOf
  <2>2. DataTypeOK'
    BY <1>2 DEF Unlock, MediatorCall, removeLock, sequenceNumberOf
  <2>3. ControlTypeOK'
    BY <1>2 DEF Unlock, MediatorCall, removeLock, sequenceNumberOf
  <2>4. FileIsWhole' /\ StateFollowsMetadata' /\ TablesFollowFile'
    BY <1>2 DEF Unlock, MediatorCall, removeLock, sequenceNumberOf
  <2>5. EnrollmentFollows' /\ MediatorFollows' /\ EndFollows'
    BY <1>2 DEF Unlock, MediatorCall, removeLock, sequenceNumberOf
  <2>6. CompletedMeansImported'
    BY <1>2 DEF Unlock, MediatorCall, removeLock, sequenceNumberOf
  <2> QED
    BY <2>1, <2>2, <2>3, <2>4, <2>5, <2>6
<1>3. CASE Complete
  <2>1. ServiceTypeOK'
    BY <1>3 DEF Complete, Exit, abandon, lockAtExit, updateAction, ExitCodes
  <2>2. DataTypeOK'
    BY <1>3 DEF Complete, Exit, abandon, lockAtExit, updateAction, ExitCodes
  <2>3. ControlTypeOK'
    BY <1>3 DEF Complete, Exit, abandon, lockAtExit, updateAction, ExitCodes
  <2>4. FileIsWhole' /\ StateFollowsMetadata' /\ TablesFollowFile'
    BY <1>3 DEF Complete, Exit, abandon, lockAtExit, updateAction, ExitCodes
  <2>5. EnrollmentFollows' /\ MediatorFollows' /\ EndFollows'
    BY <1>3 DEF Complete, Exit, abandon, lockAtExit, updateAction, ExitCodes
  <2>6. CompletedMeansImported'
    BY <1>3 DEF Complete, Exit, abandon, lockAtExit, updateAction, ExitCodes
  <2> QED
    BY <2>1, <2>2, <2>3, <2>4, <2>5, <2>6
<1>4. CASE Fail
  <2>1. ServiceTypeOK' /\ DataTypeOK'
    BY <1>4 DEF Fail, Exit, abandon, lockAtExit, statusAfterFail
  <2>2. ControlTypeOK'
    BY <1>4 DEF Fail, Exit, abandon, lockAtExit, statusAfterFail
  <2>3. FileIsWhole' /\ StateFollowsMetadata' /\ TablesFollowFile' /\ EnrollmentFollows'
    BY <1>4 DEF Fail, Exit, abandon, lockAtExit, statusAfterFail
  <2>4. MediatorFollows' /\ EndFollows' /\ CompletedMeansImported'
    BY <1>4 DEF Fail, Exit, abandon, lockAtExit, statusAfterFail
  <2> QED
    BY <2>1, <2>2, <2>3, <2>4
<1> QED
  BY <1>1, <1>2, <1>3, <1>4

\* The import and its enrollment with MDR.
LEMMA ImportKeeps ==
  ASSUME CreateInv, UNCHANGED arguments, Load \/ Osm2pgsqlCreate \/ GetStatus \/ PostEnrollment
  PROVE  CreateInv'
<1> USE CodesOfFailures, StateIsNumber
        DEF At, Goto, Reject, NoFault, Fault, Awaits, mediatorVars, mdrVars, createVars, arguments,
            Enrolled, latest
<1>1. CASE Load
  <2>1. ServiceTypeOK'
    BY <1>1 DEF Load, sequenceNumberOf
  <2>2. DataTypeOK'
    <3>1. database' = database \/ database' = [dump |-> dumpFile.dump, complete |-> FALSE]
      BY <1>1 DEF Load
    <3>2. database' \in Dump
      BY <3>1, DumpTyped
    <3> QED
      BY <1>1, <3>2 DEF Load
  <2>3. ControlTypeOK'
    BY <1>1 DEF Load, sequenceNumberOf
  <2>4. FileIsWhole' /\ StateFollowsMetadata' /\ TablesFollowFile'
    BY <1>1 DEF Load, sequenceNumberOf
  <2>5. EnrollmentFollows' /\ MediatorFollows' /\ EndFollows'
    BY <1>1 DEF Load, sequenceNumberOf
  <2>6. CompletedMeansImported'
    BY <1>1 DEF Load, sequenceNumberOf
  <2> QED
    BY <2>1, <2>2, <2>3, <2>4, <2>5, <2>6
<1>2. CASE Osm2pgsqlCreate
  <2>1. ServiceTypeOK'
    <3>1. UNCHANGED changes \/ (localDump \in Nat /\ recordChange("create", localDump))
      BY <1>2 DEF Osm2pgsqlCreate
    <3>2. changes' \in Seq({"create"} \X Nat)
      BY <3>1, ChangeTyped
    <3> QED
      BY <1>2, <3>2 DEF Osm2pgsqlCreate, recordChange
  <2>2. DataTypeOK'
    BY <1>2 DEF Osm2pgsqlCreate, recordChange, sequenceNumberOf
  <2>3. ControlTypeOK'
    BY <1>2 DEF Osm2pgsqlCreate, recordChange, sequenceNumberOf
  <2>4. FileIsWhole' /\ StateFollowsMetadata' /\ TablesFollowFile'
    BY <1>2 DEF Osm2pgsqlCreate, recordChange, sequenceNumberOf
  <2>5. EnrollmentFollows' /\ MediatorFollows' /\ EndFollows'
    BY <1>2 DEF Osm2pgsqlCreate, recordChange, sequenceNumberOf
  <2>6. CompletedMeansImported'
    BY <1>2 DEF Osm2pgsqlCreate, recordChange, sequenceNumberOf
  <2> QED
    BY <2>1, <2>2, <2>3, <2>4, <2>5, <2>6
<1>3. CASE GetStatus
  BY <1>3 DEF GetStatus, getPostStatus, sequenceNumberOf
<1>4. CASE PostEnrollment
  <2>1. ServiceTypeOK'
    BY <1>4 DEF PostEnrollment, enrollFull, sequenceNumberOf
  <2>2. DataTypeOK'
    BY <1>4 DEF PostEnrollment, enrollFull, sequenceNumberOf
  <2>3. ControlTypeOK'
    BY <1>4 DEF PostEnrollment, enrollFull, sequenceNumberOf
  <2>4. FileIsWhole' /\ StateFollowsMetadata' /\ TablesFollowFile'
    BY <1>4 DEF PostEnrollment, enrollFull, sequenceNumberOf
  <2>5. EnrollmentFollows' /\ MediatorFollows' /\ EndFollows'
    <3>1. (enrollFull(localDump) /\ UNCHANGED localDump) => Enrolled'
      <4> DEFINE new == [state |-> localDump, from |-> 0,
                         to |-> IF postLatest = -1 THEN 0 ELSE postLatest]
      <4>1. new.to >= latest
        BY <1>4 DEF PostEnrollment
      <4> QED
        BY <4>1 DEF enrollFull
    <3> QED
      BY <1>4, <3>1 DEF PostEnrollment, enrollFull
  <2>6. CompletedMeansImported'
    BY <1>4 DEF PostEnrollment, enrollFull, sequenceNumberOf
  <2> QED
    BY <2>1, <2>2, <2>3, <2>4, <2>5, <2>6
<1> QED
  BY <1>1, <1>2, <1>3, <1>4

\* What happens around the handler.
LEMMA EnvironmentKeeps ==
  CreateInv /\ (Crash \/ Rerun \/ DumpServerPublishes \/ LockExpires) => CreateInv'
<1> SUFFICES ASSUME CreateInv, Crash \/ Rerun \/ DumpServerPublishes \/ LockExpires
             PROVE  CreateInv'
  OBVIOUS
<1> USE CodesOfFailures DEF NoFault, Fault, Awaits, mediatorVars, mdrVars, createVars, controlVars,
        arguments, Enrolled, latest, sequenceNumberOf
<1>1. CASE Crash
  <2>1. ServiceTypeOK'
    <3>1. UNCHANGED changes \/ (localDump \in Nat /\ recordChange("create", localDump))
      BY <1>1 DEF Crash
    <3>2. changes' \in Seq({"create"} \X Nat)
      BY <3>1, ChangeTyped
    <3> QED
      BY <1>1, <3>2 DEF Crash, Exit, abandon, lockAtExit, recordChange
  <2>2. DataTypeOK' /\ ControlTypeOK'
    BY <1>1 DEF Crash, Exit
  <2>3. FileIsWhole' /\ StateFollowsMetadata' /\ TablesFollowFile' /\ EnrollmentFollows'
    BY <1>1 DEF Crash, Exit
  <2>4. MediatorFollows' /\ EndFollows'
    BY <1>1 DEF Crash, Exit, abandon, lockAtExit
  <2>5. CompletedMeansImported'
    BY <1>1 DEF Crash, Exit
  <2> QED
    BY <2>1, <2>2, <2>3, <2>4, <2>5
<1>2. CASE Rerun
  BY <1>2 DEF Rerun
<1>3. CASE DumpServerPublishes
  BY <1>3 DEF DumpServerPublishes
<1>4. CASE LockExpires
  BY <1>4 DEF LockExpires, expireLock
<1> QED
  BY <1>1, <1>2, <1>3, <1>4

\* Every step keeps the invariant.
LEMMA CreateStep == CreateInv /\ [Next]_vars => CreateInv'
<1> SUFFICES ASSUME CreateInv, [Next]_vars PROVE CreateInv'
  OBVIOUS
<1>1. CASE Created \/ Stalled \/ UNCHANGED vars
  BY <1>1, CreateStutter DEF Created, Stalled
<1> QED
  BY <1>1, LoadDumpKeeps, MediatorKeeps, ImportKeeps, EnvironmentKeeps DEF Next, Handler

--------------------------------------------------------------------------------
(* What follows.                                                           *)

\* The tables change at the start of an import, at its end, or by the child of a
\* process that is killed: always without the lock and under the action of their state.
LEMMA TablesUnderAction ==
  CreateInv /\ [Next]_vars =>
    (database' # database => lock = "free" /\ (MediatorEnabled => openAction = localDump))
<1> SUFFICES ASSUME CreateInv, [Next]_vars, database' # database
             PROVE  lock = "free" /\ (MediatorEnabled => openAction = localDump)
  OBVIOUS
<1>1. pc \in {"load", "osm2pgsql"}
  BY DEF Next, Handler, Created, Stalled, vars, createVars, Reserve, GetDumpsMetadata, GetDump,
         StreamToFs, CreateAction, Unlock, MediatorCall, Load, Osm2pgsqlCreate, GetStatus,
         PostEnrollment, Complete, Fail, Crash, Rerun, DumpServerPublishes, LockExpires, At
<1> QED
  BY <1>1

HIDE DEF CreateInv, CompletedMeansImported

\* For any dumps, overrides and number of faults: the files, the tables, the state, the
\* mediator and MDR follow from the call that the command awaits, in its first run
\* and in every rerun.
THEOREM CreateHolds == Safe => []CreateInv
  BY CreateInit, CreateStep, PTL DEF Safe

\* An action closed as COMPLETED, and an exit with SUCCESS, mean an imported dump
\* that MDR knows of, whatever failed before (createFactory).
THEOREM CompletedIsImported == Safe => []CompletedMeansImported
<1>1. CreateInv => CompletedMeansImported
  BY DEF CreateInv
<1> QED
  BY <1>1, CreateHolds, PTL

\* osm2pgsql is given whole files only, although a failed run leaves a part of one
\* under the name that the next run uses (loadDump, streamToFs).
THEOREM OnlyWholeDumps == Safe => []WholeDumpOnly
<1>1. CreateInv => WholeDumpOnly
  BY DEF CreateInv, WholeDumpOnly
<1> QED
  BY <1>1, CreateHolds, PTL

\* The state is that of the dump in the tables, however many dumps are published
\* between the metadata and the file (getDumpsMetadata, getDump).
THEOREM StateMatchesTables == Safe => []StateIsOfTheDump
<1>1. CreateInv => StateIsOfTheDump
  BY DEF CreateInv, StateIsOfTheDump, sequenceNumberOf
<1> QED
  BY <1>1, CreateHolds, PTL

\* The tables change under the open action of the state they will have and after
\* the lock is released.
THEOREM TablesAreProtected == Safe => TablesChangeUnderAction
<1>1. CreateInv /\ [Next]_vars =>
        [database' # database => lock = "free" /\ (MediatorEnabled => openAction = localDump)]_vars
  BY TablesUnderAction
<1> QED
  BY <1>1, CreateHolds, PTL DEF Safe, TablesChangeUnderAction
=============================================================================
