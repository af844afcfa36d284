-------------------------- MODULE OverlappingManagers --------------------------
(***************************************************************************)
(* Two processes of "append --forever" on the same project.  The            *)
(* deployment asks for one replica and keeps the default strategy, a        *)
(* rolling update: the new pod runs before the old one gets its SIGTERM.    *)
(*                                                                         *)
(* Each manager is an instance of AppendManager with memory, children and   *)
(* stopping of its own; bucket, source, tables and mediator are shared.     *)
(* Expire lists and MDR are off: what matters here is the state file.       *)
(* The mediator is on, and its service lets one action of the project be    *)
(* open at a time.                                                         *)
(***************************************************************************)
EXTENDS Integers

CONSTANTS Entities, MaxSeq, MaxFaults

ASSUME MaxSeqAssumption == MaxSeq \in Nat

Manager == {"first", "second"}

VARIABLES
  bucket, published, applied, abandonedActions, faults,     \* shared
  holder,       \* who holds the lock: nobody, a manager, or one that is gone
  halfWritten,  \* history: an attempt has ended between its two puts of state.txt
  current1, replicationRemoteState1, stateContent1, children1, signalled1,
  openAction1, pc1, failure1, exitCode1, shouldRun1, stopping1,
  current2, replicationRemoteState2, stateContent2, children2, signalled2,
  openAction2, pc2, failure2, exitCode2, shouldRun2, stopping2

memory1 == <<current1, replicationRemoteState1, stateContent1, children1, signalled1,
             openAction1, pc1, failure1, exitCode1, shouldRun1, stopping1>>
memory2 == <<current2, replicationRemoteState2, stateContent2, children2, signalled2,
             openAction2, pc2, failure2, exitCode2, shouldRun2, stopping2>>

vars == <<bucket, published, applied, abandonedActions, faults, holder, halfWritten,
          memory1, memory2>>

Holders == {"free", "gone"} \cup Manager

\* The lock as a manager sees it: another manager's is one it cannot have.
lockOf(manager) ==
  CASE holder = "free"  -> "free"
    [] holder = manager -> "ours"
    [] OTHER            -> "left"

NoTiles == [e \in Entities |-> [n \in 0 .. MaxSeq |-> "none"]]

M1 == INSTANCE AppendManager WITH
  Forever <- TRUE, BackoffLimit <- 0, retries <- 0,
  MediatorEnabled <- TRUE, MdrEnabled <- FALSE, GenerateExpire <- FALSE,
  Tiles <- NoTiles, UploadTargets <- <<>>, Rounds <- {0},
  expireFiles <- {}, uploadTasks <- {}, attempt <- 0, puts <- {}, jobs <- {},
  expireLists <- [e \in Entities |-> [n \in 0 .. MaxSeq + 1 |-> -1]],
  changes <- <<>>, preLatest <- -1, postLatest <- -1, enrollments <- {},
  lock <- lockOf("first"), current <- current1, stateContent <- stateContent1,
  replicationRemoteState <- replicationRemoteState1, children <- children1,
  signalled <- signalled1, openAction <- openAction1, pc <- pc1, failure <- failure1,
  exitCode <- exitCode1, shouldRun <- shouldRun1, stopping <- stopping1

M2 == INSTANCE AppendManager WITH
  Forever <- TRUE, BackoffLimit <- 0, retries <- 0,
  MediatorEnabled <- TRUE, MdrEnabled <- FALSE, GenerateExpire <- FALSE,
  Tiles <- NoTiles, UploadTargets <- <<>>, Rounds <- {0},
  expireFiles <- {}, uploadTasks <- {}, attempt <- 0, puts <- {}, jobs <- {},
  expireLists <- [e \in Entities |-> [n \in 0 .. MaxSeq + 1 |-> -1]],
  changes <- <<>>, preLatest <- -1, postLatest <- -1, enrollments <- {},
  lock <- lockOf("second"), current <- current2, stateContent <- stateContent2,
  replicationRemoteState <- replicationRemoteState2, children <- children2,
  signalled <- signalled2, openAction <- openAction2, pc <- pc2, failure <- failure2,
  exitCode <- exitCode2, shouldRun <- shouldRun2, stopping <- stopping2

Init ==
  /\ holder = "free"
  /\ halfWritten = FALSE
  /\ M1!Init
  /\ M2!Init

\* The lock of a manager that lives is taken and released by that manager alone.
LockStaysWith(other) ==
  \E h \in Holders : holder' = h /\ (h = other <=> holder = other)

\* A child that was sent SIGINT, of this or of the other process, is gone before a
\* later diff has been downloaded and simplified.
EarlierChildrenGone(signalledOfOther, seq) == \A d \in signalledOfOther : d[2] = seq

\* updateRemoteTimestamp was sent, and updateRemoteState was not carried through.
NoteHalfWritten(call, nextCall) ==
  halfWritten' = (halfWritten \/ (/\ call \in {"updateTimestamp", "updateState"}
                                 /\ nextCall \in {"failAction", "down"}))

\* One step of a manager, while the other one's action lets it.
Step1 ==
  /\ LockStaysWith("second")
  /\ M1!Next
  /\ (openAction1 = M1!NoAction /\ openAction1' # M1!NoAction) => openAction2 = M2!NoAction
  /\ (pc1 = "simplifyDiff" /\ pc1' = "append") => EarlierChildrenGone(signalled2, current1 + 1)
  /\ NoteHalfWritten(pc1, pc1')
  /\ UNCHANGED memory2

Step2 ==
  /\ LockStaysWith("first")
  /\ M2!Next
  /\ (openAction2 = M2!NoAction /\ openAction2' # M2!NoAction) => openAction1 = M1!NoAction
  /\ (pc2 = "simplifyDiff" /\ pc2' = "append") => EarlierChildrenGone(signalled1, current2 + 1)
  /\ NoteHalfWritten(pc2, pc2')
  /\ UNCHANGED memory1

\* createAction while the other manager's action is open: the service refuses, the
\* error ends the process, and the lock it holds is left.
Refused1 ==
  /\ pc1 = "createAction" /\ openAction2 # M2!NoAction
  /\ LockStaysWith("second")
  /\ M1!Exit("GENERAL_ERROR", "left", M1!NoAction)
  /\ UNCHANGED <<published, faults, halfWritten, memory2>>

Refused2 ==
  /\ pc2 = "createAction" /\ openAction1 # M1!NoAction
  /\ LockStaysWith("first")
  /\ M2!Exit("GENERAL_ERROR", "left", M2!NoAction)
  /\ UNCHANGED <<published, faults, halfWritten, memory1>>

Next == Step1 \/ Step2 \/ Refused1 \/ Refused2

Spec == Init /\ [][Next]_vars

--------------------------------------------------------------------------------
\* The tables stay at the recorded state or one diff further although two managers
\* append, each on the number it has read before, perhaps, the other one's attempt
\* ended: that number is at most one behind the bucket, since it is read under the
\* lock that lasts until the manager's own action is open.  It takes a manager that
\* fails or is stopped between its two puts to lose this: the state it has written
\* back is then read, and diffs are applied again on top of later ones.
AppliedWithinOneOfRecorded ==
  ~halfWritten => \A e \in Entities : applied[e] \in {bucket, bucket + 1}

\* Under the same condition no diff is left out, and none reaches the tables of an
\* entity after a later one, whichever manager or signalled child commits it.
TablesInOrder ==
  [][~halfWritten => \A e \in Entities : applied'[e] \in {applied[e], applied[e] + 1}]_vars

\* And a stale manager takes back the last recorded state only, never an earlier one.
StateSlipsByOneAtMost == [][~halfWritten => bucket' >= bucket - 1]_vars

\* The inductive strengthening of the three.  A manager holds the lock while it reads the
\* states and opens its action, and its action is open during its attempt.
HasRead == {"getReplication", "removeLockIdle", "createAction"}
Reading == {"getStart", "removeLock"} \cup HasRead
BeforeThePuts ==
  {"removeLock", "getDiff", "simplifyDiff", "append", "unlinkDiffs", "updateTimestamp",
   "brokenStream"}
Attempting == BeforeThePuts \cup {"updateState", "completeAction", "failAction"}

ManagerOK(manager, pc, current, stateContent, openAction, children, signalled) ==
  /\ (holder = manager) <=> (pc \in Reading)
  /\ (openAction # M1!NoAction) <=> (pc \in Attempting)
  /\ pc \notin {"preStatus", "postStatus", "postEnrollment", "uploadExpired"}
  /\ pc \in HasRead \cup Attempting => current \in Nat /\ stateContent = current
  /\ children \in [Entities -> M1!ChildStates]
  /\ pc # "append" => \A e \in Entities : children[e] \in {"idle", "done"}
  /\ signalled \subseteq Entities \X Nat

\* Nobody works on another diff than n, and every entity contains it.
Settled(n) ==
  /\ \A e \in Entities : applied[e] = n
  /\ \A d \in signalled1 \cup signalled2 : d[2] = n

\* A late commit is one of the next diff, or repeats the recorded one.
LateCommitsOK ==
  \A d \in signalled1 \cup signalled2 : d[2] = bucket + 1 \/ (d[2] = bucket /\ Settled(bucket))

\* An attempt works on the next diff, or repeats the recorded one.
AttemptOK(pc, current, children) ==
  /\ pc \in BeforeThePuts => current = bucket \/ (current = bucket - 1 /\ Settled(bucket))
  /\ pc = "append" =>
       /\ \A d \in signalled1 \cup signalled2 : d[2] = current + 1
       /\ \A e \in Entities : children[e] = "done" => applied[e] = current + 1
  /\ pc \in {"unlinkDiffs", "updateTimestamp"} => Settled(current + 1)
  /\ pc = "updateState" => current = bucket + 1 /\ Settled(current)

\* The number a manager has read is the recorded one, the one an attempt of the other
\* manager is about to write, or the one before what that attempt has written.
NumberReadOK(pc, current, pcOfOther) ==
  pc \in HasRead =>
    \/ current = bucket
    \/ current = bucket + 1 /\ pcOfOther = "updateState"
    \/ /\ current = bucket - 1 /\ Settled(bucket)
       /\ pcOfOther \notin BeforeThePuts \cup {"updateState"}

ManagersOK ==
  /\ bucket \in Nat
  /\ holder \in Holders
  /\ applied \in [Entities -> Nat]
  /\ ManagerOK("first", pc1, current1, stateContent1, openAction1, children1, signalled1)
  /\ ManagerOK("second", pc2, current2, stateContent2, openAction2, children2, signalled2)
  /\ ~(pc1 \in Attempting /\ pc2 \in Attempting)

NumbersOK ==
  /\ \A e \in Entities : applied[e] \in {bucket, bucket + 1}
  /\ LateCommitsOK
  /\ AttemptOK(pc1, current1, children1) /\ AttemptOK(pc2, current2, children2)
  /\ NumberReadOK(pc1, current1, pc2) /\ NumberReadOK(pc2, current2, pc1)

OverlapInv == ManagersOK /\ (~halfWritten => NumbersOK)

--------------------------------------------------------------------------------
\* README.md:29: a successful job "results in updating the state of the project, an
\* incremental sequence number coupled to the replication source".  Stated as: the
\* sequence number of state.txt is never replaced by a smaller one.
StateIsIncremental == [][bucket' >= bucket]_vars
=============================================================================
