----------------------------- MODULE StateTracker -----------------------------
(***************************************************************************)
(* The StateTracker singleton, with the two remote files it works on: the  *)
(* state.txt of the project in the bucket, and the state.txt of the        *)
(* replication source.  A state file is its sequence number; its timestamp *)
(* line is not modelled.                                                   *)
(*                                                                         *)
(* Every operation is given as what it does when its remote call answers.  *)
(* The module has no process of its own: AppendManager decides when an     *)
(* operation runs and whether its call fails.                              *)
(***************************************************************************)
EXTENDS Integers

CONSTANTS MaxSeq        \* the last diff the source ever publishes (a bound)

ASSUME MaxSeqAssumption == MaxSeq \in Nat

DEFAULT_SEQUENCE_NUMBER == -1

VARIABLES bucket,                   \* sequenceNumber of the project's state.txt
          published,                \* sequenceNumber of the source's state.txt
          current,                  \* StateTracker.current
          replicationRemoteState,   \* StateTracker.replicationRemoteState
          stateContent              \* the cached text of the project's state.txt

trackerVars ==
  <<bucket, published, current, replicationRemoteState, stateContent>>

SequenceNumbers == 0 .. MaxSeq

TrackerTypeOK ==
  /\ bucket \in SequenceNumbers
  /\ published \in SequenceNumbers
  /\ current \in SequenceNumbers \cup {DEFAULT_SEQUENCE_NUMBER}
  /\ replicationRemoteState \in SequenceNumbers \cup {DEFAULT_SEQUENCE_NUMBER}
  /\ stateContent \in SequenceNumbers \cup {DEFAULT_SEQUENCE_NUMBER}

\* The bucket holds the sequence number of the creation dump.  The source may
\* be ahead of the dump or, as a lagging mirror, behind it.
TrackerInit ==
  /\ bucket \in SequenceNumbers
  /\ published \in SequenceNumbers
  /\ current = DEFAULT_SEQUENCE_NUMBER
  /\ replicationRemoteState = DEFAULT_SEQUENCE_NUMBER
  /\ stateContent = DEFAULT_SEQUENCE_NUMBER

\* The source publishes the next diff and then its state file.
Publish ==
  /\ published < MaxSeq
  /\ published' = published + 1
  /\ UNCHANGED <<bucket, current, replicationRemoteState, stateContent>>

nextState == current + 1

\* Variants with a plausible slip: a bound that is off by one, a strict one.
isUpToDateOffByOne(cur, remote) == cur >= remote - 1

isUpToDateStrict(cur, remote) == cur > remote

isUpToDate(cur, remote) == cur = remote

\* A variant with a plausible slip: the number is fetched once and kept.
getStartSequenceNumberOnce ==
  /\ stateContent' = IF current = DEFAULT_SEQUENCE_NUMBER THEN bucket ELSE stateContent
  /\ current' = IF current = DEFAULT_SEQUENCE_NUMBER THEN bucket ELSE current
  /\ UNCHANGED <<bucket, published, replicationRemoteState>>

getStartSequenceNumber ==
  /\ stateContent' = bucket
  /\ current' = bucket
  /\ UNCHANGED <<bucket, published, replicationRemoteState>>

getReplicationSequenceNumber ==
  /\ replicationRemoteState' = published
  /\ UNCHANGED <<bucket, published, current, stateContent>>

\* A variant with a plausible slip: nextState is read again after the increment.
bumpStateTwice ==
  /\ current' = nextState + 1
  /\ stateContent' = nextState + 1

\* updateRemoteState up to its await: memory moves on before the bucket does.
bumpState ==
  /\ current' = nextState
  /\ stateContent' = nextState

\* The put of the cached text, by updateRemoteState and updateRemoteTimestamp.
\* A put that fails may still have been carried out by the object store.
putStateContent(landed) ==
  bucket' = IF landed THEN stateContent ELSE bucket

\* A new process starts with the defaults of the class.
restartTracker ==
  /\ current' = DEFAULT_SEQUENCE_NUMBER
  /\ replicationRemoteState' = DEFAULT_SEQUENCE_NUMBER
  /\ stateContent' = DEFAULT_SEQUENCE_NUMBER
  /\ UNCHANGED <<bucket, published>>
=============================================================================
