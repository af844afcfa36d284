---------------------------------- MODULE Mdr ----------------------------------
(***************************************************************************)
(* The MDR service as MdrClient uses it: it numbers the changes osm2pgsql  *)
(* commits to the database, reports the latest number, and is told which   *)
(* range of numbers a state enrolled.  The service is external; here every *)
(* committed run of osm2pgsql is one change.                               *)
(***************************************************************************)
EXTENDS Integers, Sequences

CONSTANTS MdrEnabled            \* mdr.enabled

ASSUME MdrAssumption == MdrEnabled \in BOOLEAN

VARIABLES changes,          \* the committed <<entity, diff>>, in commit order
          preLatest,        \* latest of the status read before the append
          postLatest,       \* latest of the status read after the append
          enrollments       \* the enrolled ranges

mdrVars == <<changes, preLatest, postLatest, enrollments>>

\* "latest" is undefined as long as there is no change: -1 here, so that the
\* range of getMdrEnrollmentRange starts at 0 without a case of its own.
latest == Len(changes) - 1

MdrInit ==
  /\ changes = <<>>
  /\ preLatest = -1
  /\ postLatest = -1
  /\ enrollments = {}

recordChange(e, seq) ==
  /\ changes' = IF MdrEnabled THEN Append(changes, <<e, seq>>) ELSE changes
  /\ UNCHANGED <<preLatest, postLatest, enrollments>>

getPreStatus ==
  /\ preLatest' = latest
  /\ UNCHANGED <<changes, postLatest, enrollments>>

\* A variant with a plausible slip: the status of before the append is reused.
getPostStatusReused ==
  /\ postLatest' = preLatest
  /\ UNCHANGED <<changes, preLatest, enrollments>>

getPostStatus ==
  /\ postLatest' = latest
  /\ UNCHANGED <<changes, preLatest, enrollments>>

\* A variant with a plausible slip: the range starts at the latest change.
getMdrEnrollmentRangeInclusive(pre, post) == [from |-> pre, to |-> post]

getMdrEnrollmentRange(pre, post) == [from |-> pre + 1, to |-> post]

postEnrollment(state) ==
  LET range == getMdrEnrollmentRange(preLatest, postLatest) IN
  /\ enrollments' = enrollments \cup {[state |-> state, from |-> range.from, to |-> range.to]}
  /\ UNCHANGED <<changes, preLatest, postLatest>>
=============================================================================
