-------------------------- MODULE ReplicatedProject --------------------------
(***************************************************************************)
(* What the append command promises of a project, with no process, bucket  *)
(* or failure in it.  A replication source publishes numbered diffs; every *)
(* sub part (entity) of the project applies them to the database in order; *)
(* a diff is recorded as the state of the project once every sub part has  *)
(* applied it ("A job is successfull only if all sub parts have been       *)
(* appended, this results in updating the state of the project").          *)
(*                                                                         *)
(* The specification that refines this one is AppendManager.               *)
(***************************************************************************)
EXTENDS Integers

CONSTANTS Entities      \* the sub parts of the project

VARIABLES published,    \* the last diff the replication source offers
          applied,      \* per entity, the last diff its tables contain
          recorded      \* the sequence number of the project's state.txt

vars == <<published, applied, recorded>>

\* A project starts from a dump: its tables and its state.txt agree.  The
\* source may be ahead of the dump or behind it.
Init ==
  /\ published \in Nat
  /\ recorded \in Nat
  /\ applied = [e \in Entities |-> recorded]

Publish ==
  /\ published' = published + 1
  /\ UNCHANGED <<applied, recorded>>

\* Applying is idempotent: an entity may apply the diff that follows the
\* recorded state any number of times, and never another diff.
Apply(e) ==
  /\ recorded < published
  /\ applied' = [applied EXCEPT ![e] = recorded + 1]
  /\ UNCHANGED <<published, recorded>>

Record ==
  /\ recorded < published
  /\ \A e \in Entities : applied[e] = recorded + 1
  /\ recorded' = recorded + 1
  /\ UNCHANGED <<published, applied>>

Advance == (\E e \in Entities : Apply(e)) \/ Record

Next == Publish \/ Advance

Safe == Init /\ [][Next]_vars

\* Nothing forces the source to publish; what it has published is recorded.
Spec == Safe /\ WF_vars(Advance)
=============================================================================
