------------------------------- MODULE MCAppend -------------------------------
(* AppendProperties on small instances; one .cfg per question.             *)
EXTENDS AppendProperties, TLC

CONSTANTS e1, e2

\* Every diff expires tiles of every entity, some inside its geometry.
AllInside == [e \in Entities |-> [n \in SequenceNumbers |-> "inside"]]

\* e1 always has tiles to push; e2 has none in even diffs, and in odd ones only
\* tiles that its geometry filter drops.
Mixed ==
  [e \in Entities |-> [n \in SequenceNumbers |->
     CASE e = e1 -> "inside"
       [] e # e1 /\ n % 2 = 1 -> "outside"
       [] OTHER -> "none"]]

S3ThenQueue == <<"s3", "queue">>
QueueThenS3 == <<"queue", "s3">>
S3Only == <<"s3">>
QueueOnly == <<"queue">>
NoTargets == <<>>

EntitySymmetry == Permutations(Entities)
=============================================================================
