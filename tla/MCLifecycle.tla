------------------------------ MODULE MCLifecycle ------------------------------
(* ProcessLifecycle with two entities that share a script; one has a geometry. *)
EXTENDS ProcessLifecycle

SharedScript ==
  {[entity |-> 1, id |-> "script", type |-> "script"],
   [entity |-> 2, id |-> "script", type |-> "script"],
   [entity |-> 2, id |-> "area", type |-> "geometry"]}
=============================================================================
