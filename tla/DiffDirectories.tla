---------------------------- MODULE DiffDirectories ----------------------------
(***************************************************************************)
(* How a replication source lays out its diffs: directories of a thousand  *)
(* directories of a thousand files, filled one after the other like the    *)
(* wheels of an odometer.  Nothing here knows of sequence numbers.         *)
(***************************************************************************)
EXTENDS Integers

VARIABLES top, bottom, state

vars == <<top, bottom, state>>

Wheel == 0 .. 999

Init == top \in Nat /\ bottom \in Wheel /\ state \in Wheel

NextFile ==
  /\ state # 999
  /\ state' = state + 1
  /\ UNCHANGED <<top, bottom>>

NextDirectory ==
  /\ state = 999 /\ bottom # 999
  /\ state' = 0
  /\ bottom' = bottom + 1
  /\ UNCHANGED top

NextTopDirectory ==
  /\ state = 999 /\ bottom = 999
  /\ state' = 0
  /\ bottom' = 0
  /\ top' = top + 1

Next == NextFile \/ NextDirectory \/ NextTopDirectory

Spec == Init /\ [][Next]_vars
================================================================================
