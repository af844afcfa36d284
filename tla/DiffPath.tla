------------------------------- MODULE DiffPath -------------------------------
(***************************************************************************)
(* The path of a diff on the replication source, computed from a sequence  *)
(* number that grows by one with every recorded diff.                      *)
(*                                                                         *)
(* A component is its floored number: the padding to three characters is a *)
(* matter of writing, as long as the number has at most three digits (the  *)
(* top directory has more from 1000000000 on, and stays unambiguous).      *)
(***************************************************************************)
EXTENDS Integers

CONSTANTS FirstNumbers,     \* the sequence numbers a project may start from
          MaxAppends        \* bound: diffs appended in a behaviour

ASSUME FirstNumbersAssumption == FirstNumbers \subseteq Nat
ASSUME MaxAppendsAssumption == MaxAppends \in Nat

DIFF_TOP_DIR_DIVIDER == 1000000
DIFF_BOTTOM_DIR_DIVIDER == 1000
DIFF_STATE_FILE_MODULO == 1000

VARIABLES sequenceNumber, appends

vars == <<sequenceNumber, appends>>

\* A variant with a plausible slip: the top directory is not taken off first.
getDiffDirPathComponentsFlat(n) ==
  [top    |-> n \div DIFF_TOP_DIR_DIVIDER,
   bottom |-> n \div DIFF_BOTTOM_DIR_DIVIDER,
   state  |-> n % DIFF_STATE_FILE_MODULO]

getDiffDirPathComponents(n) ==
  [top    |-> n \div DIFF_TOP_DIR_DIVIDER,
   bottom |-> (n % DIFF_TOP_DIR_DIVIDER) \div DIFF_BOTTOM_DIR_DIVIDER,
   state  |-> n % DIFF_STATE_FILE_MODULO]

path == getDiffDirPathComponents(sequenceNumber)

Init == sequenceNumber \in FirstNumbers /\ appends = 0

\* The diff of this number is applied; the next one to get follows it.
Advance ==
  /\ appends < MaxAppends
  /\ appends' = appends + 1
  /\ sequenceNumber' = sequenceNumber + 1

\* The source has nothing newer, or the bound is reached.
UpToDate == UNCHANGED vars

Next == Advance \/ UpToDate

Spec == Init /\ [][Next]_vars

--------------------------------------------------------------------------------
\* A sequence number is a natural number.
TypeOK == sequenceNumber \in Nat /\ appends \in Nat

Directories ==
  INSTANCE DiffDirectories
    WITH top <- path.top, bottom <- path.bottom, state <- path.state

\* The manager asks for the files of the source in the order the source files
\* them, across the boundaries of both kinds of directory: none is skipped, none
\* asked for twice (getDiffDirPathComponents as getDiffToFs uses it).
WalksTheDirectories == Directories!Spec
================================================================================
