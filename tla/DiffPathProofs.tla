---------------------------- MODULE DiffPathProofs ----------------------------
(***************************************************************************)
(* Theorems about the paths of diffs, for every sequence number.           *)
(***************************************************************************)
EXTENDS DiffPath, TLAPS

\* The components of a number (getDiffDirPathComponents) determine it, and the
\* lower two have at most three digits, which is what the padding is for.
LEMMA ComponentsOfNumber ==
  ASSUME NEW n \in Nat
  PROVE  LET p == getDiffDirPathComponents(n) IN
         /\ p.top \in Nat
         /\ p.bottom \in 0 .. 999
         /\ p.state \in 0 .. 999
         /\ n = 1000000 * p.top + 1000 * p.bottom + p.state
  BY DEF getDiffDirPathComponents, DIFF_TOP_DIR_DIVIDER, DIFF_BOTTOM_DIR_DIVIDER,
         DIFF_STATE_FILE_MODULO

\* No two diffs have the same path: what getDiffToFs fetches for a sequence number
\* is the diff of that number and no other.
THEOREM PathIsInjective ==
  ASSUME NEW m \in Nat, NEW n \in Nat,
         getDiffDirPathComponents(m) = getDiffDirPathComponents(n)
  PROVE  m = n
  BY ComponentsOfNumber

\* The components of the next number are those of the next file.
LEMMA NextNumberIsNextFile ==
  ASSUME NEW n \in Nat
  PROVE  LET p == getDiffDirPathComponents(n)
             q == getDiffDirPathComponents(n + 1)
         IN \/ /\ p.state # 999
               /\ q.state = p.state + 1 /\ q.bottom = p.bottom /\ q.top = p.top
            \/ /\ p.state = 999 /\ p.bottom # 999
               /\ q.state = 0 /\ q.bottom = p.bottom + 1 /\ q.top = p.top
            \/ /\ p.state = 999 /\ p.bottom = 999
               /\ q.state = 0 /\ q.bottom = 0 /\ q.top = p.top + 1
  BY DEF getDiffDirPathComponents, DIFF_TOP_DIR_DIVIDER, DIFF_BOTTOM_DIR_DIVIDER,
         DIFF_STATE_FILE_MODULO

\* A sequence number is a natural number at every moment.
LEMMA NumbersAreNatural == Spec => []TypeOK
<1>1. Init => TypeOK
  BY FirstNumbersAssumption DEF Init, TypeOK
<1>2. TypeOK /\ [Next]_vars => TypeOK'
  BY DEF TypeOK, Next, Advance, UpToDate, vars
<1>3. QED
  BY <1>1, <1>2, PTL DEF Spec

\* A manager that counts by one (getDiffDirPathComponents under getDiffToFs) walks
\* the directories of the source file by file.
THEOREM ManagerWalksTheDirectories == Spec => WalksTheDirectories
<1>1. Init => Directories!Init
  <2> SUFFICES ASSUME Init PROVE Directories!Init
    OBVIOUS
  <2>1. sequenceNumber \in Nat
    BY FirstNumbersAssumption DEF Init
  <2>2. QED
    BY <2>1, ComponentsOfNumber DEF Directories!Init, Directories!Wheel, path
<1>2. TypeOK /\ [Next]_vars => [Directories!Next]_(Directories!vars)
  <2> SUFFICES ASSUME TypeOK, [Next]_vars
               PROVE  Directories!Next \/ UNCHANGED Directories!vars
    OBVIOUS
  <2>1. CASE Advance
    <3>1. sequenceNumber \in Nat /\ sequenceNumber' = sequenceNumber + 1
      BY <2>1 DEF TypeOK, Advance
    <3>2. path' = getDiffDirPathComponents(sequenceNumber + 1)
      BY <3>1 DEF path
    <3>3. QED
      BY <3>1, <3>2, NextNumberIsNextFile
      DEF path, Directories!Next, Directories!NextFile, Directories!NextDirectory,
          Directories!NextTopDirectory
  <2>2. CASE UNCHANGED vars
    BY <2>2 DEF vars, path, Directories!vars
  <2>3. QED
    BY <2>1, <2>2 DEF Next, UpToDate
<1>3. QED
  BY <1>1, <1>2, NumbersAreNatural, PTL DEF Spec, WalksTheDirectories, Directories!Spec
================================================================================
