------------------------------- MODULE MCDiffPath ------------------------------
(* DiffPath around the boundaries of its directories.                      *)
EXTENDS DiffPath

Boundaries == {0, 980, 1990, 999980, 1998990, 999999990}
================================================================================
