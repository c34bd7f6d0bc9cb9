---------------------------- MODULE MCOutputFile ----------------------------
(***************************************************************************)
(* Small instances of OutputFile: three runs that print none, one or more  *)
(* lines than the buffer takes.                                            *)
(***************************************************************************)
EXTENDS OutputFile

CONSTANTS r1, r2, r3

ThreeRuns  == {r1, r2, r3}
TwoRuns    == {r1, r2}
ThreeLines == [r \in ThreeRuns |-> IF r = r1 THEN 4 ELSE IF r = r2 THEN 2 ELSE 0]
TwoLines   == [r \in TwoRuns |-> IF r = r1 THEN 3 ELSE 1]
=============================================================================
