---------------------------- MODULE MCFugueRuns ----------------------------
(***************************************************************************)
(* Small instances of FugueRuns for TLC.                                   *)
(***************************************************************************)
EXTENDS FugueRuns

TwoReplicas == {1, 2}
ThreeReplicas == {1, 2, 3}
Forward == {"forward"}
Backward == {"backward"}
Both == {"forward", "backward"}
=============================================================================
