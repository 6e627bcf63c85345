-------------------------- MODULE MCFugueReplicas --------------------------
(***************************************************************************)
(* Small instances of FugueReplicas for TLC.                               *)
(***************************************************************************)
EXTENDS FugueReplicas

TwoReplicas == {1, 2}
ThreeReplicas == {1, 2, 3}
=============================================================================
