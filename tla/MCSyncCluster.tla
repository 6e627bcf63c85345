--------------------------- MODULE MCSyncCluster ---------------------------
(***************************************************************************)
(* Small instances of SyncCluster for TLC.                                 *)
(***************************************************************************)
EXTENDS SyncCluster

TwoNodes == {1, 2}
ThreeNodes == {1, 2, 3}
=============================================================================
