------------------------------- MODULE MCHub -------------------------------
(***************************************************************************)
(* Small instances of Hub for TLC.                                         *)
(***************************************************************************)
EXTENDS Hub, TLC

(* The goroutines of a kind are interchangeable.                           *)
Symmetry == Permutations(Client) \union Permutations(Broadcaster)
=============================================================================
