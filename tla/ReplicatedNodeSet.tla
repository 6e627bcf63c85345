------------------------- MODULE ReplicatedNodeSet -------------------------
(***************************************************************************)
(* What a replicated document promises of its characters, whatever order   *)
(* they are shown in: each is created once, by one replica; a replica only *)
(* learns of characters and removals that happened; it learns of a removal *)
(* only for a character it has; and it forgets neither.                    *)
(*                                                                         *)
(* The abstract specification of pkg/crdt's FugueTree.  FugueReplicas      *)
(* implements Spec with ids, operations and a network, FugueMerge          *)
(* implements MergingSpec with whole trees that are merged.                *)
(***************************************************************************)
CONSTANT Replica

VARIABLES
  nodes,     \* nodes[r]: the characters replica r has, removed ones included
  dead       \* dead[r]: those it knows to be removed

vars == <<nodes, dead>>

Init ==
  /\ nodes = [r \in Replica |-> {}]
  /\ dead = [r \in Replica |-> {}]

(* Where the new character comes from is left open.                        *)
Create(r) ==
  /\ \E n \in nodes'[r] :
       /\ \A q \in Replica : n \notin nodes[q]
       /\ nodes' = [nodes EXCEPT ![r] = @ \union {n}]
  /\ UNCHANGED dead

Remove(r) ==
  /\ \E n \in nodes[r] : dead' = [dead EXCEPT ![r] = @ \union {n}]
  /\ UNCHANGED nodes

Learn(r, q) ==
  /\ \E n \in nodes[q] : nodes' = [nodes EXCEPT ![r] = @ \union {n}]
  /\ UNCHANGED dead

LearnRemoved(r, q) ==
  /\ \E n \in dead[q] \intersect nodes[r] : dead' = [dead EXCEPT ![r] = @ \union {n}]
  /\ UNCHANGED nodes

Next ==
  \E r \in Replica :
    \/ Create(r)
    \/ Remove(r)
    \/ \E q \in Replica : Learn(r, q) \/ LearnRemoved(r, q)

Spec == Init /\ [][Next]_vars

-----------------------------------------------------------------------------
(* Of a replica whose whole state it is shown, perhaps an old one, r may   *)
(* learn any part, as long as it is told of no removal of what it lacks.   *)
LearnMany(r, q) ==
  /\ \E new \in SUBSET nodes[q] : nodes' = [nodes EXCEPT ![r] = @ \union new]
  /\ \E gone \in SUBSET dead[q] :
       /\ gone \subseteq nodes'[r]
       /\ dead' = [dead EXCEPT ![r] = @ \union gone]

MergingNext ==
  \/ \E r \in Replica : Create(r) \/ Remove(r)
  \/ \E r, q \in Replica : LearnMany(r, q)

MergingSpec == Init /\ [][MergingNext]_vars
=============================================================================
