--------------------------- MODULE FugueReplicas ---------------------------
(***************************************************************************)
(* Replicas of one document that exchange operations: the operation-based  *)
(* API of pkg/crdt (InsertAt, DeleteAt, ApplyOperation).                   *)
(*                                                                         *)
(* Each action is one critical section of ft.mu.  The network is the set   *)
(* of all operations ever returned by InsertAt and DeleteAt: any of them   *)
(* may reach any replica, at any time, in any order and any number of      *)
(* times.  Spec lets them arrive like that; CausalSpec delivers an         *)
(* operation only where the node it refers to is present.                  *)
(***************************************************************************)
EXTENDS FugueTree, FiniteSets

CONSTANT MaxOps      \* bound: how many operations are issued in all

ASSUME MaxOpsAssumption == MaxOps \in Nat

VARIABLES
  tree,      \* tree[r] is the FugueTree of replica r
  counter,   \* counter[r] is its ft.counter
  sent,      \* the operations issued so far, by anyone
  applied    \* history: applied[r] is the set of operations handed to r

vars == <<tree, counter, sent, applied>>

Init ==
  /\ tree = [r \in Replica |-> NewFugueTree]
  /\ counter = [r \in Replica |-> 0]
  /\ sent = {}
  /\ applied = [r \in Replica |-> {}]

-----------------------------------------------------------------------------
nextID(r) == <<r, counter[r] + 1>>

(* Mutant: the counter is read and not advanced.                           *)
IssueUncounted(r, op) ==
  /\ Cardinality(sent) < MaxOps
  /\ tree' = [tree EXCEPT ![r] = ApplyOperation(@, op)]
  /\ sent' = sent \union {op}
  /\ applied' = [applied EXCEPT ![r] = @ \union {op}]
  /\ UNCHANGED counter

(* Replica r issues op, applies it at once and hands it out.               *)
Issue(r, op) ==
  /\ Cardinality(sent) < MaxOps
  /\ counter' = [counter EXCEPT ![r] = @ + 1]
  /\ tree' = [tree EXCEPT ![r] = ApplyOperation(@, op)]
  /\ sent' = sent \union {op}
  /\ applied' = [applied EXCEPT ![r] = @ \union {op}]

(* A position out of range is an error that changes nothing.               *)
InsertAt(r, pos, char) ==
  LET visible == visibleNodes(tree[r])
  IN  \E left \in DOMAIN tree[r], right \in DOMAIN tree[r] \union {nil} :
        /\ OriginsAt(visible, pos, left, right)
        /\ Issue(r, insertOp(nextID(r), char, selectParent(tree[r], left, right)))

DeleteAt(r, pos) ==
  LET visible == visibleNodes(tree[r])
  IN  \E target \in DOMAIN tree[r] \ {rootSentinelID} :
        /\ pos \in 0 .. Len(visible) - 1
        /\ target = visible[pos + 1]
        /\ Issue(r, deleteOp(nextID(r), target))

(* ApplyRemoteInsert or ApplyRemoteDelete of an operation from the network.*)
Receive(r, op) ==
  /\ tree' = [tree EXCEPT ![r] = ApplyOperation(@, op)]
  /\ applied' = [applied EXCEPT ![r] = @ \union {op}]
  /\ UNCHANGED <<counter, sent>>

(* The node that op hangs from, or marks, is present.                      *)
Ready(t, op) ==
  IF op.type = "insert" THEN op.parent \in DOMAIN t ELSE op.target \in DOMAIN t

ReceiveReady(r, op) == Ready(tree[r], op) /\ Receive(r, op)

-----------------------------------------------------------------------------
(* Every position a tree of this size can have.                            *)
Positions(r) == 0 .. Len(visibleNodes(tree[r]))

Edit(r) ==
  \/ \E pos \in Positions(r), char \in Char : InsertAt(r, pos, char)
  \/ \E pos \in Positions(r) : DeleteAt(r, pos)

Next == \E r \in Replica : Edit(r) \/ \E op \in sent : Receive(r, op)

CausalNext ==
  \E r \in Replica : Edit(r) \/ \E op \in sent : ReceiveReady(r, op)

Spec == Init /\ [][Next]_vars

CausalSpec == Init /\ [][CausalNext]_vars

(* The transport hands every replica, in the end, every operation.         *)
DeliveryFairness ==
  \A r \in Replica : WF_vars(\E op \in sent \ applied[r] : Receive(r, op))

-----------------------------------------------------------------------------
(* Properties.                                                             *)

(* Every variable has its type; each parent link names a present node, and *)
(* a replica is handed only operations that somebody issued.               *)
TypeOK ==
  /\ DOMAIN tree = Replica /\ \A r \in Replica : IsTree(tree[r])
  /\ counter \in [Replica -> Nat]
  /\ sent \subseteq Operation
  /\ applied \in [Replica -> SUBSET sent]

(* The two representations of the tree never drift apart: a child slice    *)
(* holds exactly the nodes whose ParentID and Side put them there, once    *)
(* each and in id order (insertChild, traverseNode), whatever the order    *)
(* and the duplicates in which inserts arrived.                            *)
ChildListsMatchParents == \A r \in Replica : ChildListsMatch(tree[r])

(* The traversal reaches every node of the map exactly once: no node is    *)
(* lost behind a broken link and none is shown twice (traverse, Len).      *)
TraversalCoversNodes == \A r \in Replica : TraversalCovers(tree[r])

(* Two replicas that both hold a node agree on its character and on where  *)
(* it hangs: an OpID never stands for two insertions (nextID, applyInsert).*)
NodesAgree == \A r, q \in Replica : Agree(tree[r], tree[q])

(* Even before they converge, two replicas show the nodes they share in    *)
(* the same order: no later delivery has to move a character.              *)
OrderAgreement == \A r, q \in Replica : SameOrder(tree[r], tree[q])

(* A replica is a function of the nodes and the tombstones it holds: no    *)
(* trace is left of the order in which they came (applyInsert, insertChild)*)
SameNodesSameTree ==
  \A r, q \in Replica : SameContent(tree[r], tree[q]) => tree[r] = tree[q]

(* What r has been handed and does not show: the node that the operation   *)
(* refers to was missing, and ApplyOperation drops it without a word.      *)
Dropped(r) == {op \in applied[r] : ~Includes(tree[r], op)}

(* Strong eventual consistency: replicas that have received the same set   *)
(* of operations are in the same state, in whatever order they came and    *)
(* however often, unless one has dropped an operation that the other has   *)
(* not.  doc.go promises it without that condition.                        *)
StrongConvergence ==
  \A r, q \in Replica :
    applied[r] = applied[q] /\ Dropped(r) = Dropped(q) => tree[r] = tree[q]

(* A step never takes a node away from a replica, never reorders the nodes *)
(* it has and never revives a tombstone, not even when the insert of a     *)
(* deleted character is delivered again (applyInsert, applyDelete).        *)
HistoryIsKept ==
  [][\A r \in Replica :
       /\ Nodes(tree[r]) \subseteq Nodes(tree'[r])
       /\ SameOrder(tree[r], tree'[r])
       /\ Tombstones(tree[r]) \subseteq Tombstones(tree'[r])]_vars

(* The characters of replica r before the step, with the new one at pos.   *)
ShownAt(r, pos) == Seqs!InsertAt(visibleNodes(tree[r]), pos + 1, nextID(r))

(* InsertAt puts its character at the visible position it was given, as    *)
(* its comment says.                                                       *)
InsertLandsAtPos ==
  [][\A r \in Replica : \A pos \in Positions(r), char \in Char :
       InsertAt(r, pos, char) => visibleNodes(tree'[r]) = ShownAt(r, pos)]_vars

(* What selectParent does achieve: a new character never lands before its  *)
(* left neighbour, and it lands exactly at pos unless the character to its *)
(* right is a grandchild or a deeper descendant of the one to its left.    *)
InsertLandsUnlessDeepBelow ==
  [][\A r \in Replica : \A pos \in Positions(r), char \in Char :
       InsertAt(r, pos, char) =>
         LET before == visibleNodes(tree[r])
             after  == visibleNodes(tree'[r])
             left   == leftOrigin(before, pos)
             right  == rightOrigin(before, pos)
         IN  /\ SubSeq(after, 1, pos) = SubSeq(before, 1, pos)
             /\ ~DeepBelow(tree[r], left, right) => after = ShownAt(r, pos)]_vars

(* Once the replicas stop editing, delivery alone brings those that have   *)
(* dropped nothing to the same tree for good, and so it does those that    *)
(* have dropped the same (ApplyOperation).                                 *)
EventualConvergence ==
  <>[](\A r, q \in Replica : Dropped(r) = Dropped(q) => tree[r] = tree[q])

(* However operations are reordered, repeated or late, the replicas are a  *)
(* replicated set of characters: an edit creates or removes one, a         *)
(* delivery teaches one that exists, and nothing is forgotten or revived   *)
(* (InsertAt, DeleteAt, ApplyOperation).                                   *)
NodeSet == INSTANCE ReplicatedNodeSet WITH
             nodes <- [r \in Replica |-> Nodes(tree[r])],
             dead <- [r \in Replica |-> Tombstones(tree[r])]

ImplementsNodeSet == NodeSet!Spec
=============================================================================
