----------------------------- MODULE FugueMerge -----------------------------
(***************************************************************************)
(* Replicas of one document that exchange whole trees: FugueTree.Merge.    *)
(*                                                                         *)
(* ft.Merge(other) has two critical sections.  Under other's read lock it  *)
(* copies other's nodes and tombstones out of a Go map, in no order; then  *)
(* it sorts the copies by Counter alone and applies them under its own     *)
(* lock.  Both replicas may be edited, and merged again, in between.       *)
(***************************************************************************)
EXTENDS FugueTree, FiniteSets

CONSTANTS
  MaxEdits,     \* bound: how many edits are made in all
  MaxRunning    \* bound: how many Merge calls are under way at once

ASSUME BoundsAssumption == MaxEdits \in Nat /\ MaxRunning \in Nat \ {0}

FSets == INSTANCE FiniteSetsExt

VARIABLES
  tree,       \* tree[r] is the FugueTree of replica r
  counter,    \* counter[r] is its ft.counter
  copied      \* copied[r][o]: what a running r.Merge(o) has copied from o

vars == <<tree, counter, copied>>

idle == [inserts |-> {}, deletes |-> {}, running |-> FALSE]

Init ==
  /\ tree = [r \in Replica |-> NewFugueTree]
  /\ counter = [r \in Replica |-> 0]
  /\ copied = [r \in Replica |-> [o \in Replica \ {r} |-> idle]]

-----------------------------------------------------------------------------
nextID(r) == <<r, counter[r] + 1>>

Edits == FSets!MapThenSumSet(LAMBDA r : counter[r], Replica)

Issue(r, op) ==
  /\ Edits < MaxEdits
  /\ counter' = [counter EXCEPT ![r] = @ + 1]
  /\ tree' = [tree EXCEPT ![r] = ApplyOperation(@, op)]
  /\ UNCHANGED copied

InsertAt(r, pos, char) ==
  LET visible == visibleNodes(tree[r])
  IN  \E left \in DOMAIN tree[r], right \in DOMAIN tree[r] \union {nil} :
        /\ OriginsAt(visible, pos, left, right)
        /\ Issue(r, insertOp(nextID(r), char, selectParent(tree[r], left, right)))

DeleteAt(r, pos) ==
  LET visible == visibleNodes(tree[r])
  IN  \E target \in Nodes(tree[r]) :
        /\ pos \in 0 .. Len(visible) - 1
        /\ target = visible[pos + 1]
        /\ Issue(r, deleteOp(nextID(r), target))

(* The insert that made node n of t, rebuilt from its fields.              *)
insertOf(t, n) ==
  insertOp(n, t[n].value, [parent |-> t[n].parent, side |-> t[n].side])

Running == {ro \in Replica \X Replica :
              ro[1] # ro[2] /\ copied[ro[1]][ro[2]].running}

(* Merge up to otherTree.mu.RUnlock().                                     *)
CopyOther(r, o) ==
  /\ Cardinality(Running) < MaxRunning
  /\ ~copied[r][o].running
  /\ copied' = [copied EXCEPT ![r][o] =
                  [inserts |-> {insertOf(tree[o], n) : n \in Nodes(tree[o])},
                   deletes |-> Tombstones(tree[o]),
                   running |-> TRUE]]
  /\ UNCHANGED <<tree, counter>>

(* Mutant: the copies are applied in map order.                            *)
Unsorted(ops) == Seqs!SetToSeqs(ops)

(* Every outcome of sort.Slice by Counter: equal counters come out in any  *)
(* order, the sort is unstable and its input is in map order.              *)
SortedByCounter(ops) ==
  {seq \in Seqs!SetToSeqs(ops) :
     \A i, j \in 1 .. Len(seq) : i < j => seq[i].id[2] <= seq[j].id[2]}

(* The loop over the sorted copies.                                        *)
insertAll(t, seq) ==
  LET upTo[i \in 0 .. Len(seq)] ==
        IF i = 0 THEN t ELSE applyInsert(upTo[i - 1], seq[i])
  IN  upTo[Len(seq)]

(* Mutant: tombstones are not merged.                                      *)
deleteNone(t, targets) == t

(* A target that is still missing is skipped, as in applyDelete.           *)
deleteAll(t, targets) ==
  [n \in DOMAIN t |-> IF n \in targets THEN [t[n] EXCEPT !.deleted = TRUE] ELSE t[n]]

(* The rest of Merge, under ft.mu.                                         *)
ApplyCopied(r, o) ==
  /\ copied[r][o].running
  /\ \E seq \in SortedByCounter(copied[r][o].inserts) :
       tree' = [tree EXCEPT ![r] = deleteAll(insertAll(@, seq), copied[r][o].deletes)]
  /\ copied' = [copied EXCEPT ![r][o] = idle]
  /\ UNCHANGED counter

Merge(r, o) == CopyOther(r, o) \/ ApplyCopied(r, o)

-----------------------------------------------------------------------------
Positions(r) == 0 .. Len(visibleNodes(tree[r]))

Edit(r) ==
  \/ \E pos \in Positions(r), char \in Char : InsertAt(r, pos, char)
  \/ \E pos \in Positions(r) : DeleteAt(r, pos)

Next == \E r \in Replica : Edit(r) \/ \E o \in Replica \ {r} : Merge(r, o)

Spec == Init /\ [][Next]_vars

(* Every replica keeps merging every other one: a Merge that was called    *)
(* returns, and each pair gets its turn although MaxRunning limits how many*)
(* run at once, which is what strong fairness is for.                      *)
FairSpec ==
  Spec /\ \A r \in Replica : \A o \in Replica \ {r} : SF_vars(Merge(r, o))

-----------------------------------------------------------------------------
(* Properties.                                                             *)

(* Whatever the order of the map and of equal counters, and whatever was   *)
(* edited between the two halves of a Merge, a tree stays the function of  *)
(* its nodes and tombstones, its child slices match its parent links, and  *)
(* two replicas show common nodes alike.                                   *)
MergedTreesAgree ==
  \A r, q \in Replica :
    /\ ChildListsMatch(tree[r])
    /\ Agree(tree[r], tree[q])
    /\ SameOrder(tree[r], tree[q])
    /\ SameContent(tree[r], tree[q]) => tree[r] = tree[q]

(* op is sorted too early: its parent is in the copy with no lower counter.*)
Inverted(op, ops) == \E p \in ops : p.id = op.parent /\ p.id[2] >= op.id[2]

(* The insert of op or of one of its ancestors in the copy is inverted:    *)
(* there is one in every set that holds op and the parents of its members. *)
BehindInversion(op, ops) ==
  \A above \in SUBSET ops :
    /\ op \in above
    /\ \A c \in above, p \in ops : c.parent = p.id => p \in above
    => \E c \in above : Inverted(c, ops)

(* What Merge does achieve: a node of the copy is missing afterwards only  *)
(* when some parent on its path had a counter no lower than its child's,   *)
(* which a single author never produces; and every mark of the copy whose  *)
(* node arrived is set.                                                    *)
MergeMissesOnlyInversions ==
  [][\A r \in Replica : \A o \in Replica \ {r} :
       ApplyCopied(r, o) =>
         LET ops == copied[r][o].inserts
         IN  /\ \A op \in ops : op.id \notin Nodes(tree'[r]) => BehindInversion(op, ops)
             /\ copied[r][o].deletes \intersect Nodes(tree'[r]) \subseteq Tombstones(tree'[r])]_vars

(* When editing stops, replicas that keep merging each other do converge:  *)
(* a Merge that drops nodes is repaired by the next ones.                  *)
RepeatedMergeConverges == <>[](\A r, q \in Replica : tree[r] = tree[q])

(* Replicas that merge promise of their characters what replicas that send *)
(* operations do: each is created once, is known only where it came from,  *)
(* and is never forgotten, nor is its removal.                             *)
NodeSet == INSTANCE ReplicatedNodeSet WITH
             nodes <- [r \in Replica |-> Nodes(tree[r])],
             dead <- [r \in Replica |-> Tombstones(tree[r])]

MergesImplementNodeSet == NodeSet!MergingSpec
=============================================================================
