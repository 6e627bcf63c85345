----------------------------- MODULE FugueTree -----------------------------
(***************************************************************************)
(* The Fugue sequence of pkg/crdt/fugue.go as pure operators: what each    *)
(* method of FugueTree computes while it holds ft.mu.                      *)
(*                                                                         *)
(* A tree is a function from the ids of the nodes it holds, the root       *)
(* sentinel included, to node records: the Go map ft.nodes, with child     *)
(* slices that hold ids where the code holds pointers.                     *)
(***************************************************************************)
EXTENDS Integers, Sequences

CONSTANTS
  Replica,    \* the ReplicaIDs, as numbers: < is their string order
  Char        \* the characters (runes) that can be typed

ASSUME ReplicaAssumption == Replica \subseteq Nat \ {0}

Seqs == INSTANCE SequencesExt

-----------------------------------------------------------------------------
(* Identifiers and operations.                                             *)

(* OpID{ReplicaID, Counter}; a counter starts at 1, see nextID.            *)
OpID == Replica \X (Nat \ {0})

rootSentinelID == <<0, 0>>

(* Mutant: ids compared by their counters alone.                           *)
PrecedesByCounter(id, other) == id[2] < other[2]

(* id.Compare(other) < 0: the replica first, then the counter.             *)
Precedes(id, other) ==
  \/ id[1] < other[1]
  \/ id[1] = other[1] /\ id[2] < other[2]

Side == {"left", "right"}

FugueInsertOp == [type : {"insert"}, id : OpID, value : Char,
                  parent : OpID \union {rootSentinelID}, side : Side]

FugueDeleteOp == [type : {"delete"}, id : OpID, target : OpID]

Operation == FugueInsertOp \union FugueDeleteOp

-----------------------------------------------------------------------------
(* The tree.                                                               *)

zeroRune == 0      \* the Value of the root sentinel, a rune nobody types

nil == <<>>        \* a *FugueNode that is nil: no id

FugueNode == [value : Char \union {zeroRune},
              parent : OpID \union {rootSentinelID},
              side : Side, deleted : BOOLEAN, kids : [Side -> Seq(OpID)]]

(* The zero ParentID of the root names no node and is never read; the root *)
(* itself stands for it.                                                   *)
NewNode(value, parent, side) ==
  [value |-> value, parent |-> parent, side |-> side, deleted |-> FALSE,
   kids |-> [s \in Side |-> <<>>]]

NewFugueTree ==
  [n \in {rootSentinelID} |-> NewNode(zeroRune, rootSentinelID, "left")]

(* Mutant: children kept in the order in which they arrive.                *)
insertChildUnsorted(children, id) ==
  IF \E i \in 1 .. Len(children) : children[i] = id
  THEN children
  ELSE Append(children, id)

(* sort.Search yields the first slot whose child does not precede id; an   *)
(* id that is already there is not inserted again.                         *)
insertChild(children, id) ==
  LET slot == CHOOSE i \in 1 .. Len(children) + 1 :
                /\ \A j \in 1 .. i - 1 : Precedes(children[j], id)
                /\ i <= Len(children) => ~Precedes(children[i], id)
  IN  IF slot <= Len(children) /\ children[slot] = id
      THEN children
      ELSE Seqs!InsertAt(children, slot, id)

(* Mutant: an insert that is delivered again replaces its node.            *)
applyInsertOverwrites(t, op) ==
  IF op.parent \notin DOMAIN t
  THEN t
  ELSE [n \in DOMAIN t \union {op.id} |->
          IF n = op.id THEN NewNode(op.value, op.parent, op.side)
          ELSE IF n = op.parent
               THEN [t[n] EXCEPT !.kids[op.side] = insertChild(@, op.id)]
               ELSE t[n]]

(* Mutant: a node is recorded although its parent is not here.             *)
applyInsertOrphan(t, op) ==
  IF op.id \in DOMAIN t
  THEN t
  ELSE [n \in DOMAIN t \union {op.id} |->
          IF n = op.id THEN NewNode(op.value, op.parent, op.side)
          ELSE IF n = op.parent
               THEN [t[n] EXCEPT !.kids[op.side] = insertChild(@, op.id)]
               ELSE t[n]]

(* An id that is present is left alone, and so is an operation whose       *)
(* parent is not here: it is dropped without an error.                     *)
applyInsert(t, op) ==
  IF op.id \in DOMAIN t \/ op.parent \notin DOMAIN t
  THEN t
  ELSE [n \in DOMAIN t \union {op.id} |->
          IF n = op.id THEN NewNode(op.value, op.parent, op.side)
          ELSE IF n = op.parent
               THEN [t[n] EXCEPT !.kids[op.side] = insertChild(@, op.id)]
               ELSE t[n]]

(* Mutant: a deleted node is taken out of the tree.                        *)
applyDeleteRemoves(t, op) ==
  [n \in DOMAIN t \ {op.target} |->
     [t[n] EXCEPT !.kids =
        [s \in Side |-> SelectSeq(@[s], LAMBDA k : k # op.target)]]]

(* A delete whose target is not here is dropped too.                       *)
applyDelete(t, op) ==
  IF op.target \in DOMAIN t
  THEN [t EXCEPT ![op.target].deleted = TRUE]
  ELSE t

ApplyOperation(t, op) ==
  IF op.type = "insert" THEN applyInsert(t, op) ELSE applyDelete(t, op)

-----------------------------------------------------------------------------
(* The document: in-order traversal, left children before the node and     *)
(* right children after it, the root left out.                             *)

traverse(t) ==
  LET walk[n \in DOMAIN t] ==
        LET below(s) ==
              LET kids == t[n].kids[s]
                  upTo[i \in 0 .. Len(kids)] ==
                    IF i = 0 THEN <<>> ELSE upTo[i - 1] \o walk[kids[i]]
              IN  upTo[Len(kids)]
        IN  below("left") \o (IF n = rootSentinelID THEN <<>> ELSE <<n>>)
                          \o below("right")
  IN  walk[rootSentinelID]

visibleNodes(t) ==
  LET all   == traverse(t)
      shown == [n \in DOMAIN t |-> IF t[n].deleted THEN <<>> ELSE <<n>>]
      upTo[i \in 0 .. Len(all)] ==
        IF i = 0 THEN <<>> ELSE upTo[i - 1] \o shown[all[i]]
  IN  upTo[Len(all)]

(* Positions count from 0.  The left origin of position pos is the visible *)
(* node before it, or the root; the right origin is the one after it.      *)
leftOrigin(visible, pos) == IF pos = 0 THEN rootSentinelID ELSE visible[pos]

rightOrigin(visible, pos) == IF pos < Len(visible) THEN visible[pos + 1] ELSE nil

OriginsAt(visible, pos, left, right) ==
  /\ pos \in 0 .. Len(visible)
  /\ left = leftOrigin(visible, pos)
  /\ right = rightOrigin(visible, pos)

(* Mutant: a new node always hangs right of its left origin.               *)
selectParentAlwaysRight(t, left, right) == [parent |-> left, side |-> "right"]

(* Mutant: a new node hangs beside its left origin, not below it.          *)
selectParentSibling(t, left, right) ==
  IF right # nil /\ t[right].parent = left
  THEN [parent |-> right, side |-> "left"]
  ELSE [parent |-> t[left].parent, side |-> "right"]

(* The Fugue parent selection rule as the code has it: the new node hangs  *)
(* left of its right origin when that is a child of its left origin, and   *)
(* right of its left origin otherwise.                                     *)
selectParent(t, left, right) ==
  IF right # nil /\ t[right].parent = left
  THEN [parent |-> right, side |-> "left"]
  ELSE [parent |-> left, side |-> "right"]

insertOp(id, value, place) ==
  [type |-> "insert", id |-> id, value |-> value,
   parent |-> place.parent, side |-> place.side]

deleteOp(id, target) == [type |-> "delete", id |-> id, target |-> target]

-----------------------------------------------------------------------------
(* What the properties of the modules built on this one say of a tree.     *)

Nodes(t) == DOMAIN t \ {rootSentinelID}

Tombstones(t) == {n \in Nodes(t) : t[n].deleted}

(* t shows what op has done.                                               *)
Includes(t, op) ==
  IF op.type = "insert" THEN op.id \in Nodes(t) ELSE op.target \in Tombstones(t)

Children(t, p, s) == {n \in Nodes(t) : t[n].parent = p /\ t[n].side = s}

(* A value of FugueTree.nodes: every node is reached by its own id and     *)
(* hangs from a node that is present.                                      *)
IsTree(t) ==
  /\ t \in [DOMAIN t -> FugueNode]
  /\ rootSentinelID \in DOMAIN t
  /\ Nodes(t) \subseteq OpID
  /\ \A n \in DOMAIN t : t[n].parent \in DOMAIN t

StrictlySorted(seq) ==
  \A i, j \in 1 .. Len(seq) : i < j => Precedes(seq[i], seq[j])

Elements(seq) == {seq[i] : i \in 1 .. Len(seq)}

ChildListsMatch(t) ==
  \A p \in DOMAIN t, s \in Side :
    /\ Elements(t[p].kids[s]) = Children(t, p, s)
    /\ StrictlySorted(t[p].kids[s])

TraversalCovers(t) ==
  LET seq == traverse(t)
  IN  /\ Elements(seq) = Nodes(t)
      /\ \A i, j \in 1 .. Len(seq) : seq[i] = seq[j] => i = j

Agree(t, u) ==
  \A n \in Nodes(t) \intersect Nodes(u) :
    /\ t[n].value = u[n].value
    /\ t[n].parent = u[n].parent
    /\ t[n].side = u[n].side

Before(seq, a, b) == \E i, j \in 1 .. Len(seq) : i < j /\ seq[i] = a /\ seq[j] = b

(* The nodes that both trees hold come in the same order in both.          *)
SameOrder(t, u) ==
  LET first  == traverse(t)
      second == traverse(u)
  IN  \A a, b \in Nodes(t) \intersect Nodes(u) : Before(first, a, b) <=> Before(second, a, b)

SameContent(t, u) == Nodes(t) = Nodes(u) /\ Tombstones(t) = Tombstones(u)

(* The nodes above n: its parent and the parents of those.                 *)
Ancestors(t, n) ==
  {a \in DOMAIN t :
     \A S \in SUBSET DOMAIN t :
       t[n].parent \in S /\ (\A m \in S : t[m].parent \in S) => a \in S}

(* The right origin hangs below the left origin, but not directly.         *)
DeepBelow(t, left, right) ==
  right # nil /\ left \in Ancestors(t, right) /\ t[right].parent # left
=============================================================================
