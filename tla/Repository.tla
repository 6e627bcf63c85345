----------------------------- MODULE Repository -----------------------------
(***************************************************************************)
(* internal/repository/inmemory.go, and how the use cases work with it.    *)
(*                                                                         *)
(* Every method of InMemoryRepository is one step under r.mu.  What it     *)
(* returns is a pointer: the caller edits the tree behind it later, when   *)
(* the repository may hold another tree for the document, or none.         *)
(***************************************************************************)
EXTENDS Integers, FiniteSets

CONSTANTS
  Doc,          \* document ids
  User,         \* goroutines that use the repository
  MaxTrees,     \* bound: how many trees are made
  MaxUpdates,   \* bound: how many edits
  MaxTurns      \* bound: how often a document is deleted or overwritten

VARIABLES
  docs,         \* r.docs: the number of the tree of each document, or 0
  trees,        \* trees[t]: the edits applied to tree t
  held,         \* held[u]: the document that u has asked for, and its tree
  turns,        \* history: turns[d], how often the tree of d was dropped
  edits         \* history: the edits made through the use cases

vars == <<docs, trees, held, turns, edits>>

Tree == DOMAIN trees

nothing == [doc |-> "none"]

Init ==
  /\ docs = [d \in Doc |-> 0]
  /\ trees = <<>>
  /\ held = [u \in User |-> nothing]
  /\ turns = [d \in Doc |-> 0]
  /\ edits = {}

Hold(u, d, t) ==
  held' = [held EXCEPT ![u] = [doc |-> d, tree |-> t, turn |-> turns[d]]]

-----------------------------------------------------------------------------
(* The methods.  Exists, and Get of a document that is not there, change   *)
(* nothing; Create of one that is there neither.                           *)

Get(u, d) ==
  /\ docs[d] # 0
  /\ Hold(u, d, docs[d])
  /\ UNCHANGED <<docs, trees, turns, edits>>

New(u, d) ==
  /\ Cardinality(Tree) < MaxTrees
  /\ LET t == Cardinality(Tree) + 1
     IN  /\ trees' = [k \in 1 .. t |-> IF k = t THEN {} ELSE trees[k]]
         /\ docs' = [docs EXCEPT ![d] = t]
         /\ Hold(u, d, t)
  /\ UNCHANGED <<turns, edits>>

Create(u, d) == docs[d] = 0 /\ New(u, d)

(* Mutant: the document is not looked up again under the lock.             *)
GetOrCreateAnew(u, d) == New(u, d)

GetOrCreate(u, d) == Get(u, d) \/ Create(u, d)

Dropped(d) == docs[d] # 0 /\ turns[d] < MaxTurns /\ turns' = [turns EXCEPT ![d] = @ + 1]

(* Save puts the tree in place, whatever was there before.                 *)
Save(u, d) ==
  /\ held[u] # nothing
  /\ docs' = [docs EXCEPT ![d] = held[u].tree]
  /\ IF docs[d] \in {0, held[u].tree} THEN UNCHANGED turns ELSE Dropped(d)
  /\ UNCHANGED <<trees, held, edits>>

Delete(d) ==
  /\ Dropped(d)
  /\ docs' = [docs EXCEPT ![d] = 0]
  /\ UNCHANGED <<trees, held, edits>>

-----------------------------------------------------------------------------
(* HandleDelta and handleClientMsg apply an operation to the tree that     *)
(* they got before; LoadOrCreate and Text call GetOrCreate.                *)
Edit(u) ==
  /\ held[u] # nothing /\ Cardinality(edits) < MaxUpdates
  /\ LET edit == [n |-> Cardinality(edits) + 1, doc |-> held[u].doc, turn |-> held[u].turn]
     IN  /\ trees' = [trees EXCEPT ![held[u].tree] = @ \union {edit}]
         /\ edits' = edits \union {edit}
  /\ UNCHANGED <<docs, held, turns>>

Next ==
  \/ \E u \in User :
       \/ \E d \in Doc : Get(u, d) \/ Create(u, d) \/ GetOrCreate(u, d) \/ Save(u, d)
       \/ Edit(u)
  \/ \E d \in Doc : Delete(d)

Spec == Init /\ [][Next]_vars

-----------------------------------------------------------------------------
(* Properties.                                                             *)

(* What a goroutine applies to the tree it holds is in the document, for   *)
(* whoever asks next, unless the document was deleted or overwritten after *)
(* it asked for it: goroutines that all create a document at the same time *)
(* work on one tree (GetOrCreate, HandleDelta).                            *)
EditsReachTheDocument ==
  \A edit \in edits :
    edit.turn = turns[edit.doc] =>
      docs[edit.doc] # 0 /\ edit \in trees[docs[edit.doc]]
=============================================================================
