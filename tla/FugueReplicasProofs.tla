------------------------ MODULE FugueReplicasProofs ------------------------
(***************************************************************************)
(* The safety of FugueReplicas, that it implements ReplicatedNodeSet, and  *)
(* that the forward sessions of FugueRuns stay whole, for every set of     *)
(* replicas, every alphabet and every bound on the number of operations.   *)
(***************************************************************************)
EXTENDS FugueRuns, FugueTraversalProofs

(* An OpID is issued once: counters only grow, and what was issued stays   *)
(* below them.                                                             *)
IdsIssuedOnce ==
  /\ \A op \in sent : op.id[1] \in Replica /\ op.id[2] <= counter[op.id[1]]
  /\ \A op1, op2 \in sent : op1.id = op2.id => op1 = op2

(* Every node comes from an insert that was issued.                        *)
NodesWereSent ==
  \A r \in Replica : \A n \in Nodes(tree[r]) :
    \E op \in sent : /\ op.type = "insert" /\ op.id = n
                     /\ op.value = tree[r][n].value
                     /\ op.parent = tree[r][n].parent
                     /\ op.side = tree[r][n].side

(* Every node and every tombstone comes from an operation that the replica *)
(* was handed.                                                             *)
ContentWasApplied ==
  \A r \in Replica :
    /\ \A n \in Nodes(tree[r]) :
         \E op \in applied[r] : op.type = "insert" /\ op.id = n
    /\ \A n \in Tombstones(tree[r]) :
         \E op \in applied[r] : op.type = "delete" /\ op.target = n

(* The inductive invariant of Spec, where operations arrive in any order.  *)
IInv ==
  /\ TypeOK
  /\ \A r \in Replica : SoundTree(tree[r])
  /\ IdsIssuedOnce
  /\ NodesWereSent
  /\ ContentWasApplied

InsertsOf(ops) == {op \in ops : op.type = "insert"}

DeletesOf(ops) == {op \in ops : op.type = "delete"}

(* What CausalSpec adds: a replica shows exactly what it was handed.       *)
AppliedIsShown ==
  \A r \in Replica :
    /\ Nodes(tree[r]) = {op.id : op \in InsertsOf(applied[r])}
    /\ Tombstones(tree[r]) = {op.target : op \in DeletesOf(applied[r])}

(* Two replicas agree on the nodes they share: both got them from the one  *)
(* insert that was issued under that id.                                   *)
LEMMA IInvAgree == IInv => NodesAgree
<1> SUFFICES ASSUME IInv, NEW r \in Replica, NEW q \in Replica,
                    NEW n \in Nodes(tree[r]) \intersect Nodes(tree[q])
             PROVE  /\ tree[r][n].value = tree[q][n].value
                    /\ tree[r][n].parent = tree[q][n].parent
                    /\ tree[r][n].side = tree[q][n].side
  BY DEF NodesAgree, Agree
<1>1. PICK op1 \in sent : /\ op1.id = n
                          /\ op1.value = tree[r][n].value
                          /\ op1.parent = tree[r][n].parent
                          /\ op1.side = tree[r][n].side
  BY DEF IInv, NodesWereSent
<1>2. PICK op2 \in sent : /\ op2.id = n
                          /\ op2.value = tree[q][n].value
                          /\ op2.parent = tree[q][n].parent
                          /\ op2.side = tree[q][n].side
  BY DEF IInv, NodesWereSent
<1>3. op1 = op2
  BY <1>1, <1>2 DEF IInv, IdsIssuedOnce
<1> QED
  BY <1>1, <1>2, <1>3

LEMMA IInvSameTree == IInv => SameNodesSameTree
BY IInvAgree, SameContentSameTree DEF IInv, SameNodesSameTree, NodesAgree

(* What one replica shows of what both were handed, so does the other.     *)
LEMMA IInvConverges == IInv => StrongConvergence
<1> SUFFICES ASSUME IInv, NEW r \in Replica, NEW q \in Replica,
                    applied[r] = applied[q], Dropped(r) = Dropped(q)
             PROVE  tree[r] = tree[q]
  BY DEF StrongConvergence
<1>1. \A op \in applied[r] : Includes(tree[r], op) <=> Includes(tree[q], op)
  BY DEF Dropped
<1>2. ASSUME NEW p \in Replica, NEW o \in Replica, applied[p] = applied[o],
             \A op \in applied[p] : Includes(tree[p], op) <=> Includes(tree[o], op)
      PROVE  /\ Nodes(tree[p]) \subseteq Nodes(tree[o])
             /\ Tombstones(tree[p]) \subseteq Tombstones(tree[o])
  <2>1. ASSUME NEW n \in Nodes(tree[p])
        PROVE  n \in Nodes(tree[o])
    <3>1. PICK op \in applied[p] : op.type = "insert" /\ op.id = n
      BY DEF IInv, ContentWasApplied
    <3> QED
      BY <1>2, <3>1 DEF Includes
  <2>2. ASSUME NEW n \in Tombstones(tree[p])
        PROVE  n \in Tombstones(tree[o])
    <3>1. PICK op \in applied[p] : op.type = "delete" /\ op.target = n
      BY DEF IInv, ContentWasApplied
    <3> QED
      BY <1>2, <3>1 DEF Includes
  <2> QED
    BY <2>1, <2>2
<1>3. /\ Nodes(tree[r]) \subseteq Nodes(tree[q])
      /\ Tombstones(tree[r]) \subseteq Tombstones(tree[q])
  BY <1>1, <1>2
<1>4. /\ Nodes(tree[q]) \subseteq Nodes(tree[r])
      /\ Tombstones(tree[q]) \subseteq Tombstones(tree[r])
  BY <1>1, <1>2
<1>5. SameContent(tree[r], tree[q])
  BY <1>3, <1>4 DEF SameContent
<1> QED
  BY <1>5, IInvSameTree DEF SameNodesSameTree

(* The initial state.                                                      *)
LEMMA InitIInv == Init => IInv /\ AppliedIsShown
<1> SUFFICES ASSUME Init PROVE IInv /\ AppliedIsShown
  OBVIOUS
<1>1. \A r \in Replica : /\ SoundTree(tree[r])
                         /\ Nodes(tree[r]) = {} /\ Tombstones(tree[r]) = {}
  BY NewTreeSound DEF Init
<1>2. TypeOK
  BY <1>1 DEF Init, TypeOK, SoundTree
<1>3. IdsIssuedOnce
  BY DEF Init, IdsIssuedOnce
<1>4. NodesWereSent
  BY <1>1 DEF NodesWereSent
<1>5. AppliedIsShown
  BY <1>1 DEF Init, AppliedIsShown, InsertsOf, DeletesOf
<1>6. ContentWasApplied
  BY <1>1 DEF ContentWasApplied
<1> QED
  BY <1>1, <1>2, <1>3, <1>4, <1>5, <1>6 DEF IInv

-----------------------------------------------------------------------------
(* The steps.                                                              *)

(* What InsertAt and DeleteAt issue is a well-formed operation, with a     *)
(* fresh id, that refers to a node the replica holds.                      *)
IssueGood(r) ==
  \E op \in Operation : /\ op.id = nextID(r)
                        /\ Ready(tree[r], op)
                        /\ Issue(r, op)

LEMMA InsertAtIssues ==
  ASSUME TypeOK, NEW r \in Replica, NEW pos, NEW char \in Char, InsertAt(r, pos, char)
  PROVE  IssueGood(r)
<1>1. PICK left \in DOMAIN tree[r], right \in DOMAIN tree[r] \union {nil} :
        Issue(r, insertOp(nextID(r), char, selectParent(tree[r], left, right)))
  BY DEF InsertAt
<1> DEFINE place == selectParent(tree[r], left, right)
           op == insertOp(nextID(r), char, place)
<1>2. DOMAIN tree[r] \subseteq OpID \union {rootSentinelID}
  BY DEF TypeOK, IsTree, Nodes
<1>3. place.parent \in DOMAIN tree[r] /\ place.side \in Side
  BY DEF selectParent, Side
<1>4. nextID(r) \in OpID
  BY ReplicaAssumption DEF TypeOK, nextID, OpID
<1>5. op \in FugueInsertOp /\ op.id = nextID(r) /\ op.type = "insert"
      /\ op.parent = place.parent
  BY <1>2, <1>3, <1>4 DEF insertOp, FugueInsertOp
<1> HIDE DEF place, op
<1>6. Ready(tree[r], op)
  BY <1>3, <1>5 DEF Ready
<1> QED
  BY <1>1, <1>5, <1>6 DEF IssueGood, Operation, op, place

LEMMA DeleteAtIssues ==
  ASSUME TypeOK, NEW r \in Replica, NEW pos, DeleteAt(r, pos)
  PROVE  IssueGood(r)
<1>1. PICK target \in DOMAIN tree[r] \ {rootSentinelID} :
        Issue(r, deleteOp(nextID(r), target))
  BY DEF DeleteAt
<1> DEFINE op == deleteOp(nextID(r), target)
<1>2. target \in OpID
  BY DEF TypeOK, IsTree, Nodes
<1>3. nextID(r) \in OpID
  BY ReplicaAssumption DEF TypeOK, nextID, OpID
<1>4. op \in FugueDeleteOp /\ op.id = nextID(r) /\ op.type = "delete" /\ op.target = target
  BY <1>2, <1>3 DEF deleteOp, FugueDeleteOp
<1>5. Ready(tree[r], op)
  BY <1>4 DEF Ready
<1> QED
  BY <1>1, <1>4, <1>5 DEF IssueGood, Operation

(* An edit issues a good operation.                                        *)
LEMMA EditIssues ==
  ASSUME TypeOK, NEW r \in Replica, Edit(r)
  PROVE  IssueGood(r)
BY InsertAtIssues, DeleteAtIssues DEF Edit

(* What a replica that applies op looks like afterwards, the others being  *)
(* left alone: the part that Issue and Receive share.                      *)
Applies(r, op) ==
  /\ tree' = [tree EXCEPT ![r] = ApplyOperation(@, op)]
  /\ applied' = [applied EXCEPT ![r] = @ \union {op}]
  /\ sent \union {op} \subseteq sent'

LEMMA AppliesSound ==
  ASSUME IInv, NEW r \in Replica, NEW op \in Operation, Applies(r, op)
  PROVE  /\ DOMAIN tree' = Replica
         /\ \A q \in Replica : SoundTree(tree[q])'
         /\ NodesWereSent' /\ ContentWasApplied'
         /\ Effect(tree[r], op, tree'[r])
         /\ \A q \in Replica \ {r} : tree'[q] = tree[q]
<1>1. DOMAIN tree = Replica /\ SoundTree(tree[r])
  BY DEF IInv, TypeOK
<1>2. /\ DOMAIN tree' = Replica
      /\ tree'[r] = ApplyOperation(tree[r], op)
      /\ \A q \in Replica \ {r} : tree'[q] = tree[q]
  BY <1>1 DEF Applies
<1>3. Effect(tree[r], op, tree'[r])
  BY <1>1, <1>2, ApplyOperationEffect
<1>4. \A q \in Replica : SoundTree(tree'[q])
  BY <1>2, <1>3 DEF IInv, Effect
<1>5. ASSUME NEW q \in Replica, NEW n \in Nodes(tree'[q])
      PROVE  \E o \in sent' : /\ o.type = "insert" /\ o.id = n
                              /\ o.value = tree'[q][n].value
                              /\ o.parent = tree'[q][n].parent
                              /\ o.side = tree'[q][n].side
  <2>1. CASE n \in Nodes(tree[q])
    <3>1. /\ tree'[q][n].value = tree[q][n].value
          /\ tree'[q][n].parent = tree[q][n].parent
          /\ tree'[q][n].side = tree[q][n].side
      BY <1>2, <1>3, <2>1 DEF Effect, Kept, Nodes
    <3>2. PICK o \in sent : /\ o.type = "insert" /\ o.id = n
                            /\ o.value = tree[q][n].value
                            /\ o.parent = tree[q][n].parent
                            /\ o.side = tree[q][n].side
      BY <2>1 DEF IInv, NodesWereSent
    <3>3. o \in sent'
      BY DEF Applies
    <3> QED
      BY <3>1, <3>2, <3>3
  <2>2. CASE n \notin Nodes(tree[q])
    <3>1. q = r
      BY <1>2, <1>5, <2>2
    <3>2. n = op.id /\ op.type = "insert" /\ op.id \in Nodes(tree'[r]) \ Nodes(tree[r])
      BY <1>3, <1>5, <2>2, <3>1 DEF Effect
    <3>3. /\ tree'[r][n].value = op.value
          /\ tree'[r][n].parent = op.parent
          /\ tree'[r][n].side = op.side
      BY <1>3, <3>2 DEF Effect
    <3>4. op \in sent'
      BY DEF Applies
    <3> QED
      BY <3>1, <3>2, <3>3, <3>4
  <2> QED
    BY <2>1, <2>2
<1>6. ContentWasApplied'
  <2>1. /\ applied'[r] = applied[r] \union {op}
        /\ \A q \in Replica \ {r} : applied'[q] = applied[q]
    BY DEF Applies, IInv, TypeOK
  <2>2. ASSUME NEW q \in Replica, NEW n \in Nodes(tree'[q])
        PROVE  \E o \in applied'[q] : o.type = "insert" /\ o.id = n
    <3>1. CASE n \in Nodes(tree[q])
      BY <2>1, <3>1 DEF IInv, ContentWasApplied
    <3>2. CASE n \notin Nodes(tree[q])
      BY <1>2, <1>3, <2>1, <2>2, <3>2 DEF Effect
    <3> QED
      BY <3>1, <3>2
  <2>3. ASSUME NEW q \in Replica, NEW n \in Tombstones(tree'[q])
        PROVE  \E o \in applied'[q] : o.type = "delete" /\ o.target = n
    <3>1. CASE n \in Tombstones(tree[q])
      BY <2>1, <3>1 DEF IInv, ContentWasApplied
    <3>2. CASE n \notin Tombstones(tree[q])
      BY <1>2, <1>3, <2>1, <2>3, <3>2 DEF Effect
    <3> QED
      BY <3>1, <3>2
  <2> QED
    BY <2>2, <2>3 DEF ContentWasApplied
<1> QED
  BY <1>2, <1>3, <1>4, <1>5, <1>6 DEF NodesWereSent

(* A ready operation shows up, so what is shown stays what was applied.    *)
LEMMA AppliesShown ==
  ASSUME IInv, AppliedIsShown, NEW r \in Replica, NEW op \in Operation,
         Ready(tree[r], op), Applies(r, op)
  PROVE  AppliedIsShown'
<1>1. /\ Effect(tree[r], op, tree'[r])
      /\ \A q \in Replica \ {r} : tree'[q] = tree[q]
  BY AppliesSound
<1>2. /\ applied'[r] = applied[r] \union {op}
      /\ \A q \in Replica \ {r} : applied'[q] = applied[q]
  BY DEF Applies, IInv, TypeOK
<1>3. op.type = "insert" \/ op.type = "delete"
  BY DEF Operation, FugueInsertOp, FugueDeleteOp
<1>4. ASSUME op.type = "insert"
      PROVE  /\ Nodes(tree'[r]) = {o.id : o \in InsertsOf(applied'[r])}
             /\ Tombstones(tree'[r]) = {o.target : o \in DeletesOf(applied'[r])}
  <2>1. Nodes(tree'[r]) = Nodes(tree[r]) \union {op.id}
    BY <1>1, <1>4 DEF Effect, Ready
  <2>2. Tombstones(tree'[r]) = Tombstones(tree[r])
    BY <1>1, <1>4 DEF Effect
  <2>3. InsertsOf(applied'[r]) = InsertsOf(applied[r]) \union {op}
    BY <1>2, <1>4 DEF InsertsOf
  <2>4. DeletesOf(applied'[r]) = DeletesOf(applied[r])
    BY <1>2, <1>4 DEF DeletesOf
  <2> QED
    BY <2>1, <2>2, <2>3, <2>4 DEF AppliedIsShown
<1>5. ASSUME op.type = "delete"
      PROVE  /\ Nodes(tree'[r]) = {o.id : o \in InsertsOf(applied'[r])}
             /\ Tombstones(tree'[r]) = {o.target : o \in DeletesOf(applied'[r])}
  <2>1. op.target \in Nodes(tree[r])
    BY <1>5, RootIsNoOpID DEF Ready, Nodes, Operation, FugueDeleteOp, FugueInsertOp
  <2>2. /\ Nodes(tree'[r]) = Nodes(tree[r])
        /\ Tombstones(tree'[r]) = Tombstones(tree[r]) \union {op.target}
    BY <1>1, <1>5, <2>1 DEF Effect
  <2>3. InsertsOf(applied'[r]) = InsertsOf(applied[r])
    BY <1>2, <1>5 DEF InsertsOf
  <2>4. DeletesOf(applied'[r]) = DeletesOf(applied[r]) \union {op}
    BY <1>2, <1>5 DEF DeletesOf
  <2> QED
    BY <2>2, <2>3, <2>4 DEF AppliedIsShown
<1>6. ASSUME NEW q \in Replica \ {r}
      PROVE  /\ Nodes(tree'[q]) = {o.id : o \in InsertsOf(applied'[q])}
             /\ Tombstones(tree'[q]) = {o.target : o \in DeletesOf(applied'[q])}
  BY <1>1, <1>2 DEF AppliedIsShown
<1> QED
  BY <1>3, <1>4, <1>5, <1>6 DEF AppliedIsShown

(* Issuing an operation keeps ids unique.                                  *)
LEMMA IssueIInv ==
  ASSUME IInv, NEW r \in Replica, NEW op \in Operation, op.id = nextID(r), Issue(r, op)
  PROVE  IInv' /\ Applies(r, op)
<1>1. Applies(r, op)
  BY DEF Issue, Applies
<1>2. /\ DOMAIN tree' = Replica
      /\ \A q \in Replica : SoundTree(tree[q])'
      /\ NodesWereSent' /\ ContentWasApplied'
  BY <1>1, AppliesSound
<1>3. counter \in [Replica -> Nat] /\ sent \subseteq Operation
      /\ applied \in [Replica -> SUBSET sent]
  BY DEF IInv, TypeOK
<1>4. TypeOK'
  BY <1>2, <1>3 DEF Issue, TypeOK, SoundTree
<1>5. IdsIssuedOnce'
  <2>1. op.id[1] = r /\ op.id[2] = counter[r] + 1
    BY DEF nextID
  <2>2. sent' = sent \union {op} /\ counter' = [counter EXCEPT ![r] = counter[r] + 1]
    BY DEF Issue
  <2>3. \A o \in sent : o.id[1] \in Replica /\ o.id[2] \in Nat /\ o.id[2] <= counter[o.id[1]]
    BY <1>3 DEF IInv, IdsIssuedOnce, Operation, FugueInsertOp, FugueDeleteOp, OpID
  <2>4. \A o \in sent : o.id # op.id
    BY <1>3, <2>1, <2>3
  <2>5. \A o \in sent' : o.id[1] \in Replica /\ o.id[2] <= counter'[o.id[1]]
    BY <1>3, <2>1, <2>2, <2>3
  <2> QED
    BY <2>2, <2>4, <2>5 DEF IInv, IdsIssuedOnce
<1> QED
  BY <1>1, <1>2, <1>4, <1>5 DEF IInv

(* So does receiving one.                                                  *)
LEMMA ReceiveIInv ==
  ASSUME IInv, NEW r \in Replica, NEW op \in sent, Receive(r, op)
  PROVE  IInv' /\ Applies(r, op)
<1>1. Applies(r, op) /\ sent' = sent /\ counter' = counter
  BY DEF Receive, Applies
<1>2. op \in Operation
  BY DEF IInv, TypeOK
<1>3. /\ DOMAIN tree' = Replica
      /\ \A q \in Replica : SoundTree(tree[q])'
      /\ NodesWereSent' /\ ContentWasApplied'
  BY <1>1, <1>2, AppliesSound
<1>4. TypeOK'
  BY <1>1, <1>3 DEF IInv, TypeOK, Applies, SoundTree
<1>5. IdsIssuedOnce'
  BY <1>1 DEF IInv, IdsIssuedOnce
<1> QED
  BY <1>1, <1>3, <1>4, <1>5 DEF IInv

LEMMA StutterIInv ==
  ASSUME UNCHANGED vars
  PROVE  (IInv => IInv') /\ (AppliedIsShown => AppliedIsShown')
<1>1. tree' = tree /\ counter' = counter /\ sent' = sent /\ applied' = applied
  BY DEF vars
<1>2. TypeOK => TypeOK'
  BY <1>1 DEF TypeOK
<1>3. (\A r \in Replica : SoundTree(tree[r])) => (\A r \in Replica : SoundTree(tree[r]))'
  BY <1>1
<1>4. IdsIssuedOnce => IdsIssuedOnce'
  BY <1>1 DEF IdsIssuedOnce
<1>5. NodesWereSent => NodesWereSent'
  BY <1>1 DEF NodesWereSent
<1>6. AppliedIsShown => AppliedIsShown'
  BY <1>1 DEF AppliedIsShown
<1>7. ContentWasApplied => ContentWasApplied'
  BY <1>1 DEF ContentWasApplied
<1> QED
  BY <1>2, <1>3, <1>4, <1>5, <1>6, <1>7 DEF IInv

LEMMA NextIInv == IInv /\ [Next]_vars => IInv'
<1> SUFFICES ASSUME IInv, [Next]_vars PROVE IInv'
  OBVIOUS
<1>1. ASSUME NEW r \in Replica, Edit(r) PROVE IInv'
  BY <1>1, EditIssues, IssueIInv DEF IssueGood, IInv
<1>2. ASSUME NEW r \in Replica, NEW op \in sent, Receive(r, op) PROVE IInv'
  BY <1>2, ReceiveIInv
<1>3. CASE UNCHANGED vars
  BY <1>3, StutterIInv
<1> QED
  BY <1>1, <1>2, <1>3 DEF Next

LEMMA CausalNextInv ==
  IInv /\ AppliedIsShown /\ [CausalNext]_vars => IInv' /\ AppliedIsShown'
<1> SUFFICES ASSUME IInv, AppliedIsShown, [CausalNext]_vars
             PROVE  IInv' /\ AppliedIsShown'
  OBVIOUS
<1>1. ASSUME NEW r \in Replica, Edit(r) PROVE IInv' /\ AppliedIsShown'
  <2>1. PICK op \in Operation : op.id = nextID(r) /\ Ready(tree[r], op) /\ Issue(r, op)
    BY <1>1, EditIssues DEF IssueGood, IInv
  <2> QED
    BY <2>1, IssueIInv, AppliesShown
<1>2. ASSUME NEW r \in Replica, NEW op \in sent, ReceiveReady(r, op)
      PROVE  IInv' /\ AppliedIsShown'
  <2>1. op \in Operation
    BY DEF IInv, TypeOK
  <2> QED
    BY <1>2, <2>1, ReceiveIInv, AppliesShown DEF ReceiveReady
<1>3. CASE UNCHANGED vars
  BY <1>3, StutterIInv
<1> QED
  BY <1>1, <1>2, <1>3 DEF CausalNext

-----------------------------------------------------------------------------
(* The theorems.                                                           *)

(* With operations arriving in any order, every variable keeps its type:   *)
(* in particular no node ever hangs from a parent that is not there.       *)
THEOREM SpecTypeOK == Spec => []TypeOK
<1>1. IInv => TypeOK
  BY DEF IInv
<1> QED
  BY <1>1, InitIInv, NextIInv, PTL DEF Spec

(* With operations arriving in any order, the child slices and the parent  *)
(* links of every replica describe the same tree.                          *)
THEOREM SpecChildLists == Spec => []ChildListsMatchParents
<1>1. IInv => ChildListsMatchParents
  BY DEF IInv, SoundTree, ChildListsMatchParents
<1> QED
  BY <1>1, InitIInv, NextIInv, PTL DEF Spec

(* With operations arriving in any order, two replicas never disagree on   *)
(* a node that both of them hold.                                          *)
THEOREM SpecNodesAgree == Spec => []NodesAgree
BY IInvAgree, InitIInv, NextIInv, PTL DEF Spec

(* With operations arriving in any order, replicas with the same nodes and *)
(* tombstones are in the same state.                                       *)
THEOREM SpecSameNodesSameTree == Spec => []SameNodesSameTree
BY IInvSameTree, InitIInv, NextIInv, PTL DEF Spec

(* Whatever the order and the repetitions, replicas that have received the *)
(* same operations and dropped the same of them, or none, are in the same  *)
(* state: strong eventual consistency, as far as ApplyOperation goes.      *)
THEOREM SpecConverges == Spec => []StrongConvergence
BY IInvConverges, InitIInv, NextIInv, PTL DEF Spec

(* With causal delivery nothing is dropped, and replicas that have         *)
(* received the same operations are in the same state (doc.go).            *)
THEOREM CausalSpecConverges ==
  CausalSpec => [](/\ \A r \in Replica : Dropped(r) = {}
                   /\ \A r, q \in Replica : applied[r] = applied[q] => tree[r] = tree[q])
<1> DEFINE NoneDropped == \A r \in Replica : Dropped(r) = {}
           SameState == \A r, q \in Replica : applied[r] = applied[q] => tree[r] = tree[q]
<1>1. IInv /\ AppliedIsShown => NoneDropped
  <2> SUFFICES ASSUME IInv, AppliedIsShown, NEW r \in Replica, NEW op \in applied[r]
               PROVE  Includes(tree[r], op)
    BY DEF Dropped
  <2>1. op.type \in {"insert", "delete"}
    BY DEF IInv, TypeOK, Operation, FugueInsertOp, FugueDeleteOp
  <2> QED
    BY <2>1 DEF AppliedIsShown, InsertsOf, DeletesOf, Includes
<1>2. IInv /\ AppliedIsShown => SameState
  BY <1>1, IInvConverges DEF StrongConvergence
<1> QED
  BY <1>1, <1>2, InitIInv, CausalNextInv, PTL DEF CausalSpec

(* With operations arriving in any order, no node a replica holds is lost  *)
(* from its document or shown twice.                                       *)
THEOREM SpecTraversalCovers == Spec => []TraversalCoversNodes
<1>1. IInv => TraversalCoversNodes
  BY TraversalIsComplete DEF IInv, TraversalCoversNodes
<1> QED
  BY <1>1, InitIInv, NextIInv, PTL DEF Spec

(* Even before they converge, and whatever is reordered or repeated, two   *)
(* replicas show the nodes they share in one order.                        *)
THEOREM SpecOrderAgreement == Spec => []OrderAgreement
<1>1. IInv => OrderAgreement
  BY IInvAgree, SharedNodesInOneOrder DEF IInv, NodesAgree, OrderAgreement
<1> QED
  BY <1>1, InitIInv, NextIInv, PTL DEF Spec

(* The step that applies op keeps the history of every replica.            *)
LEMMA AppliesKeepsHistory ==
  ASSUME IInv, NEW r \in Replica, NEW op \in Operation, Applies(r, op), NEW q \in Replica
  PROVE  /\ Nodes(tree[q]) \subseteq Nodes(tree'[q])
         /\ SameOrder(tree[q], tree'[q])
         /\ Tombstones(tree[q]) \subseteq Tombstones(tree'[q])
<1>1. /\ \A p \in Replica : SoundTree(tree'[p])
      /\ Effect(tree[r], op, tree'[r])
      /\ \A p \in Replica \ {r} : tree'[p] = tree[p]
  BY AppliesSound
<1>2. SoundTree(tree[q]) /\ SoundTree(tree'[q])
  BY <1>1 DEF IInv
<1>3. /\ Nodes(tree[q]) \subseteq Nodes(tree'[q])
      /\ Tombstones(tree[q]) \subseteq Tombstones(tree'[q])
  <2>1. CASE q = r
    BY <1>1, <2>1 DEF Effect
  <2>2. CASE q # r
    BY <1>1, <2>2
  <2> QED
    BY <2>1, <2>2
<1>4. Agree(tree[q], tree'[q])
  <2>1. CASE q = r
    BY <1>1, <2>1 DEF Effect, Kept, Agree, Nodes
  <2>2. CASE q # r
    BY <1>1, <2>2 DEF Agree
  <2> QED
    BY <2>1, <2>2
<1> QED
  BY <1>2, <1>3, <1>4, SharedNodesInOneOrder

LEMMA NextKeepsHistory ==
  ASSUME IInv, Next, NEW q \in Replica
  PROVE  /\ Nodes(tree[q]) \subseteq Nodes(tree'[q])
         /\ SameOrder(tree[q], tree'[q])
         /\ Tombstones(tree[q]) \subseteq Tombstones(tree'[q])
<1>1. \E r \in Replica, op \in Operation : Applies(r, op)
  <2>1. ASSUME NEW r \in Replica, Edit(r)
        PROVE  \E op \in Operation : Applies(r, op)
    BY <2>1, EditIssues, IssueIInv DEF IssueGood, IInv
  <2>2. ASSUME NEW r \in Replica, NEW op \in sent, Receive(r, op)
        PROVE  op \in Operation /\ Applies(r, op)
    BY <2>2, ReceiveIInv DEF IInv, TypeOK
  <2> QED
    BY <2>1, <2>2 DEF Next
<1> QED
  BY <1>1, AppliesKeepsHistory

(* No step takes a node away from a replica, moves one it has or revives a *)
(* tombstone, not even when operations are repeated or come too early.     *)
THEOREM SpecKeepsHistory == Spec => HistoryIsKept
<1>1. IInv /\ [Next]_vars =>
        [\A r \in Replica : /\ Nodes(tree[r]) \subseteq Nodes(tree'[r])
                            /\ SameOrder(tree[r], tree'[r])
                            /\ Tombstones(tree[r]) \subseteq Tombstones(tree'[r])]_vars
  BY NextKeepsHistory
<1> QED
  BY <1>1, InitIInv, NextIInv, PTL DEF Spec, HistoryIsKept

-----------------------------------------------------------------------------
(* Where a character lands.                                                *)

(* Nobody has a node with an id that has not been issued.                  *)
LEMMA FreshId ==
  ASSUME IInv, NEW r \in Replica, NEW q \in Replica
  PROVE  nextID(r) \notin Nodes(tree[q])
<1> SUFFICES ASSUME nextID(r) \in Nodes(tree[q]) PROVE FALSE
  OBVIOUS
<1>1. PICK op \in sent : op.id = nextID(r)
  BY DEF IInv, NodesWereSent
<1>2. op.id[1] = r /\ op.id[2] = counter[r] + 1
  BY <1>1 DEF nextID
<1>3. op.id[2] <= counter[r] /\ counter[r] \in Nat
  BY <1>2 DEF IInv, IdsIssuedOnce, TypeOK
<1> QED
  BY <1>2, <1>3

LEMMA InsertAtLands ==
  ASSUME IInv, NEW r \in Replica, NEW pos, NEW char \in Char,
         NEW left \in DOMAIN tree[r], NEW right \in DOMAIN tree[r] \union {nil},
         OriginsAt(visibleNodes(tree[r]), pos, left, right),
         Issue(r, insertOp(nextID(r), char, selectParent(tree[r], left, right)))
  PROVE  /\ SubSeq(visibleNodes(tree'[r]), 1, pos) = SubSeq(visibleNodes(tree[r]), 1, pos)
         /\ ~DeepBelow(tree[r], left, right) => visibleNodes(tree'[r]) = ShownAt(r, pos)
<1> DEFINE t == tree[r]
           x == nextID(r)
           place == selectParent(t, left, right)
           op == insertOp(x, char, place)
<1>1. DOMAIN tree = Replica /\ SoundTree(t) /\ DOMAIN t \subseteq OpID \union {rootSentinelID}
  BY DEF IInv, TypeOK, IsTree, Nodes
<1>2. place.parent \in DOMAIN t /\ place.side \in Side
  BY DEF selectParent, Side
<1>3. x \in OpID /\ x \notin Nodes(t)
  BY ReplicaAssumption, FreshId DEF IInv, TypeOK, nextID, OpID
<1>4. /\ op \in Operation /\ op.type = "insert" /\ op.id = x
      /\ op.parent = place.parent /\ op.side = place.side
  BY <1>1, <1>2, <1>3 DEF insertOp, FugueInsertOp, Operation
<1>5. tree'[r] = ApplyOperation(t, op)
  BY <1>1 DEF Issue
<1>6. x = nextID(r) /\ t = tree[r] /\ place = selectParent(tree[r], left, right)
  OBVIOUS
<1> HIDE DEF t, x, place, op
<1>7. Effect(t, op, tree'[r])
  BY <1>1, <1>4, <1>5, ApplyOperationEffect
<1>8. /\ SoundTree(tree'[r]) /\ Kept(t, tree'[r])
      /\ Nodes(tree'[r]) = Nodes(t) \union {x}
      /\ Tombstones(tree'[r]) = Tombstones(t)
  BY <1>2, <1>4, <1>7 DEF Effect
<1>9. tree'[r][x].parent = place.parent /\ tree'[r][x].side = place.side
  BY <1>3, <1>4, <1>7, <1>8 DEF Effect
<1>10. /\ left \in DOMAIN t /\ right \in DOMAIN t \union {nil}
       /\ OriginsAt(visibleNodes(t), pos, left, right)
       /\ tree'[r][x].parent = selectParent(t, left, right).parent
       /\ tree'[r][x].side = selectParent(t, left, right).side
  BY <1>6, <1>9
<1>11. /\ SubSeq(visibleNodes(tree'[r]), 1, pos) = SubSeq(visibleNodes(t), 1, pos)
       /\ ~DeepBelow(t, left, right) =>
            visibleNodes(tree'[r]) = Seqs!InsertAt(visibleNodes(t), pos + 1, x)
  BY <1>1, <1>3, <1>8, <1>10, LandsAt, ZenonT(40)
<1> QED
  BY <1>6, <1>11 DEF ShownAt

(* InsertAt never puts a character before its left neighbour, and puts it  *)
(* at the position it was given unless the character to its right hangs    *)
(* deep below the one to its left, whatever the replica has received.      *)
THEOREM SpecInsertLands == Spec => InsertLandsUnlessDeepBelow
<1>1. ASSUME IInv, NEW r \in Replica, NEW pos \in Positions(r), NEW char \in Char,
             InsertAt(r, pos, char)
      PROVE  LET before == visibleNodes(tree[r])
                 after  == visibleNodes(tree'[r])
                 left   == leftOrigin(before, pos)
                 right  == rightOrigin(before, pos)
             IN  /\ SubSeq(after, 1, pos) = SubSeq(before, 1, pos)
                 /\ ~DeepBelow(tree[r], left, right) => after = ShownAt(r, pos)
  <2>1. PICK left \in DOMAIN tree[r], right \in DOMAIN tree[r] \union {nil} :
          /\ OriginsAt(visibleNodes(tree[r]), pos, left, right)
          /\ Issue(r, insertOp(nextID(r), char, selectParent(tree[r], left, right)))
    BY <1>1 DEF InsertAt
  <2>2. /\ left = leftOrigin(visibleNodes(tree[r]), pos)
        /\ right = rightOrigin(visibleNodes(tree[r]), pos)
    BY <2>1 DEF OriginsAt
  <2> QED
    BY <1>1, <2>1, <2>2, InsertAtLands
<1>2. IInv /\ [Next]_vars =>
        [\A r \in Replica : \A pos \in Positions(r), char \in Char :
           InsertAt(r, pos, char) =>
             LET before == visibleNodes(tree[r])
                 after  == visibleNodes(tree'[r])
                 left   == leftOrigin(before, pos)
                 right  == rightOrigin(before, pos)
             IN  /\ SubSeq(after, 1, pos) = SubSeq(before, 1, pos)
                 /\ ~DeepBelow(tree[r], left, right) => after = ShownAt(r, pos)]_vars
  BY <1>1
<1> QED
  BY <1>2, InitIInv, NextIInv, PTL DEF Spec, InsertLandsUnlessDeepBelow

-----------------------------------------------------------------------------
(* The refinement.                                                         *)

(* What an operation did shows at the replica that issued it.              *)
IssuedIsShown ==
  \A op \in sent :
    /\ op.type = "insert" => op.id \in Nodes(tree[op.id[1]])
    /\ op.type = "delete" => op.target \in Tombstones(tree[op.id[1]])

(* The two variables of the abstract specification.                        *)
allNodes == [r \in Replica |-> Nodes(tree[r])]

allDead == [r \in Replica |-> Tombstones(tree[r])]

(* What a replica gains when op is applied to its tree.                    *)
gainedNodes(t, op) == {x \in {op.id} : op.type = "insert" /\ op.parent \in DOMAIN t}

gainedDead(t, op) == {x \in Nodes(t) : op.type = "delete" /\ op.target = x}

LEMMA AppliesMaps ==
  ASSUME IInv, NEW r \in Replica, NEW op \in Operation, Applies(r, op)
  PROVE  /\ allNodes' = [allNodes EXCEPT ![r] = @ \union gainedNodes(tree[r], op)]
         /\ allDead' = [allDead EXCEPT ![r] = @ \union gainedDead(tree[r], op)]
<1>1. /\ Effect(tree[r], op, tree'[r])
      /\ \A q \in Replica \ {r} : tree'[q] = tree[q]
  BY AppliesSound
<1>2. Nodes(tree'[r]) = Nodes(tree[r]) \union gainedNodes(tree[r], op)
  BY <1>1 DEF Effect, gainedNodes
<1>3. Tombstones(tree'[r]) = Tombstones(tree[r]) \union gainedDead(tree[r], op)
  BY <1>1 DEF Effect, gainedDead
<1>4. \A q \in Replica \ {r} : Nodes(tree'[q]) = Nodes(tree[q])
                               /\ Tombstones(tree'[q]) = Tombstones(tree[q])
  BY <1>1
<1>5. allNodes' = [q \in Replica |-> Nodes(tree'[q])]
      /\ allDead' = [q \in Replica |-> Tombstones(tree'[q])]
  BY DEF allNodes, allDead
<1> QED
  BY <1>2, <1>3, <1>4, <1>5 DEF allNodes, allDead

(* No node and no tombstone is ever taken away.                            *)
LEMMA AppliesGrows ==
  ASSUME IInv, NEW r \in Replica, NEW op \in Operation, Applies(r, op), NEW q \in Replica
  PROVE  /\ Nodes(tree[q]) \subseteq Nodes(tree'[q])
         /\ Tombstones(tree[q]) \subseteq Tombstones(tree'[q])
<1>1. /\ Effect(tree[r], op, tree'[r])
      /\ \A p \in Replica \ {r} : tree'[p] = tree[p]
  BY AppliesSound
<1>2. CASE q = r
  BY <1>1, <1>2 DEF Effect
<1>3. CASE q # r
  BY <1>1, <1>3
<1> QED
  BY <1>2, <1>3

LEMMA OldIssuedShown ==
  ASSUME IInv, IssuedIsShown, NEW r \in Replica, NEW op \in Operation, Applies(r, op),
         NEW o \in sent
  PROVE  /\ o.type = "insert" => o.id \in Nodes(tree'[o.id[1]])
         /\ o.type = "delete" => o.target \in Tombstones(tree'[o.id[1]])
<1>1. o.id[1] \in Replica
  BY DEF IInv, IdsIssuedOnce
<1> QED
  BY <1>1, AppliesGrows DEF IssuedIsShown

-----------------------------------------------------------------------------
(* An edit creates or removes a node.                                      *)
LEMMA IssueMaps ==
  ASSUME IInv, IssuedIsShown, NEW r \in Replica, NEW op \in Operation,
         op.id = nextID(r), Ready(tree[r], op), Issue(r, op)
  PROVE  IssuedIsShown' /\ NodeSet!Next
<1>1. Applies(r, op) /\ sent' = sent \union {op}
  BY IssueIInv DEF Issue
<1>2. /\ allNodes' = [allNodes EXCEPT ![r] = @ \union gainedNodes(tree[r], op)]
      /\ allDead' = [allDead EXCEPT ![r] = @ \union gainedDead(tree[r], op)]
  BY <1>1, AppliesMaps
<1>3. allNodes[r] = Nodes(tree[r]) /\ allDead[r] = Tombstones(tree[r])
  BY DEF allNodes, allDead
<1>4. Nodes(tree'[r]) = Nodes(tree[r]) \union gainedNodes(tree[r], op)
      /\ Tombstones(tree'[r]) = Tombstones(tree[r]) \union gainedDead(tree[r], op)
  BY <1>1, AppliesSound DEF Effect, gainedNodes, gainedDead
<1>5. op.id[1] = r
  BY DEF nextID
<1>6. CASE op.type = "insert"
  <2>1. gainedNodes(tree[r], op) = {op.id} /\ gainedDead(tree[r], op) = {}
    BY <1>6 DEF Ready, gainedNodes, gainedDead
  <2>2. \A q \in Replica : op.id \notin allNodes[q]
    BY FreshId DEF allNodes
  <2>3. allNodes' = [allNodes EXCEPT ![r] = @ \union {op.id}] /\ allDead' = allDead
    BY <1>2, <2>1 DEF allDead
  <2>4. op.id \in allNodes'[r]
    BY <2>3 DEF allNodes
  <2>5. NodeSet!Create(r)
    BY <2>2, <2>3, <2>4 DEF NodeSet!Create, allNodes, allDead
  <2>6. IssuedIsShown'
    BY <1>1, <1>4, <1>5, <1>6, <2>1, OldIssuedShown DEF IssuedIsShown
  <2> QED
    BY <2>5, <2>6 DEF NodeSet!Next
<1>7. CASE op.type = "delete"
  <2>1. op.target \in Nodes(tree[r])
    BY <1>7, RootIsNoOpID DEF Ready, Nodes, Operation, FugueDeleteOp, FugueInsertOp
  <2>2. gainedNodes(tree[r], op) = {} /\ gainedDead(tree[r], op) = {op.target}
    BY <1>7, <2>1 DEF gainedNodes, gainedDead
  <2>3. allNodes' = allNodes /\ allDead' = [allDead EXCEPT ![r] = @ \union {op.target}]
    BY <1>2, <2>2 DEF allNodes
  <2>4. op.target \in allNodes[r]
    BY <1>3, <2>1
  <2>5. NodeSet!Remove(r)
    BY <2>3, <2>4 DEF NodeSet!Remove, allNodes, allDead
  <2>6. IssuedIsShown'
    BY <1>1, <1>4, <1>5, <1>7, <2>2, OldIssuedShown DEF IssuedIsShown
  <2> QED
    BY <2>5, <2>6 DEF NodeSet!Next
<1> QED
  BY <1>6, <1>7 DEF Operation, FugueInsertOp, FugueDeleteOp

(* Nothing gained leaves the sets of every replica as they were.           *)
LEMMA NothingGained ==
  ASSUME NEW f, f = [q \in Replica |-> f[q]], NEW r \in Replica
  PROVE  [f EXCEPT ![r] = @ \union {}] = f
<1>1. f[r] \union {} = f[r]
  OBVIOUS
<1> QED
  BY <1>1

(* A delivery teaches the replica what the issuer knows, or nothing.       *)
LEMMA ReceiveMaps ==
  ASSUME IInv, IssuedIsShown, NEW r \in Replica, NEW op \in sent, Receive(r, op)
  PROVE  IssuedIsShown' /\ (NodeSet!Next \/ UNCHANGED <<allNodes, allDead>>)
<1>1. op \in Operation
  BY DEF IInv, TypeOK
<1>2. Applies(r, op) /\ sent' = sent
  BY <1>1, ReceiveIInv DEF Receive
<1>3. /\ allNodes' = [allNodes EXCEPT ![r] = @ \union gainedNodes(tree[r], op)]
      /\ allDead' = [allDead EXCEPT ![r] = @ \union gainedDead(tree[r], op)]
  BY <1>1, <1>2, AppliesMaps
<1>4. IssuedIsShown'
  BY <1>1, <1>2, OldIssuedShown DEF IssuedIsShown
<1>5. op.id[1] \in Replica
  BY DEF IInv, IdsIssuedOnce
<1> DEFINE q == op.id[1]
<1>6. CASE op.type = "insert" /\ op.parent \in DOMAIN tree[r]
  <2>1. gainedNodes(tree[r], op) = {op.id} /\ gainedDead(tree[r], op) = {}
    BY <1>6 DEF gainedNodes, gainedDead
  <2>2. op.id \in allNodes[q]
    BY <1>5, <1>6 DEF IssuedIsShown, allNodes
  <2>3. allNodes' = [allNodes EXCEPT ![r] = @ \union {op.id}] /\ allDead' = allDead
    BY <1>3, <2>1 DEF allDead
  <2>4. NodeSet!Learn(r, q)
    BY <2>2, <2>3 DEF NodeSet!Learn, allNodes, allDead
  <2> QED
    BY <1>4, <1>5, <2>4 DEF NodeSet!Next
<1>7. CASE op.type = "delete" /\ op.target \in Nodes(tree[r])
  <2>1. gainedNodes(tree[r], op) = {} /\ gainedDead(tree[r], op) = {op.target}
    BY <1>7 DEF gainedNodes, gainedDead
  <2>2. op.target \in allDead[q] \intersect allNodes[r]
    BY <1>5, <1>7 DEF IssuedIsShown, allNodes, allDead
  <2>3. allNodes' = allNodes /\ allDead' = [allDead EXCEPT ![r] = @ \union {op.target}]
    BY <1>3, <2>1 DEF allNodes
  <2>4. NodeSet!LearnRemoved(r, q)
    BY <2>2, <2>3 DEF NodeSet!LearnRemoved, allNodes, allDead
  <2> QED
    BY <1>4, <1>5, <2>4 DEF NodeSet!Next
<1>8. CASE /\ ~(op.type = "insert" /\ op.parent \in DOMAIN tree[r])
           /\ ~(op.type = "delete" /\ op.target \in Nodes(tree[r]))
  <2>1. gainedNodes(tree[r], op) = {} /\ gainedDead(tree[r], op) = {}
    BY <1>8 DEF gainedNodes, gainedDead
  <2>2. allNodes = [x \in Replica |-> allNodes[x]] /\ allDead = [x \in Replica |-> allDead[x]]
    BY DEF allNodes, allDead
  <2>3. allNodes' = [allNodes EXCEPT ![r] = @ \union {}]
    BY <1>3, <2>1
  <2>4. allDead' = [allDead EXCEPT ![r] = @ \union {}]
    BY <1>3, <2>1
  <2>5. allNodes' = allNodes
    BY <2>2, <2>3, NothingGained
  <2>6. allDead' = allDead
    BY <2>2, <2>4, NothingGained
  <2> QED
    BY <1>4, <2>5, <2>6
<1> QED
  BY <1>6, <1>7, <1>8

LEMMA NextMaps ==
  IInv /\ IssuedIsShown /\ [Next]_vars => IssuedIsShown' /\ [NodeSet!Next]_(NodeSet!vars)
<1> SUFFICES ASSUME IInv, IssuedIsShown, [Next]_vars
             PROVE  IssuedIsShown' /\ [NodeSet!Next]_(NodeSet!vars)
  OBVIOUS
<1>1. UNCHANGED <<allNodes, allDead>> => UNCHANGED NodeSet!vars
  BY DEF allNodes, allDead, NodeSet!vars
<1>2. ASSUME NEW r \in Replica, Edit(r)
      PROVE  IssuedIsShown' /\ NodeSet!Next
  <2>1. PICK op \in Operation : op.id = nextID(r) /\ Ready(tree[r], op) /\ Issue(r, op)
    BY <1>2, EditIssues DEF IssueGood, IInv
  <2> QED
    BY <2>1, IssueMaps
<1>3. ASSUME NEW r \in Replica, NEW op \in sent, Receive(r, op)
      PROVE  IssuedIsShown' /\ [NodeSet!Next]_(NodeSet!vars)
  BY <1>1, <1>3, ReceiveMaps
<1>4. CASE UNCHANGED vars
  <2>1. tree' = tree /\ sent' = sent
    BY <1>4 DEF vars
  <2> QED
    BY <1>1, <2>1 DEF IssuedIsShown, allNodes, allDead
<1> QED
  BY <1>2, <1>3, <1>4 DEF Next

LEMMA InitMaps == Init => IssuedIsShown /\ NodeSet!Init
<1> SUFFICES ASSUME Init PROVE IssuedIsShown /\ NodeSet!Init
  OBVIOUS
<1>1. \A r \in Replica : Nodes(tree[r]) = {} /\ Tombstones(tree[r]) = {}
  BY NewTreeSound DEF Init
<1> QED
  BY <1>1 DEF Init, IssuedIsShown, NodeSet!Init

-----------------------------------------------------------------------------
(* However operations are reordered, repeated or late, FugueTree replicas  *)
(* implement a replicated set of characters that forgets nothing: every    *)
(* step is a step of the abstract specification or leaves it alone.        *)
THEOREM SpecImplementsNodeSet == Spec => ImplementsNodeSet
<1>1. Init => IInv /\ IssuedIsShown /\ NodeSet!Init
  BY InitIInv, InitMaps
<1>2. IInv /\ IssuedIsShown /\ [Next]_vars =>
        IInv' /\ IssuedIsShown' /\ [NodeSet!Next]_(NodeSet!vars)
  BY NextIInv, NextMaps
<1> QED
  BY <1>1, <1>2, PTL DEF Spec, ImplementsNodeSet, NodeSet!Spec

-----------------------------------------------------------------------------
(* Typing sessions: the invariant.                                         *)

(* The k-th id of the author.  The text was written with the first of them.*)
textID(k) == <<Author, k>>

CommonText == {textID(i) : i \in 1 .. TextLen}

(* While the text is written, only the author issues operations.           *)
Writing ==
  /\ ~begun /\ IInv
  /\ counter[Author] <= TextLen
  /\ \A r \in Replica \ {Author} : counter[r] = 0
  /\ \A op \in sent : op.id[1] = Author

(* What the first character of a session may hang from.                    *)
Starts(p) == p = rootSentinelID \/ p \in CommonText

(* n was typed in the session of w.                                        *)
TypedBy(w, n) == n[1] = w /\ n[2] > firstCounter(w)

(* The character <<w, c>> may hang from p: from the common text or from    *)
(* its own session; in a forward run, from the one before it.              *)
LinkFits(w, c, p) ==
  /\ Starts(p) \/ TypedBy(w, p)
  /\ ForwardRun(w) =>
       p = <<w, c - 1>> \/ (c = firstCounter(w) + 1 /\ Starts(p))

RunTypes ==
  /\ begun
  /\ SoundTree(text) /\ Nodes(text) \subseteq CommonText
  /\ DOMAIN tree = Replica
  /\ \A r \in Replica : SoundTree(tree[r])
  /\ counter \in [Replica -> Nat]
  /\ \A r \in Replica : counter[r] >= firstCounter(r)
  /\ sent \subseteq FugueInsertOp
  /\ plan \in [Replica -> [start : Nat, direction : Directions]]

OpsFit ==
  \A op \in sent : /\ TypedBy(op.id[1], op.id)
                   /\ op.id[2] <= counter[op.id[1]]
                   /\ LinkFits(op.id[1], op.id[2], op.parent)

NodesFit ==
  \A r \in Replica : \A n \in Nodes(tree[r]) :
    \/ n \in CommonText /\ Starts(tree[r][n].parent)
    \/ \E op \in sent : op.id = n /\ op.parent = tree[r][n].parent

(* While r types, it has heard of no other session, and the caret of a     *)
(* forward run stands behind the character typed last.                     *)
TypesAlone(r) ==
  typed(r) < RunLen =>
    /\ \A n \in Nodes(tree[r]) : n \in CommonText \/ TypedBy(r, n)
    /\ typed(r) = 0 => tree[r] = text
    /\ typed(r) > 0 /\ ForwardRun(r) =>
         /\ Caret(r) \in 1 .. Len(visibleNodes(tree[r]))
         /\ visibleNodes(tree[r])[Caret(r)] = <<r, counter[r]>>

RunInv == RunTypes /\ OpsFit /\ NodesFit /\ \A r \in Replica : TypesAlone(r)

-----------------------------------------------------------------------------
(* What a session types is not of the common text.                         *)
LEMMA TypedIsNew ==
  ASSUME Author \in Replica, TextLen \in Nat, NEW w \in Replica, NEW n, TypedBy(w, n)
  PROVE  ~Starts(n)
<1>1. n # rootSentinelID
  BY ReplicaAssumption DEF TypedBy, rootSentinelID
<1>2. ASSUME NEW i \in 1 .. TextLen, n = textID(i) PROVE FALSE
  BY <1>2 DEF TypedBy, textID, firstCounter
<1> QED
  BY <1>1, <1>2 DEF Starts, CommonText

LEMMA FirstCounterFacts ==
  ASSUME TextLen \in Nat, RunTypes, NEW r \in Replica
  PROVE  firstCounter(r) \in Nat /\ counter[r] \in Nat /\ typed(r) \in Nat
BY DEF firstCounter, RunTypes, typed

(* A character that was typed hangs where its operation says.              *)
LEMMA TypedWasSent ==
  ASSUME Author \in Replica, TextLen \in Nat, RunInv,
         NEW r \in Replica, NEW n \in Nodes(tree[r]), n \notin CommonText
  PROVE  \E op \in sent : /\ op.id = n /\ op.parent = tree[r][n].parent
                          /\ n \in OpID /\ TypedBy(n[1], n) /\ n[2] <= counter[n[1]]
                          /\ LinkFits(n[1], n[2], op.parent)
<1>1. PICK op \in sent : op.id = n /\ op.parent = tree[r][n].parent
  BY DEF RunInv, NodesFit
<1>2. n \in OpID
  BY <1>1 DEF RunInv, RunTypes, FugueInsertOp
<1> QED
  BY <1>1, <1>2 DEF RunInv, OpsFit

(* What hangs from a character of a session is of that session too.        *)
LEMMA BelowIsTyped ==
  ASSUME Author \in Replica, TextLen \in Nat, RunInv, NEW r \in Replica,
         NEW n \in Nodes(tree[r]), NEW w \in Replica, TypedBy(w, tree[r][n].parent)
  PROVE  n \notin CommonText /\ n[1] = w
<1>1. ~Starts(tree[r][n].parent)
  BY TypedIsNew
<1>2. n \notin CommonText
  <2> SUFFICES ASSUME n \in CommonText PROVE FALSE
    OBVIOUS
  <2>1. PICK op \in sent : op.id = n
    BY <1>1 DEF RunInv, NodesFit
  <2>2. TypedBy(n[1], n) /\ n[1] \in Replica
    BY <2>1 DEF RunInv, OpsFit, RunTypes, FugueInsertOp, OpID
  <2> QED
    BY <2>2, TypedIsNew DEF Starts
<1>3. LinkFits(n[1], n[2], tree[r][n].parent)
  BY <1>2, TypedWasSent
<1> QED
  BY <1>1, <1>2, <1>3 DEF LinkFits, TypedBy

(* Nothing hangs from the character that a forward run typed last.         *)
LEMMA LastIsBare ==
  ASSUME Author \in Replica, TextLen \in Nat, RunInv, NEW r \in Replica,
         ForwardRun(r), typed(r) > 0, NEW n \in Nodes(tree[r])
  PROVE  tree[r][n].parent # <<r, counter[r]>>
<1> SUFFICES ASSUME tree[r][n].parent = <<r, counter[r]>> PROVE FALSE
  OBVIOUS
<1>1. firstCounter(r) \in Nat /\ counter[r] \in Nat /\ counter[r] > firstCounter(r)
  BY FirstCounterFacts DEF RunInv, typed
<1>2. TypedBy(r, <<r, counter[r]>>) /\ ~Starts(<<r, counter[r]>>)
  BY <1>1, TypedIsNew DEF TypedBy
<1>3. n \notin CommonText /\ n[1] = r
  BY <1>2, BelowIsTyped
<1>4. n \in OpID /\ n[2] <= counter[r] /\ LinkFits(r, n[2], <<r, counter[r]>>)
  BY <1>3, TypedWasSent
<1>5. <<r, counter[r]>> = <<r, n[2] - 1>> /\ n[2] \in Nat
  BY <1>2, <1>4 DEF LinkFits, OpID
<1> QED
  BY <1>1, <1>4, <1>5

(* The text is written.                                                    *)
LEMMA WriteKeepsInv ==
  ASSUME Author \in Replica, TextLen \in Nat, Writing, Write
  PROVE  Writing'
<1>1. Edit(Author) /\ counter[Author] < TextLen /\ begun' = begun
  BY DEF Write
<1>2. IInv'
  BY <1>1, NextIInv DEF Next, Writing
<1>3. PICK op \in Operation : op.id = nextID(Author) /\ Issue(Author, op)
  BY <1>1, EditIssues DEF IssueGood, Writing, IInv
<1>4. counter \in [Replica -> Nat]
  BY DEF Writing, IInv, TypeOK
<1>5. /\ counter'[Author] = counter[Author] + 1
      /\ \A r \in Replica \ {Author} : counter'[r] = counter[r]
      /\ sent' = sent \union {op} /\ op.id[1] = Author
  BY <1>3, <1>4 DEF Issue, nextID
<1>6. counter'[Author] <= TextLen
  BY <1>1, <1>4, <1>5
<1> QED
  BY <1>1, <1>2, <1>5, <1>6 DEF Writing

(* The sessions begin.                                                     *)
LEMMA BeginKeepsInv ==
  ASSUME Author \in Replica, TextLen \in Nat, Writing, Begin
  PROVE  RunInv'
<1> DEFINE t == tree[Author]
<1>1. /\ counter[Author] = TextLen /\ counter' = counter
      /\ begun' = TRUE /\ text' = t /\ tree' = [r \in Replica |-> t] /\ sent' = {}
      /\ plan' \in [Replica -> [start : Positions(Author), direction : Directions]]
  BY DEF Begin
<1>2. SoundTree(t) /\ counter \in [Replica -> Nat]
  BY DEF Writing, IInv, TypeOK
<1>3. Positions(Author) \subseteq Nat
  <2>1. VisibleFacts(t, visibleNodes(t))
    BY <1>2, VisibleInOrder
  <2>2. Len(visibleNodes(t)) \in Nat
    BY <2>1 DEF VisibleFacts
  <2> QED
    BY <2>2 DEF Positions
<1>4. ASSUME NEW n \in Nodes(t) PROVE n \in CommonText
  <2>1. PICK op \in sent : op.id = n
    BY DEF Writing, IInv, NodesWereSent
  <2>2. n \in OpID /\ n[1] = Author /\ n[2] <= TextLen
    BY <1>1, <2>1 DEF Writing, IInv, TypeOK, IdsIssuedOnce, Operation, FugueInsertOp, FugueDeleteOp
  <2>3. n = textID(n[2]) /\ n[2] \in 1 .. TextLen
    BY <2>2 DEF OpID, textID
  <2> QED
    BY <2>3 DEF CommonText
<1>5. ASSUME NEW n \in Nodes(t) PROVE Starts(t[n].parent)
  <2>1. t[n].parent \in DOMAIN t
    BY <1>2 DEF SoundTree, IsTree, Nodes
  <2> QED
    BY <1>4, <2>1 DEF Starts, Nodes
<1> HIDE DEF t
<1>6. plan' \in [Replica -> [start : Nat, direction : Directions]]
  BY <1>1, <1>3
<1>7. \A r \in Replica : /\ firstCounter(r)' = firstCounter(r) /\ counter'[r] = firstCounter(r)
                         /\ firstCounter(r) \in Nat
  BY <1>1 DEF firstCounter, Writing
<1>8. RunTypes'
  BY <1>1, <1>2, <1>4, <1>6, <1>7 DEF RunTypes
<1>9. OpsFit'
  BY <1>1 DEF OpsFit
<1>10. NodesFit'
  BY <1>1, <1>4, <1>5 DEF NodesFit
<1>11. \A r \in Replica : typed(r)' = 0
  BY <1>7 DEF typed
<1>12. \A r \in Replica : TypesAlone(r)'
  BY <1>1, <1>4, <1>11 DEF TypesAlone
<1> QED
  BY <1>8, <1>9, <1>10, <1>12 DEF RunInv

-----------------------------------------------------------------------------
(* A character is typed.                                                   *)

(* A session begins in the common text, a forward run where it lands.      *)
LEMMA FirstPlace ==
  ASSUME RunTypes, NEW r \in Replica, NEW left \in DOMAIN text, NEW right \in DOMAIN text \union {nil},
         OriginsAt(visibleNodes(text), plan[r].start, left, right)
  PROVE  /\ Starts(selectParent(text, left, right).parent)
         /\ ForwardRun(r) => ~DeepBelow(text, left, right)
<1>1. selectParent(text, left, right).parent \in DOMAIN text
  BY DEF selectParent
<1>2. \A n \in DOMAIN text : Starts(n)
  BY DEF RunTypes, Starts, Nodes
<1>3. ForwardRun(r) => ~DeepBelow(text, left, right)
  BY DEF ForwardRun, StartsClean, OriginsAt
<1> QED
  BY <1>1, <1>2, <1>3

(* It goes on right of the character typed last.                           *)
LEMMA NextPlace ==
  ASSUME Author \in Replica, TextLen \in Nat, RunInv, NEW r \in Replica,
         ForwardRun(r), typed(r) > 0,
         NEW left, left = <<r, counter[r]>>, NEW right \in Nodes(tree[r]) \union {nil}
  PROVE  /\ selectParent(tree[r], left, right).parent = left
         /\ ~DeepBelow(tree[r], left, right)
<1> DEFINE t == tree[r]
           A == DOMAIN t \ {left}
<1>1. \A n \in Nodes(t) : t[n].parent # left
  BY LastIsBare
<1>2. SoundTree(t)
  BY DEF RunInv, RunTypes
<1>3. t[rootSentinelID].parent = rootSentinelID /\ left # rootSentinelID
  BY <1>2, ReplicaAssumption DEF SoundTree, PlainRoot, rootSentinelID
<1>4. \A n \in DOMAIN t : t[n].parent \in A
  BY <1>1, <1>2, <1>3 DEF SoundTree, IsTree, Nodes
<1>5. selectParent(t, left, right).parent = left
  BY <1>1 DEF selectParent
<1>6. left \notin Ancestors(t, right) \/ right = nil
  <2> SUFFICES ASSUME right # nil PROVE left \notin Ancestors(t, right)
    OBVIOUS
  <2>1. right \in DOMAIN t
    BY DEF Nodes
  <2>2. A \in SUBSET DOMAIN t /\ left \notin A
    OBVIOUS
  <2>3. t[right].parent \in A /\ \A m \in A : t[m].parent \in A
    BY <1>4, <2>1
  <2> HIDE DEF A, t
  <2> QED
    BY <2>2, <2>3 DEF Ancestors
<1> QED
  BY <1>5, <1>6 DEF DeepBelow

(* What hangs where.                                                       *)
LEMMA TypedPlace ==
  ASSUME Author \in Replica, TextLen \in Nat, RunInv, NEW r \in Replica, typed(r) < RunLen,
         NEW left \in DOMAIN tree[r], NEW right \in DOMAIN tree[r] \union {nil},
         OriginsAt(visibleNodes(tree[r]), Caret(r), left, right)
  PROVE  /\ LinkFits(r, counter[r] + 1, selectParent(tree[r], left, right).parent)
         /\ ForwardRun(r) => ~DeepBelow(tree[r], left, right)
<1> DEFINE t == tree[r]
           p == selectParent(t, left, right).parent
<1>1. /\ firstCounter(r) \in Nat /\ counter[r] \in Nat /\ typed(r) \in Nat
      /\ typed(r) = counter[r] - firstCounter(r) /\ counter[r] >= firstCounter(r)
  BY FirstCounterFacts DEF RunInv, RunTypes, typed
<1>2. TypesAlone(r) /\ SoundTree(t)
  BY DEF RunInv, RunTypes
<1>3. p \in DOMAIN t
  BY DEF selectParent
<1>4. Starts(p) \/ TypedBy(r, p)
  <2>1. CASE p = rootSentinelID
    BY <2>1 DEF Starts
  <2>2. CASE p \in Nodes(t)
    BY <1>2, <2>2 DEF TypesAlone, Starts
  <2> QED
    BY <1>3, <2>1, <2>2 DEF Nodes
<1>5. CASE typed(r) = 0
  <2>1. t = text /\ Caret(r) = plan[r].start
    BY <1>2, <1>5 DEF TypesAlone, Caret, RunInv, RunTypes
  <2>2. Starts(p) /\ (ForwardRun(r) => ~DeepBelow(t, left, right))
    BY <2>1, FirstPlace DEF RunInv
  <2>3. counter[r] + 1 = firstCounter(r) + 1
    BY <1>1, <1>5
  <2> QED
    BY <1>4, <2>2, <2>3 DEF LinkFits
<1>6. CASE typed(r) > 0 /\ ForwardRun(r)
  <2> DEFINE v == visibleNodes(t)
  <2>1. Caret(r) \in 1 .. Len(v) /\ v[Caret(r)] = <<r, counter[r]>>
    BY <1>2, <1>6 DEF TypesAlone
  <2>2. VisibleFacts(t, v)
    BY <1>2, VisibleInOrder
  <2>3. OriginsAt(v, Caret(r), left, right)
    OBVIOUS
  <2> HIDE DEF v
  <2>4. left = <<r, counter[r]>>
    BY <2>1, <2>2, <2>3 DEF OriginsAt, leftOrigin, VisibleFacts
  <2>5. right \in Nodes(t) \union {nil}
    <3>1. CASE Caret(r) < Len(v)
      <4>1. right = v[Caret(r) + 1] /\ Caret(r) + 1 \in 1 .. Len(v)
        BY <2>1, <2>2, <2>3, <3>1 DEF OriginsAt, rightOrigin, VisibleFacts
      <4> QED
        BY <2>2, <4>1 DEF VisibleFacts, Elements
    <3>2. CASE ~(Caret(r) < Len(v))
      BY <2>3, <3>2 DEF OriginsAt, rightOrigin
    <3> QED
      BY <3>1, <3>2
  <2>6. p = left /\ ~DeepBelow(t, left, right)
    BY <1>6, <2>4, <2>5, NextPlace
  <2>7. (counter[r] + 1) - 1 = counter[r]
    BY <1>1
  <2> QED
    BY <1>4, <2>4, <2>6, <2>7 DEF LinkFits
<1>7. CASE ~ForwardRun(r)
  BY <1>4, <1>7 DEF LinkFits
<1> QED
  BY <1>1, <1>5, <1>6, <1>7

(* An insert whose parent is present arrives at r.                         *)
LEMMA InsertArrives ==
  ASSUME RunInv, NEW r \in Replica, NEW op \in FugueInsertOp, op.parent \in DOMAIN tree[r],
         tree' = [tree EXCEPT ![r] = ApplyOperation(@, op)],
         sent \subseteq sent', op \in sent'
  PROVE  /\ DOMAIN tree' = Replica
         /\ \A q \in Replica : SoundTree(tree'[q])
         /\ \A q \in Replica \ {r} : tree'[q] = tree[q]
         /\ NodesFit'
         /\ Kept(tree[r], tree'[r])
         /\ Nodes(tree'[r]) = Nodes(tree[r]) \union {op.id}
         /\ Tombstones(tree'[r]) = Tombstones(tree[r])
         /\ op.id \notin Nodes(tree[r]) =>
              tree'[r][op.id].parent = op.parent /\ tree'[r][op.id].side = op.side
<1>1. DOMAIN tree = Replica /\ \A q \in Replica : SoundTree(tree[q])
  BY DEF RunInv, RunTypes
<1>2. /\ DOMAIN tree' = Replica
      /\ tree'[r] = ApplyOperation(tree[r], op)
      /\ \A q \in Replica \ {r} : tree'[q] = tree[q]
  BY <1>1
<1>3. Effect(tree[r], op, tree'[r])
  BY <1>1, <1>2, ApplyOperationEffect DEF Operation
<1>4. op.type = "insert"
  BY DEF FugueInsertOp
<1>5. /\ SoundTree(tree'[r]) /\ Kept(tree[r], tree'[r])
      /\ Nodes(tree'[r]) = Nodes(tree[r]) \union {op.id}
      /\ Tombstones(tree'[r]) = Tombstones(tree[r])
      /\ op.id \notin Nodes(tree[r]) =>
           tree'[r][op.id].parent = op.parent /\ tree'[r][op.id].side = op.side
  BY <1>3, <1>4 DEF Effect
<1>6. ASSUME NEW q \in Replica, NEW n \in Nodes(tree'[q])
      PROVE  \/ n \in CommonText /\ Starts(tree'[q][n].parent)
             \/ \E o \in sent' : o.id = n /\ o.parent = tree'[q][n].parent
  <2>1. CASE n \in Nodes(tree[q])
    <3>1. tree'[q][n].parent = tree[q][n].parent
      BY <1>2, <1>5, <2>1 DEF Kept, Nodes
    <3> QED
      BY <2>1, <3>1 DEF RunInv, NodesFit
  <2>2. CASE n \notin Nodes(tree[q])
    <3>1. q = r /\ n = op.id
      BY <1>2, <1>5, <1>6, <2>2
    <3> QED
      BY <1>5, <2>2, <3>1
  <2> QED
    BY <2>1, <2>2
<1> QED
  BY <1>1, <1>2, <1>5, <1>6 DEF NodesFit

LEMMA TypeKeepsInv ==
  ASSUME Author \in Replica, TextLen \in Nat, RunInv, NEW r \in Replica, Type(r)
  PROVE  RunInv'
<1>1. PICK char \in Char : InsertAt(r, Caret(r), char)
  BY DEF Type
<1>2. PICK left \in DOMAIN tree[r], right \in DOMAIN tree[r] \union {nil} :
        /\ OriginsAt(visibleNodes(tree[r]), Caret(r), left, right)
        /\ Issue(r, insertOp(nextID(r), char, selectParent(tree[r], left, right)))
  BY <1>1 DEF InsertAt
<1> DEFINE t == tree[r]
           x == <<r, counter[r] + 1>>
           place == selectParent(t, left, right)
           op == insertOp(x, char, place)
           v == visibleNodes(t)
           w == visibleNodes(tree'[r])
<1>3. /\ plan' = plan /\ text' = text /\ begun' = begun /\ typed(r) < RunLen
      /\ sent' = sent \union {op}
      /\ counter' = [counter EXCEPT ![r] = @ + 1]
      /\ tree' = [tree EXCEPT ![r] = ApplyOperation(@, op)]
  BY <1>2 DEF Type, Issue, nextID
<1>4. /\ \A q \in Replica : firstCounter(q) \in Nat /\ counter[q] \in Nat /\ counter[q] >= firstCounter(q)
      /\ DOMAIN tree = Replica /\ SoundTree(t) /\ counter \in [Replica -> Nat]
  BY FirstCounterFacts DEF RunInv, RunTypes
<1>5. place.parent \in DOMAIN t /\ place.side \in Side
  BY DEF selectParent, Side
<1>6. x \in OpID /\ TypedBy(r, x)
  BY <1>4 DEF OpID, TypedBy
<1>7. op \in FugueInsertOp /\ op.id = x /\ op.parent = place.parent /\ op.side = place.side
  BY <1>4, <1>5, <1>6 DEF insertOp, FugueInsertOp, SoundTree, IsTree, Nodes
<1>8. x \notin Nodes(t)
  <2> SUFFICES ASSUME x \in Nodes(t) PROVE FALSE
    OBVIOUS
  <2>1. x \notin CommonText
    BY <1>6, TypedIsNew DEF Starts
  <2>2. x[2] <= counter[x[1]]
    BY <2>1, TypedWasSent
  <2> QED
    BY <1>4, <2>2
<1>9. /\ LinkFits(r, counter[r] + 1, place.parent)
      /\ ForwardRun(r) => ~DeepBelow(t, left, right)
  BY <1>2, <1>3, TypedPlace
<1>d. /\ t = tree[r] /\ v = visibleNodes(t) /\ w = visibleNodes(tree'[r])
      /\ x[1] = r /\ x[2] = counter[r] + 1 /\ x = <<r, counter[r] + 1>>
      /\ place = selectParent(t, left, right)
      /\ OriginsAt(v, Caret(r), left, right)
      /\ left \in DOMAIN t /\ right \in DOMAIN t \union {nil}
  BY <1>2
<1> HIDE DEF t, x, place, op, v, w
<1>10. /\ DOMAIN tree' = Replica
       /\ \A q \in Replica : SoundTree(tree'[q])
       /\ \A q \in Replica \ {r} : tree'[q] = tree[q]
       /\ NodesFit'
       /\ Kept(t, tree'[r])
       /\ Nodes(tree'[r]) = Nodes(t) \union {x}
       /\ Tombstones(tree'[r]) = Tombstones(t)
       /\ tree'[r][x].parent = place.parent /\ tree'[r][x].side = place.side
  <2>1. /\ op \in FugueInsertOp /\ op.parent \in DOMAIN tree[r]
        /\ sent \subseteq sent' /\ op \in sent'
        /\ tree' = [tree EXCEPT ![r] = ApplyOperation(@, op)]
    BY <1>3, <1>5, <1>7, <1>d
  <2>2. /\ DOMAIN tree' = Replica
        /\ \A q \in Replica : SoundTree(tree'[q])
        /\ \A q \in Replica \ {r} : tree'[q] = tree[q]
        /\ NodesFit'
    BY <2>1, InsertArrives
  <2>3. /\ Kept(tree[r], tree'[r])
        /\ Nodes(tree'[r]) = Nodes(tree[r]) \union {op.id}
        /\ Tombstones(tree'[r]) = Tombstones(tree[r])
        /\ op.id \notin Nodes(tree[r]) =>
             tree'[r][op.id].parent = op.parent /\ tree'[r][op.id].side = op.side
    BY <2>1, InsertArrives
  <2> QED
    BY <1>7, <1>8, <1>d, <2>2, <2>3
<1>11. /\ counter'[r] = counter[r] + 1 /\ counter' \in [Replica -> Nat]
       /\ \A q \in Replica \ {r} : counter'[q] = counter[q]
  BY <1>3, <1>4
<1>12. RunTypes'
  <2>1. \A q \in Replica : counter'[q] >= firstCounter(q)
    BY <1>4, <1>11
  <2>2. sent' \subseteq FugueInsertOp
    BY <1>3, <1>7 DEF RunInv, RunTypes
  <2>3. plan' \in [Replica -> [start : Nat, direction : Directions]]
    BY <1>3 DEF RunInv, RunTypes
  <2>4. begun' /\ SoundTree(text') /\ Nodes(text') \subseteq CommonText
    BY <1>3 DEF RunInv, RunTypes
  <2> QED
    BY <1>10, <1>11, <2>1, <2>2, <2>3, <2>4 DEF RunTypes
<1>13. ASSUME NEW o \in sent'
       PROVE  /\ TypedBy(o.id[1], o.id)
              /\ o.id[2] <= counter'[o.id[1]]
              /\ LinkFits(o.id[1], o.id[2], o.parent)
  <2>1. CASE o \in sent
    <3>1. o.id \in OpID /\ o.id[1] \in Replica /\ o.id[2] \in Nat
      BY <2>1 DEF RunInv, RunTypes, FugueInsertOp, OpID
    <3>2. counter[o.id[1]] <= counter'[o.id[1]]
      BY <1>4, <1>11, <3>1
    <3>3. /\ TypedBy(o.id[1], o.id) /\ o.id[2] <= counter[o.id[1]]
          /\ LinkFits(o.id[1], o.id[2], o.parent)
      BY <2>1 DEF RunInv, OpsFit
    <3>4. counter[o.id[1]] \in Nat /\ counter'[o.id[1]] \in Nat
      BY <1>4, <1>11, <3>1
    <3> QED
      BY <3>1, <3>2, <3>3, <3>4
  <2>2. CASE o = op
    <3>1. o.id = x /\ o.parent = place.parent
      BY <1>7, <2>2
    <3> QED
      BY <1>4, <1>6, <1>9, <1>11, <1>d, <3>1
  <2> QED
    BY <1>3, <2>1, <2>2
<1>14. OpsFit'
  <2>1. \A m, c, p : LinkFits(m, c, p)' <=> LinkFits(m, c, p)
    BY <1>3 DEF LinkFits, Starts, TypedBy, ForwardRun, StartsClean
  <2> QED
    BY <1>13, <2>1 DEF OpsFit, TypedBy
<1>15. TypesAlone(r)'
  <2>1. /\ typed(r)' = typed(r) + 1 /\ typed(r) \in Nat
        /\ typed(r) = counter[r] - firstCounter(r)
    BY <1>4, <1>11 DEF typed, firstCounter
  <2>2. \A n \in Nodes(tree'[r]) : n \in CommonText \/ TypedBy(r, n)
    BY <1>3, <1>6, <1>10, <1>d DEF RunInv, TypesAlone
  <2>3. ASSUME ForwardRun(r)
        PROVE  Caret(r)' \in 1 .. Len(w) /\ w[Caret(r)'] = x
    <3>1. Caret(r) = plan[r].start + typed(r) /\ Caret(r)' = plan[r].start + (typed(r) + 1)
      BY <1>3, <2>1, <2>3 DEF Caret, ForwardRun
    <3>2. plan[r].start \in Nat
      BY DEF RunInv, RunTypes
    <3>3. Caret(r) \in Nat /\ Caret(r)' = Caret(r) + 1
      BY <2>1, <3>1, <3>2
    <3>4. VisibleFacts(t, v)
      BY <1>4, <1>d, VisibleInOrder
    <3>5. w = Seqs!InsertAt(v, Caret(r) + 1, x)
      <4>1. /\ OriginsAt(visibleNodes(t), Caret(r), left, right) /\ ~DeepBelow(t, left, right)
            /\ tree'[r][x].parent = selectParent(t, left, right).parent
            /\ tree'[r][x].side = selectParent(t, left, right).side
        BY <1>9, <1>10, <1>d, <2>3
      <4>2. visibleNodes(tree'[r]) = Seqs!InsertAt(visibleNodes(t), Caret(r) + 1, x)
        <5> DEFINE u == tree'[r]
        <5>1. /\ SoundTree(t) /\ SoundTree(u) /\ Kept(t, u) /\ x \notin Nodes(t)
              /\ Nodes(u) = Nodes(t) \union {x} /\ Tombstones(u) = Tombstones(t)
              /\ left \in DOMAIN t /\ right \in DOMAIN t \union {nil}
              /\ OriginsAt(visibleNodes(t), Caret(r), left, right)
              /\ u[x].parent = selectParent(t, left, right).parent
              /\ u[x].side = selectParent(t, left, right).side
          BY <1>4, <1>8, <1>10, <1>d, <4>1
        <5> HIDE DEF u
        <5>2. ~DeepBelow(t, left, right) =>
                visibleNodes(u) = Seqs!InsertAt(visibleNodes(t), Caret(r) + 1, x)
          BY <5>1, LandsAt
        <5> QED
          BY <4>1, <5>2 DEF u
      <4> QED
        BY <1>d, <4>2
    <3>6. v \in Seq(OpID) /\ Len(v) \in Nat /\ Caret(r) \in 0 .. Len(v)
      BY <1>d, <3>4 DEF VisibleFacts, OriginsAt
    <3> DEFINE p == Caret(r) + 1
    <3>7. p \in 1 .. Len(v) + 1 /\ p = Caret(r)' /\ w = Seqs!InsertAt(v, p, x)
      BY <3>3, <3>5, <3>6
    <3> HIDE DEF p
    <3>8. HasInserted(v, p, x, w)
      BY <1>6, <3>6, <3>7, InsertAtIs
    <3>9. Len(w) = Len(v) + 1 /\ w[p] = x
      BY <3>6, <3>7, <3>8 DEF HasInserted
    <3> QED
      BY <3>6, <3>7, <3>9
  <2>4. x = <<r, counter'[r]>>
    BY <1>11, <1>d
  <2>5. typed(r)' # 0
    BY <2>1
  <2>6. ForwardRun(r)' <=> ForwardRun(r)
    BY <1>3 DEF ForwardRun, StartsClean
  <2> QED
    BY <1>d, <2>2, <2>3, <2>4, <2>5, <2>6 DEF TypesAlone, TypedBy
<1>16. ASSUME NEW q \in Replica, q # r PROVE TypesAlone(q)'
  <2>1. /\ tree'[q] = tree[q] /\ counter'[q] = counter[q]
        /\ plan' = plan /\ text' = text /\ TypesAlone(q)
    BY <1>3, <1>10, <1>11, <1>16 DEF RunInv
  <2>2. typed(q)' = typed(q) /\ Caret(q)' = Caret(q) /\ (ForwardRun(q)' <=> ForwardRun(q))
    BY <2>1 DEF typed, firstCounter, Caret, ForwardRun, StartsClean
  <2> QED
    BY <2>1, <2>2 DEF TypesAlone, TypedBy
<1> QED
  BY <1>10, <1>12, <1>14, <1>15, <1>16 DEF RunInv

(* A run that is over hears of the others.                                 *)
LEMMA ExchangeKeepsInv ==
  ASSUME Author \in Replica, TextLen \in Nat, RunLen \in Nat, RunInv, NEW r \in Replica, Exchange(r)
  PROVE  RunInv'
<1>1. PICK op \in sent : ReceiveReady(r, op)
  BY DEF Exchange
<1>2. /\ tree' = [tree EXCEPT ![r] = ApplyOperation(@, op)]
      /\ counter' = counter /\ sent' = sent /\ plan' = plan
      /\ text' = text /\ begun' = begun
  BY <1>1 DEF ReceiveReady, Receive, Exchange
<1>3. op \in FugueInsertOp /\ op.parent \in DOMAIN tree[r]
  BY <1>1 DEF RunInv, RunTypes, ReceiveReady, Ready, FugueInsertOp
<1>4. /\ DOMAIN tree' = Replica
      /\ \A q \in Replica : SoundTree(tree'[q])
      /\ \A q \in Replica \ {r} : tree'[q] = tree[q]
      /\ NodesFit'
  BY <1>2, <1>3, InsertArrives
<1>5. RunTypes'
  BY <1>2, <1>4 DEF RunInv, RunTypes
<1>6. OpsFit'
  <2>1. \A m, c, p : LinkFits(m, c, p)' <=> LinkFits(m, c, p)
    BY <1>2 DEF LinkFits, Starts, TypedBy, ForwardRun, StartsClean
  <2> QED
    BY <1>2, <2>1 DEF RunInv, OpsFit, TypedBy
<1>7. ASSUME NEW q \in Replica PROVE TypesAlone(q)'
  <2>1. /\ typed(q)' = typed(q) /\ Caret(q)' = Caret(q) /\ counter'[q] = counter[q]
        /\ (ForwardRun(q)' <=> ForwardRun(q))
    BY <1>2 DEF typed, firstCounter, Caret, ForwardRun, StartsClean
  <2>2. CASE q = r
    <3>1. ~(typed(r)' < RunLen)
      BY <2>1, <2>2 DEF Exchange
    <3> QED
      BY <2>2, <3>1 DEF TypesAlone
  <2>3. CASE q # r
    <3>1. tree'[q] = tree[q] /\ TypesAlone(q)
      BY <1>4, <2>3 DEF RunInv
    <3> QED
      BY <1>2, <2>1, <3>1 DEF TypesAlone, TypedBy
  <2> QED
    BY <2>2, <2>3
<1> QED
  BY <1>4, <1>5, <1>6, <1>7 DEF RunInv

-----------------------------------------------------------------------------
(* The characters of a forward run that r has form one piece of its        *)
(* tree: the earliest of them, and what hangs from it.                     *)
RunAt(t, w) == {n \in Nodes(t) : n \in Run(w)}

InOnePiece(t, S) ==
  /\ \A n \in Nodes(t) : t[n].parent \in S => n \in S
  /\ \E top \in S : \A n \in S : n = top \/ t[n].parent \in S

LEMMA RunIsOnePiece ==
  ASSUME Author \in Replica, TextLen \in Nat, RunInv, NEW r \in Replica, NEW w \in Replica,
         ForwardRun(w),
         RunAt(tree[r], w) # {}
  PROVE  InOnePiece(tree[r], RunAt(tree[r], w))
<1> DEFINE t == tree[r]
           S == RunAt(t, w)
<1>0. S = {n \in Nodes(t) : n \in Run(w)} /\ S # {}
  BY DEF RunAt
<1> HIDE DEF S
<1>1. SoundTree(t) /\ firstCounter(w) \in Nat
  BY FirstCounterFacts DEF RunInv, RunTypes
<1>2. ASSUME NEW n \in S
      PROVE  /\ n \in Nodes(t) /\ n \in OpID /\ n[1] = w /\ TypedBy(w, n) /\ n \notin CommonText
             /\ LinkFits(w, n[2], t[n].parent)
  <2>1. PICK op \in sent : op.id = n /\ op.id[1] = w
    BY <1>0 DEF Run
  <2>2. n \in Nodes(t) /\ n[1] = w /\ TypedBy(w, n)
    BY <1>0, <2>1 DEF RunInv, OpsFit
  <2>3. n \notin CommonText
    BY <2>2, TypedIsNew DEF Starts
  <2> QED
    BY <2>2, <2>3, TypedWasSent
<1>3. ASSUME NEW n \in Nodes(t), n \notin CommonText, n[1] = w
      PROVE  n \in S
  <2>1. PICK op \in sent : op.id = n
    BY <1>3, TypedWasSent
  <2> QED
    BY <1>0, <1>3, <2>1 DEF Run
<1>4. ASSUME NEW n \in Nodes(t), t[n].parent \in S
      PROVE  n \in S
  <2>1. TypedBy(w, t[n].parent)
    BY <1>2, <1>4
  <2> QED
    BY <1>3, <2>1, BelowIsTyped
<1> DEFINE counts == {n[2] : n \in S}
<1>5. counts \in SUBSET Nat /\ counts # {}
  BY <1>0, <1>2 DEF OpID
<1>6. PICK top \in S : \A n \in S : top[2] <= n[2]
  <2>1. PICK c \in counts : \A d \in counts : c <= d
    BY <1>5, LeastNatural
  <2> QED
    BY <2>1
<1>7. ASSUME NEW n \in S, n # top
      PROVE  t[n].parent \in S
  <2>1. /\ n \in OpID /\ top \in OpID /\ n[1] = w /\ top[1] = w /\ n[2] \in Nat /\ top[2] \in Nat
        /\ top[2] > firstCounter(w)
    BY <1>2 DEF OpID, TypedBy
  <2>2. n[2] # top[2]
    BY <1>7, <2>1 DEF OpID
  <2>3. n[2] > firstCounter(w) + 1
    BY <1>1, <1>6, <2>1, <2>2
  <2>4. t[n].parent = <<w, n[2] - 1>>
    BY <1>1, <1>2, <2>1, <2>3 DEF LinkFits
  <2>5. TypedBy(w, t[n].parent) /\ t[n].parent[1] = w
    BY <1>1, <2>1, <2>3, <2>4 DEF TypedBy
  <2>6. ~Starts(t[n].parent)
    BY <2>5, TypedIsNew
  <2>7. t[n].parent \in Nodes(t)
    BY <1>1, <1>2, <2>6 DEF SoundTree, IsTree, Nodes, Starts
  <2> QED
    BY <1>3, <2>5, <2>6, <2>7 DEF Starts
<1> QED
  BY <1>4, <1>6, <1>7 DEF InOnePiece, S

LEMMA RunIsWhole ==
  ASSUME Author \in Replica, TextLen \in Nat, RunInv, NEW r \in Replica, NEW w \in Replica,
         ForwardRun(w)
  PROVE  Unbroken(visibleNodes(tree[r]), Run(w))
<1> DEFINE t == tree[r]
           v == visibleNodes(t)
           S == RunAt(t, w)
<1>1. SoundTree(t)
  BY DEF RunInv, RunTypes
<1>2. VisibleFacts(t, v)
  BY <1>1, VisibleInOrder
<1>3. v \in Seq(OpID) /\ Len(v) \in Nat /\ Injective(v) /\ \A i \in 1 .. Len(v) : v[i] \in Nodes(t)
  BY <1>2 DEF VisibleFacts, Elements
<1> SUFFICES ASSUME NEW i \in 1 .. Len(v), NEW j \in 1 .. Len(v), NEW k \in 1 .. Len(v),
                    i < j, j < k, v[i] \in Run(w), v[k] \in Run(w), v[j] \notin Run(w)
             PROVE  FALSE
  BY DEF Unbroken
<1> HIDE DEF v
<1>4. S \in SUBSET Nodes(t) /\ v[i] \in S /\ v[k] \in S /\ v[j] \notin S
  BY <1>3 DEF RunAt
<1>5. PICK top \in S : /\ \A n \in Nodes(t) : t[n].parent \in S => n \in S
                       /\ \A n \in S : n = top \/ t[n].parent \in S
  <2>1. InOnePiece(t, S)
    BY <1>4, RunIsOnePiece
  <2> QED
    BY <2>1 DEF InOnePiece
<1> HIDE DEF S, t
<1>6. Before(v, v[i], v[j]) /\ Before(v, v[j], v[k])
  BY DEF Before
<1>7. Before(traverse(t), v[i], v[j])
  BY <1>2, <1>6, BeforeIsIn DEF VisibleFacts
<1>8. Before(traverse(t), v[k], v[j])
  BY <1>1, <1>4, <1>5, <1>7, ShownInOnePiece
<1>9. Before(v, v[k], v[j])
  BY <1>2, <1>6, <1>8, BeforeIsIn DEF VisibleFacts
<1>10. PICK l \in 1 .. Len(v), m \in 1 .. Len(v) : l < m /\ v[l] = v[k] /\ v[m] = v[j]
  BY <1>9 DEF Before
<1>11. l = k /\ m = j
  BY <1>3, <1>10 DEF Injective
<1> QED
  BY <1>3, <1>10, <1>11

(* Whoever wrote the common text, with whatever insertions and deletions:  *)
(* a run typed forward from a position where InsertAt lands is never       *)
(* broken by another session, forward or backward, nor by the common text, *)
(* on any replica and however much of it has arrived (selectParent).       *)
THEOREM RunsStayWhole ==
  Author \in Replica /\ TextLen \in Nat /\ RunLen \in Nat => (RunSpec => []ForwardRunsStayWhole)
<1> SUFFICES ASSUME Author \in Replica, TextLen \in Nat, RunLen \in Nat
             PROVE  RunSpec => []ForwardRunsStayWhole
  OBVIOUS
<1> DEFINE Inv == Writing \/ RunInv
<1>1. RunInit => Inv
  <2> SUFFICES ASSUME RunInit PROVE Writing
    OBVIOUS
  <2>1. IInv
    BY InitIInv DEF RunInit
  <2> QED
    BY <2>1 DEF RunInit, Init, Writing
<1>2. ASSUME Inv, [RunNext]_runVars PROVE Inv'
  <2>1. CASE Write
    BY <1>2, <2>1, WriteKeepsInv DEF Write, RunInv, RunTypes
  <2>2. CASE Begin
    BY <1>2, <2>2, BeginKeepsInv DEF Begin, RunInv, RunTypes
  <2>3. ASSUME NEW r \in Replica, Type(r) PROVE Inv'
    BY <1>2, <2>3, TypeKeepsInv DEF Type, Writing
  <2>4. ASSUME NEW r \in Replica, Exchange(r) PROVE Inv'
    BY <1>2, <2>4, ExchangeKeepsInv DEF Exchange, Writing
  <2>5. CASE UNCHANGED runVars
    <3>1. /\ tree' = tree /\ counter' = counter /\ sent' = sent /\ applied' = applied
          /\ begun' = begun /\ text' = text /\ plan' = plan
      BY <2>5 DEF runVars
    <3>2. Writing => Writing'
      BY <3>1, NextIInv DEF Writing, vars
    <3>3. \A m, c, p : LinkFits(m, c, p)' <=> LinkFits(m, c, p)
      BY <3>1 DEF LinkFits, Starts, TypedBy, ForwardRun, StartsClean
    <3>4. \A q \in Replica : /\ typed(q)' = typed(q) /\ Caret(q)' = Caret(q)
                             /\ (ForwardRun(q)' <=> ForwardRun(q))
      BY <3>1 DEF typed, firstCounter, Caret, ForwardRun, StartsClean
    <3>5. RunInv => RunTypes' /\ OpsFit' /\ NodesFit'
      BY <3>1, <3>3 DEF RunInv, RunTypes, OpsFit, NodesFit, TypedBy
    <3>6. RunInv => \A q \in Replica : TypesAlone(q)'
      BY <3>1, <3>4 DEF RunInv, TypesAlone, TypedBy
    <3> QED
      BY <1>2, <3>2, <3>5, <3>6 DEF RunInv
  <2> QED
    BY <1>2, <2>1, <2>2, <2>3, <2>4, <2>5 DEF RunNext
<1>3. Inv => ForwardRunsStayWhole
  BY RunIsWhole DEF ForwardRunsStayWhole, Writing
<1> QED
  BY <1>1, <1>2, <1>3, PTL DEF RunSpec
=============================================================================
