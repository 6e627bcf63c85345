-------------------------- MODULE FugueTreeProofs --------------------------
(***************************************************************************)
(* Facts about the operators of FugueTree, for every tree: what insertChild*)
(* returns, what applyInsert and applyDelete preserve, and that operations *)
(* a tree is ready for commute and change nothing when applied again.      *)
(***************************************************************************)
EXTENDS FugueTree, SequenceTheorems, WellFoundedInduction, TLAPS

(* Every non-empty set of natural numbers has a least element.             *)
LEMMA LeastNatural ==
  ASSUME NEW T \in SUBSET Nat, T # {}
  PROVE  \E x \in T : \A y \in T : x <= y
<1>1. PICK x \in T : \A y \in T : <<y, x>> \notin OpToRel(<, Nat)
  BY NatLessThanWellFounded, WFMin, Zenon
<1>2. \A y \in T : ~ (y < x)
  BY <1>1 DEF OpToRel
<1> QED
  BY <1>2

(* Precedes (OpID.Compare) is a strict total order on OpIDs.               *)
LEMMA PrecedesIsOrder ==
  ASSUME NEW a \in OpID, NEW b \in OpID, NEW c \in OpID
  PROVE  /\ ~ Precedes(a, a)
         /\ Precedes(a, b) /\ Precedes(b, c) => Precedes(a, c)
         /\ a = b \/ Precedes(a, b) \/ Precedes(b, a)
<1>1. /\ a[1] \in Nat /\ a[2] \in Nat /\ b[1] \in Nat /\ b[2] \in Nat
      /\ c[1] \in Nat /\ c[2] \in Nat
  BY ReplicaAssumption DEF OpID
<1>2. a = <<a[1], a[2]>> /\ b = <<b[1], b[2]>>
  BY DEF OpID
<1>3. ~ Precedes(a, a)
  BY <1>1 DEF Precedes
<1>4. Precedes(a, b) /\ Precedes(b, c) => Precedes(a, c)
  BY <1>1 DEF Precedes
<1>5. a = b \/ Precedes(a, b) \/ Precedes(b, a)
  BY <1>1, <1>2 DEF Precedes
<1> QED
  BY <1>3, <1>4, <1>5

(* The root sentinel is not an OpID that nextID can return.                *)
LEMMA RootIsNoOpID == rootSentinelID \notin OpID
BY ReplicaAssumption DEF OpID, rootSentinelID

(* What SequencesExt's InsertAt returns.                                   *)
LEMMA InsertAtProperties ==
  ASSUME NEW S, NEW seq \in Seq(S), NEW i \in 1 .. Len(seq) + 1, NEW e \in S
  PROVE  /\ Seqs!InsertAt(seq, i, e) \in Seq(S)
         /\ Len(Seqs!InsertAt(seq, i, e)) = Len(seq) + 1
         /\ \A j \in 1 .. Len(seq) + 1 :
              Seqs!InsertAt(seq, i, e)[j] = IF j < i THEN seq[j]
                                            ELSE IF j = i THEN e ELSE seq[j - 1]
<1> DEFINE pre == SubSeq(seq, 1, i - 1)
           post == SubSeq(seq, i, Len(seq))
<1>0. Len(seq) \in Nat /\ \A j \in 1 .. Len(seq) : seq[j] \in S
  BY ElementOfSeq, LenProperties
<1>1. /\ pre \in Seq(S) /\ Len(pre) = i - 1
      /\ \A j \in 1 .. i - 1 : pre[j] = seq[j]
  BY <1>0, SubSeqProperties
<1>2. /\ post \in Seq(S) /\ Len(post) = Len(seq) - i + 1
      /\ \A j \in 1 .. Len(seq) - i + 1 : post[j] = seq[i + j - 1]
  BY <1>0, SubSeqProperties
<1>3. <<e>> \in Seq(S) /\ Len(<<e>>) = 1 /\ <<e>>[1] = e
  OBVIOUS
<1> HIDE DEF pre, post
<1> DEFINE upToE == pre \o <<e>>
           out == upToE \o post
<1>4. /\ upToE \in Seq(S) /\ Len(upToE) = i
      /\ \A j \in 1 .. i : upToE[j] = IF j < i THEN seq[j] ELSE e
  BY <1>0, <1>1, <1>3, ConcatProperties
<1> HIDE DEF upToE
<1>5. /\ out \in Seq(S)
      /\ Len(out) = Len(seq) + 1
      /\ \A j \in 1 .. Len(seq) + 1 :
           out[j] = IF j <= i THEN upToE[j] ELSE post[j - i]
  <2>1. /\ out \in Seq(S) /\ Len(out) = Len(upToE) + Len(post)
        /\ \A j \in 1 .. Len(upToE) + Len(post) :
             out[j] = IF j <= Len(upToE) THEN upToE[j] ELSE post[j - Len(upToE)]
    BY <1>2, <1>4, ConcatProperties
  <2> HIDE DEF out
  <2> QED
    BY <1>0, <1>2, <1>4, <2>1
<1>6. Seqs!InsertAt(seq, i, e) = out
  BY DEF Seqs!InsertAt, pre, post, upToE
<1> HIDE DEF out
<1>7. \A j \in 1 .. Len(seq) + 1 :
        out[j] = IF j < i THEN seq[j] ELSE IF j = i THEN e ELSE seq[j - 1]
  <2> TAKE j \in 1 .. Len(seq) + 1
  <2>1. CASE j <= i
    BY <1>0, <1>4, <1>5, <2>1
  <2>2. CASE j > i
    <3>1. j - i \in 1 .. Len(seq) - i + 1 /\ i + (j - i) - 1 = j - 1
      BY <1>0, <2>2
    <3> QED
      BY <1>0, <1>2, <1>5, <2>2, <3>1
  <2> QED
    BY <1>0, <2>1, <2>2
<1> QED
  BY <1>5, <1>6, <1>7

(* sort.Search always finds a slot.                                        *)
LEMMA SlotExists ==
  ASSUME NEW seq \in Seq(OpID), NEW id \in OpID
  PROVE  \E i \in 1 .. Len(seq) + 1 :
           /\ \A j \in 1 .. i - 1 : Precedes(seq[j], id)
           /\ i <= Len(seq) => ~ Precedes(seq[i], id)
<1> DEFINE T == {i \in 1 .. Len(seq) + 1 : i <= Len(seq) => ~ Precedes(seq[i], id)}
<1>1. T \in SUBSET Nat /\ Len(seq) + 1 \in T
  BY LenProperties
<1>2. PICK x \in T : \A y \in T : x <= y
  BY <1>1, LeastNatural
<1>3. \A j \in 1 .. x - 1 : Precedes(seq[j], id)
  BY <1>1, <1>2
<1> QED
  BY <1>2, <1>3

(* insertChild keeps a child slice sorted and adds exactly the new id.     *)
LEMMA InsertChildProperties ==
  ASSUME NEW seq \in Seq(OpID), NEW id \in OpID, StrictlySorted(seq)
  PROVE  /\ insertChild(seq, id) \in Seq(OpID)
         /\ StrictlySorted(insertChild(seq, id))
         /\ Elements(insertChild(seq, id)) = Elements(seq) \union {id}
<1> DEFINE isSlot(i) == /\ \A j \in 1 .. i - 1 : Precedes(seq[j], id)
                        /\ i <= Len(seq) => ~ Precedes(seq[i], id)
           slot == CHOOSE i \in 1 .. Len(seq) + 1 : isSlot(i)
           out == Seqs!InsertAt(seq, slot, id)
<1>0. Len(seq) \in Nat /\ \A j \in 1 .. Len(seq) : seq[j] \in OpID
  BY ElementOfSeq, LenProperties
<1>1. slot \in 1 .. Len(seq) + 1 /\ isSlot(slot)
  <2>1. \E i \in 1 .. Len(seq) + 1 : isSlot(i)
    BY SlotExists
  <2> QED
    BY <2>1
<1>2. insertChild(seq, id) = IF slot <= Len(seq) /\ seq[slot] = id THEN seq ELSE out
  BY DEF insertChild
<1> HIDE DEF slot
<1>3. CASE slot <= Len(seq) /\ seq[slot] = id
  BY <1>0, <1>1, <1>2, <1>3 DEF Elements
<1>4. CASE ~ (slot <= Len(seq) /\ seq[slot] = id)
  <2>1. /\ out \in Seq(OpID) /\ Len(out) = Len(seq) + 1
        /\ \A j \in 1 .. Len(seq) + 1 :
             out[j] = IF j < slot THEN seq[j] ELSE IF j = slot THEN id ELSE seq[j - 1]
    BY <1>1, InsertAtProperties
  <2> HIDE DEF out
  <2>2. \A j \in slot .. Len(seq) : Precedes(id, seq[j])
    <3> TAKE j \in slot .. Len(seq)
    <3>1. slot <= Len(seq) /\ j \in 1 .. Len(seq) /\ seq[slot] \in OpID /\ seq[j] \in OpID
      BY <1>0, <1>1
    <3>2. Precedes(id, seq[slot])
      BY <1>1, <1>4, <3>1, PrecedesIsOrder
    <3>3. j = slot \/ Precedes(seq[slot], seq[j])
      BY <1>0, <1>1, <3>1 DEF StrictlySorted
    <3> QED
      BY <3>1, <3>2, <3>3, PrecedesIsOrder
  <2>3. StrictlySorted(out)
    <3> SUFFICES ASSUME NEW j \in 1 .. Len(seq) + 1, NEW k \in 1 .. Len(seq) + 1, j < k
                 PROVE  Precedes(out[j], out[k])
      BY <2>1 DEF StrictlySorted
    <3>1. CASE k < slot
      BY <1>0, <1>1, <2>1, <3>1 DEF StrictlySorted
    <3>2. CASE k = slot
      <4>1. j \in 1 .. slot - 1 /\ out[j] = seq[j] /\ out[k] = id
        BY <1>0, <1>1, <2>1, <3>2
      <4>2. Precedes(seq[j], id)
        BY <1>1, <4>1
      <4> QED
        BY <4>1, <4>2
    <3>3. CASE k > slot /\ j = slot
      <4>1. k - 1 \in slot .. Len(seq) /\ out[j] = id /\ out[k] = seq[k - 1]
        BY <1>0, <1>1, <2>1, <3>3
      <4>2. Precedes(id, seq[k - 1])
        BY <2>2, <4>1
      <4> QED
        BY <4>1, <4>2
    <3>4. CASE k > slot /\ j < slot
      <4>1. /\ j \in 1 .. Len(seq) /\ k - 1 \in 1 .. Len(seq) /\ j < k - 1
            /\ out[j] = seq[j] /\ out[k] = seq[k - 1]
        BY <1>0, <1>1, <2>1, <3>4
      <4>2. Precedes(seq[j], seq[k - 1])
        BY <4>1 DEF StrictlySorted
      <4> QED
        BY <4>1, <4>2
    <3>5. CASE j > slot
      <4>1. /\ j - 1 \in 1 .. Len(seq) /\ k - 1 \in 1 .. Len(seq) /\ j - 1 < k - 1
            /\ out[j] = seq[j - 1] /\ out[k] = seq[k - 1]
        BY <1>0, <1>1, <2>1, <3>5
      <4>2. Precedes(seq[j - 1], seq[k - 1])
        BY <4>1 DEF StrictlySorted
      <4> QED
        BY <4>1, <4>2
    <3> QED
      BY <1>0, <1>1, <3>1, <3>2, <3>3, <3>4, <3>5
  <2>4. Elements(out) \subseteq Elements(seq) \union {id}
    <3> SUFFICES ASSUME NEW j \in 1 .. Len(seq) + 1
                 PROVE  out[j] = id \/ out[j] \in Elements(seq)
      BY <2>1 DEF Elements
    <3>1. CASE j < slot
      <4>1. j \in 1 .. Len(seq) /\ out[j] = seq[j]
        BY <1>0, <1>1, <2>1, <3>1
      <4> QED
        BY <4>1 DEF Elements
    <3>2. CASE j > slot
      <4>1. j - 1 \in 1 .. Len(seq) /\ out[j] = seq[j - 1]
        BY <1>0, <1>1, <2>1, <3>2
      <4> QED
        BY <4>1 DEF Elements
    <3> QED
      BY <1>0, <1>1, <2>1, <3>1, <3>2
  <2>5. id \in Elements(out)
    BY <1>0, <1>1, <2>1 DEF Elements
  <2>6. Elements(seq) \subseteq Elements(out)
    <3> SUFFICES ASSUME NEW j \in 1 .. Len(seq) PROVE seq[j] \in Elements(out)
      BY DEF Elements
    <3>1. CASE j < slot
      BY <1>0, <1>1, <2>1, <3>1 DEF Elements
    <3>2. CASE j >= slot
      <4>1. j + 1 \in 1 .. Len(out) /\ out[j + 1] = seq[j]
        BY <1>0, <1>1, <2>1, <3>2
      <4> QED
        BY <4>1 DEF Elements
    <3> QED
      BY <1>0, <1>1, <3>1, <3>2
  <2> QED
    BY <1>2, <1>4, <2>1, <2>3, <2>4, <2>5, <2>6
<1> QED
  BY <1>3, <1>4

(* Two sorted sequences with the same elements are the same sequence.      *)
LEMMA SortedUnique ==
  ASSUME NEW s \in Seq(OpID), NEW u \in Seq(OpID),
         StrictlySorted(s), StrictlySorted(u), Elements(s) = Elements(u)
  PROVE  s = u
<1>0. /\ Len(s) \in Nat /\ \A i \in 1 .. Len(s) : s[i] \in OpID
      /\ Len(u) \in Nat /\ \A i \in 1 .. Len(u) : u[i] \in OpID
  BY ElementOfSeq, LenProperties
<1>1. ASSUME NEW x \in Seq(OpID), NEW y \in Seq(OpID),
             StrictlySorted(x), StrictlySorted(y), Elements(x) = Elements(y),
             NEW i \in 1 .. Len(x),
             \A k \in 1 .. i - 1 : k <= Len(y) /\ x[k] = y[k],
             i > Len(y) \/ x[i] # y[i]
      PROVE  i <= Len(y) /\ Precedes(y[i], x[i])
  <2>0. /\ Len(x) \in Nat /\ Len(y) \in Nat
        /\ \A k \in 1 .. Len(x) : x[k] \in OpID
        /\ \A k \in 1 .. Len(y) : y[k] \in OpID
    BY ElementOfSeq, LenProperties
  <2>1. PICK k \in 1 .. Len(y) : y[k] = x[i]
    BY <1>1 DEF Elements
  <2>2. k >= i
    <3> SUFFICES ASSUME k < i PROVE FALSE
      BY <2>0
    <3>1. x[k] = x[i] /\ Precedes(x[k], x[i])
      BY <1>1, <2>0, <2>1 DEF StrictlySorted
    <3> QED
      BY <2>0, <3>1, PrecedesIsOrder
  <2>3. i <= Len(y) /\ k # i
    BY <1>1, <2>0, <2>1, <2>2
  <2>4. Precedes(y[i], y[k])
    BY <1>1, <2>0, <2>1, <2>2, <2>3 DEF StrictlySorted
  <2> QED
    BY <2>1, <2>3, <2>4
<1>2. ASSUME s # u PROVE FALSE
  <2> DEFINE differ == {i \in 1 .. Len(s) + Len(u) :
                          i > Len(s) \/ i > Len(u) \/ s[i] # u[i]}
  <2>1. \E i \in 1 .. Len(s) + Len(u) : (i <= Len(s) \/ i <= Len(u))
                                        /\ (i > Len(s) \/ i > Len(u) \/ s[i] # u[i])
    <3>1. CASE Len(s) = Len(u)
      <4>1. \E i \in 1 .. Len(s) : s[i] # u[i]
        BY <1>2, <3>1, SeqEqual
      <4> QED
        BY <1>0, <4>1
    <3>2. CASE Len(s) < Len(u)
      <4>1. Len(s) + 1 \in 1 .. Len(s) + Len(u)
        BY <1>0, <3>2
      <4> QED
        BY <1>0, <3>2, <4>1
    <3>3. CASE Len(u) < Len(s)
      <4>1. Len(u) + 1 \in 1 .. Len(s) + Len(u)
        BY <1>0, <3>3
      <4> QED
        BY <1>0, <3>3, <4>1
    <3> QED
      BY <1>0, <3>1, <3>2, <3>3
  <2>2. differ \in SUBSET Nat /\ differ # {}
    BY <1>0, <2>1
  <2>3. PICK i \in differ : \A j \in differ : i <= j
    BY <2>2, LeastNatural
  <2>4. /\ i \in Nat \ {0} /\ (i <= Len(s) \/ i <= Len(u))
        /\ i > Len(s) \/ i > Len(u) \/ s[i] # u[i]
    BY <1>0, <2>1, <2>3
  <2>5. \A k \in 1 .. i - 1 : k <= Len(s) /\ k <= Len(u) /\ s[k] = u[k]
    BY <1>0, <2>3
  <2>6. i <= Len(s) => i <= Len(u) /\ Precedes(u[i], s[i])
    BY <1>0, <1>1, <2>4, <2>5
  <2>7. i <= Len(u) => i <= Len(s) /\ Precedes(s[i], u[i])
    BY <1>0, <1>1, <2>4, <2>5
  <2>8. i \in 1 .. Len(s) /\ i \in 1 .. Len(u)
    BY <1>0, <2>4, <2>6, <2>7
  <2> QED
    BY <1>0, <2>6, <2>7, <2>8, PrecedesIsOrder
<1> QED
  BY <1>2

-----------------------------------------------------------------------------
(* What an operation does to a tree.                                       *)

(* u holds the nodes of t with the fields that name and place them.        *)
Kept(t, u) ==
  \A n \in DOMAIN t : /\ n \in DOMAIN u
                      /\ u[n].value = t[n].value
                      /\ u[n].parent = t[n].parent
                      /\ u[n].side = t[n].side

(* The fields of a node that has been linked in, kept apart from the child *)
(* lists.                                                                  *)
LEMMA NodeFields ==
  ASSUME NEW t, IsTree(t), NEW n \in DOMAIN t
  PROVE  /\ t[n].value \in Char \union {zeroRune}
         /\ t[n].parent \in DOMAIN t
         /\ t[n].parent \in OpID \union {rootSentinelID}
         /\ t[n].side \in Side
         /\ t[n].deleted \in BOOLEAN
         /\ t[n].kids \in [Side -> Seq(OpID)]
BY DEF IsTree, FugueNode

(* u is t with the node of op linked in.                                   *)
Linked(t, op, u) ==
  /\ DOMAIN u = DOMAIN t \union {op.id}
  /\ u = [n \in DOMAIN u |-> u[n]]
  /\ u[op.id] = NewNode(op.value, op.parent, op.side)
  /\ \A n \in DOMAIN t :
       /\ u[n].value = t[n].value
       /\ u[n].parent = t[n].parent
       /\ u[n].side = t[n].side
       /\ u[n].deleted = t[n].deleted
       /\ u[n].kids \in [Side -> Seq(OpID)] => u[n] \in FugueNode
       /\ u[n].kids = IF n = op.parent
                      THEN [s \in Side |-> IF s = op.side
                                           THEN insertChild(t[n].kids[s], op.id)
                                           ELSE t[n].kids[s]]
                      ELSE t[n].kids

(* applyInsert of an operation that is new and whose parent is present.    *)
LEMMA LinkInsert ==
  ASSUME NEW t, IsTree(t), NEW op \in FugueInsertOp,
         op.id \notin DOMAIN t, op.parent \in DOMAIN t, NEW u, u = applyInsert(t, op)
  PROVE  Linked(t, op, u)
<1>1. u = [n \in DOMAIN t \union {op.id} |->
            IF n = op.id THEN NewNode(op.value, op.parent, op.side)
            ELSE IF n = op.parent
                 THEN [t[n] EXCEPT !.kids[op.side] = insertChild(@, op.id)]
                 ELSE t[n]]
  BY DEF applyInsert
<1>2. DOMAIN u = DOMAIN t \union {op.id}
  BY <1>1
<1>3. u[op.id] = NewNode(op.value, op.parent, op.side)
  BY <1>1
<1>4. ASSUME NEW n \in DOMAIN t
      PROVE  /\ u[n].value = t[n].value
             /\ u[n].parent = t[n].parent
             /\ u[n].side = t[n].side
             /\ u[n].deleted = t[n].deleted
             /\ u[n].kids \in [Side -> Seq(OpID)] => u[n] \in FugueNode
             /\ u[n].kids = IF n = op.parent
                            THEN [s \in Side |-> IF s = op.side
                                                 THEN insertChild(t[n].kids[s], op.id)
                                                 ELSE t[n].kids[s]]
                            ELSE t[n].kids
  <2>1. t[n] \in FugueNode /\ n # op.id
    BY <1>4 DEF IsTree
  <2>2. CASE n = op.parent
    <3>1. u[n] = [t[n] EXCEPT !.kids[op.side] = insertChild(@, op.id)]
      BY <1>1, <2>1, <2>2
    <3>2. op.side \in Side /\ t[n].kids \in [Side -> Seq(OpID)]
      BY <2>1 DEF FugueNode, FugueInsertOp
    <3>3. u[n] = [t[n] EXCEPT !.kids = [t[n].kids EXCEPT ![op.side] =
                                          insertChild(t[n].kids[op.side], op.id)]]
      BY <3>1
    <3>4. [t[n].kids EXCEPT ![op.side] = insertChild(t[n].kids[op.side], op.id)]
            = [s \in Side |-> IF s = op.side THEN insertChild(t[n].kids[s], op.id)
                                            ELSE t[n].kids[s]]
      BY <3>2
    <3> QED
      BY <2>1, <2>2, <3>3, <3>4 DEF FugueNode
  <2>3. CASE n # op.parent
    <3>1. u[n] = t[n]
      BY <1>1, <2>1, <2>3
    <3> QED
      BY <2>1, <2>3, <3>1 DEF FugueNode
  <2> QED
    BY <2>2, <2>3
<1> QED
  BY <1>1, <1>2, <1>3, <1>4 DEF Linked

(* Linking a new node gives a tree again, whose child slices match, which  *)
(* has one node more and the same tombstones.                              *)
LEMMA LinkInsertSound ==
  ASSUME NEW t, IsTree(t), ChildListsMatch(t), NEW op \in FugueInsertOp,
         op.id \notin DOMAIN t, op.parent \in DOMAIN t, NEW u, u = applyInsert(t, op)
  PROVE  /\ IsTree(u)
         /\ ChildListsMatch(u)
         /\ Nodes(u) = Nodes(t) \union {op.id}
         /\ Tombstones(u) = Tombstones(t)
         /\ Kept(t, u)
<1> DEFINE root == rootSentinelID
<1>0. /\ op.id \in OpID /\ op.value \in Char /\ op.side \in Side
      /\ op.parent \in OpID \union {root} /\ op.id # root
  BY RootIsNoOpID DEF FugueInsertOp
<1>13. Linked(t, op, u)
  BY LinkInsert
<1>1. /\ DOMAIN u = DOMAIN t \union {op.id}
      /\ u = [n \in DOMAIN u |-> u[n]]
      /\ u[op.id] = NewNode(op.value, op.parent, op.side)
  BY <1>13 DEF Linked
<1>2. \A n \in DOMAIN t :
        /\ u[n].value = t[n].value
        /\ u[n].parent = t[n].parent
        /\ u[n].side = t[n].side
        /\ u[n].deleted = t[n].deleted
        /\ u[n].kids \in [Side -> Seq(OpID)] => u[n] \in FugueNode
        /\ u[n].kids = IF n = op.parent
                       THEN [s \in Side |-> IF s = op.side
                                            THEN insertChild(t[n].kids[s], op.id)
                                            ELSE t[n].kids[s]]
                       ELSE t[n].kids
  BY <1>13 DEF Linked
<1>3. /\ u[op.id].value = op.value /\ u[op.id].parent = op.parent
      /\ u[op.id].side = op.side /\ u[op.id].deleted = FALSE
      /\ u[op.id].kids = [s \in Side |-> <<>>]
  BY <1>1 DEF NewNode
<1>4. Nodes(u) = Nodes(t) \union {op.id}
  BY <1>0, <1>1 DEF Nodes
<1>5. Kept(t, u)
  BY <1>1, <1>2 DEF Kept
<1>6. Tombstones(u) = Tombstones(t)
  <2>1. \A n \in Nodes(t) : u[n].deleted = t[n].deleted
    BY <1>2 DEF Nodes
  <2> QED
    BY <1>0, <1>3, <1>4, <2>1 DEF Tombstones, Nodes
<1>7. ASSUME NEW p \in DOMAIN t, NEW s \in Side
      PROVE  /\ t[p].kids[s] \in Seq(OpID)
             /\ StrictlySorted(t[p].kids[s])
             /\ Elements(t[p].kids[s]) = Children(t, p, s)
  BY NodeFields DEF ChildListsMatch
<1>8. ASSUME NEW p \in DOMAIN t, NEW s \in Side, p = op.parent, s = op.side
      PROVE  /\ u[p].kids[s] \in Seq(OpID)
             /\ StrictlySorted(u[p].kids[s])
             /\ Elements(u[p].kids[s]) = Children(t, p, s) \union {op.id}
  <2>1. u[p].kids[s] = insertChild(t[p].kids[s], op.id)
    BY <1>2, <1>8
  <2>2. /\ t[p].kids[s] \in Seq(OpID)
        /\ StrictlySorted(t[p].kids[s])
        /\ Elements(t[p].kids[s]) = Children(t, p, s)
    BY <1>7
  <2>3. /\ insertChild(t[p].kids[s], op.id) \in Seq(OpID)
        /\ StrictlySorted(insertChild(t[p].kids[s], op.id))
        /\ Elements(insertChild(t[p].kids[s], op.id))
             = Elements(t[p].kids[s]) \union {op.id}
    BY <1>0, <2>2, InsertChildProperties
  <2> QED
    BY <2>1, <2>2, <2>3
<1>9. ASSUME NEW p \in DOMAIN t, NEW s \in Side, p # op.parent \/ s # op.side
      PROVE  u[p].kids[s] = t[p].kids[s]
  <2>1. CASE p = op.parent
    BY ZenonT(40), <1>2, <1>9, <2>1
  <2>2. CASE p # op.parent
    BY <1>2, <2>2
  <2> QED
    BY <2>1, <2>2
<1>10. ASSUME NEW p \in DOMAIN t PROVE u[p].kids \in [Side -> Seq(OpID)]
  <2>1. t[p].kids \in [Side -> Seq(OpID)]
    BY NodeFields
  <2>2. CASE p = op.parent
    <3>1. \A s \in Side : (IF s = op.side THEN insertChild(t[p].kids[s], op.id)
                                          ELSE t[p].kids[s]) \in Seq(OpID)
      <4> TAKE s \in Side
      <4>1. t[p].kids[s] \in Seq(OpID) /\ StrictlySorted(t[p].kids[s])
        BY <1>7
      <4> QED
        BY <1>0, <4>1, InsertChildProperties
    <3>2. u[p].kids = [s \in Side |-> IF s = op.side
                                      THEN insertChild(t[p].kids[s], op.id)
                                      ELSE t[p].kids[s]]
      BY <1>2, <2>2
    <3> QED
      BY <3>1, <3>2
  <2> QED
    BY <1>2, <2>1, <2>2
<1>11. IsTree(u)
  <2>1. \A n \in DOMAIN t : u[n] \in FugueNode
    BY <1>2, <1>10
  <2>2. u[op.id] \in FugueNode
    BY <1>0, <1>1, EmptySeq DEF FugueNode, NewNode
  <2>3. \A n \in DOMAIN u : u[n].parent \in DOMAIN u
    BY ZenonT(40), <1>1, <1>2, <1>3, NodeFields
  <2> QED
    BY <1>0, <1>1, <1>4, <2>1, <2>2, <2>3 DEF IsTree
<1>12. ChildListsMatch(u)
  <2> SUFFICES ASSUME NEW p \in DOMAIN u, NEW s \in Side
               PROVE  /\ Elements(u[p].kids[s]) = Children(u, p, s)
                      /\ StrictlySorted(u[p].kids[s])
    BY DEF ChildListsMatch
  <2>1. \A n \in Nodes(t) : u[n].parent = t[n].parent /\ u[n].side = t[n].side
    BY <1>2 DEF Nodes
  <2>2. Children(u, p, s) = Children(t, p, s) \union
                              (IF op.parent = p /\ op.side = s THEN {op.id} ELSE {})
    BY <1>3, <1>4, <2>1 DEF Children
  <2>3. CASE p = op.id
    <3>1. u[p].kids[s] = <<>> /\ p # op.parent
      BY <1>3, <2>3
    <3>2. Children(t, p, s) = {}
      BY <2>3, NodeFields DEF Children, Nodes
    <3>3. Elements(<<>>) = {} /\ StrictlySorted(<<>>)
      BY DEF Elements, StrictlySorted
    <3> QED
      BY <2>2, <3>1, <3>2, <3>3
  <2>4. CASE p # op.id /\ p = op.parent /\ s = op.side
    BY <1>1, <1>8, <2>2, <2>4
  <2>5. CASE p # op.id /\ ~(p = op.parent /\ s = op.side)
    BY <1>1, <1>7, <1>9, <2>2, <2>5
  <2> QED
    BY <2>3, <2>4, <2>5
<1> QED
  BY <1>4, <1>5, <1>6, <1>11, <1>12

(* Marking a node keeps everything but its mark.                           *)
LEMMA MarkDelete ==
  ASSUME NEW t, IsTree(t), ChildListsMatch(t), NEW d \in Nodes(t),
         NEW u, u = [t EXCEPT ![d].deleted = TRUE]
  PROVE  /\ IsTree(u)
         /\ ChildListsMatch(u)
         /\ Nodes(u) = Nodes(t)
         /\ Tombstones(u) = Tombstones(t) \union {d}
         /\ Kept(t, u)
         /\ u[rootSentinelID] = t[rootSentinelID]
<1>1. DOMAIN u = DOMAIN t /\ u = [n \in DOMAIN u |-> u[n]]
  BY DEF IsTree
<1>2. ASSUME NEW n \in DOMAIN t
      PROVE  /\ u[n] \in FugueNode
             /\ u[n].value = t[n].value
             /\ u[n].parent = t[n].parent
             /\ u[n].side = t[n].side
             /\ u[n].deleted = IF n = d THEN TRUE ELSE t[n].deleted
             /\ u[n].kids = t[n].kids
  <2>1. t[n] \in FugueNode
    BY DEF IsTree
  <2>2. u[n] = IF n = d THEN [t[n] EXCEPT !.deleted = TRUE] ELSE t[n]
    BY <1>2
  <2> QED
    BY <2>1, <2>2 DEF FugueNode
<1>3. Nodes(u) = Nodes(t)
  BY <1>1 DEF Nodes
<1>4. Kept(t, u)
  BY <1>1, <1>2 DEF Kept
<1>5. Tombstones(u) = Tombstones(t) \union {d}
  <2>1. \A n \in Nodes(t) : u[n].deleted = IF n = d THEN TRUE ELSE t[n].deleted
    BY <1>2 DEF Nodes
  <2> QED
    BY <1>3, <2>1 DEF Tombstones
<1>6. u[rootSentinelID] = t[rootSentinelID]
  BY DEF Nodes
<1>7. IsTree(u)
  <2>1. u \in [DOMAIN u -> FugueNode]
    BY <1>1, <1>2
  <2> QED
    BY <1>1, <1>2, <1>3, <2>1 DEF IsTree
<1>8. ChildListsMatch(u)
  <2>1. \A p \in DOMAIN t, s \in Side : Children(u, p, s) = Children(t, p, s)
    <3>1. \A n \in Nodes(t) : u[n].parent = t[n].parent /\ u[n].side = t[n].side
      BY <1>2 DEF Nodes
    <3> QED
      BY <1>3, <3>1 DEF Children
  <2>2. \A p \in DOMAIN t : u[p].kids = t[p].kids
    BY <1>2
  <2> SUFFICES ASSUME NEW p \in DOMAIN t, NEW s \in Side
               PROVE  /\ Elements(u[p].kids[s]) = Children(u, p, s)
                      /\ StrictlySorted(u[p].kids[s])
    BY <1>1 DEF ChildListsMatch
  <2>3. /\ Elements(t[p].kids[s]) = Children(t, p, s)
        /\ StrictlySorted(t[p].kids[s])
    BY DEF ChildListsMatch
  <2> QED
    BY <2>1, <2>2, <2>3
<1> QED
  BY <1>3, <1>4, <1>5, <1>6, <1>7, <1>8

(* The root sentinel as NewFugueTree makes it, child slices aside.         *)
PlainRoot(t) ==
  /\ t[rootSentinelID].value = zeroRune
  /\ t[rootSentinelID].parent = rootSentinelID
  /\ t[rootSentinelID].side = "left"
  /\ t[rootSentinelID].deleted = FALSE

(* h goes down from every node to its children: a traversal comes to an    *)
(* end.                                                                    *)
HeightOf(t, h) ==
  /\ h \in [DOMAIN t -> Nat]
  /\ \A n \in Nodes(t) : h[n] < h[t[n].parent] /\ h[n] <= h[rootSentinelID]

Founded(t) == \E h : HeightOf(t, h)

SoundTree(t) == IsTree(t) /\ ChildListsMatch(t) /\ PlainRoot(t) /\ Founded(t)

(* A leaf more, and a mark more, leave a tree founded.                     *)
LEMMA LeafFounded ==
  ASSUME NEW t, IsTree(t), Founded(t), NEW u, Kept(t, u),
         NEW x, x # rootSentinelID, x \notin DOMAIN t, DOMAIN u = DOMAIN t \union {x},
         u[x].parent \in DOMAIN t
  PROVE  Founded(u)
<1>1. PICK h : HeightOf(t, h)
  BY DEF Founded
<1> DEFINE e == [n \in DOMAIN u |-> IF n = x THEN 0 ELSE h[n] + 1]
<1>2. h \in [DOMAIN t -> Nat] /\ rootSentinelID \in DOMAIN t
  BY <1>1 DEF HeightOf, IsTree
<1>3. /\ e \in [DOMAIN u -> Nat] /\ e[x] = 0
      /\ \A n \in DOMAIN t : e[n] = h[n] + 1
  BY <1>2
<1> HIDE DEF e
<1>4. ASSUME NEW n \in Nodes(u)
      PROVE  e[n] < e[u[n].parent] /\ e[n] <= e[rootSentinelID]
  <2>1. CASE n = x
    BY <1>2, <1>3, <2>1
  <2>2. CASE n # x
    <3>1. n \in Nodes(t) /\ n \in DOMAIN t /\ u[n].parent = t[n].parent /\ t[n].parent \in DOMAIN t
      BY <2>2 DEF Nodes, Kept, IsTree
    <3>2. h[n] < h[t[n].parent] /\ h[n] <= h[rootSentinelID]
      BY <1>1, <3>1 DEF HeightOf
    <3> QED
      BY <1>2, <1>3, <3>1, <3>2
  <2> QED
    BY <2>1, <2>2
<1> QED
  BY <1>3, <1>4 DEF Founded, HeightOf

LEMMA SameFounded ==
  ASSUME NEW t, Founded(t), NEW u, Kept(t, u), DOMAIN u = DOMAIN t
  PROVE  Founded(u)
<1>1. PICK h : HeightOf(t, h)
  BY DEF Founded
<1>2. HeightOf(u, h)
  BY <1>1 DEF HeightOf, Kept, Nodes
<1> QED
  BY <1>2 DEF Founded

(* u is what t becomes when op is applied to it.                           *)
Effect(t, op, u) ==
  /\ SoundTree(u)
  /\ Kept(t, u)
  /\ Nodes(u) = Nodes(t) \union {x \in {op.id} : op.type = "insert" /\ op.parent \in DOMAIN t}
  /\ Tombstones(u) = Tombstones(t) \union
                       {x \in Nodes(t) : op.type = "delete" /\ op.target = x}
  /\ op.id \in Nodes(u) \ Nodes(t) =>
       /\ u[op.id].value = op.value
       /\ u[op.id].parent = op.parent
       /\ u[op.id].side = op.side

(* A new document is a sound tree without nodes.                           *)
LEMMA NewTreeSound ==
  /\ SoundTree(NewFugueTree)
  /\ Nodes(NewFugueTree) = {}
  /\ Tombstones(NewFugueTree) = {}
<1> DEFINE t == NewFugueTree
<1>1. /\ DOMAIN t = {rootSentinelID}
      /\ t = [n \in DOMAIN t |-> t[n]]
      /\ t[rootSentinelID] = [value |-> zeroRune, parent |-> rootSentinelID,
                              side |-> "left", deleted |-> FALSE,
                              kids |-> [s \in Side |-> <<>>]]
  BY DEF NewFugueTree, NewNode
<1> HIDE DEF t
<1>2. t[rootSentinelID] \in FugueNode
  BY <1>1, EmptySeq DEF FugueNode, Side
<1>3. Nodes(t) = {} /\ Tombstones(t) = {}
  BY <1>1 DEF Nodes, Tombstones
<1>4. PlainRoot(t)
  BY <1>1 DEF PlainRoot
<1>5. IsTree(t)
  <2>1. t \in [DOMAIN t -> FugueNode]
    BY <1>1, <1>2
  <2> QED
    BY <1>1, <1>3, <2>1 DEF IsTree
<1>6. ChildListsMatch(t)
  <2> SUFFICES ASSUME NEW s \in Side
               PROVE  /\ Elements(t[rootSentinelID].kids[s]) = Children(t, rootSentinelID, s)
                      /\ StrictlySorted(t[rootSentinelID].kids[s])
    BY <1>1 DEF ChildListsMatch
  <2>1. t[rootSentinelID].kids[s] = <<>>
    BY <1>1
  <2>2. Elements(<<>>) = {} /\ StrictlySorted(<<>>)
    BY DEF Elements, StrictlySorted
  <2> QED
    BY <1>3, <2>1, <2>2 DEF Children
<1>7. Founded(t)
  <2>1. HeightOf(t, [n \in DOMAIN t |-> 0])
    BY <1>3 DEF HeightOf
  <2> QED
    BY <2>1 DEF Founded
<1> QED
  BY <1>3, <1>4, <1>5, <1>6, <1>7 DEF SoundTree, t

(* ApplyOperation keeps a tree sound, adds at most the node of an insert   *)
(* whose parent is present and marks at most the target of a delete.       *)
LEMMA ApplyOperationEffect ==
  ASSUME NEW t, SoundTree(t), NEW op \in Operation
  PROVE  Effect(t, op, ApplyOperation(t, op))
<1> DEFINE u == ApplyOperation(t, op)
<1> SUFFICES Effect(t, op, u)
  OBVIOUS
<1>0. IsTree(t) /\ ChildListsMatch(t) /\ PlainRoot(t) /\ Founded(t) /\ Kept(t, t)
  BY DEF SoundTree, Kept
<1>1. CASE op.type = "insert"
  <2>1. op \in FugueInsertOp /\ op.id \in OpID /\ op.id # rootSentinelID
    BY <1>1, RootIsNoOpID DEF Operation, FugueInsertOp, FugueDeleteOp
  <2>2. u = applyInsert(t, op)
    BY <1>1 DEF ApplyOperation
  <2>3. CASE op.id \in DOMAIN t \/ op.parent \notin DOMAIN t
    <3>1. u = t
      BY <2>2, <2>3 DEF applyInsert
    <3>2. op.parent \in DOMAIN t => op.id \in Nodes(t)
      BY <2>1, <2>3 DEF Nodes
    <3> QED
      BY <1>0, <1>1, <3>1, <3>2 DEF Effect, SoundTree
  <2>4. CASE op.id \notin DOMAIN t /\ op.parent \in DOMAIN t
    <3>1. /\ IsTree(u) /\ ChildListsMatch(u) /\ Kept(t, u)
          /\ Nodes(u) = Nodes(t) \union {op.id}
          /\ Tombstones(u) = Tombstones(t)
      BY <1>0, <2>1, <2>2, <2>4, LinkInsertSound
    <3>2. Linked(t, op, u)
      BY <1>0, <2>1, <2>2, <2>4, LinkInsert
    <3>3. /\ u[op.id].value = op.value
          /\ u[op.id].parent = op.parent
          /\ u[op.id].side = op.side
      BY <3>2 DEF Linked, NewNode
    <3>4. PlainRoot(u)
      BY <1>0, <3>2 DEF Linked, PlainRoot, IsTree
    <3>5. Founded(u)
      <4>1. DOMAIN u = DOMAIN t \union {op.id} /\ u[op.id].parent \in DOMAIN t
        BY <2>4, <3>2, <3>3 DEF Linked
      <4> HIDE DEF u
      <4> QED
        BY <1>0, <2>1, <2>4, <3>1, <4>1, LeafFounded
    <3> HIDE DEF u
    <3> QED
      BY <1>1, <2>4, <3>1, <3>3, <3>4, <3>5 DEF Effect, SoundTree
  <2> QED
    BY <2>3, <2>4
<1>2. CASE op.type = "delete"
  <2>1. op \in FugueDeleteOp /\ op.target \in OpID /\ op.target # rootSentinelID
    BY <1>2, RootIsNoOpID DEF Operation, FugueInsertOp, FugueDeleteOp
  <2>2. u = IF op.target \in DOMAIN t THEN [t EXCEPT ![op.target].deleted = TRUE] ELSE t
    BY <1>2 DEF ApplyOperation, applyDelete
  <2>3. CASE op.target \notin DOMAIN t
    <3>1. u = t /\ op.target \notin Nodes(t)
      BY <2>2, <2>3 DEF Nodes
    <3> QED
      BY <1>0, <1>2, <3>1 DEF Effect, SoundTree
  <2>4. CASE op.target \in DOMAIN t
    <3>1. op.target \in Nodes(t)
      BY <2>1, <2>4 DEF Nodes
    <3>2. /\ IsTree(u) /\ ChildListsMatch(u) /\ Kept(t, u)
          /\ Nodes(u) = Nodes(t)
          /\ Tombstones(u) = Tombstones(t) \union {op.target}
          /\ u[rootSentinelID] = t[rootSentinelID]
      BY <1>0, <2>2, <2>4, <3>1, MarkDelete
    <3>3. DOMAIN u = DOMAIN t
      BY <2>2
    <3> HIDE DEF u
    <3>4. Founded(u)
      BY <1>0, <3>2, <3>3, SameFounded
    <3> QED
      BY <1>0, <1>2, <3>1, <3>2, <3>4 DEF Effect, SoundTree, PlainRoot
  <2> QED
    BY <2>3, <2>4
<1>3. op.type = "insert" \/ op.type = "delete"
  BY DEF Operation, FugueInsertOp, FugueDeleteOp
<1> QED
  BY <1>1, <1>2, <1>3

(* A tree is determined by its nodes, what they carry and its tombstones:  *)
(* the order of the child slices adds nothing.                             *)
LEMMA SameContentSameTree ==
  ASSUME NEW t, NEW u, SoundTree(t), SoundTree(u), Agree(t, u), SameContent(t, u)
  PROVE  t = u
<1>1. IsTree(t) /\ IsTree(u) /\ ChildListsMatch(t) /\ ChildListsMatch(u)
  BY DEF SoundTree
<1>2. DOMAIN t = DOMAIN u
  BY <1>1 DEF SameContent, Nodes, IsTree
<1>3. ASSUME NEW n \in DOMAIN t
      PROVE  /\ t[n].value = u[n].value /\ t[n].parent = u[n].parent
             /\ t[n].side = u[n].side /\ t[n].deleted = u[n].deleted
  <2>1. CASE n = rootSentinelID
    BY <2>1 DEF SoundTree, PlainRoot
  <2>2. CASE n # rootSentinelID
    <3>1. n \in Nodes(t) \intersect Nodes(u)
      BY <1>2, <2>2 DEF Nodes
    <3>2. t[n].value = u[n].value /\ t[n].parent = u[n].parent /\ t[n].side = u[n].side
      BY <3>1 DEF Agree
    <3>3. n \in Tombstones(t) <=> n \in Tombstones(u)
      BY DEF SameContent
    <3>4. t[n].deleted <=> u[n].deleted
      BY <3>1, <3>3 DEF Tombstones
    <3>5. t[n].deleted \in BOOLEAN /\ u[n].deleted \in BOOLEAN
      BY <1>1, <1>2, NodeFields
    <3> QED
      BY <3>2, <3>4, <3>5
  <2> QED
    BY <2>1, <2>2
<1>4. ASSUME NEW n \in DOMAIN t, NEW s \in Side PROVE t[n].kids[s] = u[n].kids[s]
  <2>1. Children(t, n, s) = Children(u, n, s)
    BY <1>2, <1>3 DEF Children, Nodes
  <2>2. /\ t[n].kids[s] \in Seq(OpID) /\ u[n].kids[s] \in Seq(OpID)
    BY <1>1, <1>2, NodeFields
  <2>3. /\ StrictlySorted(t[n].kids[s]) /\ Elements(t[n].kids[s]) = Children(t, n, s)
        /\ StrictlySorted(u[n].kids[s]) /\ Elements(u[n].kids[s]) = Children(u, n, s)
    BY <1>1, <1>2 DEF ChildListsMatch
  <2> QED
    BY <2>1, <2>2, <2>3, SortedUnique
<1>5. ASSUME NEW n \in DOMAIN t PROVE t[n] = u[n]
  <2>1. t[n].kids = u[n].kids
    <3>1. t[n].kids \in [Side -> Seq(OpID)] /\ u[n].kids \in [Side -> Seq(OpID)]
      BY <1>1, <1>2, NodeFields
    <3> QED
      BY <1>4, <3>1
  <2>2. t[n] \in FugueNode /\ u[n] \in FugueNode
    BY <1>1, <1>2 DEF IsTree
  <2> QED
    BY <1>3, <2>1, <2>2 DEF FugueNode
<1> QED
  BY <1>1, <1>2, <1>5 DEF IsTree

-----------------------------------------------------------------------------
(* Operations as such: what is promised of them in doc.go.                 *)

(* The node that op hangs from, or marks, is in t.                         *)
Takes(t, op) ==
  IF op.type = "insert" THEN op.parent \in DOMAIN t ELSE op.target \in DOMAIN t

(* The effect of an operation that t takes.                                *)
LEMMA EffectWhenTaken ==
  ASSUME NEW t, SoundTree(t), NEW op \in Operation, Takes(t, op), NEW u, Effect(t, op, u)
  PROVE  /\ Nodes(u) = Nodes(t) \union {x \in {op.id} : op.type = "insert"}
         /\ Tombstones(u) = Tombstones(t) \union {x \in {op.target} : op.type = "delete"}
<1>1. op.type = "insert" => op.parent \in DOMAIN t
  BY DEF Takes
<1>2. op.type = "delete" => op.target \in Nodes(t)
  BY RootIsNoOpID DEF Takes, Operation, FugueInsertOp, FugueDeleteOp, Nodes
<1> QED
  BY <1>1, <1>2 DEF Effect

LEMMA TakenLater ==
  ASSUME NEW t, NEW op, Takes(t, op), NEW u, Kept(t, u)
  PROVE  Takes(u, op)
BY DEF Takes, Kept

(* Two operations that a tree takes have one effect in both orders, unless *)
(* they are different insertions under one id: operations that do not      *)
(* depend on each other commute (applyInsert, applyDelete, insertChild).   *)
THEOREM OperationsCommute ==
  ASSUME NEW t, SoundTree(t), NEW op1 \in Operation, NEW op2 \in Operation,
         Takes(t, op1), Takes(t, op2),
         op1.type = "insert" /\ op2.type = "insert" /\ op1.id = op2.id => op1 = op2
  PROVE  ApplyOperation(ApplyOperation(t, op1), op2) =
           ApplyOperation(ApplyOperation(t, op2), op1)
<1> DEFINE u1 == ApplyOperation(t, op1)
           u2 == ApplyOperation(t, op2)
           u12 == ApplyOperation(u1, op2)
           u21 == ApplyOperation(u2, op1)
<1>1. Effect(t, op1, u1) /\ Effect(t, op2, u2)
  BY ApplyOperationEffect
<1>2. Effect(u1, op2, u12) /\ Effect(u2, op1, u21)
  BY <1>1, ApplyOperationEffect DEF Effect
<1> HIDE DEF u1, u2, u12, u21
<1>3. /\ SoundTree(u1) /\ SoundTree(u2) /\ SoundTree(u12) /\ SoundTree(u21)
      /\ Kept(t, u1) /\ Kept(t, u2) /\ Kept(u1, u12) /\ Kept(u2, u21)
  BY <1>1, <1>2 DEF Effect
<1>4. Takes(u1, op2) /\ Takes(u2, op1)
  BY <1>3, TakenLater
<1>5. /\ Nodes(u12) = Nodes(u1) \union {x \in {op2.id} : op2.type = "insert"}
      /\ Nodes(u1) = Nodes(t) \union {x \in {op1.id} : op1.type = "insert"}
      /\ Nodes(u21) = Nodes(u2) \union {x \in {op1.id} : op1.type = "insert"}
      /\ Nodes(u2) = Nodes(t) \union {x \in {op2.id} : op2.type = "insert"}
      /\ Tombstones(u12) = Tombstones(u1) \union {x \in {op2.target} : op2.type = "delete"}
      /\ Tombstones(u1) = Tombstones(t) \union {x \in {op1.target} : op1.type = "delete"}
      /\ Tombstones(u21) = Tombstones(u2) \union {x \in {op1.target} : op1.type = "delete"}
      /\ Tombstones(u2) = Tombstones(t) \union {x \in {op2.target} : op2.type = "delete"}
  BY <1>1, <1>2, <1>3, <1>4, EffectWhenTaken
<1>6. SameContent(u12, u21)
  BY <1>5 DEF SameContent
<1> DEFINE Made(n, op, u) == /\ op.type = "insert" /\ n = op.id
                             /\ u[n].value = op.value
                             /\ u[n].parent = op.parent
                             /\ u[n].side = op.side
           Same(n, u, v) == /\ u[n].value = v[n].value
                            /\ u[n].parent = v[n].parent
                            /\ u[n].side = v[n].side
<1>7. /\ \A n \in Nodes(u1) : n \in Nodes(t) \/ Made(n, op1, u1)
      /\ \A n \in Nodes(u2) : n \in Nodes(t) \/ Made(n, op2, u2)
      /\ \A n \in Nodes(u12) : n \in Nodes(u1) \/ Made(n, op2, u12)
      /\ \A n \in Nodes(u21) : n \in Nodes(u2) \/ Made(n, op1, u21)
  BY <1>1, <1>2, <1>5 DEF Effect
<1>8. ASSUME NEW n \in Nodes(u12)
      PROVE  \/ n \in Nodes(t)
             \/ Made(n, op1, u12)
             \/ Made(n, op2, u12)
  <2>1. n \in Nodes(u1) => Same(n, u12, u1)
    BY <1>3 DEF Kept, Nodes
  <2> QED
    BY <1>7, <2>1
<1>9. ASSUME NEW n \in Nodes(u21)
      PROVE  \/ n \in Nodes(t)
             \/ Made(n, op1, u21)
             \/ Made(n, op2, u21)
  <2>1. n \in Nodes(u2) => Same(n, u21, u2)
    BY <1>3 DEF Kept, Nodes
  <2> QED
    BY <1>7, <2>1
<1>10. ASSUME NEW n \in Nodes(u12) \intersect Nodes(u21) PROVE Same(n, u12, u21)
  <2>1. CASE n \in Nodes(t)
    BY <1>3, <2>1 DEF Kept, Nodes
  <2>2. CASE n \notin Nodes(t)
    BY <1>8, <1>9, <2>2
  <2> QED
    BY <2>1, <2>2
<1>11. Agree(u12, u21)
  BY <1>10 DEF Agree
<1>12. u12 = u21
  BY <1>3, <1>6, <1>11, SameContentSameTree
<1> QED
  BY <1>12 DEF u1, u2, u12, u21

(* An operation that is delivered again changes nothing, be it that it was *)
(* applied the first time or dropped (applyInsert, applyDelete).           *)
THEOREM AppliedAgainIsNothing ==
  ASSUME NEW t, SoundTree(t), NEW op \in Operation
  PROVE  ApplyOperation(ApplyOperation(t, op), op) = ApplyOperation(t, op)
<1> DEFINE u == ApplyOperation(t, op)
           v == ApplyOperation(u, op)
<1>1. Effect(t, op, u)
  BY ApplyOperationEffect
<1>2. Effect(u, op, v)
  BY <1>1, ApplyOperationEffect DEF Effect
<1>3. CASE ~Takes(t, op)
  <2>1. op.type = "insert" \/ op.type = "delete"
    BY DEF Operation, FugueInsertOp, FugueDeleteOp
  <2>2. u = t
    BY <1>3, <2>1 DEF Takes, ApplyOperation, applyInsert, applyDelete
  <2> QED
    BY <2>2
<1>4. CASE Takes(t, op)
  <2> HIDE DEF u, v
  <2>1. SoundTree(u) /\ SoundTree(v) /\ Kept(t, u) /\ Kept(u, v)
    BY <1>1, <1>2 DEF Effect
  <2>2. Takes(u, op)
    BY <1>4, <2>1, TakenLater
  <2>3. SameContent(u, v)
    BY <1>1, <1>2, <1>4, <2>1, <2>2, EffectWhenTaken DEF SameContent
  <2>4. Agree(u, v)
    BY <2>1 DEF Agree, Kept, Nodes
  <2>5. u = v
    BY <2>1, <2>3, <2>4, SameContentSameTree
  <2> QED
    BY <2>5 DEF u, v
<1> QED
  BY <1>3, <1>4
=============================================================================
