------------------------ MODULE FugueTraversalProofs ------------------------
(***************************************************************************)
(* The traversal of a FugueTree, for every sound tree: it comes to an end, *)
(* it shows every node once, and two trees that agree on the nodes they    *)
(* share show these in one order.                                          *)
(*                                                                         *)
(* traverse is recursive twice, over the children of a node and down the   *)
(* tree.  Each recursion is first shown to have a solution, by induction   *)
(* on the length of a child slice and on the height of a node; what the    *)
(* solution does at one node then carries the proofs.                      *)
(***************************************************************************)
EXTENDS FugueTreeProofs

(* Induction on a set instead of a predicate.                              *)
LEMMA EveryNatural ==
  ASSUME NEW S, 0 \in S, \A k \in Nat : k \in S => k + 1 \in S
  PROVE  Nat \subseteq S
<1> SUFFICES ASSUME Nat \ S # {} PROVE FALSE
  OBVIOUS
<1>1. PICK x \in Nat \ S : \A y \in Nat \ S : x <= y
  BY LeastNatural
<1>2. x - 1 \in Nat
  BY <1>1
<1>3. x - 1 \in S
  BY <1>1, <1>2
<1> QED
  BY <1>1, <1>2, <1>3

(* From the leaves to the root: what holds of a node when it holds of its  *)
(* children holds of all nodes.                                            *)
LEMMA UpTheTree ==
  ASSUME NEW t, SoundTree(t), NEW S,
         \A n \in DOMAIN t : (\A k \in Nodes(t) : t[k].parent = n => k \in S) => n \in S
  PROVE  DOMAIN t \subseteq S
<1>1. PICK h : HeightOf(t, h)
  BY DEF SoundTree, Founded
<1> SUFFICES ASSUME NEW m \in DOMAIN t, m \notin S PROVE FALSE
  OBVIOUS
<1> DEFINE heights == {h[n] : n \in DOMAIN t \ S}
<1>2. heights \in SUBSET Nat /\ heights # {}
  BY <1>1 DEF HeightOf
<1>3. PICK n \in DOMAIN t \ S : \A k \in DOMAIN t \ S : h[n] <= h[k]
  <2>1. PICK x \in heights : \A y \in heights : x <= y
    BY <1>2, LeastNatural
  <2> QED
    BY <2>1
<1>4. \A k \in Nodes(t) : t[k].parent = n => k \in DOMAIN t /\ h[k] < h[n] /\ h[k] \in Nat /\ h[n] \in Nat
  BY <1>1 DEF HeightOf, Nodes
<1>5. \A k \in Nodes(t) : t[k].parent = n => k \in S
  BY <1>3, <1>4
<1> QED
  BY <1>3, <1>5

(* From the root to the leaves.                                            *)
LEMMA DownTheTree ==
  ASSUME NEW t, SoundTree(t), NEW S, rootSentinelID \in S,
         \A n \in Nodes(t) : t[n].parent \in S => n \in S
  PROVE  DOMAIN t \subseteq S
<1>1. PICK h : HeightOf(t, h)
  BY DEF SoundTree, Founded
<1> SUFFICES ASSUME NEW m \in DOMAIN t, m \notin S PROVE FALSE
  OBVIOUS
<1> DEFINE top == h[rootSentinelID]
           depths == {top - h[n] : n \in DOMAIN t \ S}
<1>2. /\ top \in Nat /\ \A n \in DOMAIN t : h[n] \in Nat
      /\ \A n \in DOMAIN t \ S : n \in Nodes(t) /\ h[n] <= top
  BY <1>1 DEF HeightOf, Nodes, SoundTree, IsTree
<1>3. depths \in SUBSET Nat /\ depths # {}
  BY <1>2
<1>4. PICK n \in DOMAIN t \ S : \A k \in DOMAIN t \ S : top - h[n] <= top - h[k]
  <2>1. PICK x \in depths : \A y \in depths : x <= y
    BY <1>3, LeastNatural
  <2> QED
    BY <2>1
<1>5. /\ n \in Nodes(t) /\ t[n].parent \in DOMAIN t
      /\ h[n] < h[t[n].parent]
  BY <1>1, <1>2, <1>4 DEF HeightOf, SoundTree, IsTree
<1>6. t[n].parent \notin S
  BY <1>4, <1>5
<1> QED
  BY <1>2, <1>4, <1>5, <1>6

-----------------------------------------------------------------------------
(* What is in a concatenation, and in which order.                         *)

LEMMA ConcatOrder ==
  ASSUME NEW s \in Seq(OpID), NEW u \in Seq(OpID)
  PROVE  /\ s \o u \in Seq(OpID)
         /\ Elements(s \o u) = Elements(s) \union Elements(u)
         /\ \A a, b : Before(s \o u, a, b) <=>
              \/ Before(s, a, b) \/ Before(u, a, b)
              \/ a \in Elements(s) /\ b \in Elements(u)
<1> DEFINE w == s \o u
<1>1. /\ w \in Seq(OpID) /\ Len(s) \in Nat /\ Len(u) \in Nat /\ Len(w) = Len(s) + Len(u)
      /\ \A i \in 1 .. Len(s) : i \in 1 .. Len(w) /\ w[i] = s[i]
      /\ \A i \in 1 .. Len(u) : i + Len(s) \in 1 .. Len(w) /\ w[i + Len(s)] = u[i]
  OBVIOUS
<1> HIDE DEF w
<1>2. \A i \in 1 .. Len(w) : \/ i \in 1 .. Len(s) /\ w[i] = s[i]
                             \/ i - Len(s) \in 1 .. Len(u) /\ w[i] = u[i - Len(s)]
  <2> TAKE i \in 1 .. Len(w)
  <2>1. i \in 1 .. Len(s) \/ i - Len(s) \in 1 .. Len(u)
    BY <1>1
  <2>2. (i - Len(s)) + Len(s) = i
    BY <1>1
  <2> QED
    BY <1>1, <2>1, <2>2
<1>3. Elements(w) = Elements(s) \union Elements(u)
  <2>1. ASSUME NEW x \in Elements(w) PROVE x \in Elements(s) \union Elements(u)
    <3>1. PICK i \in 1 .. Len(w) : x = w[i]
      BY DEF Elements
    <3> QED
      BY <1>2, <3>1 DEF Elements
  <2>2. ASSUME NEW x \in Elements(s) PROVE x \in Elements(w)
    BY <1>1 DEF Elements
  <2>3. ASSUME NEW x \in Elements(u) PROVE x \in Elements(w)
    <3>1. PICK i \in 1 .. Len(u) : x = u[i]
      BY DEF Elements
    <3>2. i + Len(s) \in 1 .. Len(w) /\ w[i + Len(s)] = x
      BY <1>1, <3>1
    <3> QED
      BY <3>2 DEF Elements
  <2> QED
    BY <2>1, <2>2, <2>3
<1>4. ASSUME NEW a, NEW b, Before(w, a, b)
      PROVE  Before(s, a, b) \/ Before(u, a, b) \/ (a \in Elements(s) /\ b \in Elements(u))
  <2>1. PICK i \in 1 .. Len(w), j \in 1 .. Len(w) : i < j /\ w[i] = a /\ w[j] = b
    BY <1>4 DEF Before
  <2>2. CASE i \in 1 .. Len(s) /\ j \in 1 .. Len(s)
    BY <1>1, <2>1, <2>2 DEF Before
  <2>3. CASE i \notin 1 .. Len(s) /\ j \notin 1 .. Len(s)
    <3>1. i - Len(s) \in 1 .. Len(u) /\ j - Len(s) \in 1 .. Len(u) /\ i - Len(s) < j - Len(s)
      BY <1>1, <1>2, <2>1, <2>3
    <3>2. u[i - Len(s)] = a /\ u[j - Len(s)] = b
      BY <1>2, <2>1, <2>3
    <3> QED
      BY <3>1, <3>2 DEF Before
  <2>4. CASE i \in 1 .. Len(s) /\ j \notin 1 .. Len(s)
    BY <1>1, <1>2, <2>1, <2>4 DEF Elements
  <2>5. ~(i \notin 1 .. Len(s) /\ j \in 1 .. Len(s))
    BY <1>1, <2>1
  <2> QED
    BY <2>2, <2>3, <2>4, <2>5
<1>5. ASSUME NEW a, NEW b, Before(s, a, b) PROVE Before(w, a, b)
  BY <1>1, <1>5 DEF Before
<1>6. ASSUME NEW a, NEW b, Before(u, a, b) PROVE Before(w, a, b)
  <2>1. PICK i \in 1 .. Len(u), j \in 1 .. Len(u) : i < j /\ u[i] = a /\ u[j] = b
    BY <1>6 DEF Before
  <2>2. /\ i + Len(s) \in 1 .. Len(w) /\ j + Len(s) \in 1 .. Len(w) /\ i + Len(s) < j + Len(s)
        /\ w[i + Len(s)] = a /\ w[j + Len(s)] = b
    BY <1>1, <2>1
  <2> QED
    BY <2>2 DEF Before
<1>7. ASSUME NEW a, NEW b, a \in Elements(s), b \in Elements(u) PROVE Before(w, a, b)
  <2>1. PICK i \in 1 .. Len(s), j \in 1 .. Len(u) : s[i] = a /\ u[j] = b
    BY <1>7 DEF Elements
  <2>2. /\ i \in 1 .. Len(w) /\ j + Len(s) \in 1 .. Len(w) /\ i < j + Len(s)
        /\ w[i] = a /\ w[j + Len(s)] = b
    BY <1>1, <2>1
  <2> QED
    BY <2>2 DEF Before
<1> QED
  BY <1>1, <1>3, <1>4, <1>5, <1>6, <1>7 DEF w

(* Sequences of no and of one element.                                     *)
LEMMA ShortOrder ==
  /\ <<>> \in Seq(OpID) /\ Elements(<<>>) = {} /\ \A a, b : ~Before(<<>>, a, b)
  /\ \A n \in OpID : /\ <<n>> \in Seq(OpID) /\ Elements(<<n>>) = {n}
                     /\ \A a, b : ~Before(<<n>>, a, b)
BY DEF Elements, Before

-----------------------------------------------------------------------------
(* The children of a node, one after the other.                            *)

(* g[i] is what f gives for the first i of kids.                           *)
JoinsUpTo(kids, f, k, g) ==
  g = [i \in 0 .. k |-> IF i = 0 THEN <<>> ELSE g[i - 1] \o f[kids[i]]]

Joined(kids, f) ==
  LET upTo[i \in 0 .. Len(kids)] ==
        IF i = 0 THEN <<>> ELSE upTo[i - 1] \o f[kids[i]]
  IN  upTo[Len(kids)]

LEMMA JoinStep ==
  ASSUME NEW kids, NEW f, NEW k \in Nat, NEW g, JoinsUpTo(kids, f, k, g), NEW i \in 0 .. k
  PROVE  g[i] = IF i = 0 THEN <<>> ELSE g[i - 1] \o f[kids[i]]
<1> DEFINE rhs == [m \in 0 .. k |-> IF m = 0 THEN <<>> ELSE g[m - 1] \o f[kids[m]]]
<1>1. rhs[i] = IF i = 0 THEN <<>> ELSE g[i - 1] \o f[kids[i]]
  OBVIOUS
<1>2. g = rhs
  BY Zenon DEF JoinsUpTo
<1> HIDE DEF rhs
<1> QED
  BY <1>1, <1>2

LEMMA JoinNext ==
  ASSUME NEW kids, NEW f, NEW k \in Nat, NEW g, JoinsUpTo(kids, f, k, g),
         NEW i \in Nat, i + 1 <= k
  PROVE  g[i + 1] = g[i] \o f[kids[i + 1]]
<1> DEFINE rhs == [m \in 0 .. k |-> IF m = 0 THEN <<>> ELSE g[m - 1] \o f[kids[m]]]
<1>1. i + 1 \in 0 .. k /\ i + 1 # 0 /\ (i + 1) - 1 = i
  OBVIOUS
<1>2. rhs[i + 1] = g[(i + 1) - 1] \o f[kids[i + 1]]
  BY <1>1, Zenon
<1>3. g = rhs
  BY Zenon DEF JoinsUpTo
<1> HIDE DEF rhs
<1> QED
  BY <1>1, <1>2, <1>3, Zenon

LEMMA JoinExists ==
  ASSUME NEW kids, NEW f, NEW k \in Nat
  PROVE  \E g : JoinsUpTo(kids, f, k, g)
<1> DEFINE good == {m \in Nat : \E g : JoinsUpTo(kids, f, m, g)}
<1>1. 0 \in good
  <2> DEFINE g == [i \in 0 .. 0 |-> <<>>]
  <2>1. JoinsUpTo(kids, f, 0, g)
    BY DEF JoinsUpTo
  <2> QED
    BY <2>1
<1>2. ASSUME NEW m \in Nat, m \in good PROVE m + 1 \in good
  <2>1. PICK g : JoinsUpTo(kids, f, m, g)
    BY <1>2
  <2> DEFINE e == [i \in 0 .. m + 1 |-> IF i = 0 THEN <<>> ELSE g[i - 1] \o f[kids[i]]]
  <2>2. \A i \in 0 .. m : e[i] = g[i]
    <3>1. \A i \in 0 .. m + 1 : e[i] = IF i = 0 THEN <<>> ELSE g[i - 1] \o f[kids[i]]
      OBVIOUS
    <3>2. \A i \in 0 .. m : g[i] = IF i = 0 THEN <<>> ELSE g[i - 1] \o f[kids[i]]
      BY <2>1, JoinStep, ZenonT(40)
    <3>3. \A i \in 0 .. m : i \in 0 .. m + 1
      OBVIOUS
    <3> HIDE DEF e
    <3> QED
      BY <3>1, <3>2, <3>3
  <2>3. \A i \in 0 .. m + 1 : i # 0 => i - 1 \in 0 .. m
    OBVIOUS
  <2>4. e = [i \in 0 .. m + 1 |-> IF i = 0 THEN <<>> ELSE e[i - 1] \o f[kids[i]]]
    <3> HIDE DEF e
    <3>1. ASSUME NEW i \in 0 .. m + 1
          PROVE  (IF i = 0 THEN <<>> ELSE g[i - 1] \o f[kids[i]])
                   = IF i = 0 THEN <<>> ELSE e[i - 1] \o f[kids[i]]
      BY <2>2, <2>3
    <3> QED
      BY <3>1 DEF e
  <2> HIDE DEF e
  <2>5. JoinsUpTo(kids, f, m + 1, e)
    BY <2>4 DEF JoinsUpTo
  <2> QED
    BY <2>5
<1> HIDE DEF good
<1>3. Nat \subseteq good
  BY <1>1, <1>2, EveryNatural
<1> QED
  BY <1>3 DEF good

LEMMA JoinedIs ==
  ASSUME NEW kids \in Seq(OpID), NEW f
  PROVE  \E g : JoinsUpTo(kids, f, Len(kids), g) /\ Joined(kids, f) = g[Len(kids)]
<1> DEFINE c == CHOOSE g : JoinsUpTo(kids, f, Len(kids), g)
<1>1. Joined(kids, f) = c[Len(kids)]
  BY Zenon DEF Joined, JoinsUpTo
<1>2. JoinsUpTo(kids, f, Len(kids), c)
  <2>1. Len(kids) \in Nat
    OBVIOUS
  <2> QED
    BY <2>1, JoinExists
<1> QED
  BY <1>1, <1>2

(* Only what f gives for the children counts.                              *)
LEMMA JoinedSame ==
  ASSUME NEW kids \in Seq(OpID), NEW f, NEW e, \A i \in 1 .. Len(kids) : f[kids[i]] = e[kids[i]]
  PROVE  Joined(kids, f) = Joined(kids, e)
<1>1. ASSUME NEW g PROVE JoinsUpTo(kids, f, Len(kids), g) <=> JoinsUpTo(kids, e, Len(kids), g)
  <2>1. \A i \in 0 .. Len(kids) : i # 0 => i \in 1 .. Len(kids)
    OBVIOUS
  <2>2. [i \in 0 .. Len(kids) |-> IF i = 0 THEN <<>> ELSE g[i - 1] \o f[kids[i]]]
          = [i \in 0 .. Len(kids) |-> IF i = 0 THEN <<>> ELSE g[i - 1] \o e[kids[i]]]
    BY <2>1
  <2> QED
    BY <2>2 DEF JoinsUpTo
<1>2. (CHOOSE g : JoinsUpTo(kids, f, Len(kids), g)) = CHOOSE g : JoinsUpTo(kids, e, Len(kids), g)
  BY <1>1, Zenon
<1>3. Joined(kids, f) = (CHOOSE g : JoinsUpTo(kids, f, Len(kids), g))[Len(kids)]
  BY Zenon DEF Joined, JoinsUpTo
<1>4. Joined(kids, e) = (CHOOSE g : JoinsUpTo(kids, e, Len(kids), g))[Len(kids)]
  BY Zenon DEF Joined, JoinsUpTo
<1> QED
  BY <1>2, <1>3, <1>4

(* What the first k children give, and in which order.                     *)
JoinFacts(kids, f, k, seq) ==
  /\ seq \in Seq(OpID)
  /\ \A x : x \in Elements(seq) <=> \E i \in 1 .. k : x \in Elements(f[kids[i]])
  /\ \A a, b : Before(seq, a, b) <=>
       \/ \E i \in 1 .. k : Before(f[kids[i]], a, b)
       \/ \E i, j \in 1 .. k : i < j /\ a \in Elements(f[kids[i]]) /\ b \in Elements(f[kids[j]])

LEMMA JoinFactsGrow ==
  ASSUME NEW kids, NEW f, NEW k \in Nat, NEW seq, JoinFacts(kids, f, k, seq),
         f[kids[k + 1]] \in Seq(OpID)
  PROVE  JoinFacts(kids, f, k + 1, seq \o f[kids[k + 1]])
<1> DEFINE last == f[kids[k + 1]]
           more == seq \o last
<1>1. /\ more \in Seq(OpID)
      /\ Elements(more) = Elements(seq) \union Elements(last)
      /\ \A a, b : Before(more, a, b) <=>
           \/ Before(seq, a, b) \/ Before(last, a, b)
           \/ a \in Elements(seq) /\ b \in Elements(last)
  BY ConcatOrder DEF JoinFacts
<1>2. /\ \A i \in 1 .. k + 1 : i \in 1 .. k \/ i = k + 1
      /\ \A i \in 1 .. k : i \in 1 .. k + 1 /\ i < k + 1
      /\ k + 1 \in 1 .. k + 1
  OBVIOUS
<1> HIDE DEF more
<1>3. \A x : x \in Elements(more) <=> \E i \in 1 .. k + 1 : x \in Elements(f[kids[i]])
  BY <1>1, <1>2 DEF JoinFacts
<1>4. ASSUME NEW a, NEW b, Before(more, a, b)
      PROVE  \/ \E i \in 1 .. k + 1 : Before(f[kids[i]], a, b)
             \/ \E i, j \in 1 .. k + 1 : i < j /\ a \in Elements(f[kids[i]]) /\ b \in Elements(f[kids[j]])
  <2>1. CASE Before(seq, a, b)
    BY <1>2, <2>1 DEF JoinFacts
  <2>2. CASE Before(last, a, b)
    BY <1>2, <2>2
  <2>3. CASE a \in Elements(seq) /\ b \in Elements(last)
    BY <1>2, <2>3 DEF JoinFacts
  <2> QED
    BY <1>1, <1>4, <2>1, <2>2, <2>3
<1>5. ASSUME NEW a, NEW b, NEW i \in 1 .. k + 1, Before(f[kids[i]], a, b)
      PROVE  Before(more, a, b)
  BY <1>1, <1>2, <1>5 DEF JoinFacts
<1>6. ASSUME NEW a, NEW b, NEW i \in 1 .. k + 1, NEW j \in 1 .. k + 1, i < j,
             a \in Elements(f[kids[i]]), b \in Elements(f[kids[j]])
      PROVE  Before(more, a, b)
  <2>1. i \in 1 .. k
    BY <1>6
  <2>2. CASE j \in 1 .. k
    BY <1>1, <1>6, <2>1, <2>2 DEF JoinFacts
  <2>3. CASE j = k + 1
    BY <1>1, <1>6, <2>1, <2>3 DEF JoinFacts
  <2> QED
    BY <1>2, <2>2, <2>3
<1> QED
  BY <1>1, <1>3, <1>4, <1>5, <1>6 DEF JoinFacts, more

LEMMA JoinedFacts ==
  ASSUME NEW kids \in Seq(OpID), NEW f, \A i \in 1 .. Len(kids) : f[kids[i]] \in Seq(OpID)
  PROVE  JoinFacts(kids, f, Len(kids), Joined(kids, f))
<1>1. PICK g : JoinsUpTo(kids, f, Len(kids), g) /\ Joined(kids, f) = g[Len(kids)]
  BY JoinedIs
<1> DEFINE good == {k \in Nat : k <= Len(kids) => JoinFacts(kids, f, k, g[k])}
<1>2. 0 \in good
  <2>1. g[0] = <<>>
    BY <1>1 DEF JoinsUpTo
  <2>2. JoinFacts(kids, f, 0, <<>>)
    BY ShortOrder DEF JoinFacts
  <2> QED
    BY <2>1, <2>2
<1>3. ASSUME NEW k \in Nat, k \in good PROVE k + 1 \in good
  <2> SUFFICES ASSUME k + 1 <= Len(kids) PROVE JoinFacts(kids, f, k + 1, g[k + 1])
    OBVIOUS
  <2>1. k \in 0 .. Len(kids) /\ k + 1 \in 0 .. Len(kids) /\ k + 1 \in 1 .. Len(kids)
    OBVIOUS
  <2>2. JoinFacts(kids, f, k, g[k])
    BY <1>3, <2>1
  <2>3. g[k + 1] = g[k] \o f[kids[k + 1]]
    <3>1. Len(kids) \in Nat
      OBVIOUS
    <3> QED
      BY <1>1, <3>1, JoinNext, ZenonT(40)
  <2> QED
    BY <2>1, <2>2, <2>3, JoinFactsGrow
<1> HIDE DEF good
<1>4. Nat \subseteq good
  BY <1>2, <1>3, EveryNatural
<1>5. Len(kids) \in Nat /\ Len(kids) <= Len(kids)
  OBVIOUS
<1> QED
  BY <1>1, <1>4, <1>5 DEF good

-----------------------------------------------------------------------------
(* The walk over the nodes.                                                *)

Itself(n) == IF n = rootSentinelID THEN <<>> ELSE <<n>>

(* What the walk over n is, f giving the walks over its children.          *)
WalkAt(t, f, n) ==
  Joined(t[n].kids["left"], f) \o Itself(n) \o Joined(t[n].kids["right"], f)

IsWalk(t, f) == f = [n \in DOMAIN t |-> WalkAt(t, f, n)]

LEMMA TraverseIsWalk ==
  ASSUME NEW t
  PROVE  traverse(t) = (CHOOSE f : IsWalk(t, f))[rootSentinelID]
BY Zenon DEF traverse, IsWalk, WalkAt, Itself, Joined

LEMMA WalkIs ==
  ASSUME NEW t, NEW f, IsWalk(t, f), NEW n \in DOMAIN t
  PROVE  f[n] = WalkAt(t, f, n)
<1> DEFINE rhs == [m \in DOMAIN t |-> WalkAt(t, f, m)]
<1>1. rhs[n] = WalkAt(t, f, n)
  BY Zenon
<1>2. f = rhs
  BY Zenon DEF IsWalk
<1> HIDE DEF rhs
<1> QED
  BY <1>1, <1>2, Zenon

(* A slice of children is a sequence of nodes one step down the tree.      *)
LEMMA Slices ==
  ASSUME NEW t, SoundTree(t), NEW n \in DOMAIN t, NEW s \in Side
  PROVE  /\ t[n].kids[s] \in Seq(OpID)
         /\ \A i \in 1 .. Len(t[n].kids[s]) :
              LET k == t[n].kids[s][i]
              IN  k \in Nodes(t) /\ t[k].parent = n /\ t[k].side = s
         /\ \A k \in Nodes(t) : t[k].parent = n /\ t[k].side = s =>
              \E i \in 1 .. Len(t[n].kids[s]) : t[n].kids[s][i] = k
         /\ StrictlySorted(t[n].kids[s])
<1>1. t[n].kids[s] \in Seq(OpID)
  BY NodeFields DEF SoundTree
<1>2. Elements(t[n].kids[s]) = Children(t, n, s) /\ StrictlySorted(t[n].kids[s])
  BY DEF SoundTree, ChildListsMatch
<1>3. \A i \in 1 .. Len(t[n].kids[s]) : t[n].kids[s][i] \in Elements(t[n].kids[s])
  BY DEF Elements
<1>4. \A k \in Nodes(t) : t[k].parent = n /\ t[k].side = s => k \in Elements(t[n].kids[s])
  BY <1>2 DEF Children
<1> QED
  BY <1>1, <1>2, <1>3, <1>4 DEF Children, Elements

LEMMA WalkAtSame ==
  ASSUME NEW t, SoundTree(t), NEW n \in DOMAIN t, NEW f, NEW e,
         \A k \in Nodes(t) : t[k].parent = n => f[k] = e[k]
  PROVE  WalkAt(t, f, n) = WalkAt(t, e, n)
<1>1. ASSUME NEW s \in Side PROVE Joined(t[n].kids[s], f) = Joined(t[n].kids[s], e)
  <2>1. /\ t[n].kids[s] \in Seq(OpID)
        /\ \A i \in 1 .. Len(t[n].kids[s]) : f[t[n].kids[s][i]] = e[t[n].kids[s][i]]
    BY Slices
  <2> QED
    BY <2>1, JoinedSame
<1> QED
  BY <1>1 DEF WalkAt, Side

(* The recursion down the tree has a solution: level after level upwards.  *)
LEMMA WalkExists ==
  ASSUME NEW t, SoundTree(t)
  PROVE  \E f : IsWalk(t, f)
<1>1. PICK h : HeightOf(t, h)
  BY DEF SoundTree, Founded
<1> DEFINE low(k) == {n \in DOMAIN t : h[n] < k}
           partial(k, f) == f = [n \in low(k) |-> WalkAt(t, f, n)]
           good == {k \in Nat : \E f : partial(k, f)}
<1>2. \A n \in DOMAIN t : h[n] \in Nat
  BY <1>1 DEF HeightOf
<1>3. 0 \in good
  <2> DEFINE f == [n \in {} |-> <<>>]
  <2>1. low(0) = {}
    BY <1>2
  <2>2. f = [n \in {} |-> WalkAt(t, f, n)]
    OBVIOUS
  <2> HIDE DEF f
  <2>3. partial(0, f)
    BY <2>1, <2>2, Zenon
  <2> QED
    BY <2>3
<1>4. ASSUME NEW k \in Nat, k \in good PROVE k + 1 \in good
  <2>1. PICK f : partial(k, f)
    BY <1>4
  <2> DEFINE e == [n \in low(k + 1) |-> WalkAt(t, f, n)]
  <2>2. ASSUME NEW n \in low(k) PROVE f[n] = e[n]
    <3> DEFINE rhs == [m \in low(k) |-> WalkAt(t, f, m)]
    <3>1. n \in low(k + 1)
      BY <1>2
    <3>2. rhs[n] = WalkAt(t, f, n) /\ f = rhs
      BY <2>1, Zenon
    <3>3. e[n] = WalkAt(t, f, n)
      BY <3>1, Zenon
    <3> HIDE DEF e, rhs
    <3> QED
      BY <3>2, <3>3
  <2>3. ASSUME NEW n \in low(k + 1) PROVE WalkAt(t, f, n) = WalkAt(t, e, n)
    <3>1. ASSUME NEW m \in Nodes(t), t[m].parent = n PROVE f[m] = e[m]
      <4>1. m \in DOMAIN t /\ h[m] < h[n] /\ h[n] < k + 1
        BY <1>1, <3>1 DEF HeightOf, Nodes
      <4>2. m \in low(k)
        BY <1>2, <4>1
      <4> QED
        BY <2>2, <4>2
    <3> HIDE DEF e
    <3> QED
      BY <3>1, WalkAtSame
  <2>4. partial(k + 1, e)
    <3>1. [n \in low(k + 1) |-> WalkAt(t, f, n)] = [n \in low(k + 1) |-> WalkAt(t, e, n)]
      <4> HIDE DEF e
      <4> QED
        BY <2>3
    <3> QED
      BY <3>1, Zenon
  <2> HIDE DEF partial, e
  <2> QED
    BY <2>4
<1>5. Nat \subseteq good
  <2> HIDE DEF good
  <2> QED
    BY <1>3, <1>4, EveryNatural
<1>6. h[rootSentinelID] + 1 \in Nat /\ low(h[rootSentinelID] + 1) = DOMAIN t
  <2>1. rootSentinelID \in DOMAIN t
    BY DEF SoundTree, IsTree
  <2>2. \A n \in DOMAIN t : h[n] <= h[rootSentinelID]
    BY <1>1, <1>2, <2>1 DEF HeightOf, Nodes
  <2>3. \A n \in DOMAIN t : h[n] < h[rootSentinelID] + 1
    BY <1>2, <2>1, <2>2
  <2> QED
    BY <1>2, <2>1, <2>3
<1>7. PICK f : partial(h[rootSentinelID] + 1, f)
  BY <1>5, <1>6
<1>8. IsWalk(t, f)
  BY <1>6, <1>7, Zenon DEF IsWalk
<1> QED
  BY <1>8

(* k comes before l among the children of their node.                      *)
Sooner(t, k, l) ==
  \/ t[k].side = "left" /\ t[l].side = "right"
  \/ t[k].side = t[l].side /\ Precedes(k, l)

Kids(t, n) == {k \in Nodes(t) : t[k].parent = n}

(* The walk over n in terms of the walks over its children.                *)
WalkFacts(t, f, n) ==
  /\ f[n] \in Seq(OpID)
  /\ \A x : x \in Elements(f[n]) <=>
       \/ x = n /\ n # rootSentinelID
       \/ \E k \in Kids(t, n) : x \in Elements(f[k])
  /\ \A a, b : Before(f[n], a, b) <=>
       \/ \E k \in Kids(t, n) : Before(f[k], a, b)
       \/ \E k, l \in Kids(t, n) : Sooner(t, k, l) /\ a \in Elements(f[k]) /\ b \in Elements(f[l])
       \/ \E k \in Kids(t, n) :
            /\ n # rootSentinelID
            /\ \/ t[k].side = "left" /\ a \in Elements(f[k]) /\ b = n
               \/ t[k].side = "right" /\ a = n /\ b \in Elements(f[k])

(* One child slice, walked.                                                *)
WalkedSlice(t, f, n, s, seq) ==
  /\ seq \in Seq(OpID)
  /\ \A x : x \in Elements(seq) <=>
       \E k \in Kids(t, n) : t[k].side = s /\ x \in Elements(f[k])
  /\ \A a, b : Before(seq, a, b) <=>
       \/ \E k \in Kids(t, n) : t[k].side = s /\ Before(f[k], a, b)
       \/ \E k, l \in Kids(t, n) : /\ t[k].side = s /\ t[l].side = s /\ Precedes(k, l)
                                   /\ a \in Elements(f[k]) /\ b \in Elements(f[l])

LEMMA SliceFacts ==
  ASSUME NEW t, SoundTree(t), NEW n \in DOMAIN t, NEW s \in Side, NEW f,
         \A k \in Kids(t, n) : f[k] \in Seq(OpID),
         NEW seq, seq = Joined(t[n].kids[s], f)
  PROVE  WalkedSlice(t, f, n, s, seq)
<1> DEFINE kids == t[n].kids[s]
<1>1. /\ kids \in Seq(OpID) /\ StrictlySorted(kids)
      /\ \A i \in 1 .. Len(kids) : kids[i] \in Kids(t, n) /\ t[kids[i]].side = s
      /\ \A k \in Kids(t, n) : t[k].side = s => \E i \in 1 .. Len(kids) : kids[i] = k
  BY Slices DEF Kids
<1>2. seq = Joined(kids, f)
  OBVIOUS
<1> HIDE DEF kids
<1>3. JoinFacts(kids, f, Len(kids), seq)
  BY <1>1, <1>2, JoinedFacts
<1>4. /\ Len(kids) \in Nat
      /\ \A i \in 1 .. Len(kids) : kids[i] \in OpID
  BY <1>1, ElementOfSeq
<1>5. \A i, j \in 1 .. Len(kids) : i < j <=> Precedes(kids[i], kids[j])
  <2> SUFFICES ASSUME NEW i \in 1 .. Len(kids), NEW j \in 1 .. Len(kids)
               PROVE  i < j <=> Precedes(kids[i], kids[j])
    OBVIOUS
  <2>1. i < j => Precedes(kids[i], kids[j])
    BY <1>1 DEF StrictlySorted
  <2>2. j < i => Precedes(kids[j], kids[i])
    BY <1>1 DEF StrictlySorted
  <2>3. i < j \/ i = j \/ j < i
    BY <1>4
  <2>4. kids[i] \in OpID /\ kids[j] \in OpID
    BY <1>4
  <2> QED
    BY <2>1, <2>2, <2>3, <2>4, PrecedesIsOrder
<1>6. \A x : x \in Elements(seq) <=>
        \E k \in Kids(t, n) : t[k].side = s /\ x \in Elements(f[k])
  BY <1>1, <1>3 DEF JoinFacts
<1>7. \A a, b : Before(seq, a, b) =>
        \/ \E k \in Kids(t, n) : t[k].side = s /\ Before(f[k], a, b)
        \/ \E k, l \in Kids(t, n) : /\ t[k].side = s /\ t[l].side = s /\ Precedes(k, l)
                                    /\ a \in Elements(f[k]) /\ b \in Elements(f[l])
  <2> SUFFICES ASSUME NEW a, NEW b, Before(seq, a, b)
               PROVE  \/ \E k \in Kids(t, n) : t[k].side = s /\ Before(f[k], a, b)
                      \/ \E k, l \in Kids(t, n) :
                           /\ t[k].side = s /\ t[l].side = s /\ Precedes(k, l)
                           /\ a \in Elements(f[k]) /\ b \in Elements(f[l])
    OBVIOUS
  <2>1. CASE \E i \in 1 .. Len(kids) : Before(f[kids[i]], a, b)
    BY <1>1, <2>1
  <2>2. CASE \E i, j \in 1 .. Len(kids) :
               i < j /\ a \in Elements(f[kids[i]]) /\ b \in Elements(f[kids[j]])
    BY <1>1, <1>5, <2>2
  <2> QED
    BY <1>3, <2>1, <2>2 DEF JoinFacts
<1>8. ASSUME NEW a, NEW b, NEW k \in Kids(t, n), t[k].side = s, Before(f[k], a, b)
      PROVE  Before(seq, a, b)
  BY <1>1, <1>3, <1>8 DEF JoinFacts
<1>9. ASSUME NEW a, NEW b, NEW k \in Kids(t, n), NEW l \in Kids(t, n),
             t[k].side = s, t[l].side = s, Precedes(k, l),
             a \in Elements(f[k]), b \in Elements(f[l])
      PROVE  Before(seq, a, b)
  <2>1. PICK i \in 1 .. Len(kids) : kids[i] = k
    BY <1>1, <1>9
  <2>2. PICK j \in 1 .. Len(kids) : kids[j] = l
    BY <1>1, <1>9
  <2>3. i < j
    BY <1>5, <1>9, <2>1, <2>2
  <2> QED
    BY <1>3, <1>9, <2>1, <2>2, <2>3 DEF JoinFacts
<1> QED
  BY <1>3, <1>6, <1>7, <1>8, <1>9 DEF JoinFacts, WalkedSlice

LEMMA WalkAtFacts ==
  ASSUME NEW t, SoundTree(t), NEW f, IsWalk(t, f), NEW n \in DOMAIN t,
         \A k \in Kids(t, n) : f[k] \in Seq(OpID)
  PROVE  WalkFacts(t, f, n)
<1> DEFINE left == Joined(t[n].kids["left"], f)
           right == Joined(t[n].kids["right"], f)
<1>1. f[n] = left \o Itself(n) \o right
  BY WalkIs DEF WalkAt
<1>l. "left" \in Side /\ left = Joined(t[n].kids["left"], f)
  BY DEF Side
<1>r. "right" \in Side /\ right = Joined(t[n].kids["right"], f)
  BY DEF Side
<1> HIDE DEF left, right
<1>sl. WalkedSlice(t, f, n, "left", left)
  BY <1>l, SliceFacts
<1>sr. WalkedSlice(t, f, n, "right", right)
  BY <1>r, SliceFacts
<1>2. /\ left \in Seq(OpID)
      /\ \A x : x \in Elements(left) <=>
           \E k \in Kids(t, n) : t[k].side = "left" /\ x \in Elements(f[k])
      /\ \A a, b : Before(left, a, b) <=>
           \/ \E k \in Kids(t, n) : t[k].side = "left" /\ Before(f[k], a, b)
           \/ \E k, l \in Kids(t, n) : /\ t[k].side = "left" /\ t[l].side = "left" /\ Precedes(k, l)
                                       /\ a \in Elements(f[k]) /\ b \in Elements(f[l])
  BY <1>sl DEF WalkedSlice
<1>3. /\ right \in Seq(OpID)
      /\ \A x : x \in Elements(right) <=>
           \E k \in Kids(t, n) : t[k].side = "right" /\ x \in Elements(f[k])
      /\ \A a, b : Before(right, a, b) <=>
           \/ \E k \in Kids(t, n) : t[k].side = "right" /\ Before(f[k], a, b)
           \/ \E k, l \in Kids(t, n) : /\ t[k].side = "right" /\ t[l].side = "right" /\ Precedes(k, l)
                                       /\ a \in Elements(f[k]) /\ b \in Elements(f[l])
  BY <1>sr DEF WalkedSlice
<1>4. /\ Itself(n) \in Seq(OpID)
      /\ \A x : x \in Elements(Itself(n)) <=> x = n /\ n # rootSentinelID
      /\ \A a, b : ~Before(Itself(n), a, b)
  <2>1. n # rootSentinelID => n \in OpID
    BY DEF SoundTree, IsTree, Nodes
  <2> QED
    BY <2>1, ShortOrder DEF Itself
<1> DEFINE part == left \o Itself(n)
<1>5. /\ part \in Seq(OpID)
      /\ Elements(part) = Elements(left) \union Elements(Itself(n))
      /\ \A a, b : Before(part, a, b) <=>
           \/ Before(left, a, b) \/ Before(Itself(n), a, b)
           \/ a \in Elements(left) /\ b \in Elements(Itself(n))
  BY <1>2, <1>4, ConcatOrder
<1>p. f[n] = part \o right
  BY <1>1
<1> HIDE DEF part
<1>6. /\ f[n] \in Seq(OpID)
      /\ Elements(f[n]) = Elements(part) \union Elements(right)
      /\ \A a, b : Before(f[n], a, b) <=>
           \/ Before(part, a, b) \/ Before(right, a, b)
           \/ a \in Elements(part) /\ b \in Elements(right)
  BY <1>p, <1>3, <1>5, ConcatOrder
<1>7. \A k \in Kids(t, n) : t[k].side = "left" \/ t[k].side = "right"
  BY NodeFields DEF Kids, Nodes, SoundTree, Side
<1>8. \A x : x \in Elements(f[n]) <=>
        \/ x = n /\ n # rootSentinelID
        \/ \E k \in Kids(t, n) : x \in Elements(f[k])
  BY <1>2, <1>3, <1>4, <1>5, <1>6, <1>7
<1>9. ASSUME NEW a, NEW b
      PROVE  Before(f[n], a, b) <=>
               \/ Before(left, a, b) \/ Before(right, a, b)
               \/ a \in Elements(left) /\ b \in Elements(right)
               \/ a \in Elements(left) /\ b = n /\ n # rootSentinelID
               \/ a = n /\ n # rootSentinelID /\ b \in Elements(right)
  BY <1>4, <1>5, <1>6
<1>10. ASSUME NEW a, NEW b
       PROVE  Before(f[n], a, b) <=>
         \/ \E k \in Kids(t, n) : Before(f[k], a, b)
         \/ \E k, l \in Kids(t, n) : Sooner(t, k, l) /\ a \in Elements(f[k]) /\ b \in Elements(f[l])
         \/ \E k \in Kids(t, n) :
              /\ n # rootSentinelID
              /\ \/ t[k].side = "left" /\ a \in Elements(f[k]) /\ b = n
                 \/ t[k].side = "right" /\ a = n /\ b \in Elements(f[k])
  BY <1>2, <1>3, <1>7, <1>9 DEF Sooner
<1> QED
  BY <1>6, <1>8, <1>10 DEF WalkFacts

LEMMA WalkTyped ==
  ASSUME NEW t, SoundTree(t), NEW f, IsWalk(t, f)
  PROVE  \A n \in DOMAIN t : WalkFacts(t, f, n)
<1> DEFINE S == {n \in DOMAIN t : f[n] \in Seq(OpID)}
<1>1. ASSUME NEW n \in DOMAIN t, \A k \in Nodes(t) : t[k].parent = n => k \in S
      PROVE  n \in S
  <2>1. \A k \in Kids(t, n) : f[k] \in Seq(OpID)
    BY <1>1 DEF Kids
  <2> QED
    BY <2>1, WalkAtFacts DEF WalkFacts
<1>2. DOMAIN t \subseteq S
  <2> HIDE DEF S
  <2> QED
    BY <1>1, UpTheTree
<1>3. ASSUME NEW n \in DOMAIN t PROVE WalkFacts(t, f, n)
  <2>1. \A k \in Kids(t, n) : f[k] \in Seq(OpID)
    BY <1>2 DEF Kids, Nodes
  <2> QED
    BY <2>1, WalkAtFacts
<1> QED
  BY <1>3

-----------------------------------------------------------------------------
(* What a walk visits.                                                     *)

LEMMA TraverseWalks ==
  ASSUME NEW t, SoundTree(t)
  PROVE  \E f : /\ traverse(t) = f[rootSentinelID]
                /\ \A n \in DOMAIN t : WalkFacts(t, f, n)
<1> DEFINE f == CHOOSE f : IsWalk(t, f)
<1>1. IsWalk(t, f)
  BY WalkExists
<1>2. traverse(t) = f[rootSentinelID]
  BY TraverseIsWalk
<1> HIDE DEF f
<1> QED
  BY <1>1, <1>2, WalkTyped

(* Every element of the walk over n is n or hangs from a node of that walk *)
(* (or from n itself), the walk visits all that hangs from its nodes, and  *)
(* nothing in it is higher than n.                                         *)
Subtree(t, f, h, n) ==
  /\ Elements(f[n]) \subseteq Nodes(t)
  /\ \A x \in Elements(f[n]) : h[x] <= h[n]
  /\ \A x \in Elements(f[n]) : x = n \/ t[x].parent = n \/ t[x].parent \in Elements(f[n])
  /\ \A x \in Nodes(t) : t[x].parent = n \/ t[x].parent \in Elements(f[n]) => x \in Elements(f[n])

LEMMA WalkSubtree ==
  ASSUME NEW t, SoundTree(t), NEW h, HeightOf(t, h), NEW f,
         \A n \in DOMAIN t : WalkFacts(t, f, n)
  PROVE  \A n \in DOMAIN t : Subtree(t, f, h, n)
<1> DEFINE S == {n \in DOMAIN t : Subtree(t, f, h, n)}
<1>1. ASSUME NEW n \in DOMAIN t, \A k \in Nodes(t) : t[k].parent = n => k \in S
      PROVE  n \in S
  <2>1. \A x : x \in Elements(f[n]) <=>
          \/ x = n /\ n # rootSentinelID
          \/ \E k \in Kids(t, n) : x \in Elements(f[k])
    BY DEF WalkFacts
  <2>2. \A k \in Kids(t, n) : /\ k \in Nodes(t) /\ k \in DOMAIN t /\ t[k].parent = n
                              /\ Subtree(t, f, h, k)
                              /\ h[k] \in Nat /\ h[n] \in Nat /\ h[k] < h[n]
                              /\ k \in Elements(f[k])
    <3> TAKE k \in Kids(t, n)
    <3>1. k \in Nodes(t) /\ k \in DOMAIN t /\ t[k].parent = n /\ k # rootSentinelID
      BY DEF Kids, Nodes
    <3>2. WalkFacts(t, f, k)
      BY <3>1
    <3> QED
      BY <1>1, <3>1, <3>2 DEF HeightOf, WalkFacts
  <2>3. \A x \in Elements(f[n]) : x \in Nodes(t) /\ h[x] <= h[n]
    <3> TAKE x \in Elements(f[n])
    <3>1. CASE x = n /\ n # rootSentinelID
      BY <3>1 DEF Nodes, HeightOf
    <3>2. CASE \E k \in Kids(t, n) : x \in Elements(f[k])
      <4>1. PICK k \in Kids(t, n) : x \in Elements(f[k])
        BY <3>2
      <4>2. x \in Nodes(t) /\ h[x] <= h[k] /\ h[k] < h[n]
        BY <2>2, <4>1 DEF Subtree
      <4>3. h[x] \in Nat /\ h[k] \in Nat /\ h[n] \in Nat
        BY <2>2, <4>1, <4>2 DEF HeightOf, Nodes
      <4> QED
        BY <4>2, <4>3
    <3> QED
      BY <2>1, <3>1, <3>2
  <2>4. ASSUME NEW x \in Elements(f[n])
        PROVE  x = n \/ t[x].parent = n \/ t[x].parent \in Elements(f[n])
    <3>1. CASE \E k \in Kids(t, n) : x \in Elements(f[k])
      <4>1. PICK k \in Kids(t, n) : x \in Elements(f[k])
        BY <3>1
      <4>2. x = k \/ t[x].parent = k \/ t[x].parent \in Elements(f[k])
        BY <2>2, <4>1 DEF Subtree
      <4> QED
        BY <2>1, <2>2, <4>1, <4>2
    <3> QED
      BY <2>1, <3>1
  <2>5. ASSUME NEW x \in Nodes(t), t[x].parent = n \/ t[x].parent \in Elements(f[n])
        PROVE  x \in Elements(f[n])
    <3>1. CASE t[x].parent = n
      <4>1. x \in Kids(t, n)
        BY <3>1 DEF Kids
      <4> QED
        BY <2>1, <2>2, <4>1
    <3>2. CASE \E k \in Kids(t, n) : t[x].parent \in Elements(f[k])
      <4>1. PICK k \in Kids(t, n) : t[x].parent \in Elements(f[k])
        BY <3>2
      <4>2. x \in Elements(f[k])
        BY <2>2, <4>1 DEF Subtree
      <4> QED
        BY <2>1, <4>1, <4>2
    <3> QED
      BY <2>1, <2>5, <3>1, <3>2
  <2> QED
    BY <2>3, <2>4, <2>5 DEF Subtree
<1>2. DOMAIN t \subseteq S
  <2> HIDE DEF S
  <2> QED
    BY <1>1, UpTheTree
<1> QED
  BY <1>2

(* The walks over two children of one node have nothing in common.         *)
LEMMA SiblingsApart ==
  ASSUME NEW t, SoundTree(t), NEW h, HeightOf(t, h), NEW f,
         \A n \in DOMAIN t : WalkFacts(t, f, n),
         NEW k \in Nodes(t), NEW l \in Nodes(t), t[k].parent = t[l].parent,
         NEW x \in Elements(f[k]), x \in Elements(f[l])
  PROVE  k = l
<1>1. \A n \in DOMAIN t : Subtree(t, f, h, n)
  BY WalkSubtree
<1>2. \A n \in Nodes(t) : n \in DOMAIN t /\ n \in Elements(f[n]) /\ h[n] \in Nat
                          /\ h[t[n].parent] \in Nat /\ h[n] < h[t[n].parent]
  BY DEF Nodes, WalkFacts, HeightOf, SoundTree, IsTree
<1>3. k \in DOMAIN t /\ l \in DOMAIN t /\ rootSentinelID \notin Nodes(t)
  BY DEF Nodes
<1> DEFINE S == {y \in DOMAIN t : y \in Elements(f[k]) /\ y \in Elements(f[l]) => k = l}
<1>4. rootSentinelID \in S
  BY <1>1, <1>3 DEF Subtree, SoundTree, IsTree
<1>5. ASSUME NEW y \in Nodes(t), t[y].parent \in S
      PROVE  y \in S
  <2> SUFFICES ASSUME y \in Elements(f[k]), y \in Elements(f[l]) PROVE k = l
    BY DEF Nodes
  <2>1. CASE y = k /\ y # l
    <3>1. t[y].parent = l \/ t[y].parent \in Elements(f[l])
      BY <1>1, <1>3, <2>1 DEF Subtree
    <3>2. h[t[y].parent] <= h[l]
      BY <1>1, <1>2, <1>3, <3>1 DEF Subtree
    <3> QED
      BY <1>2, <2>1, <3>2
  <2>2. CASE y = l /\ y # k
    <3>1. t[y].parent = k \/ t[y].parent \in Elements(f[k])
      BY <1>1, <1>3, <2>2 DEF Subtree
    <3>2. h[t[y].parent] <= h[k]
      BY <1>1, <1>2, <1>3, <3>1 DEF Subtree
    <3> QED
      BY <1>2, <2>2, <3>2
  <2>3. CASE y # k /\ y # l
    <3>1. t[y].parent \in Elements(f[k]) /\ t[y].parent \in Elements(f[l])
      BY <1>1, <1>2, <1>3, <2>3 DEF Subtree
    <3> QED
      BY <1>5, <3>1
  <2> QED
    BY <2>1, <2>2, <2>3
<1>6. DOMAIN t \subseteq S
  <2> HIDE DEF S
  <2> QED
    BY <1>4, <1>5, DownTheTree
<1>7. x \in DOMAIN t
  BY <1>1, <1>3 DEF Subtree, Nodes
<1> QED
  BY <1>6, <1>7

(* No node is visited twice.                                               *)
LEMMA NeverTwice ==
  ASSUME NEW t, SoundTree(t), NEW f, \A n \in DOMAIN t : WalkFacts(t, f, n)
  PROVE  \A n \in DOMAIN t : \A a : ~Before(f[n], a, a)
<1>1. PICK h : HeightOf(t, h)
  BY DEF SoundTree, Founded
<1>2. \A n \in DOMAIN t : Subtree(t, f, h, n)
  BY <1>1, WalkSubtree
<1> DEFINE S == {n \in DOMAIN t : \A a : ~Before(f[n], a, a)}
<1>3. ASSUME NEW n \in DOMAIN t, \A k \in Nodes(t) : t[k].parent = n => k \in S
      PROVE  n \in S
  <2> SUFFICES ASSUME NEW a, Before(f[n], a, a) PROVE FALSE
    OBVIOUS
  <2>1. \A k \in Kids(t, n) : /\ k \in Nodes(t) /\ k \in DOMAIN t /\ t[k].parent = n
                              /\ h[k] \in Nat /\ h[n] \in Nat /\ h[k] < h[n]
                              /\ ~Before(f[k], a, a)
    BY <1>1, <1>3 DEF Kids, Nodes, HeightOf
  <2>2. ~ \E k \in Kids(t, n) : a = n /\ a \in Elements(f[k])
    <3> SUFFICES ASSUME NEW k \in Kids(t, n), a = n, a \in Elements(f[k]) PROVE FALSE
      OBVIOUS
    <3>1. h[a] <= h[k]
      BY <1>2, <2>1 DEF Subtree
    <3> QED
      BY <2>1, <3>1
  <2>3. ~ \E k, l \in Kids(t, n) : Sooner(t, k, l) /\ a \in Elements(f[k]) /\ a \in Elements(f[l])
    <3> SUFFICES ASSUME NEW k \in Kids(t, n), NEW l \in Kids(t, n), Sooner(t, k, l),
                        a \in Elements(f[k]), a \in Elements(f[l])
                 PROVE FALSE
      OBVIOUS
    <3>1. k = l
      BY <1>1, <2>1, SiblingsApart
    <3>2. k \in OpID
      BY <2>1 DEF SoundTree, IsTree
    <3> QED
      BY <3>1, <3>2, PrecedesIsOrder DEF Sooner
  <2>4. WalkFacts(t, f, n)
    OBVIOUS
  <2> QED
    BY <2>1, <2>2, <2>3, <2>4 DEF WalkFacts
<1>4. DOMAIN t \subseteq S
  <2> HIDE DEF S
  <2> QED
    BY <1>3, UpTheTree
<1> QED
  BY <1>4

(* The document shows every node of a sound tree, and shows it once.       *)
THEOREM TraversalIsComplete ==
  ASSUME NEW t, SoundTree(t)
  PROVE  TraversalCovers(t)
<1>1. PICK h : HeightOf(t, h)
  BY DEF SoundTree, Founded
<1>2. PICK f : /\ traverse(t) = f[rootSentinelID]
               /\ \A n \in DOMAIN t : WalkFacts(t, f, n)
  BY TraverseWalks
<1>3. rootSentinelID \in DOMAIN t /\ \A n \in DOMAIN t : Subtree(t, f, h, n)
  BY <1>1, <1>2, WalkSubtree DEF SoundTree, IsTree
<1> DEFINE seq == f[rootSentinelID]
           S == {n \in DOMAIN t : n = rootSentinelID \/ n \in Elements(seq)}
<1>4. rootSentinelID \in S
  BY <1>3
<1>5. ASSUME NEW n \in Nodes(t), t[n].parent \in S
      PROVE  n \in S
  BY <1>3, <1>5 DEF Subtree, Nodes
<1>6. DOMAIN t \subseteq S
  <2> HIDE DEF S
  <2> QED
    BY <1>4, <1>5, DownTheTree
<1>7. Elements(seq) = Nodes(t)
  BY <1>3, <1>6 DEF Subtree, Nodes
<1>8. ASSUME NEW i \in 1 .. Len(seq), NEW j \in 1 .. Len(seq), seq[i] = seq[j]
      PROVE  i = j
  <2>1. seq \in Seq(OpID)
    BY <1>2, <1>3 DEF WalkFacts
  <2>2. ~Before(seq, seq[i], seq[i])
    BY <1>2, <1>3, NeverTwice
  <2> HIDE DEF seq
  <2>3. ~(i < j) /\ ~(j < i)
    BY <1>8, <2>2 DEF Before
  <2>4. Len(seq) \in Nat
    BY <2>1
  <2> QED
    BY <2>3, <2>4
<1> QED
  BY <1>2, <1>7, <1>8 DEF TraversalCovers

-----------------------------------------------------------------------------
(* Two trees that agree on the nodes they share.                           *)

LEMMA BeforeIsIn ==
  ASSUME NEW seq, NEW a, NEW b, Before(seq, a, b)
  PROVE  a \in Elements(seq) /\ b \in Elements(seq)
BY DEF Before, Elements

(* A shared node that is visited below k shows that k is shared.           *)
LEMMA SharedAbove ==
  ASSUME NEW t, SoundTree(t), NEW u, SoundTree(u), Agree(t, u),
         NEW f, \A n \in DOMAIN t : WalkFacts(t, f, n),
         NEW k \in Nodes(t), NEW a \in Elements(f[k]), a \in Nodes(u)
  PROVE  k \in Nodes(u)
<1>1. PICK h : HeightOf(t, h)
  BY DEF SoundTree, Founded
<1>2. k \in DOMAIN t /\ rootSentinelID \notin Nodes(t) /\ k # rootSentinelID
  BY DEF Nodes
<1>3. Subtree(t, f, h, k) /\ k \in Elements(f[k])
  BY <1>1, <1>2, WalkSubtree DEF WalkFacts
<1> DEFINE S == {x \in DOMAIN t : x \in Elements(f[k]) /\ x \in Nodes(u) => k \in Nodes(u)}
<1>4. rootSentinelID \in S
  BY <1>2, <1>3 DEF Subtree, SoundTree, IsTree
<1>5. ASSUME NEW x \in Nodes(t), t[x].parent \in S
      PROVE  x \in S
  <2> SUFFICES ASSUME x \in Elements(f[k]), x \in Nodes(u), x # k PROVE k \in Nodes(u)
    BY DEF Nodes
  <2>1. t[x].parent \in Elements(f[k])
    BY <1>3 DEF Subtree
  <2>2. t[x].parent \in Nodes(t) /\ t[x].parent # rootSentinelID
    BY <1>2, <1>3, <2>1 DEF Subtree
  <2>3. u[x].parent = t[x].parent /\ u[x].parent \in DOMAIN u
    BY DEF Agree, SoundTree, IsTree, Nodes
  <2> QED
    BY <1>5, <2>1, <2>2, <2>3 DEF Nodes
<1>6. DOMAIN t \subseteq S
  <2> HIDE DEF S
  <2> QED
    BY <1>4, <1>5, DownTheTree
<1>7. a \in DOMAIN t
  BY <1>3 DEF Subtree, Nodes
<1> QED
  BY <1>6, <1>7

(* One walk repeats the other as far as their shared nodes go.             *)
Repeats(t, u, f, g, n) ==
  \A a, b \in Nodes(t) \intersect Nodes(u) :
    /\ a \in Elements(f[n]) <=> a \in Elements(g[n])
    /\ Before(f[n], a, b) <=> Before(g[n], a, b)

LEMMA WalksRepeat ==
  ASSUME NEW t, SoundTree(t), NEW u, SoundTree(u), Agree(t, u),
         NEW f, \A n \in DOMAIN t : WalkFacts(t, f, n),
         NEW g, \A n \in DOMAIN u : WalkFacts(u, g, n)
  PROVE  \A n \in DOMAIN t \intersect DOMAIN u : Repeats(t, u, f, g, n)
<1> DEFINE S == {n \in DOMAIN t : n \in DOMAIN u => Repeats(t, u, f, g, n)}
<1>1. Agree(u, t)
  BY DEF Agree
<1>2. ASSUME NEW n \in DOMAIN t, \A k \in Nodes(t) : t[k].parent = n => k \in S
      PROVE  n \in S
  <2> SUFFICES ASSUME n \in DOMAIN u,
                      NEW a \in Nodes(t) \intersect Nodes(u), NEW b \in Nodes(t) \intersect Nodes(u)
               PROVE  /\ a \in Elements(f[n]) <=> a \in Elements(g[n])
                      /\ Before(f[n], a, b) <=> Before(g[n], a, b)
    BY DEF Repeats
  <2> DEFINE shared == Kids(t, n) \intersect Kids(u, n)
  <2>1. /\ shared \subseteq Kids(t, n) /\ shared \subseteq Kids(u, n)
        /\ \A k \in shared : Repeats(t, u, f, g, k)
    BY <1>2 DEF Kids, Nodes
  <2>2. \A k \in Kids(t, n) : k \in Nodes(u) => k \in shared
    BY DEF Kids, Agree
  <2>3. \A k \in Kids(u, n) : k \in Nodes(t) => k \in shared
    BY DEF Kids, Agree
  <2>4. \A k \in Kids(t, n), x \in Nodes(u) : x \in Elements(f[k]) => k \in shared
    BY <2>2, SharedAbove DEF Kids
  <2>5. \A k \in Kids(u, n), x \in Nodes(t) : x \in Elements(g[k]) => k \in shared
    BY <1>1, <2>3, SharedAbove DEF Kids
  <2>6. \A k \in shared : /\ a \in Elements(f[k]) <=> a \in Elements(g[k])
                          /\ b \in Elements(f[k]) <=> b \in Elements(g[k])
                          /\ Before(f[k], a, b) <=> Before(g[k], a, b)
    BY <2>1 DEF Repeats
  <2>7. \A k, l \in shared : Sooner(t, k, l) <=> Sooner(u, k, l)
    BY DEF Sooner, Agree, Kids
  <2>8. \A k \in shared : t[k].side = u[k].side
    BY DEF Agree, Kids
  <2>9. /\ a \in Elements(f[n]) <=>
             \/ a = n /\ n # rootSentinelID
             \/ \E k \in shared : a \in Elements(f[k])
        /\ Before(f[n], a, b) <=>
             \/ \E k \in shared : Before(f[k], a, b)
             \/ \E k, l \in shared : Sooner(t, k, l) /\ a \in Elements(f[k]) /\ b \in Elements(f[l])
             \/ \E k \in shared :
                  /\ n # rootSentinelID
                  /\ \/ t[k].side = "left" /\ a \in Elements(f[k]) /\ b = n
                     \/ t[k].side = "right" /\ a = n /\ b \in Elements(f[k])
    <3>1. WalkFacts(t, f, n)
      OBVIOUS
    <3>2. \A k \in Kids(t, n) : Before(f[k], a, b) => k \in shared
      BY <2>4, BeforeIsIn
    <3> HIDE DEF shared
    <3> QED
      BY <2>1, <2>4, <3>1, <3>2 DEF WalkFacts
  <2>10. /\ a \in Elements(g[n]) <=>
              \/ a = n /\ n # rootSentinelID
              \/ \E k \in shared : a \in Elements(g[k])
         /\ Before(g[n], a, b) <=>
              \/ \E k \in shared : Before(g[k], a, b)
              \/ \E k, l \in shared : Sooner(u, k, l) /\ a \in Elements(g[k]) /\ b \in Elements(g[l])
              \/ \E k \in shared :
                   /\ n # rootSentinelID
                   /\ \/ u[k].side = "left" /\ a \in Elements(g[k]) /\ b = n
                      \/ u[k].side = "right" /\ a = n /\ b \in Elements(g[k])
    <3>1. WalkFacts(u, g, n)
      OBVIOUS
    <3>2. \A k \in Kids(u, n) : Before(g[k], a, b) => k \in shared
      BY <2>5, BeforeIsIn
    <3> HIDE DEF shared
    <3> QED
      BY <2>1, <2>5, <3>1, <3>2 DEF WalkFacts
  <2> HIDE DEF shared
  <2> QED
    BY <2>6, <2>7, <2>8, <2>9, <2>10
<1>3. DOMAIN t \subseteq S
  <2> HIDE DEF S
  <2> QED
    BY <1>2, UpTheTree
<1> QED
  BY <1>3

(* Two sound trees that agree on the nodes they share show these in one    *)
(* order, whatever else each of them holds.                                *)
THEOREM SharedNodesInOneOrder ==
  ASSUME NEW t, SoundTree(t), NEW u, SoundTree(u), Agree(t, u)
  PROVE  SameOrder(t, u)
<1>1. PICK f : /\ traverse(t) = f[rootSentinelID]
               /\ \A n \in DOMAIN t : WalkFacts(t, f, n)
  BY TraverseWalks
<1>2. PICK g : /\ traverse(u) = g[rootSentinelID]
               /\ \A n \in DOMAIN u : WalkFacts(u, g, n)
  BY TraverseWalks
<1>3. rootSentinelID \in DOMAIN t \intersect DOMAIN u
  BY DEF SoundTree, IsTree
<1>4. Repeats(t, u, f, g, rootSentinelID)
  BY <1>1, <1>2, <1>3, WalksRepeat
<1> QED
  BY <1>1, <1>2, <1>4 DEF Repeats, SameOrder


-----------------------------------------------------------------------------
(* Where an insertion lands.                                               *)

(* A walk over n is a part of the walk over each node above n, and what is *)
(* not below n comes before all that is below n, or after all of it.       *)
Nested(t, f, k) ==
  \A n \in Elements(f[k]) :
    /\ Elements(f[n]) \subseteq Elements(f[k])
    /\ \A a, b : Before(f[n], a, b) => Before(f[k], a, b)
    /\ \A a, x \in Elements(f[n]) : \A b :
         Before(f[k], a, b) /\ b \notin Elements(f[n]) => Before(f[k], x, b)

LEMMA WalksNest ==
  ASSUME NEW t, SoundTree(t), NEW f, \A n \in DOMAIN t : WalkFacts(t, f, n)
  PROVE  \A k \in DOMAIN t : Nested(t, f, k)
<1>h. PICK h : HeightOf(t, h)
  BY DEF SoundTree, Founded
<1>s. \A n \in DOMAIN t : Subtree(t, f, h, n)
  BY <1>h, WalkSubtree
<1> DEFINE S == {k \in DOMAIN t : Nested(t, f, k)}
<1>1. ASSUME NEW k \in DOMAIN t, \A c \in Nodes(t) : t[c].parent = k => c \in S
      PROVE  k \in S
  <2>1. \A c \in Kids(t, k) : Nested(t, f, c)
    BY <1>1 DEF Kids
  <2>2. WalkFacts(t, f, k)
    OBVIOUS
  <2>3. ASSUME NEW n \in Elements(f[k]), n # k
        PROVE  /\ Elements(f[n]) \subseteq Elements(f[k])
               /\ \A a, b : Before(f[n], a, b) => Before(f[k], a, b)
    <3>1. PICK c \in Kids(t, k) : n \in Elements(f[c])
      BY <2>2, <2>3 DEF WalkFacts
    <3>2. /\ Elements(f[n]) \subseteq Elements(f[c])
          /\ \A a, b : Before(f[n], a, b) => Before(f[c], a, b)
      BY <2>1, <3>1 DEF Nested
    <3> QED
      BY <2>2, <3>1, <3>2 DEF WalkFacts
  <2>4. ASSUME NEW n \in Elements(f[k]), NEW a \in Elements(f[n]), NEW x \in Elements(f[n]), NEW b,
               Before(f[k], a, b), b \notin Elements(f[n])
        PROVE  Before(f[k], x, b)
    <3>1. n # k
      BY <2>4, BeforeIsIn
    <3>2. PICK c \in Kids(t, k) : n \in Elements(f[c])
      BY <2>2, <3>1 DEF WalkFacts
    <3>3. a \in Elements(f[c]) /\ x \in Elements(f[c])
      BY <2>1, <2>4, <3>2 DEF Nested
    <3>4. ASSUME NEW l \in Kids(t, k), a \in Elements(f[l]) PROVE l = c
      BY <1>h, <3>3, <3>4, SiblingsApart DEF Kids
    <3>5. a # k
      <4>1. c \in Nodes(t) /\ c \in DOMAIN t /\ t[c].parent = k
        BY DEF Kids, Nodes
      <4>2. h[a] <= h[c] /\ h[c] < h[k] /\ h[c] \in Nat /\ h[k] \in Nat
        BY <1>h, <1>s, <3>3, <4>1 DEF Subtree, HeightOf
      <4> QED
        BY <4>2
    <3>6. CASE \E l \in Kids(t, k) : Before(f[l], a, b)
      <4>1. Before(f[c], a, b)
        BY <3>4, <3>6, BeforeIsIn
      <4>2. Before(f[c], x, b)
        BY <2>1, <2>4, <3>2, <4>1 DEF Nested
      <4> QED
        BY <2>2, <4>2 DEF WalkFacts
    <3>7. CASE \E l, m \in Kids(t, k) : Sooner(t, l, m) /\ a \in Elements(f[l]) /\ b \in Elements(f[m])
      BY <2>2, <3>3, <3>4, <3>7 DEF WalkFacts
    <3>8. CASE \E l \in Kids(t, k) :
                 k # rootSentinelID /\ t[l].side = "left" /\ a \in Elements(f[l]) /\ b = k
      BY <2>2, <3>3, <3>4, <3>8 DEF WalkFacts
    <3> QED
      BY <2>2, <2>4, <3>5, <3>6, <3>7, <3>8 DEF WalkFacts
  <2> QED
    BY <2>3, <2>4 DEF Nested
<1>2. DOMAIN t \subseteq S
  <2> HIDE DEF S
  <2> QED
    BY <1>1, UpTheTree
<1> QED
  BY <1>2

(* Whatever is visited below n has n above it.                             *)
LEMMA BelowIsAncestor ==
  ASSUME NEW t, SoundTree(t), NEW f, \A n \in DOMAIN t : WalkFacts(t, f, n),
         NEW n \in DOMAIN t, NEW r \in Elements(f[n]), r # n
  PROVE  n \in Ancestors(t, r)
<1>1. PICK h : HeightOf(t, h)
  BY DEF SoundTree, Founded
<1>2. Subtree(t, f, h, n)
  BY <1>1, WalkSubtree
<1> SUFFICES ASSUME NEW A \in SUBSET DOMAIN t, t[r].parent \in A, \A m \in A : t[m].parent \in A
             PROVE  n \in A
  BY DEF Ancestors
<1> DEFINE S == {y \in DOMAIN t : y \in Elements(f[n]) /\ y \in A => n \in A}
<1>3. rootSentinelID \in S
  BY <1>2 DEF Subtree, Nodes, SoundTree, IsTree
<1>4. ASSUME NEW y \in Nodes(t), t[y].parent \in S
      PROVE  y \in S
  <2> SUFFICES ASSUME y \in Elements(f[n]), y \in A PROVE n \in A
    BY DEF Nodes
  <2>1. y = n \/ t[y].parent = n \/ t[y].parent \in Elements(f[n])
    BY <1>2 DEF Subtree
  <2> QED
    BY <1>4, <2>1
<1>5. DOMAIN t \subseteq S
  <2> HIDE DEF S
  <2> QED
    BY <1>3, <1>4, DownTheTree
<1>6. t[r].parent = n \/ (t[r].parent \in Elements(f[n]) /\ t[r].parent \in DOMAIN t)
  BY <1>2 DEF Subtree, Nodes
<1> QED
  BY <1>5, <1>6

(* A traversal has a before and an after.                                  *)
LEMMA NotBothWays ==
  ASSUME NEW t, SoundTree(t), NEW f, f[rootSentinelID] = traverse(t),
         NEW a, NEW b, Before(f[rootSentinelID], a, b), Before(f[rootSentinelID], b, a)
  PROVE  FALSE
<1> DEFINE seq == traverse(t)
<1>1. PICK g : /\ seq = g[rootSentinelID]
               /\ \A n \in DOMAIN t : WalkFacts(t, g, n)
  BY TraverseWalks
<1>2. seq \in Seq(OpID) /\ Len(seq) \in Nat
      /\ \A i, j \in 1 .. Len(seq) : seq[i] = seq[j] => i = j
  BY <1>1, TraversalIsComplete DEF WalkFacts, SoundTree, IsTree, TraversalCovers
<1>3. Before(seq, a, b) /\ Before(seq, b, a)
  OBVIOUS
<1> HIDE DEF seq
<1>4. PICK i \in 1 .. Len(seq), j \in 1 .. Len(seq) : i < j /\ seq[i] = a /\ seq[j] = b
  BY <1>3 DEF Before
<1>5. PICK k \in 1 .. Len(seq), l \in 1 .. Len(seq) : k < l /\ seq[k] = b /\ seq[l] = a
  BY <1>3 DEF Before
<1> QED
  BY <1>2, <1>4, <1>5

(* A new leaf comes after its left origin, and before its right origin     *)
(* unless that is deep below the left one (selectParent).                  *)
LEMMA LandsBetween ==
  ASSUME NEW t, SoundTree(t), NEW left \in DOMAIN t, NEW right \in Nodes(t) \union {nil},
         left = rootSentinelID \/ right = nil \/ Before(traverse(t), left, right),
         NEW u, SoundTree(u), Kept(t, u),
         NEW x \in Nodes(u) \ Nodes(t),
         u[x].parent = selectParent(t, left, right).parent,
         u[x].side = selectParent(t, left, right).side
  PROVE  /\ left # rootSentinelID => Before(traverse(u), left, x)
         /\ right # nil /\ ~DeepBelow(t, left, right) => Before(traverse(u), x, right)
<1>1. PICK f : /\ traverse(t) = f[rootSentinelID]
               /\ \A n \in DOMAIN t : WalkFacts(t, f, n)
  BY TraverseWalks
<1>2. PICK g : /\ traverse(u) = g[rootSentinelID]
               /\ \A n \in DOMAIN u : WalkFacts(u, g, n)
  BY TraverseWalks
<1> DEFINE all == g[rootSentinelID]
<1>3. /\ rootSentinelID \in DOMAIN t /\ rootSentinelID \in DOMAIN u
      /\ \A n \in DOMAIN t : n \in DOMAIN u
      /\ \A n \in Nodes(t) : n \in Nodes(u) /\ u[n].parent = t[n].parent /\ u[n].side \in Side
  BY NodeFields DEF SoundTree, IsTree, Kept, Nodes
<1>4. Agree(t, u) /\ SameOrder(t, u)
  BY <1>3, SharedNodesInOneOrder DEF Agree, Kept, Nodes
<1>5. /\ Elements(all) = Nodes(u)
      /\ \A a : ~Before(all, a, a)
      /\ Nested(u, g, rootSentinelID)
  BY <1>2, <1>3, TraversalIsComplete, NeverTwice, WalksNest DEF TraversalCovers
<1>6. \A n \in Nodes(u) : \A a, b : Before(g[n], a, b) => Before(all, a, b)
  BY <1>5 DEF Nested
<1>7. \A n \in Nodes(u) : n \in Elements(g[n])
  BY <1>2 DEF WalkFacts, Nodes
<1>8. x \in Nodes(u) /\ x \in Elements(g[x])
  BY <1>7
<1>9. left # rootSentinelID /\ right # nil => Before(all, left, right)
  <2> SUFFICES ASSUME left # rootSentinelID, right # nil PROVE Before(all, left, right)
    OBVIOUS
  <2>1. left \in Nodes(t) \intersect Nodes(u) /\ right \in Nodes(t) \intersect Nodes(u)
    BY <1>3 DEF Nodes
  <2>2. Before(traverse(t), left, right)
    OBVIOUS
  <2> QED
    BY <1>2, <1>4, <2>1, <2>2 DEF SameOrder
<1>10. CASE right # nil /\ t[right].parent = left
  <2>1. /\ right \in Nodes(u) /\ right \in DOMAIN u /\ right # rootSentinelID
        /\ u[x].parent = right /\ u[x].side = "left" /\ x \in Kids(u, right)
    BY <1>3, <1>10 DEF selectParent, Kids, Nodes
  <2>2. WalkFacts(u, g, right)
    BY <1>2, <2>1
  <2>3. Before(g[right], x, right) /\ x \in Elements(g[right])
    BY <1>8, <2>1, <2>2 DEF WalkFacts
  <2>4. Before(all, x, right)
    BY <1>6, <2>1, <2>3
  <2>5. ASSUME left # rootSentinelID PROVE Before(all, left, x)
    <3>1. left \in Nodes(u) /\ left \in DOMAIN u /\ right \in Kids(u, left)
      BY <1>3, <1>10, <2>5 DEF Kids, Nodes
    <3>2. WalkFacts(u, g, left)
      BY <1>2, <3>1
    <3>3. CASE u[right].side = "left"
      <4>1. Before(g[left], right, left)
        BY <1>7, <2>1, <2>5, <3>1, <3>2, <3>3 DEF WalkFacts
      <4>2. Before(all, right, left) /\ Before(all, left, right)
        BY <1>6, <1>9, <1>10, <2>5, <3>1, <4>1
      <4> QED
        BY <1>2, <1>3, <4>2, NotBothWays
    <3>4. CASE u[right].side = "right"
      <4>1. Before(g[left], left, x)
        BY <2>3, <2>5, <3>1, <3>2, <3>4 DEF WalkFacts
      <4> QED
        BY <1>6, <3>1, <4>1
    <3> QED
      BY <1>3, <1>10, <3>3, <3>4 DEF Side
  <2> QED
    BY <1>2, <2>4, <2>5
<1>11. CASE ~(right # nil /\ t[right].parent = left)
  <2>1. /\ left \in DOMAIN u
        /\ u[x].parent = left /\ u[x].side = "right" /\ x \in Kids(u, left)
    BY <1>3, <1>11 DEF selectParent, Kids
  <2>2. WalkFacts(u, g, left)
    BY <1>2, <2>1
  <2>3. x \in Elements(g[left])
    BY <1>8, <2>1, <2>2 DEF WalkFacts
  <2>4. ASSUME left # rootSentinelID PROVE Before(all, left, x)
    <3>1. Before(g[left], left, x) /\ left \in Nodes(u)
      BY <1>8, <2>1, <2>2, <2>4 DEF WalkFacts, Nodes
    <3> QED
      BY <1>6, <3>1
  <2>5. ASSUME right # nil, ~DeepBelow(t, left, right) PROVE Before(all, x, right)
    <3>1. left \notin Ancestors(t, right) /\ right \in Nodes(t)
      BY <1>11, <2>5 DEF DeepBelow
    <3>2. right # left
      <4> SUFFICES ASSUME right = left PROVE FALSE
        OBVIOUS
      <4>1. left # rootSentinelID
        BY <3>1 DEF Nodes
      <4> QED
        BY <1>5, <1>9, <2>5, <4>1
    <3>3. right \notin Elements(f[left])
      BY <1>1, <3>1, <3>2, BelowIsAncestor
    <3>4. left # rootSentinelID
      BY <1>1, <3>1, <3>3, TraversalIsComplete DEF TraversalCovers
    <3>5. Repeats(t, u, f, g, left)
      BY <1>1, <1>2, <1>4, <2>1, WalksRepeat
    <3>6. right \notin Elements(g[left])
      BY <1>3, <3>1, <3>3, <3>5 DEF Repeats
    <3>7. left \in Elements(all) /\ Before(all, left, right)
      BY <1>5, <1>9, <2>1, <2>5, <3>4 DEF Nodes
    <3> QED
      BY <1>5, <1>7, <2>3, <3>4, <3>6, <3>7 DEF Nested, Nodes
  <2> QED
    BY <1>2, <2>4, <2>5
<1> QED
  BY <1>10, <1>11

(* A set of nodes that holds all that hangs from it, and hangs from one of *)
(* its nodes, is shown in one piece.                                       *)
LEMMA ShownInOnePiece ==
  ASSUME NEW t, SoundTree(t), NEW S \in SUBSET Nodes(t), NEW top \in S,
         \A n \in Nodes(t) : t[n].parent \in S => n \in S,
         \A n \in S : n = top \/ t[n].parent \in S,
         NEW a \in S, NEW x \in S, NEW b, b \notin S, Before(traverse(t), a, b)
  PROVE  Before(traverse(t), x, b)
<1>1. PICK h : HeightOf(t, h)
  BY DEF SoundTree, Founded
<1>2. PICK f : /\ traverse(t) = f[rootSentinelID]
               /\ \A n \in DOMAIN t : WalkFacts(t, f, n)
  BY TraverseWalks
<1>3. rootSentinelID \in DOMAIN t /\ top \in DOMAIN t /\ top # rootSentinelID
  BY DEF SoundTree, IsTree, Nodes
<1>4. Subtree(t, f, h, top) /\ top \in Elements(f[top])
  BY <1>1, <1>2, <1>3, WalkSubtree DEF WalkFacts
<1>5. S \subseteq Elements(f[top])
  <2> DEFINE G == {n \in DOMAIN t : n \in S => n \in Elements(f[top])}
  <2>1. rootSentinelID \in G
    BY <1>3 DEF Nodes
  <2>2. ASSUME NEW n \in Nodes(t), t[n].parent \in G PROVE n \in G
    BY <1>4, <2>2 DEF Subtree, Nodes
  <2>3. DOMAIN t \subseteq G
    <3> HIDE DEF G
    <3> QED
      BY <2>1, <2>2, DownTheTree
  <2> QED
    BY <2>3 DEF Nodes
<1>6. Elements(f[top]) \subseteq S
  <2> DEFINE G == {n \in DOMAIN t : n \in Elements(f[top]) => n \in S}
  <2>1. rootSentinelID \in G
    BY <1>3, <1>4 DEF Subtree, Nodes
  <2>2. ASSUME NEW n \in Nodes(t), t[n].parent \in G PROVE n \in G
    BY <1>4, <2>2 DEF Subtree, Nodes
  <2>3. DOMAIN t \subseteq G
    <3> HIDE DEF G
    <3> QED
      BY <2>1, <2>2, DownTheTree
  <2> QED
    BY <1>4, <2>3 DEF Subtree, Nodes
<1>7. Nested(t, f, rootSentinelID) /\ top \in Elements(f[rootSentinelID])
  BY <1>2, <1>3, WalksNest, TraversalIsComplete DEF TraversalCovers
<1> QED
  BY <1>2, <1>5, <1>6, <1>7 DEF Nested

-----------------------------------------------------------------------------
(* What is visible of a traversal.                                         *)

Injective(seq) == \A i, j \in 1 .. Len(seq) : seq[i] = seq[j] => i = j

(* The document shows the nodes that are not deleted, each once, in the    *)
(* order of the traversal.                                                 *)
VisibleFacts(t, v) ==
  /\ v \in Seq(OpID)
  /\ Injective(v)
  /\ Elements(v) = Nodes(t) \ Tombstones(t)
  /\ \A a, b \in Elements(v) : Before(v, a, b) <=> Before(traverse(t), a, b)

LEMMA VisibleInOrder ==
  ASSUME NEW t, SoundTree(t)
  PROVE  VisibleFacts(t, visibleNodes(t))
<1> DEFINE all == traverse(t)
           shown == [n \in DOMAIN t |-> IF t[n].deleted THEN <<>> ELSE <<n>>]
           v == visibleNodes(t)
<1>1. v = Joined(all, shown)
  BY Zenon DEF visibleNodes, Joined
<1>2. PICK f : /\ all = f[rootSentinelID]
               /\ \A n \in DOMAIN t : WalkFacts(t, f, n)
  BY TraverseWalks
<1>3. all \in Seq(OpID) /\ Len(all) \in Nat /\ Elements(all) = Nodes(t) /\ Injective(all)
  BY <1>2, TraversalIsComplete DEF WalkFacts, SoundTree, IsTree, TraversalCovers, Injective
<1>4. \A i \in 1 .. Len(all) : all[i] \in Nodes(t) /\ all[i] \in OpID /\ all[i] \in DOMAIN t
  BY <1>3 DEF Elements, Nodes, SoundTree, IsTree
<1>5. ASSUME NEW n \in Nodes(t)
      PROVE  /\ shown[n] \in Seq(OpID)
             /\ \A y : y \in Elements(shown[n]) <=> y = n /\ n \notin Tombstones(t)
             /\ \A a, b : ~Before(shown[n], a, b)
  <2>1. n \in OpID /\ n \in DOMAIN t /\ (n \in Tombstones(t) <=> t[n].deleted)
    BY DEF SoundTree, IsTree, Nodes, Tombstones
  <2>2. shown[n] = IF n \in Tombstones(t) THEN <<>> ELSE <<n>>
    BY <2>1
  <2> HIDE DEF shown
  <2> QED
    BY <2>1, <2>2, ShortOrder
<1> HIDE DEF all, shown, v
<1>6. JoinFacts(all, shown, Len(all), v)
  BY <1>1, <1>3, <1>4, <1>5, JoinedFacts
<1>7. /\ v \in Seq(OpID)
      /\ \A y : y \in Elements(v) <=> \E i \in 1 .. Len(all) : y \in Elements(shown[all[i]])
      /\ \A a, b : Before(v, a, b) <=>
           \/ \E i \in 1 .. Len(all) : Before(shown[all[i]], a, b)
           \/ \E i, j \in 1 .. Len(all) :
                i < j /\ a \in Elements(shown[all[i]]) /\ b \in Elements(shown[all[j]])
  BY <1>6 DEF JoinFacts
<1>n. \A i \in 1 .. Len(all) :
        /\ \A y : y \in Elements(shown[all[i]]) <=> y = all[i] /\ all[i] \notin Tombstones(t)
        /\ \A a, b : ~Before(shown[all[i]], a, b)
  BY <1>4, <1>5
<1>8. \A y : y \in Elements(v) <=> y \in Nodes(t) /\ y \notin Tombstones(t)
  <2>1. \A y : y \in Elements(v) <=> \E i \in 1 .. Len(all) : y = all[i] /\ all[i] \notin Tombstones(t)
    BY <1>7, <1>n
  <2>2. \A y : y \in Nodes(t) <=> \E i \in 1 .. Len(all) : y = all[i]
    BY <1>3 DEF Elements
  <2> QED
    BY <2>1, <2>2
<1>9. \A a, b : Before(v, a, b) <=>
        Before(all, a, b) /\ a \notin Tombstones(t) /\ b \notin Tombstones(t)
  <2>1. ASSUME NEW a, NEW b, Before(v, a, b)
        PROVE  Before(all, a, b) /\ a \notin Tombstones(t) /\ b \notin Tombstones(t)
    <3>1. ~ \E i \in 1 .. Len(all) : Before(shown[all[i]], a, b)
      BY <1>n
    <3>2. PICK i \in 1 .. Len(all), j \in 1 .. Len(all) :
            i < j /\ a \in Elements(shown[all[i]]) /\ b \in Elements(shown[all[j]])
      BY <1>7, <2>1, <3>1
    <3>3. a = all[i] /\ a \notin Tombstones(t) /\ b = all[j] /\ b \notin Tombstones(t)
      BY <1>n, <3>2
    <3> QED
      BY <3>2, <3>3 DEF Before
  <2>2. ASSUME NEW a, NEW b, Before(all, a, b), a \notin Tombstones(t), b \notin Tombstones(t)
        PROVE  Before(v, a, b)
    <3>1. PICK i \in 1 .. Len(all), j \in 1 .. Len(all) : i < j /\ a = all[i] /\ b = all[j]
      BY <2>2 DEF Before
    <3>2. a \in Elements(shown[all[i]]) /\ b \in Elements(shown[all[j]])
      BY <1>n, <2>2, <3>1
    <3> QED
      BY <1>7, <3>1, <3>2
  <2> QED
    BY <2>1, <2>2
<1>10. Injective(v)
  <2> SUFFICES ASSUME NEW i \in 1 .. Len(v), NEW j \in 1 .. Len(v), v[i] = v[j], i < j
               PROVE  FALSE
    BY <1>7 DEF Injective
  <2>1. Before(v, v[i], v[i])
    BY DEF Before
  <2>2. Before(all, v[i], v[i])
    BY <1>9, <2>1
  <2> QED
    BY <1>3, <2>2 DEF Before, Injective
<1>11. v = visibleNodes(t) /\ all = traverse(t)
  BY DEF v, all
<1> QED
  BY <1>7, <1>8, <1>9, <1>10, <1>11 DEF VisibleFacts

(* A sequence without repetitions is given by what it has and in which     *)
(* order.                                                                  *)
LEMMA OrderGivesPrefix ==
  ASSUME NEW s \in Seq(OpID), NEW u \in Seq(OpID), Injective(s), Injective(u),
         Elements(s) = Elements(u),
         \A a, b \in Elements(s) : Before(s, a, b) <=> Before(u, a, b)
  PROVE  \A k \in 1 .. Len(s) : k <= Len(u) /\ u[k] = s[k]
<1>0. Len(s) \in Nat /\ Len(u) \in Nat
  OBVIOUS
<1> DEFINE wrong == {k \in 1 .. Len(s) : ~(k <= Len(u) /\ u[k] = s[k])}
<1> SUFFICES ASSUME wrong # {} PROVE FALSE
  OBVIOUS
<1>1. wrong \in SUBSET Nat
  BY <1>0
<1>2. PICK k \in wrong : \A i \in wrong : k <= i
  BY <1>1, LeastNatural
<1>3. /\ k \in 1 .. Len(s) /\ ~(k <= Len(u) /\ u[k] = s[k])
      /\ \A i \in 1 .. k - 1 : i <= Len(u) /\ u[i] = s[i]
  BY <1>0, <1>2
<1> HIDE DEF wrong
<1>4. PICK j \in 1 .. Len(u) : u[j] = s[k]
  BY <1>3 DEF Elements
<1>5. ~(j < k)
  BY <1>0, <1>3, <1>4 DEF Injective
<1>6. k < j /\ k \in 1 .. Len(u)
  BY <1>0, <1>3, <1>4, <1>5
<1>7. Before(u, u[k], s[k])
  BY <1>4, <1>6 DEF Before
<1>8. u[k] \in Elements(s) /\ s[k] \in Elements(s)
  BY <1>3, <1>6 DEF Elements
<1>9. PICK i \in 1 .. Len(s), l \in 1 .. Len(s) : i < l /\ s[i] = u[k] /\ s[l] = s[k]
  BY <1>7, <1>8 DEF Before
<1>10. l = k
  BY <1>3, <1>9 DEF Injective
<1>11. i \in 1 .. k - 1 /\ i \in 1 .. Len(u)
  BY <1>0, <1>3, <1>6, <1>9, <1>10
<1>12. u[i] = u[k]
  BY <1>3, <1>9, <1>11
<1>13. i = k
  BY <1>6, <1>11, <1>12 DEF Injective
<1> QED
  BY <1>11, <1>13

LEMMA OrderDetermines ==
  ASSUME NEW s \in Seq(OpID), NEW u \in Seq(OpID), Injective(s), Injective(u),
         Elements(s) = Elements(u),
         \A a, b \in Elements(s) : Before(s, a, b) <=> Before(u, a, b)
  PROVE  s = u
<1>1. \A k \in 1 .. Len(s) : k <= Len(u) /\ u[k] = s[k]
  BY OrderGivesPrefix
<1>2. \A k \in 1 .. Len(u) : k <= Len(s) /\ s[k] = u[k]
  BY OrderGivesPrefix
<1>3. Len(s) \in Nat /\ Len(u) \in Nat
  OBVIOUS
<1>4. Len(s) <= Len(u) /\ Len(u) <= Len(s)
  <2>1. Len(s) > 0 => Len(s) \in 1 .. Len(s)
    BY <1>3
  <2>2. Len(u) > 0 => Len(u) \in 1 .. Len(u)
    BY <1>3
  <2> QED
    BY <1>1, <1>2, <1>3, <2>1, <2>2
<1> QED
  BY <1>1, <1>3, <1>4, SeqEqual

(* w is s with x at p.                                                     *)
HasInserted(s, p, x, w) ==
  /\ w \in Seq(OpID)
  /\ Len(w) = Len(s) + 1
  /\ \A j \in 1 .. Len(s) + 1 : w[j] = IF j < p THEN s[j] ELSE IF j = p THEN x ELSE s[j - 1]

LEMMA InsertAtIs ==
  ASSUME NEW s \in Seq(OpID), NEW p \in 1 .. Len(s) + 1, NEW x \in OpID,
         NEW w, w = Seqs!InsertAt(s, p, x)
  PROVE  HasInserted(s, p, x, w)
<1> DEFINE v == Seqs!InsertAt(s, p, x)
<1>1. /\ v \in Seq(OpID)
      /\ Len(v) = Len(s) + 1
      /\ \A j \in 1 .. Len(s) + 1 : v[j] = IF j < p THEN s[j] ELSE IF j = p THEN x ELSE s[j - 1]
  BY InsertAtProperties, SMTT(30)
<1> QED
  BY <1>1, Zenon DEF HasInserted

(* A sequence that has x beside the elements of s, in the same order, is s *)
(* with x inserted somewhere.                                              *)
LEMMA OneMore ==
  ASSUME NEW s \in Seq(OpID), NEW u \in Seq(OpID), Injective(s), Injective(u),
         NEW x \in OpID, x \notin Elements(s), Elements(u) = Elements(s) \union {x},
         \A a, b \in Elements(s) : Before(s, a, b) <=> Before(u, a, b)
  PROVE  \E p \in 1 .. Len(s) + 1 : u = Seqs!InsertAt(s, p, x)
<1>0. Len(s) \in Nat /\ Len(u) \in Nat /\ \A i \in 1 .. Len(u) : u[i] \in OpID
  BY ElementOfSeq
<1>1. PICK p \in 1 .. Len(u) : u[p] = x
  BY DEF Elements
<1> DEFINE k == Len(u) - 1
           skip(j) == IF j < p THEN j ELSE j + 1
           rest == [j \in 1 .. k |-> u[skip(j)]]
<1>2. /\ k \in Nat /\ Len(u) = k + 1
      /\ \A j \in 1 .. k : skip(j) \in 1 .. Len(u) /\ skip(j) # p
      /\ \A i, j \in 1 .. k : (i < j <=> skip(i) < skip(j)) /\ (skip(i) = skip(j) => i = j)
      /\ \A i \in 1 .. Len(u) : i # p => \E j \in 1 .. k : i = skip(j)
  <2>1. k \in Nat /\ Len(u) = k + 1
    BY <1>0, <1>1
  <2>2. \A i \in 1 .. Len(u) : i # p => \E j \in 1 .. k : i = skip(j)
    <3> TAKE i \in 1 .. Len(u)
    <3>1. CASE i < p
      BY <1>0, <1>1, <3>1
    <3>2. CASE i > p
      <4>1. i - 1 \in 1 .. k /\ i = skip(i - 1)
        BY <1>0, <1>1, <3>2
      <4> QED
        BY <4>1
    <3> QED
      BY <1>0, <3>1, <3>2
  <2> QED
    BY <1>0, <1>1, <2>1, <2>2
<1> HIDE DEF k, skip
<1>3. /\ rest \in Seq(OpID) /\ Len(rest) = k
      /\ \A j \in 1 .. k : rest[j] = u[skip(j)]
  BY <1>0, <1>2
<1> HIDE DEF rest
<1>4. Injective(rest)
  BY <1>2, <1>3 DEF Injective
<1>5. Elements(rest) = Elements(s)
  <2>1. ASSUME NEW j \in 1 .. k PROVE rest[j] \in Elements(s)
    <3>1. rest[j] # x /\ rest[j] \in Elements(u)
      BY <1>1, <1>2, <1>3 DEF Injective, Elements
    <3> QED
      BY <3>1
  <2>2. ASSUME NEW a \in Elements(s) PROVE a \in Elements(rest)
    <3>1. PICK i \in 1 .. Len(u) : u[i] = a /\ i # p
      BY <1>1 DEF Elements
    <3>2. PICK j \in 1 .. k : i = skip(j)
      BY <1>2, <3>1
    <3> QED
      BY <1>3, <3>1, <3>2 DEF Elements
  <2> QED
    BY <1>3, <2>1, <2>2 DEF Elements
<1>6. ASSUME NEW a \in Elements(s), NEW b \in Elements(s)
      PROVE  Before(s, a, b) <=> Before(rest, a, b)
  <2>1. ASSUME Before(rest, a, b) PROVE Before(u, a, b)
    BY <1>2, <1>3, <2>1 DEF Before
  <2>2. ASSUME Before(u, a, b) PROVE Before(rest, a, b)
    <3>1. PICK i \in 1 .. Len(u), j \in 1 .. Len(u) : i < j /\ u[i] = a /\ u[j] = b
      BY <2>2 DEF Before
    <3>2. i # p /\ j # p
      BY <1>1, <3>1
    <3>3. PICK l \in 1 .. k, m \in 1 .. k : i = skip(l) /\ j = skip(m)
      BY <1>2, <3>2
    <3> QED
      BY <1>2, <1>3, <3>1, <3>3 DEF Before
  <2> QED
    BY <2>1, <2>2
<1>7. s = rest
  BY <1>3, <1>4, <1>5, <1>6, OrderDetermines
<1>8. Len(s) = k /\ p \in 1 .. Len(s) + 1
  BY <1>1, <1>2, <1>3, <1>7
<1> DEFINE w == Seqs!InsertAt(s, p, x)
<1>w. w = Seqs!InsertAt(s, p, x)
  OBVIOUS
<1> HIDE DEF w
<1>9. /\ w \in Seq(OpID) /\ Len(w) = k + 1
      /\ \A j \in 1 .. k + 1 : w[j] = IF j < p THEN s[j] ELSE IF j = p THEN x ELSE s[j - 1]
  <2>1. HasInserted(s, p, x, w)
    BY <1>8, <1>w, InsertAtIs
  <2> QED
    BY <1>8, <2>1 DEF HasInserted
<1>10. ASSUME NEW j \in 1 .. k + 1 PROVE w[j] = u[j]
  <2>1. CASE j < p
    <3>1. j \in 1 .. k /\ skip(j) = j
      BY <1>1, <1>2, <2>1 DEF skip
    <3> QED
      BY <1>3, <1>7, <1>9, <2>1, <3>1
  <2>2. CASE j = p
    BY <1>1, <1>2, <1>9, <2>2
  <2>3. CASE j > p
    <3>1. j - 1 \in 1 .. k /\ skip(j - 1) = j /\ ~(j < p) /\ j # p
      BY <1>1, <1>2, <2>3 DEF skip
    <3> QED
      BY <1>3, <1>7, <1>9, <3>1
  <2> QED
    BY <1>1, <1>2, <2>1, <2>2, <2>3
<1>11. w = u
  BY <1>2, <1>9, <1>10, SeqEqual
<1> QED
  BY <1>8, <1>11 DEF w

-----------------------------------------------------------------------------
(* The insertion of x at the visible position pos of t, giving u.          *)

(* What the leaf x does to what is visible.                                *)
LEMMA OneMoreIsVisible ==
  ASSUME NEW t, SoundTree(t), NEW u, SoundTree(u), Kept(t, u),
         NEW x, x \notin Nodes(t), Nodes(u) = Nodes(t) \union {x},
         Tombstones(u) = Tombstones(t)
  PROVE  /\ VisibleFacts(t, visibleNodes(t)) /\ VisibleFacts(u, visibleNodes(u))
         /\ x \in Elements(visibleNodes(u))
         /\ \E p \in 1 .. Len(visibleNodes(t)) + 1 :
              visibleNodes(u) = Seqs!InsertAt(visibleNodes(t), p, x)
<1> DEFINE v == visibleNodes(t)
           w == visibleNodes(u)
<1>1. VisibleFacts(t, v) /\ VisibleFacts(u, w)
  BY VisibleInOrder
<1> HIDE DEF v, w
<1>2. /\ v \in Seq(OpID) /\ Injective(v) /\ Elements(v) = Nodes(t) \ Tombstones(t)
      /\ w \in Seq(OpID) /\ Injective(w) /\ Elements(w) = Nodes(u) \ Tombstones(u)
  BY <1>1 DEF VisibleFacts
<1>3. x \notin Tombstones(t) /\ x \in OpID
  BY DEF Tombstones, SoundTree, IsTree
<1>4. x \notin Elements(v) /\ Elements(w) = Elements(v) \union {x}
  BY <1>2, <1>3
<1>5. SameOrder(t, u)
  BY SharedNodesInOneOrder DEF Agree, Kept, Nodes
<1>6. ASSUME NEW a \in Elements(v), NEW b \in Elements(v)
      PROVE  Before(v, a, b) <=> Before(w, a, b)
  <2>1. a \in Nodes(t) \intersect Nodes(u) /\ b \in Nodes(t) \intersect Nodes(u)
    BY <1>2
  <2>2. Before(traverse(t), a, b) <=> Before(traverse(u), a, b)
    BY <1>5, <2>1 DEF SameOrder
  <2> QED
    BY <1>1, <1>4, <2>2 DEF VisibleFacts
<1>7. \E p \in 1 .. Len(v) + 1 : w = Seqs!InsertAt(v, p, x)
  BY <1>2, <1>3, <1>4, <1>6, OneMore
<1> QED
  BY <1>1, <1>4, <1>7 DEF v, w

(* InsertAt of a character that was not there puts it behind the left      *)
(* origin, and at the position it was given unless the right origin is     *)
(* deep below the left one.                                                *)
LEMMA LandsAt ==
  ASSUME NEW t, SoundTree(t), NEW u, SoundTree(u), Kept(t, u),
         NEW x, x \notin Nodes(t), Nodes(u) = Nodes(t) \union {x},
         Tombstones(u) = Tombstones(t),
         NEW pos, NEW left \in DOMAIN t, NEW right \in DOMAIN t \union {nil},
         OriginsAt(visibleNodes(t), pos, left, right),
         u[x].parent = selectParent(t, left, right).parent,
         u[x].side = selectParent(t, left, right).side
  PROVE  /\ SubSeq(visibleNodes(u), 1, pos) = SubSeq(visibleNodes(t), 1, pos)
         /\ ~DeepBelow(t, left, right) =>
              visibleNodes(u) = Seqs!InsertAt(visibleNodes(t), pos + 1, x)
<1> DEFINE v == visibleNodes(t)
           w == visibleNodes(u)
<1>1. /\ VisibleFacts(t, v) /\ VisibleFacts(u, w) /\ x \in Elements(w)
      /\ \E p \in 1 .. Len(v) + 1 : w = Seqs!InsertAt(v, p, x)
  BY OneMoreIsVisible
<1> HIDE DEF v, w
<1>2. PICK p \in 1 .. Len(v) + 1 : w = Seqs!InsertAt(v, p, x)
  BY <1>1
<1>3. /\ v \in Seq(OpID) /\ Len(v) \in Nat /\ Injective(v) /\ Elements(v) = Nodes(t) \ Tombstones(t)
      /\ w \in Seq(OpID) /\ Injective(w) /\ x \in OpID
  BY <1>1 DEF VisibleFacts, SoundTree, IsTree
<1>4. /\ Len(w) = Len(v) + 1
      /\ \A j \in 1 .. Len(v) + 1 : w[j] = IF j < p THEN v[j] ELSE IF j = p THEN x ELSE v[j - 1]
  <2>1. HasInserted(v, p, x, w)
    BY <1>2, <1>3, InsertAtIs
  <2> QED
    BY <2>1 DEF HasInserted
<1>5. /\ pos \in 0 .. Len(v)
      /\ left = IF pos = 0 THEN rootSentinelID ELSE v[pos]
      /\ right = IF pos < Len(v) THEN v[pos + 1] ELSE nil
  BY DEF OriginsAt, leftOrigin, rightOrigin, v
<1>6. \A i \in 1 .. Len(v) : v[i] \in Elements(v) /\ v[i] # rootSentinelID /\ v[i] # nil
  BY <1>3, RootIsNoOpID DEF Elements, nil, OpID
<1>7. /\ pos > 0 => left \in Elements(v) /\ left # rootSentinelID /\ left = v[pos]
      /\ pos = 0 => left = rootSentinelID
      /\ pos < Len(v) => right \in Elements(v) /\ right # nil /\ right = v[pos + 1]
      /\ pos = Len(v) => right = nil
  BY <1>3, <1>5, <1>6
<1>8. left = rootSentinelID \/ right = nil \/ Before(traverse(t), left, right)
  <2> SUFFICES ASSUME left # rootSentinelID, right # nil PROVE Before(traverse(t), left, right)
    OBVIOUS
  <2>1. pos > 0 /\ pos < Len(v)
    BY <1>3, <1>5, <1>7
  <2>2. Before(v, v[pos], v[pos + 1])
    <3>1. pos \in 1 .. Len(v) /\ pos + 1 \in 1 .. Len(v) /\ pos < pos + 1
      BY <1>3, <1>5, <2>1
    <3> QED
      BY <3>1 DEF Before
  <2> QED
    BY <1>1, <1>7, <2>1, <2>2 DEF VisibleFacts
<1>9. right \in Nodes(t) \union {nil}
  BY <1>3, <1>5, <1>7
<1>10. /\ left # rootSentinelID => Before(traverse(u), left, x)
       /\ right # nil /\ ~DeepBelow(t, left, right) => Before(traverse(u), x, right)
  BY <1>8, <1>9, LandsBetween
<1>11. \A a \in Elements(v) : /\ a \in Elements(w)
                              /\ Before(w, a, x) <=> Before(traverse(u), a, x)
                              /\ Before(w, x, a) <=> Before(traverse(u), x, a)
  BY <1>1, <1>3 DEF VisibleFacts
<1>12. p > pos
  <2> SUFFICES ASSUME p <= pos PROVE FALSE
    BY <1>3, <1>5
  <2>1. pos > 0 /\ pos + 1 \in 1 .. Len(v) + 1 /\ ~(pos + 1 < p) /\ pos + 1 # p /\ (pos + 1) - 1 = pos
    BY <1>3, <1>5
  <2>2. w[p] = x /\ w[pos + 1] = left
    BY <1>4, <1>7, <2>1
  <2>3. Before(w, left, x)
    BY <1>7, <1>10, <1>11, <2>1
  <2> QED
    BY <1>3, <1>4, <1>5, <2>1, <2>2, <2>3 DEF Before, Injective
<1>13. ASSUME ~DeepBelow(t, left, right), p # pos + 1
       PROVE  FALSE
  <2>1. /\ pos < Len(v) /\ pos + 1 \in 1 .. Len(v) + 1 /\ pos + 1 < p
    BY <1>3, <1>5, <1>12, <1>13
  <2>2. w[p] = x /\ w[pos + 1] = right
    BY <1>4, <1>7, <2>1
  <2>3. Before(w, x, right)
    BY <1>7, <1>10, <1>11, <1>13, <2>1
  <2> QED
    BY <1>3, <1>4, <1>5, <2>1, <2>2, <2>3 DEF Before, Injective
<1>14. SubSeq(w, 1, pos) = SubSeq(v, 1, pos)
  <2>1. \A i \in 1 .. pos : v[i] \in OpID /\ w[i] = v[i]
    BY <1>3, <1>4, <1>5, <1>12, ElementOfSeq
  <2>2. /\ SubSeq(v, 1, pos) \in Seq(OpID)
        /\ Len(SubSeq(v, 1, pos)) = pos
        /\ \A i \in 1 .. pos : SubSeq(v, 1, pos)[i] = v[i]
    BY <1>5, <2>1, SubSeqProperties
  <2>3. /\ SubSeq(w, 1, pos) \in Seq(OpID)
        /\ Len(SubSeq(w, 1, pos)) = pos
        /\ \A i \in 1 .. pos : SubSeq(w, 1, pos)[i] = w[i]
    BY <1>5, <2>1, SubSeqProperties
  <2> QED
    BY <2>1, <2>2, <2>3, SeqEqual
<1> QED
  BY <1>2, <1>13, <1>14 DEF v, w
=============================================================================
