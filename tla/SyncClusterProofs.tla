------------------------- MODULE SyncClusterProofs -------------------------
(***************************************************************************)
(* What SyncCluster keeps whatever is lost, whoever restarts and however   *)
(* many workers a node has: for every set of nodes, every alphabet, every  *)
(* queue and every number of intents (FaultySpec).                         *)
(***************************************************************************)
EXTENDS SyncCluster, FugueTreeProofs, FiniteSetTheorems

Intent ==
  [type : {"insert_intent"}, pos : Nat, char : Char] \union
  [type : {"delete_intent"}, pos : Nat]

Job(ops) == Intent \union [type : {"delta"}, op : ops]

(* Only an operation of the node's own clients is published.               *)
Handling(ops) ==
  [pc : {"apply", "broadcast"}, op : ops, local : BOOLEAN] \union
  [pc : {"publish"}, op : ops, local : {TRUE}]

WorkerState(ops) ==
  {Idle} \union [pc : {"resolve"}, intent : Intent] \union Handling(ops)

Message(ops) == [op : ops, origin : Node]

(* Whatever is on its way, or has arrived, some node has issued.           *)
TypeOK ==
  /\ DOMAIN tree = Node /\ \A n \in Node : SoundTree(tree[n])
  /\ counter \in [Node -> Nat]
  /\ sent \subseteq Operation
  /\ jobs \in [Node -> Seq(Job(sent))] /\ \A n \in Node : Len(jobs[n]) <= QueueSize
  /\ worker \in [Node -> [Worker -> WorkerState(sent)]]
  /\ wire \in Seq(Message(sent))
  /\ read \in [Node -> Nat] /\ \A n \in Node : read[n] <= Len(wire)
  /\ handed \in [Node -> SUBSET sent]
  /\ frames \in [Node -> Seq(sent)]
  /\ asked \in 0 .. MaxIntents
  /\ restarted \subseteq Node
  /\ lost \in [Node -> SUBSET sent]

(* Every node of a tree comes from an insert that was issued.              *)
NodesWereSent ==
  \A n \in Node : \A id \in Nodes(tree[n]) :
    \E op \in sent : /\ op.type = "insert" /\ op.id = id
                     /\ op.value = tree[n][id].value
                     /\ op.parent = tree[n][id].parent
                     /\ op.side = tree[n][id].side

(* A node that has not restarted has issued each of its ids once.          *)
IdsIssuedOnce ==
  /\ \A op \in sent :
       op.id[1] \in Node /\ (op.id[1] \notin restarted => op.id[2] <= counter[op.id[1]])
  /\ \A op, other \in sent :
       op.id = other.id /\ op.id[1] \notin restarted => op = other

(* Worker w of n is busy with an operation of a client of n.               *)
Own(n, w) == worker[n][w].pc \in {"apply", "broadcast", "publish"} /\ worker[n][w].local

(* Such an operation has not been published, and nobody else works on it.  *)
OwnIsNew ==
  \A n \in Node, w \in Worker : Own(n, w) =>
    /\ worker[n][w].op.id[1] = n
    /\ n \notin restarted =>
         /\ \A i \in 1 .. Len(wire) : wire[i].op # worker[n][w].op
         /\ \A v \in Worker : Own(n, v) /\ worker[n][v].op = worker[n][w].op => v = w

(* The intents that have not become operations yet.                        *)
Waiting ==
  {p \in Node \X Nat : p[2] \in 1 .. Len(jobs[p[1]]) /\ jobs[p[1]][p[2]] \in Intent}

Resolving == {p \in Node \X Worker : worker[p[1]][p[2]].pc = "resolve"}

(* An intent becomes one operation or none.                                *)
WithinBudget ==
  /\ IsFiniteSet(Waiting) /\ IsFiniteSet(Resolving) /\ IsFiniteSet(sent)
  /\ Cardinality(Waiting) + Cardinality(Resolving) + Cardinality(sent) <= asked

(* The inductive invariant of FaultySpec.                                  *)
IInv ==
  /\ TypeOK
  /\ NodesWereSent
  /\ IdsIssuedOnce
  /\ OwnIsNew
  /\ NoEchoLoop
  /\ WithinBudget

-----------------------------------------------------------------------------
(* Sequences, and what is typed over a set of operations that grows.       *)

LEMMA AppendItem ==
  ASSUME NEW S, NEW q \in Seq(S), NEW e \in S
  PROVE  /\ Append(q, e) \in Seq(S)
         /\ Len(q) \in Nat /\ Len(Append(q, e)) = Len(q) + 1
         /\ \A i \in 1 .. Len(q) : Append(q, e)[i] = q[i]
         /\ Append(q, e)[Len(q) + 1] = e
OBVIOUS

LEMMA TailItem ==
  ASSUME NEW S, NEW q \in Seq(S), q # <<>>
  PROVE  /\ Head(q) \in S /\ Tail(q) \in Seq(S)
         /\ Len(q) \in Nat /\ Len(q) >= 1 /\ Len(Tail(q)) = Len(q) - 1
         /\ Head(q) = q[1]
         /\ \A i \in 1 .. Len(Tail(q)) : Tail(q)[i] = q[i + 1]
OBVIOUS

LEMMA TypesGrow ==
  ASSUME NEW ops, NEW more, ops \subseteq more
  PROVE  /\ Job(ops) \subseteq Job(more) /\ Seq(Job(ops)) \subseteq Seq(Job(more))
         /\ WorkerState(ops) \subseteq WorkerState(more)
         /\ Seq(Message(ops)) \subseteq Seq(Message(more))
         /\ Seq(ops) \subseteq Seq(more)
<1>1. Job(ops) \subseteq Job(more)
  BY DEF Job
<1>2. WorkerState(ops) \subseteq WorkerState(more)
  BY DEF WorkerState, Handling
<1>3. Message(ops) \subseteq Message(more)
  BY DEF Message
<1> QED
  BY <1>1, <1>2, <1>3, SeqMonotonic

LEMMA WireTyped ==
  ASSUME TypeOK, NEW i \in 1 .. Len(wire)
  PROVE  wire[i].op \in sent /\ wire[i].origin \in Node
<1>1. wire[i] \in Message(sent)
  BY ElementOfSeq DEF TypeOK
<1> QED
  BY <1>1 DEF Message

LEMMA StateCases ==
  ASSUME NEW ops, NEW s \in WorkerState(ops)
  PROVE  /\ s.pc = "resolve" => s.intent \in Intent
         /\ s.pc \in {"apply", "broadcast", "publish"} => s \in Handling(ops) /\ s.op \in ops
<1>1. CASE s = Idle
  BY <1>1 DEF Idle
<1>2. CASE s \in [pc : {"resolve"}, intent : Intent]
  BY <1>2
<1>3. CASE s \in Handling(ops)
  BY <1>3 DEF Handling
<1> QED
  BY <1>1, <1>2, <1>3 DEF WorkerState

LEMMA WorkerTyped ==
  ASSUME TypeOK, NEW n \in Node, NEW w \in Worker
  PROVE  /\ worker[n][w].pc = "resolve" => worker[n][w].intent \in Intent
         /\ worker[n][w].pc \in {"apply", "broadcast", "publish"} =>
              worker[n][w] \in Handling(sent) /\ worker[n][w].op \in sent
<1>1. worker[n][w] \in WorkerState(sent)
  BY DEF TypeOK
<1> QED
  BY <1>1, StateCases

LEMMA OneMore ==
  ASSUME NEW S, NEW x, IsFiniteSet(S)
  PROVE  /\ IsFiniteSet(S \union {x})
         /\ Cardinality(S) \in Nat /\ Cardinality(S \union {x}) \in Nat
         /\ Cardinality(S \union {x}) <= Cardinality(S) + 1
<1>1. IsFiniteSet(S \union {x})
  BY FS_AddElement
<1>2. Cardinality(S) \in Nat /\ Cardinality(S \union {x}) \in Nat
  BY <1>1, FS_CardinalityType
<1> QED
  BY <1>1, <1>2, FS_AddElement

(* A step that touches only worker w of node n among the workers.          *)
LEMMA BecomeEffect ==
  ASSUME TypeOK, NEW n \in Node, NEW w \in Worker, NEW state, Become(n, w, state)
  PROVE  /\ worker'[n][w] = state
         /\ \A m \in Node, v \in Worker : m # n \/ v # w => worker'[m][v] = worker[m][v]
         /\ \A ops : sent \subseteq ops /\ state \in WorkerState(ops) =>
              worker' \in [Node -> [Worker -> WorkerState(ops)]]
<1>1. worker \in [Node -> [Worker -> WorkerState(sent)]]
  BY DEF TypeOK
<1>2. worker' = [worker EXCEPT ![n] = [worker[n] EXCEPT ![w] = state]]
  BY DEF Become
<1>3. worker'[n] = [worker[n] EXCEPT ![w] = state] /\ \A m \in Node \ {n} : worker'[m] = worker[m]
  BY <1>1, <1>2
<1>4. worker'[n][w] = state /\ \A v \in Worker \ {w} : worker'[n][v] = worker[n][v]
  BY <1>1, <1>3
<1>5. ASSUME NEW ops, sent \subseteq ops, state \in WorkerState(ops)
      PROVE  worker' \in [Node -> [Worker -> WorkerState(ops)]]
  <2>1. worker \in [Node -> [Worker -> WorkerState(ops)]]
    <3>1. WorkerState(sent) \subseteq WorkerState(ops)
      BY <1>5, TypesGrow
    <3> QED
      BY <1>1, <3>1
  <2>2. [worker[n] EXCEPT ![w] = state] \in [Worker -> WorkerState(ops)]
    BY <1>5, <2>1
  <2> QED
    BY <1>2, <2>1, <2>2
<1> QED
  BY <1>3, <1>4, <1>5

(* What one worker does keeps OwnIsNew if what it is busy with is new.     *)
LEMMA BecomeOwnIsNew ==
  ASSUME TypeOK, OwnIsNew, NEW n \in Node, NEW w \in Worker, NEW state, Become(n, w, state),
         UNCHANGED <<wire, restarted>>,
         state.pc \in {"apply", "broadcast", "publish"} /\ state.local =>
           /\ state.op.id[1] = n
           /\ n \notin restarted =>
                /\ \A i \in 1 .. Len(wire) : wire[i].op # state.op
                /\ \A v \in Worker \ {w} : Own(n, v) => worker[n][v].op # state.op
  PROVE  OwnIsNew'
<1>1. /\ worker'[n][w] = state
      /\ \A m \in Node, v \in Worker : m # n \/ v # w => worker'[m][v] = worker[m][v]
  BY BecomeEffect
<1> SUFFICES ASSUME NEW m \in Node, NEW v \in Worker, Own(m, v)'
             PROVE  /\ worker'[m][v].op.id[1] = m
                    /\ m \notin restarted =>
                         /\ \A i \in 1 .. Len(wire) : wire[i].op # worker'[m][v].op
                         /\ \A u \in Worker : Own(m, u)' /\ worker'[m][u].op = worker'[m][v].op
                              => u = v
  BY DEF OwnIsNew
<1>2. CASE m = n /\ v = w
  BY <1>1, <1>2 DEF Own
<1>3. CASE m # n \/ v # w
  <2>1. Own(m, v) /\ worker'[m][v] = worker[m][v]
    BY <1>1, <1>3 DEF Own
  <2>2. ASSUME NEW u \in Worker, Own(m, u)', worker'[m][u].op = worker'[m][v].op,
               m \notin restarted
        PROVE  u = v
    BY <1>1, <2>1, <2>2 DEF Own, OwnIsNew
  <2> QED
    BY <2>1, <2>2 DEF OwnIsNew
<1> QED
  BY <1>2, <1>3

-----------------------------------------------------------------------------
(* The trees.                                                              *)

(* op refers to the root or to a node of tree t.                           *)
Refers(t, op) ==
  IF op.type = "insert" THEN op.parent \in DOMAIN t ELSE op.target \in Nodes(t)

(* What a node makes of an intent is a good operation under a new id.      *)
LEMMA ResolutionIsGood ==
  ASSUME TypeOK, NEW n \in Node, NEW intent \in Intent, NEW op \in Resolution(n, intent)
  PROVE  op \in Operation /\ op.id = nextID(n) /\ Refers(tree[n], op)
<1> DEFINE t == tree[n]
<1>1. DOMAIN t \subseteq OpID \union {rootSentinelID} /\ Nodes(t) \subseteq OpID
  BY DEF TypeOK, SoundTree, IsTree, Nodes
<1>2. nextID(n) \in OpID
  BY ReplicaAssumption DEF TypeOK, nextID, OpID, Node
<1>3. CASE intent.type = "insert_intent"
  <2>1. PICK o \in (DOMAIN t) \X (DOMAIN t \union {nil}) :
          op = insertOp(nextID(n), intent.char, selectParent(t, o[1], o[2]))
    BY <1>3 DEF Resolution
  <2> DEFINE place == selectParent(t, o[1], o[2])
  <2>2. place.parent \in DOMAIN t /\ place.side \in Side
    BY DEF selectParent, Side
  <2>3. intent.char \in Char
    BY <1>3 DEF Intent
  <2> HIDE DEF place
  <2>4. op \in FugueInsertOp /\ op.id = nextID(n) /\ op.type = "insert" /\ op.parent = place.parent
    BY <1>1, <1>2, <2>1, <2>2, <2>3 DEF insertOp, FugueInsertOp, place
  <2> QED
    BY <2>2, <2>4 DEF Operation, Refers
<1>4. CASE intent.type # "insert_intent"
  <2>1. PICK target \in Nodes(t) : op = deleteOp(nextID(n), target)
    BY <1>4 DEF Resolution
  <2>2. op \in FugueDeleteOp /\ op.id = nextID(n) /\ op.type = "delete" /\ op.target = target
    BY <1>1, <1>2, <2>1 DEF deleteOp, FugueDeleteOp
  <2> QED
    BY <2>1, <2>2 DEF Operation, Refers
<1> QED
  BY <1>3, <1>4

(* Node n applies op, which has been issued, to its tree.                  *)
Applies(n, op) ==
  /\ tree' = [tree EXCEPT ![n] = ApplyOperation(@, op)]
  /\ handed' = [handed EXCEPT ![n] = @ \union {op}]
  /\ sent \union {op} \subseteq sent'

LEMMA AppliesSound ==
  ASSUME TypeOK, NodesWereSent, NEW n \in Node, NEW op \in Operation, Applies(n, op)
  PROVE  /\ DOMAIN tree' = Node
         /\ \A m \in Node : SoundTree(tree'[m])
         /\ handed' \in [Node -> SUBSET sent']
         /\ NodesWereSent'
         /\ Effect(tree[n], op, tree'[n])
         /\ \A m \in Node \ {n} : tree'[m] = tree[m]
<1>1. /\ DOMAIN tree' = Node
      /\ tree'[n] = ApplyOperation(tree[n], op)
      /\ \A m \in Node \ {n} : tree'[m] = tree[m]
  BY DEF Applies, TypeOK
<1>2. Effect(tree[n], op, tree'[n])
  BY <1>1, ApplyOperationEffect DEF TypeOK
<1>3. \A m \in Node : SoundTree(tree'[m])
  BY <1>1, <1>2 DEF TypeOK, Effect
<1>4. handed' \in [Node -> SUBSET sent']
  BY DEF Applies, TypeOK
<1>5. ASSUME NEW m \in Node, NEW id \in Nodes(tree'[m])
      PROVE  \E o \in sent' : /\ o.type = "insert" /\ o.id = id
                              /\ o.value = tree'[m][id].value
                              /\ o.parent = tree'[m][id].parent
                              /\ o.side = tree'[m][id].side
  <2>1. CASE id \in Nodes(tree[m])
    <3>1. /\ tree'[m][id].value = tree[m][id].value
          /\ tree'[m][id].parent = tree[m][id].parent
          /\ tree'[m][id].side = tree[m][id].side
      BY <1>1, <1>2, <2>1 DEF Effect, Kept, Nodes
    <3>2. PICK o \in sent : /\ o.type = "insert" /\ o.id = id
                            /\ o.value = tree[m][id].value
                            /\ o.parent = tree[m][id].parent
                            /\ o.side = tree[m][id].side
      BY <2>1 DEF NodesWereSent
    <3> QED
      BY <3>1, <3>2 DEF Applies
  <2>2. CASE id \notin Nodes(tree[m])
    <3>1. m = n
      BY <1>1, <1>5, <2>2
    <3>2. id = op.id /\ op.type = "insert" /\ op.id \in Nodes(tree'[n]) \ Nodes(tree[n])
      BY <1>2, <1>5, <2>2, <3>1 DEF Effect
    <3>3. /\ tree'[n][id].value = op.value
          /\ tree'[n][id].parent = op.parent
          /\ tree'[n][id].side = op.side
      BY <1>2, <3>2 DEF Effect
    <3> QED
      BY <3>1, <3>2, <3>3 DEF Applies
  <2> QED
    BY <2>1, <2>2
<1> QED
  BY <1>1, <1>2, <1>3, <1>4, <1>5 DEF NodesWereSent

-----------------------------------------------------------------------------
(* The budget of intents.                                                  *)

(* A job is put into a queue.                                              *)
LEMMA SubmitEffect ==
  ASSUME TypeOK, NEW n \in Node, NEW job \in Job(sent), Submit(n, job)
  PROVE  /\ jobs' \in [Node -> Seq(Job(sent))] /\ \A m \in Node : Len(jobs'[m]) <= QueueSize
         /\ jobs'[n] = Append(jobs[n], job)
         /\ \A m \in Node \ {n} : jobs'[m] = jobs[m]
         /\ sent' = sent => Waiting' = Waiting \union {x \in {<<n, Len(jobs[n]) + 1>>} : job \in Intent}
<1>1. /\ jobs'[n] = Append(jobs[n], job) /\ jobs[n] \in Seq(Job(sent))
      /\ \A m \in Node \ {n} : jobs'[m] = jobs[m]
      /\ jobs' = [m \in Node |-> IF m = n THEN Append(jobs[n], job) ELSE jobs[m]]
  BY DEF TypeOK, Submit
<1>2. /\ jobs'[n] \in Seq(Job(sent)) /\ Len(jobs[n]) \in Nat
      /\ Len(jobs'[n]) = Len(jobs[n]) + 1
      /\ \A i \in 1 .. Len(jobs[n]) : jobs'[n][i] = jobs[n][i]
      /\ jobs'[n][Len(jobs[n]) + 1] = job
  BY <1>1, AppendItem
<1>3. Len(jobs'[n]) <= QueueSize
  BY <1>2, ClusterAssumption DEF Submit
<1>4. jobs' \in [Node -> Seq(Job(sent))]
  BY <1>1, <1>2 DEF TypeOK
<1>5. \A m \in Node, i \in Nat :
        i \in 1 .. Len(jobs'[m]) /\ jobs'[m][i] \in Intent <=>
          \/ i \in 1 .. Len(jobs[m]) /\ jobs[m][i] \in Intent
          \/ m = n /\ i = Len(jobs[n]) + 1 /\ job \in Intent
  <2> SUFFICES ASSUME NEW m \in Node, NEW i \in Nat
               PROVE  i \in 1 .. Len(jobs'[m]) /\ jobs'[m][i] \in Intent <=>
                        \/ i \in 1 .. Len(jobs[m]) /\ jobs[m][i] \in Intent
                        \/ m = n /\ i = Len(jobs[n]) + 1 /\ job \in Intent
    OBVIOUS
  <2>1. CASE m # n
    BY <2>1, <1>1
  <2>2. CASE m = n
    BY <2>2, <1>2
  <2> QED
    BY <2>1, <2>2
<1>6. Waiting' = Waiting \union {x \in {<<n, Len(jobs[n]) + 1>>} : job \in Intent}
  BY <1>2, <1>5 DEF Waiting
<1> QED
  BY <1>1, <1>3, <1>4, <1>6 DEF TypeOK

(* A worker takes the first job.                                           *)
LEMMA TakeEffect ==
  ASSUME TypeOK, WithinBudget, NEW n \in Node, jobs[n] # <<>>, jobs' = [jobs EXCEPT ![n] = Tail(@)]
  PROVE  /\ jobs' \in [Node -> Seq(Job(sent))] /\ \A m \in Node : Len(jobs'[m]) <= QueueSize
         /\ Head(jobs[n]) \in Job(sent)
         /\ IsFiniteSet(Waiting')
         /\ Cardinality(Waiting') <= Cardinality(Waiting)
         /\ Head(jobs[n]) \in Intent => Cardinality(Waiting') <= Cardinality(Waiting) - 1
<1>1. /\ jobs'[n] = Tail(jobs[n]) /\ jobs[n] \in Seq(Job(sent))
      /\ \A m \in Node \ {n} : jobs'[m] = jobs[m]
      /\ jobs' = [m \in Node |-> IF m = n THEN Tail(jobs[n]) ELSE jobs[m]]
  BY DEF TypeOK
<1>2. /\ Head(jobs[n]) \in Job(sent) /\ jobs'[n] \in Seq(Job(sent))
      /\ Len(jobs[n]) \in Nat /\ Len(jobs'[n]) = Len(jobs[n]) - 1 /\ Len(jobs[n]) >= 1
      /\ Head(jobs[n]) = jobs[n][1]
      /\ \A i \in 1 .. Len(jobs'[n]) : jobs'[n][i] = jobs[n][i + 1]
  BY <1>1, TailItem
<1>3. /\ jobs' \in [Node -> Seq(Job(sent))]
      /\ \A m \in Node : Len(jobs'[m]) <= QueueSize
  BY <1>1, <1>2, ClusterAssumption DEF TypeOK
<1> DEFINE first == <<n, 1>>
           rest == Waiting \ {first}
           f == [p \in Waiting' |-> IF p[1] = n THEN <<n, p[2] + 1>> ELSE p]
<1>4. Waiting' = {p \in Node \X Nat : p[2] \in 1 .. Len(jobs'[p[1]]) /\ jobs'[p[1]][p[2]] \in Intent}
  BY DEF Waiting
<1>5. ASSUME NEW p \in Waiting' PROVE f[p] \in rest
  <2>1. p = <<p[1], p[2]>> /\ p[1] \in Node /\ p[2] \in Nat
        /\ p[2] \in 1 .. Len(jobs'[p[1]]) /\ jobs'[p[1]][p[2]] \in Intent
    BY <1>4
  <2>2. CASE p[1] = n
    <3>1. p[2] + 1 \in 1 .. Len(jobs[n]) /\ jobs[n][p[2] + 1] \in Intent /\ p[2] + 1 # 1
      BY <1>2, <2>1, <2>2
    <3>2. <<n, p[2] + 1>> \in Waiting /\ <<n, p[2] + 1>> # first
      BY <2>1, <3>1 DEF Waiting
    <3> QED
      BY <2>2, <3>2
  <2>3. CASE p[1] # n
    <3>1. p \in Waiting
      BY <1>1, <2>1, <2>3 DEF Waiting
    <3>2. p # first
      BY <2>1, <2>3
    <3> QED
      BY <2>3, <3>1, <3>2
  <2> QED
    BY <2>2, <2>3
<1>6. ASSUME NEW p \in Waiting', NEW q \in Waiting', f[p] = f[q] PROVE p = q
  <2>1. /\ p = <<p[1], p[2]>> /\ q = <<q[1], q[2]>> /\ p[2] \in Nat /\ q[2] \in Nat
    BY <1>4
  <2>2. f[p] = (IF p[1] = n THEN <<n, p[2] + 1>> ELSE p)
        /\ f[q] = (IF q[1] = n THEN <<n, q[2] + 1>> ELSE q)
    OBVIOUS
  <2> QED
    BY <1>6, <2>1, <2>2
<1>7. f \in Injection(Waiting', rest)
  <2>1. f \in [Waiting' -> rest]
    BY <1>5
  <2> QED
    BY <2>1, <1>6 DEF Injection, IsInjective
<1>8. /\ IsFiniteSet(rest)
      /\ Cardinality(rest) = IF first \in Waiting THEN Cardinality(Waiting) - 1 ELSE Cardinality(Waiting)
  BY FS_RemoveElement DEF WithinBudget
<1> HIDE DEF f, rest
<1>9. IsFiniteSet(Waiting') /\ Cardinality(Waiting') <= Cardinality(rest)
  BY <1>7, <1>8, FS_Injection
<1>10. Cardinality(Waiting) \in Nat /\ Cardinality(Waiting') \in Nat /\ Cardinality(rest) \in Nat
  BY <1>8, <1>9, FS_CardinalityType DEF WithinBudget
<1>11. Head(jobs[n]) \in Intent => first \in Waiting
  BY <1>2 DEF Waiting
<1> QED
  BY <1>2, <1>3, <1>8, <1>9, <1>10, <1>11

(* The budget holds after a step that makes no more of anything.           *)
LEMMA BudgetKept ==
  ASSUME TypeOK, WithinBudget, Waiting' \subseteq Waiting, Resolving' \subseteq Resolving,
         sent' = sent, asked' = asked
  PROVE  WithinBudget'
<1>1. /\ IsFiniteSet(Waiting') /\ Cardinality(Waiting') <= Cardinality(Waiting)
      /\ IsFiniteSet(Resolving') /\ Cardinality(Resolving') <= Cardinality(Resolving)
  BY FS_Subset DEF WithinBudget
<1>2. /\ Cardinality(Waiting') \in Nat /\ Cardinality(Waiting) \in Nat
      /\ Cardinality(Resolving') \in Nat /\ Cardinality(Resolving) \in Nat
      /\ Cardinality(sent) \in Nat
  BY <1>1, FS_CardinalityType DEF WithinBudget
<1> QED
  BY <1>1, <1>2 DEF WithinBudget, TypeOK

(* The resolving workers after a step of one worker.                       *)
LEMMA BecomeResolving ==
  ASSUME TypeOK, NEW n \in Node, NEW w \in Worker, NEW state, Become(n, w, state)
  PROVE  /\ Resolving' \subseteq Resolving \union {<<n, w>>}
         /\ state.pc # "resolve" => Resolving' = Resolving \ {<<n, w>>}
<1>1. /\ worker'[n][w] = state
      /\ \A m \in Node, v \in Worker : m # n \/ v # w => worker'[m][v] = worker[m][v]
  BY BecomeEffect
<1> QED
  BY <1>1 DEF Resolving

-----------------------------------------------------------------------------
(* The initial state and the steps of the dispatcher.                      *)

LEMMA InitIInv == Init => IInv
<1> SUFFICES ASSUME Init PROVE IInv
  OBVIOUS
<1>1. \A n \in Node : SoundTree(tree[n]) /\ Nodes(tree[n]) = {}
  BY NewTreeSound DEF Init
<1>2. TypeOK
  <2>1. jobs \in [Node -> Seq(Job(sent))] /\ \A n \in Node : Len(jobs[n]) <= QueueSize
    BY ClusterAssumption DEF Init
  <2>2. worker \in [Node -> [Worker -> WorkerState(sent)]]
    BY DEF Init, WorkerState
  <2>3. wire \in Seq(Message(sent)) /\ read \in [Node -> Nat] /\ \A n \in Node : read[n] <= Len(wire)
    BY DEF Init
  <2>4. frames \in [Node -> Seq(sent)] /\ handed \in [Node -> SUBSET sent]
    BY DEF Init
  <2>5. asked \in 0 .. MaxIntents
    BY ClusterAssumption DEF Init
  <2> QED
    BY <1>1, <2>1, <2>2, <2>3, <2>4, <2>5 DEF Init, TypeOK
<1>3. NodesWereSent /\ IdsIssuedOnce
  BY <1>1 DEF NodesWereSent, IdsIssuedOnce, Init
<1>4. OwnIsNew /\ NoEchoLoop
  BY DEF OwnIsNew, Own, NoEchoLoop, Init, Idle
<1>5. WithinBudget
  <2>1. Waiting = {} /\ Resolving = {} /\ sent = {} /\ asked = 0
    BY DEF Waiting, Resolving, Init, Idle
  <2> QED
    BY <2>1, FS_EmptySet DEF WithinBudget
<1> QED
  BY <1>2, <1>3, <1>4, <1>5 DEF IInv

LEMMA ClientIntentIInv ==
  ASSUME IInv, NEW n \in Node, ClientIntent(n)
  PROVE  IInv'
<1>1. asked < MaxIntents /\ asked' = asked + 1
      /\ UNCHANGED <<treeVars, worker, wire, read, frames, restarted, lost>>
  BY DEF ClientIntent
<1>2. PICK job \in Intent : Submit(n, job)
  <2>1. PICK pos \in 0 .. MaxIntents :
          \/ \E char \in Char :
               Submit(n, [type |-> "insert_intent", pos |-> pos, char |-> char])
          \/ Submit(n, [type |-> "delete_intent", pos |-> pos])
    BY DEF ClientIntent
  <2>2. pos \in Nat
    BY ClusterAssumption
  <2> QED
    BY <2>1, <2>2 DEF Intent
<1>3. TypeOK /\ job \in Job(sent)
  BY DEF IInv, Job
<1>4. /\ jobs' \in [Node -> Seq(Job(sent))] /\ \A m \in Node : Len(jobs'[m]) <= QueueSize
      /\ Waiting' = Waiting \union {<<n, Len(jobs[n]) + 1>>}
  BY <1>1, <1>2, <1>3, SubmitEffect DEF treeVars
<1>5. TypeOK'
  BY <1>1, <1>3, <1>4, ClusterAssumption DEF TypeOK, treeVars
<1>6. NodesWereSent' /\ IdsIssuedOnce' /\ OwnIsNew' /\ NoEchoLoop'
  BY <1>1 DEF IInv, treeVars, NodesWereSent, IdsIssuedOnce, OwnIsNew, Own, NoEchoLoop
<1>7. WithinBudget'
  <2>1. Resolving' = Resolving /\ sent' = sent
    BY <1>1 DEF Resolving, treeVars
  <2>2. IsFiniteSet(Waiting') /\ Cardinality(Waiting') <= Cardinality(Waiting) + 1
    BY <1>4, OneMore DEF IInv, WithinBudget
  <2>3. /\ Cardinality(Waiting) \in Nat /\ Cardinality(Waiting') \in Nat
        /\ Cardinality(Resolving) \in Nat /\ Cardinality(sent) \in Nat /\ asked \in Nat
    BY <2>2, FS_CardinalityType DEF IInv, WithinBudget, TypeOK
  <2> QED
    BY <1>1, <2>1, <2>2, <2>3 DEF IInv, WithinBudget
<1> QED
  BY <1>5, <1>6, <1>7 DEF IInv

LEMMA RedisDeltaIInv ==
  ASSUME IInv, NEW n \in Node, RedisDelta(n)
  PROVE  IInv'
<1>1. /\ read[n] < Len(wire) /\ read' = [read EXCEPT ![n] = @ + 1]
      /\ UNCHANGED <<treeVars, worker, wire, asked, frames, restarted, lost>>
  BY DEF RedisDelta
<1>2. TypeOK
  BY DEF IInv
<1>3. /\ read[n] \in Nat /\ wire \in Seq(Message(sent)) /\ Len(wire) \in Nat
      /\ read[n] + 1 \in 1 .. Len(wire)
  BY <1>1, <1>2 DEF TypeOK
<1>4. wire[read[n] + 1] \in Message(sent)
  BY <1>3, ElementOfSeq
<1> DEFINE job == [type |-> "delta", op |-> wire[read[n] + 1].op]
<1>5. job \in Job(sent) /\ job \notin Intent
  BY <1>4 DEF Job, Intent, Message
<1>6. UNCHANGED jobs \/ Submit(n, job)
  BY DEF RedisDelta
<1> HIDE DEF job
<1>7. /\ jobs' \in [Node -> Seq(Job(sent))] /\ \A m \in Node : Len(jobs'[m]) <= QueueSize
      /\ Waiting' = Waiting
  <2>1. CASE UNCHANGED jobs
    BY <1>2, <2>1 DEF TypeOK, Waiting
  <2>2. CASE Submit(n, job)
    <3>1. Waiting' = Waiting \union {x \in {<<n, Len(jobs[n]) + 1>>} : job \in Intent}
      BY <1>1, <1>2, <1>5, <2>2, SubmitEffect DEF treeVars
    <3> QED
      BY <1>2, <1>5, <2>2, <3>1, SubmitEffect
  <2> QED
    BY <1>6, <2>1, <2>2
<1>8. read' \in [Node -> Nat] /\ \A m \in Node : read'[m] <= Len(wire)
  BY <1>1, <1>3 DEF IInv, TypeOK
<1>9. TypeOK'
  BY <1>1, <1>2, <1>7, <1>8 DEF TypeOK, treeVars
<1>10. NodesWereSent' /\ IdsIssuedOnce' /\ OwnIsNew' /\ NoEchoLoop'
  BY <1>1 DEF IInv, treeVars, NodesWereSent, IdsIssuedOnce, OwnIsNew, Own, NoEchoLoop
<1>11. WithinBudget'
  BY <1>1, <1>7, BudgetKept DEF IInv, Resolving, treeVars
<1> QED
  BY <1>9, <1>10, <1>11 DEF IInv

LEMMA LoseMessageIInv ==
  ASSUME IInv, NEW n \in Node, LoseMessage(n)
  PROVE  IInv'
<1>1. read' \in [Node -> Nat] /\ \A m \in Node : read'[m] <= Len(wire)
  BY DEF IInv, TypeOK, LoseMessage
<1>2. TypeOK'
  <2>1. read[n] + 1 \in 1 .. Len(wire)
    BY DEF IInv, TypeOK, LoseMessage
  <2>2. wire[read[n] + 1].op \in sent
    BY <2>1, WireTyped DEF IInv
  <2>3. lost' \in [Node -> SUBSET sent]
    BY <2>2 DEF IInv, TypeOK, LoseMessage
  <2> QED
    BY <1>1, <2>3 DEF IInv, TypeOK, LoseMessage, treeVars
<1>3. NodesWereSent' /\ IdsIssuedOnce' /\ OwnIsNew' /\ NoEchoLoop'
  BY DEF IInv, treeVars, NodesWereSent, IdsIssuedOnce, OwnIsNew, Own, NoEchoLoop, LoseMessage
<1>4. WithinBudget'
  BY BudgetKept DEF IInv, Resolving, Waiting, treeVars, LoseMessage
<1> QED
  BY <1>2, <1>3, <1>4 DEF IInv

-----------------------------------------------------------------------------
(* The steps of a worker.                                                  *)

LEMMA TakeIInv ==
  ASSUME IInv, NEW n \in Node, NEW w \in Worker, Take(n, w)
  PROVE  IInv'
<1> DEFINE job == Head(jobs[n])
           state == IF job.type = "delta"
                    THEN [pc |-> "apply", op |-> job.op, local |-> FALSE]
                    ELSE [pc |-> "resolve", intent |-> job]
<1>1. /\ jobs[n] # <<>> /\ Become(n, w, state) /\ jobs' = [jobs EXCEPT ![n] = Tail(@)]
      /\ UNCHANGED <<treeVars, wire, read, asked, frames, restarted, lost>>
  BY DEF Take
<1>2. TypeOK /\ WithinBudget
  BY DEF IInv
<1>3. /\ jobs' \in [Node -> Seq(Job(sent))] /\ \A m \in Node : Len(jobs'[m]) <= QueueSize
      /\ job \in Job(sent) /\ IsFiniteSet(Waiting') /\ Cardinality(Waiting') <= Cardinality(Waiting)
      /\ job \in Intent => Cardinality(Waiting') <= Cardinality(Waiting) - 1
  BY <1>1, <1>2, TakeEffect
<1> HIDE DEF job
<1>4. /\ state \in WorkerState(sent)
      /\ ~(state.pc \in {"apply", "broadcast", "publish"} /\ state.local)
      /\ state.pc = "resolve" => job \in Intent
  <2>1. CASE job.type = "delta"
    BY <1>3, <2>1 DEF Job, Intent, WorkerState, Handling
  <2>2. CASE job.type # "delta"
    BY <1>3, <2>2 DEF Job, Intent, WorkerState, Handling
  <2> QED
    BY <2>1, <2>2
<1> HIDE DEF state
<1>5. worker' \in [Node -> [Worker -> WorkerState(sent)]]
  BY <1>1, <1>2, <1>4, BecomeEffect
<1>6. TypeOK'
  BY <1>1, <1>2, <1>3, <1>5 DEF TypeOK, treeVars
<1>7. OwnIsNew'
  BY <1>1, <1>2, <1>4, BecomeOwnIsNew DEF IInv
<1>8. NodesWereSent' /\ IdsIssuedOnce' /\ NoEchoLoop'
  BY <1>1 DEF IInv, treeVars, NodesWereSent, IdsIssuedOnce, NoEchoLoop
<1>9. WithinBudget'
  <2>1. /\ Resolving' \subseteq Resolving \union {<<n, w>>}
        /\ state.pc # "resolve" => Resolving' \subseteq Resolving
    BY <1>1, <1>2, BecomeResolving
  <2>2. /\ IsFiniteSet(Resolving \union {<<n, w>>})
        /\ Cardinality(Resolving \union {<<n, w>>}) <= Cardinality(Resolving) + 1
    BY <1>2, OneMore DEF WithinBudget
  <2>3. /\ IsFiniteSet(Resolving')
        /\ Cardinality(Resolving') <= Cardinality(Resolving \union {<<n, w>>})
    BY <2>1, <2>2, FS_Subset
  <2>4. state.pc # "resolve" => Cardinality(Resolving') <= Cardinality(Resolving)
    BY <1>2, <2>1, FS_Subset DEF WithinBudget
  <2>5. /\ Cardinality(Waiting) \in Nat /\ Cardinality(Waiting') \in Nat
        /\ Cardinality(Resolving) \in Nat /\ Cardinality(Resolving') \in Nat
        /\ Cardinality(Resolving \union {<<n, w>>}) \in Nat
        /\ Cardinality(sent) \in Nat /\ asked \in Nat
    BY <1>2, <1>3, <2>2, <2>3, FS_CardinalityType DEF WithinBudget, TypeOK
  <2>6. Cardinality(Waiting') + Cardinality(Resolving') <= Cardinality(Waiting) + Cardinality(Resolving)
    BY <1>3, <1>4, <2>2, <2>3, <2>4, <2>5
  <2> QED
    BY <1>1, <1>2, <1>3, <2>3, <2>5, <2>6 DEF WithinBudget, treeVars
<1> QED
  BY <1>6, <1>7, <1>8, <1>9 DEF IInv

(* The id an intent is given is new, unless the node has restarted.        *)
LEMMA NewIdIsFresh ==
  ASSUME TypeOK, IdsIssuedOnce, NEW n \in Node, n \notin restarted, NEW op \in sent
  PROVE  op.id # nextID(n)
BY DEF TypeOK, IdsIssuedOnce, nextID, Operation, FugueInsertOp, FugueDeleteOp, OpID

LEMMA ResolveIInv ==
  ASSUME IInv, NEW n \in Node, NEW w \in Worker, ResolveIntent(n, w)
  PROVE  IInv'
<1>1. TypeOK /\ WithinBudget /\ IdsIssuedOnce /\ NodesWereSent /\ OwnIsNew
  BY DEF IInv
<1>2. /\ worker[n][w].pc = "resolve" /\ UNCHANGED <<jobs, wire, read, asked, frames, restarted, lost>>
  BY DEF ResolveIntent
<1>3. worker[n][w].intent \in Intent /\ <<n, w>> \in Resolving
  BY <1>1, <1>2, WorkerTyped DEF Resolving
<1>4. CASE Become(n, w, Idle) /\ UNCHANGED treeVars
  <2>1. Idle \in WorkerState(sent) /\ Idle.pc = "idle"
    BY DEF WorkerState, Idle
  <2>2. worker' \in [Node -> [Worker -> WorkerState(sent)]]
    BY <1>1, <1>4, <2>1, BecomeEffect
  <2>3. TypeOK'
    BY <1>1, <1>2, <1>4, <2>2 DEF TypeOK, treeVars
  <2>4. OwnIsNew'
    BY <1>1, <1>2, <1>4, <2>1, BecomeOwnIsNew
  <2>5. NodesWereSent' /\ IdsIssuedOnce' /\ NoEchoLoop'
    BY <1>2, <1>4 DEF IInv, treeVars, NodesWereSent, IdsIssuedOnce, NoEchoLoop
  <2>6. WithinBudget'
    <3>1. Resolving' \subseteq Resolving
      BY <1>1, <1>4, <2>1, BecomeResolving
    <3> QED
      BY <1>1, <1>2, <1>4, <3>1, BudgetKept DEF Waiting, treeVars
  <2> QED
    BY <2>3, <2>4, <2>5, <2>6 DEF IInv
<1>5. ASSUME NEW op \in Resolution(n, worker[n][w].intent),
             counter' = [counter EXCEPT ![n] = @ + 1],
             tree' = [tree EXCEPT ![n] = ApplyOperation(@, op)],
             sent' = sent \union {op},
             handed' = [handed EXCEPT ![n] = @ \union {op}],
             Become(n, w, [pc |-> "apply", op |-> op, local |-> TRUE])
      PROVE  IInv'
  <2> DEFINE state == [pc |-> "apply", op |-> op, local |-> TRUE]
  <2>1. op \in Operation /\ op.id = nextID(n)
    BY <1>1, <1>3, ResolutionIsGood
  <2>2. state \in WorkerState(sent') /\ sent \subseteq sent' /\ state.pc = "apply" /\ state.op = op
    BY <1>5 DEF WorkerState, Handling
  <2> HIDE DEF state
  <2>3. worker' \in [Node -> [Worker -> WorkerState(sent')]]
    BY <1>1, <1>5, <2>2, BecomeEffect DEF state
  <2>4. /\ DOMAIN tree' = Node /\ \A m \in Node : SoundTree(tree'[m])
        /\ handed' \in [Node -> SUBSET sent'] /\ NodesWereSent'
    BY <1>1, <1>5, <2>1, AppliesSound DEF Applies
  <2>5. TypeOK'
    <3>1. counter' \in [Node -> Nat]
      BY <1>1, <1>5 DEF TypeOK
    <3>2. /\ Seq(Job(sent)) \subseteq Seq(Job(sent')) /\ Seq(sent) \subseteq Seq(sent')
          /\ Seq(Message(sent)) \subseteq Seq(Message(sent'))
      BY <2>2, TypesGrow
    <3>3. /\ jobs' \in [Node -> Seq(Job(sent'))] /\ wire' \in Seq(Message(sent'))
          /\ frames' \in [Node -> Seq(sent')]
      BY <1>1, <1>2, <3>2 DEF TypeOK
    <3>4. lost' \in [Node -> SUBSET sent']
      BY <1>1, <1>2, <2>2 DEF TypeOK
    <3> QED
      BY <1>1, <1>2, <1>5, <2>1, <2>3, <2>4, <3>1, <3>3, <3>4 DEF TypeOK
  <2>6. n \notin restarted => \A o \in sent : o.id # op.id
    BY <1>1, <2>1, NewIdIsFresh
  <2>7. IdsIssuedOnce'
    <3>1. op.id[1] = n /\ op.id[2] = counter[n] + 1 /\ counter \in [Node -> Nat]
      BY <1>1, <2>1 DEF nextID, TypeOK
    <3>2. \A o \in sent : o.id[2] \in Nat
      BY <1>1 DEF TypeOK, Operation, FugueInsertOp, FugueDeleteOp, OpID
    <3>3. \A o \in sent' : o.id[1] \in Node /\ (o.id[1] \notin restarted => o.id[2] <= counter'[o.id[1]])
      BY <1>1, <1>5, <3>1, <3>2 DEF IdsIssuedOnce
    <3>4. \A o, p \in sent' : o.id = p.id /\ o.id[1] \notin restarted => o = p
      BY <1>1, <1>5, <2>6, <3>1 DEF IdsIssuedOnce
    <3> QED
      BY <1>2, <3>3, <3>4 DEF IdsIssuedOnce
  <2>8. OwnIsNew'
    <3>1. op.id[1] = n
      BY <2>1 DEF nextID
    <3>2. n \notin restarted => \A i \in 1 .. Len(wire) : wire[i].op # op
      <4>1. \A i \in 1 .. Len(wire) : wire[i].op \in sent
        BY <1>1, WireTyped
      <4> QED
        BY <2>6, <4>1
    <3>3. n \notin restarted => \A v \in Worker : Own(n, v) => worker[n][v].op # op
      <4>1. \A v \in Worker : Own(n, v) => worker[n][v].op \in sent
        BY <1>1, WorkerTyped DEF Own
      <4> QED
        BY <2>6, <4>1
    <3> QED
      BY <1>1, <1>2, <1>5, <2>2, <3>1, <3>2, <3>3, BecomeOwnIsNew DEF state
  <2>9. NoEchoLoop'
    BY <1>2 DEF IInv, NoEchoLoop
  <2>10. WithinBudget'
    <3>1. Resolving' = Resolving \ {<<n, w>>}
      BY <1>1, <1>5, <2>2, BecomeResolving DEF state
    <3>2. /\ IsFiniteSet(Resolving')
          /\ Cardinality(Resolving') = Cardinality(Resolving) - 1
      BY <1>1, <1>3, <3>1, FS_RemoveElement DEF WithinBudget
    <3>3. IsFiniteSet(sent') /\ Cardinality(sent') <= Cardinality(sent) + 1
      BY <1>1, <1>5, OneMore DEF WithinBudget
    <3>4. Waiting' = Waiting
      BY <1>2 DEF Waiting
    <3>5. /\ Cardinality(Resolving) \in Nat /\ Cardinality(sent) \in Nat
          /\ Cardinality(sent') \in Nat /\ Cardinality(Waiting) \in Nat /\ asked \in Nat
      BY <1>1, <3>3, FS_CardinalityType DEF WithinBudget, TypeOK
    <3> QED
      BY <1>1, <1>2, <3>2, <3>3, <3>4, <3>5 DEF WithinBudget
  <2> QED
    BY <2>4, <2>5, <2>7, <2>8, <2>9, <2>10 DEF IInv
<1> QED
  BY <1>4, <1>5 DEF ResolveIntent

(* A worker goes on with the operation it has, or lays it down.            *)
LEMMA CarryOn ==
  ASSUME IInv, NEW n \in Node, NEW w \in Worker, NEW state, Become(n, w, state),
         worker[n][w].pc \in {"apply", "broadcast", "publish"},
         \/ state = Idle
         \/ /\ state \in Handling(sent)
            /\ state.op = worker[n][w].op /\ state.local = worker[n][w].local,
         UNCHANGED <<counter, sent, jobs, asked, restarted>>
  PROVE  /\ worker' \in [Node -> [Worker -> WorkerState(sent)]]
         /\ UNCHANGED wire => OwnIsNew'
         /\ IdsIssuedOnce' /\ WithinBudget'
<1>1. TypeOK /\ WithinBudget /\ OwnIsNew
  BY DEF IInv
<1>2. state \in WorkerState(sent) /\ state.pc # "resolve"
  <2>1. CASE state = Idle
    BY <2>1 DEF WorkerState, Idle
  <2>2. CASE state \in Handling(sent)
    BY <2>2 DEF WorkerState, Handling
  <2> QED
    BY <2>1, <2>2
<1>3. worker' \in [Node -> [Worker -> WorkerState(sent)]]
  BY <1>1, <1>2, BecomeEffect
<1>4. state.pc \in {"apply", "broadcast", "publish"} /\ state.local =>
        Own(n, w) /\ state.op = worker[n][w].op
  <2>1. Idle.pc = "idle"
    BY DEF Idle
  <2> QED
    BY <2>1 DEF Own
<1>5. UNCHANGED wire => OwnIsNew'
  BY <1>1, <1>4, BecomeOwnIsNew DEF OwnIsNew
<1>6. Resolving' \subseteq Resolving /\ Waiting' = Waiting
  BY <1>1, <1>2, BecomeResolving DEF Waiting
<1>7. WithinBudget'
  BY <1>1, <1>6, BudgetKept
<1>8. IdsIssuedOnce'
  BY DEF IInv, IdsIssuedOnce
<1> QED
  BY <1>3, <1>5, <1>7, <1>8

LEMMA ApplyIInv ==
  ASSUME IInv, NEW n \in Node, NEW w \in Worker, Apply(n, w)
  PROVE  IInv'
<1> DEFINE op == worker[n][w].op
           state == [worker[n][w] EXCEPT !.pc = "broadcast"]
<1>1. TypeOK /\ NodesWereSent
  BY DEF IInv
<1>2. /\ worker[n][w].pc = "apply" /\ Become(n, w, state)
      /\ tree' = [tree EXCEPT ![n] = ApplyOperation(@, op)]
      /\ handed' = [handed EXCEPT ![n] = @ \union {op}]
      /\ UNCHANGED <<counter, sent, jobs, wire, read, asked, frames, restarted, lost>>
  BY DEF Apply
<1>3. worker[n][w] \in Handling(sent) /\ op \in sent /\ op \in Operation
  BY <1>1, <1>2, WorkerTyped DEF TypeOK
<1>4. state \in Handling(sent) /\ state.op = op /\ state.local = worker[n][w].local
  BY <1>2, <1>3 DEF Handling
<1> HIDE DEF state, op
<1>5. /\ worker' \in [Node -> [Worker -> WorkerState(sent)]]
      /\ OwnIsNew' /\ IdsIssuedOnce' /\ WithinBudget'
  BY <1>2, <1>4, CarryOn DEF op
<1>6. /\ DOMAIN tree' = Node /\ \A m \in Node : SoundTree(tree'[m])
      /\ handed' \in [Node -> SUBSET sent'] /\ NodesWereSent'
  BY <1>1, <1>2, <1>3, AppliesSound DEF Applies
<1>7. TypeOK'
  BY <1>1, <1>2, <1>5, <1>6 DEF TypeOK
<1>8. NoEchoLoop'
  BY <1>2 DEF IInv, NoEchoLoop
<1> QED
  BY <1>5, <1>6, <1>7, <1>8 DEF IInv

LEMMA BroadcastIInv ==
  ASSUME IInv, NEW n \in Node, NEW w \in Worker, Broadcast(n, w)
  PROVE  IInv'
<1> DEFINE state == IF worker[n][w].local
                    THEN [worker[n][w] EXCEPT !.pc = "publish"]
                    ELSE Idle
<1>1. TypeOK
  BY DEF IInv
<1>2. /\ worker[n][w].pc = "broadcast" /\ Become(n, w, state)
      /\ frames' = [frames EXCEPT ![n] = Append(@, worker[n][w].op)]
      /\ UNCHANGED <<treeVars, jobs, wire, read, asked, restarted, lost>>
  BY DEF Broadcast
<1>3. worker[n][w] \in Handling(sent) /\ worker[n][w].op \in sent
  BY <1>1, <1>2, WorkerTyped
<1>4. \/ state = Idle
      \/ /\ state \in Handling(sent)
         /\ state.op = worker[n][w].op /\ state.local = worker[n][w].local
  BY <1>2, <1>3 DEF Handling
<1> HIDE DEF state
<1>5. /\ worker' \in [Node -> [Worker -> WorkerState(sent)]]
      /\ OwnIsNew' /\ IdsIssuedOnce' /\ WithinBudget'
  BY <1>2, <1>4, CarryOn DEF treeVars
<1>6. frames' \in [Node -> Seq(sent)]
  BY <1>1, <1>2, <1>3, AppendItem DEF TypeOK
<1>7. TypeOK'
  BY <1>1, <1>2, <1>5, <1>6 DEF TypeOK, treeVars
<1>8. NodesWereSent' /\ NoEchoLoop'
  BY <1>2 DEF IInv, NodesWereSent, NoEchoLoop, treeVars
<1> QED
  BY <1>5, <1>7, <1>8 DEF IInv

(* What goes out is an operation that was not out yet.                     *)
LEMMA PublishIInv ==
  ASSUME IInv, NEW n \in Node, NEW w \in Worker, Publish(n, w)
  PROVE  IInv'
<1> DEFINE op == worker[n][w].op
           message == [op |-> op, origin |-> n]
<1>1. TypeOK /\ OwnIsNew /\ NoEchoLoop
  BY DEF IInv
<1>2. /\ worker[n][w].pc = "publish" /\ Become(n, w, Idle) /\ wire' = Append(wire, message)
      /\ UNCHANGED <<treeVars, jobs, read, asked, frames, restarted, lost>>
  BY DEF Publish
<1>3. op \in sent /\ Own(n, w)
  BY <1>1, <1>2, WorkerTyped DEF Handling, Own
<1>4. message \in Message(sent) /\ message.op = op /\ message.origin = n
  BY <1>3 DEF Message
<1>5. /\ op.id[1] = n
      /\ n \notin restarted =>
           /\ \A i \in 1 .. Len(wire) : wire[i].op # op
           /\ \A v \in Worker : Own(n, v) /\ worker[n][v].op = op => v = w
  BY <1>1, <1>3 DEF OwnIsNew
<1> HIDE DEF message, op
<1>6. /\ worker' \in [Node -> [Worker -> WorkerState(sent)]]
      /\ IdsIssuedOnce' /\ WithinBudget'
  BY <1>2, CarryOn DEF treeVars
<1>7. /\ wire' \in Seq(Message(sent)) /\ Len(wire) \in Nat /\ Len(wire') = Len(wire) + 1
      /\ \A i \in 1 .. Len(wire) : wire'[i] = wire[i]
      /\ wire'[Len(wire) + 1] = message
  BY <1>1, <1>2, <1>4, AppendItem DEF TypeOK
<1>8. TypeOK'
  <2>1. read' \in [Node -> Nat] /\ \A m \in Node : read'[m] <= Len(wire')
    BY <1>1, <1>2, <1>7 DEF TypeOK
  <2> QED
    BY <1>1, <1>2, <1>6, <1>7, <2>1 DEF TypeOK, treeVars
<1>9. NodesWereSent'
  BY <1>2 DEF IInv, NodesWereSent, treeVars
<1>10. \A i \in 1 .. Len(wire') : wire'[i] = message \/ (i \in 1 .. Len(wire) /\ wire'[i] = wire[i])
  BY <1>7
<1>11. NoEchoLoop'
  <2>1. \A i \in 1 .. Len(wire') : wire'[i].origin = wire'[i].op.id[1]
    BY <1>1, <1>4, <1>5, <1>10 DEF NoEchoLoop
  <2>2. ASSUME NEW i \in 1 .. Len(wire'), NEW j \in 1 .. Len(wire'), wire'[i].op = wire'[j].op
        PROVE  i = j \/ wire'[i].origin \in restarted
    <3>1. CASE i \in 1 .. Len(wire) /\ j \in 1 .. Len(wire)
      BY <1>1, <1>7, <2>2, <3>1 DEF NoEchoLoop
    <3>2. CASE i = Len(wire) + 1 /\ j = Len(wire) + 1
      BY <3>2
    <3>3. CASE i = Len(wire) + 1 /\ j \in 1 .. Len(wire)
      BY <1>4, <1>5, <1>7, <2>1, <2>2, <3>3
    <3>4. CASE i \in 1 .. Len(wire) /\ j = Len(wire) + 1
      BY <1>4, <1>5, <1>7, <2>1, <2>2, <3>4
    <3> QED
      BY <1>7, <3>1, <3>2, <3>3, <3>4
  <2> QED
    BY <1>2, <2>1, <2>2 DEF NoEchoLoop
<1>12. OwnIsNew'
  <2>1. /\ worker'[n][w] = Idle
        /\ \A m \in Node, v \in Worker : m # n \/ v # w => worker'[m][v] = worker[m][v]
    BY <1>1, <1>2, BecomeEffect
  <2> SUFFICES ASSUME NEW m \in Node, NEW v \in Worker, Own(m, v)'
               PROVE  /\ worker'[m][v].op.id[1] = m
                      /\ m \notin restarted =>
                           /\ \A i \in 1 .. Len(wire') : wire'[i].op # worker'[m][v].op
                           /\ \A u \in Worker : Own(m, u)' /\ worker'[m][u].op = worker'[m][v].op
                                => u = v
    BY <1>2 DEF OwnIsNew
  <2>2. (m # n \/ v # w) /\ worker'[m][v] = worker[m][v] /\ Own(m, v)
    BY <2>1 DEF Own, Idle
  <2>3. /\ worker[m][v].op.id[1] = m
        /\ m \notin restarted =>
             /\ \A i \in 1 .. Len(wire) : wire[i].op # worker[m][v].op
             /\ \A u \in Worker : Own(m, u) /\ worker[m][u].op = worker[m][v].op => u = v
    BY <1>1, <2>2 DEF OwnIsNew
  <2>4. m \notin restarted => worker[m][v].op # op
    BY <1>5, <2>2, <2>3
  <2>5. m \notin restarted => \A i \in 1 .. Len(wire') : wire'[i].op # worker[m][v].op
    BY <1>4, <1>10, <2>3, <2>4
  <2>6. ASSUME m \notin restarted, NEW u \in Worker, Own(m, u)',
               worker'[m][u].op = worker'[m][v].op
        PROVE  u = v
    BY <2>1, <2>2, <2>3, <2>6 DEF Own, Idle
  <2> QED
    BY <2>2, <2>3, <2>5, <2>6
<1> QED
  BY <1>6, <1>8, <1>9, <1>11, <1>12 DEF IInv

LEMMA PublishFailsIInv ==
  ASSUME IInv, NEW n \in Node, NEW w \in Worker, PublishFails(n, w)
  PROVE  IInv'
<1>1. /\ worker[n][w].pc = "publish" /\ Become(n, w, Idle)
      /\ UNCHANGED <<treeVars, jobs, wire, read, asked, frames, restarted>>
      /\ lost' = [m \in Node |-> IF m = n THEN lost[m] ELSE lost[m] \union {worker[n][w].op}]
  BY DEF PublishFails
<1>2. /\ worker' \in [Node -> [Worker -> WorkerState(sent)]]
      /\ OwnIsNew' /\ IdsIssuedOnce' /\ WithinBudget'
  BY <1>1, CarryOn DEF treeVars
<1>3. TypeOK'
  <2>1. worker[n][w].op \in sent
    BY <1>1, WorkerTyped DEF IInv
  <2>2. lost' \in [Node -> SUBSET sent]
    BY <1>1, <2>1 DEF IInv, TypeOK
  <2> QED
    BY <1>1, <1>2, <2>2 DEF IInv, TypeOK, treeVars
<1>4. NodesWereSent' /\ NoEchoLoop'
  BY <1>1 DEF IInv, NodesWereSent, NoEchoLoop, treeVars
<1> QED
  BY <1>2, <1>3, <1>4 DEF IInv

-----------------------------------------------------------------------------
(* A restart takes node n back to where it began, the others as they were. *)
LEMMA RestartIInv ==
  ASSUME IInv, NEW n \in Node, Restart(n)
  PROVE  IInv'
<1>1. TypeOK
  BY DEF IInv
<1>2. /\ restarted' = restarted \union {n}
      /\ tree' = [tree EXCEPT ![n] = NewFugueTree]
      /\ counter' = [counter EXCEPT ![n] = 0]
      /\ handed' = [handed EXCEPT ![n] = {}]
      /\ jobs' = [jobs EXCEPT ![n] = <<>>]
      /\ worker' = [worker EXCEPT ![n] = [w \in Worker |-> Idle]]
      /\ read' = [read EXCEPT ![n] = Len(wire)]
      /\ frames' = [frames EXCEPT ![n] = <<>>]
      /\ lost' = [m \in Node |-> IF m = n THEN sent ELSE lost[m] \union Unpublished(n)]
      /\ UNCHANGED <<sent, wire, asked>>
  BY DEF Restart
<1>3. /\ DOMAIN tree' = Node /\ tree'[n] = NewFugueTree
      /\ \A m \in Node \ {n} : tree'[m] = tree[m]
  BY <1>1, <1>2 DEF TypeOK
<1>4. /\ \A v \in Worker : worker'[n][v] = Idle
      /\ \A m \in Node \ {n} : worker'[m] = worker[m]
  BY <1>1, <1>2 DEF TypeOK
<1>5. TypeOK'
  <2>1. \A m \in Node : SoundTree(tree'[m])
    BY <1>1, <1>3, NewTreeSound DEF TypeOK
  <2>2. jobs' \in [Node -> Seq(Job(sent))] /\ \A m \in Node : Len(jobs'[m]) <= QueueSize
    BY <1>1, <1>2, ClusterAssumption DEF TypeOK
  <2>3. worker' \in [Node -> [Worker -> WorkerState(sent)]]
    <3>1. [w \in Worker |-> Idle] \in [Worker -> WorkerState(sent)]
      BY DEF WorkerState
    <3> QED
      BY <1>1, <1>2, <3>1 DEF TypeOK
  <2>4. /\ read' \in [Node -> Nat] /\ \A m \in Node : read'[m] <= Len(wire')
        /\ counter' \in [Node -> Nat]
    BY <1>1, <1>2 DEF TypeOK
  <2>5. frames' \in [Node -> Seq(sent)] /\ handed' \in [Node -> SUBSET sent]
    BY <1>1, <1>2 DEF TypeOK
  <2>6. lost' \in [Node -> SUBSET sent]
    <3>1. Unpublished(n) \subseteq sent
      BY <1>1, WorkerTyped DEF Unpublished
    <3> QED
      BY <1>1, <1>2, <3>1 DEF TypeOK
  <2> QED
    BY <1>1, <1>2, <1>3, <2>1, <2>2, <2>3, <2>4, <2>5, <2>6 DEF TypeOK
<1>6. NodesWereSent'
  BY <1>2, <1>3, NewTreeSound DEF IInv, NodesWereSent
<1>7. IdsIssuedOnce'
  BY <1>1, <1>2 DEF IInv, TypeOK, IdsIssuedOnce
<1>8. OwnIsNew'
  BY <1>2, <1>4 DEF IInv, OwnIsNew, Own, Idle
<1>9. NoEchoLoop'
  BY <1>2 DEF IInv, NoEchoLoop
<1>10. WithinBudget'
  <2>1. jobs'[n] = <<>> /\ \A m \in Node \ {n} : jobs'[m] = jobs[m]
    BY <1>1, <1>2 DEF TypeOK
  <2>2. Waiting' \subseteq Waiting
    BY <2>1 DEF Waiting
  <2>3. Resolving' \subseteq Resolving
    BY <1>4 DEF Resolving, Idle
  <2> QED
    BY <1>1, <1>2, <2>2, <2>3, BudgetKept DEF IInv
<1> QED
  BY <1>5, <1>6, <1>7, <1>8, <1>9, <1>10 DEF IInv

LEMMA StutterIInv ==
  ASSUME IInv, UNCHANGED vars
  PROVE  IInv'
<1>1. TypeOK' /\ NodesWereSent' /\ IdsIssuedOnce'
  BY DEF IInv, vars, treeVars, TypeOK, NodesWereSent, IdsIssuedOnce
<1>2. OwnIsNew' /\ NoEchoLoop'
  BY DEF IInv, vars, treeVars, OwnIsNew, Own, NoEchoLoop
<1>3. WithinBudget'
  BY DEF IInv, vars, treeVars, WithinBudget, Waiting, Resolving
<1> QED
  BY <1>1, <1>2, <1>3 DEF IInv

LEMMA NextIInv == IInv /\ [FaultyNext]_vars => IInv'
<1> SUFFICES ASSUME IInv, [FaultyNext]_vars PROVE IInv'
  OBVIOUS
<1>1. ASSUME NEW n \in Node, NEW w \in Worker, Work(n, w) \/ PublishFails(n, w) PROVE IInv'
  BY <1>1, TakeIInv, ResolveIInv, ApplyIInv, BroadcastIInv, PublishIInv, PublishFailsIInv
     DEF Work
<1>2. ASSUME NEW n \in Node,
             ClientIntent(n) \/ RedisDelta(n) \/ LoseMessage(n) \/ Restart(n)
      PROVE  IInv'
  BY <1>2, ClientIntentIInv, RedisDeltaIInv, LoseMessageIInv, RestartIInv
<1>3. CASE UNCHANGED vars
  BY <1>3, StutterIInv
<1> QED
  BY <1>1, <1>2, <1>3 DEF FaultyNext, RestartNext, Next

LEMMA IInvNoClash == IInv => OnlyRestartsClash
<1> SUFFICES ASSUME IInv, NEW n \in Node, NEW m \in Node,
                    NEW id \in Nodes(tree[n]) \intersect Nodes(tree[m]), id[1] \notin restarted
             PROVE  /\ tree[n][id].value = tree[m][id].value
                    /\ tree[n][id].parent = tree[m][id].parent
                    /\ tree[n][id].side = tree[m][id].side
  BY DEF OnlyRestartsClash
<1>1. PICK op \in sent : /\ op.id = id /\ op.value = tree[n][id].value
                         /\ op.parent = tree[n][id].parent /\ op.side = tree[n][id].side
  BY DEF IInv, NodesWereSent
<1>2. PICK other \in sent : /\ other.id = id /\ other.value = tree[m][id].value
                            /\ other.parent = tree[m][id].parent /\ other.side = tree[m][id].side
  BY DEF IInv, NodesWereSent
<1>3. op = other
  BY <1>1, <1>2 DEF IInv, IdsIssuedOnce
<1> QED
  BY <1>1, <1>2, <1>3

(* Whatever is lost and whoever restarts: queues keep within their         *)
(* capacity, every tree is sound, and nothing is on its way that no node   *)
(* has issued (runRedis, handleClientMsg, HandleDelta).                    *)
THEOREM ClusterTypeCorrect == FaultySpec => []TypeOK
<1>1. IInv => TypeOK
  BY DEF IInv
<1> QED
  BY <1>1, InitIInv, NextIInv, PTL DEF FaultySpec

(* An operation crosses the wire once, and from the node that issued it,   *)
(* unless that node issues an equal one after a restart (HandleDelta).     *)
THEOREM NothingIsEchoed == FaultySpec => []NoEchoLoop
<1>1. IInv => NoEchoLoop
  BY DEF IInv
<1> QED
  BY <1>1, InitIInv, NextIInv, PTL DEF FaultySpec

(* Loss, failed publishes and racing workers never make two nodes show     *)
(* different characters under one id: only a restart does (main, nextID).  *)
THEOREM ClashesNeedARestart == FaultySpec => []OnlyRestartsClash
BY IInvNoClash, InitIInv, NextIInv, PTL DEF FaultySpec

-----------------------------------------------------------------------------
(* The cluster as replicas of FugueReplicas.                               *)

(* Both modules compute with the same tree operators.                      *)
LEMMA SameOperators ==
  /\ Replicas!NewFugueTree = NewFugueTree
  /\ Replicas!nil = nil /\ Replicas!rootSentinelID = rootSentinelID
  /\ \A t, op : Replicas!ApplyOperation(t, op) = ApplyOperation(t, op)
  /\ \A t : Replicas!visibleNodes(t) = visibleNodes(t)
  /\ \A t, left, right : Replicas!selectParent(t, left, right) = selectParent(t, left, right)
  /\ \A id, value, place : Replicas!insertOp(id, value, place) = insertOp(id, value, place)
  /\ \A id, target : Replicas!deleteOp(id, target) = deleteOp(id, target)
  /\ \A s, pos, left, right :
       Replicas!OriginsAt(s, pos, left, right) <=> OriginsAt(s, pos, left, right)
  /\ \A S : Replicas!Cardinality(S) = Cardinality(S)
<1>1. Replicas!NewFugueTree = NewFugueTree
  BY DEF Replicas!NewFugueTree, NewFugueTree, Replicas!NewNode, NewNode, Replicas!Side, Side,
     Replicas!rootSentinelID, rootSentinelID, Replicas!zeroRune, zeroRune
<1>2. Replicas!nil = nil /\ Replicas!rootSentinelID = rootSentinelID
  BY DEF Replicas!nil, nil, Replicas!rootSentinelID, rootSentinelID
<1>3. ASSUME NEW t, NEW op PROVE Replicas!ApplyOperation(t, op) = ApplyOperation(t, op)
  BY DEF Replicas!ApplyOperation, ApplyOperation, Replicas!applyInsert, applyInsert,
     Replicas!applyDelete, applyDelete, Replicas!NewNode, NewNode, Replicas!Side, Side,
     Replicas!insertChild, insertChild, Replicas!Precedes, Precedes,
     Replicas!Seqs!InsertAt, Seqs!InsertAt
<1>4. ASSUME NEW t PROVE Replicas!visibleNodes(t) = visibleNodes(t)
  BY Zenon DEF Replicas!visibleNodes, visibleNodes, Replicas!traverse, traverse,
     Replicas!rootSentinelID, rootSentinelID
<1>5. ASSUME NEW t, NEW left, NEW right
      PROVE  Replicas!selectParent(t, left, right) = selectParent(t, left, right)
  BY DEF Replicas!selectParent, selectParent, Replicas!nil, nil
<1>6. ASSUME NEW id, NEW value, NEW place
      PROVE  Replicas!insertOp(id, value, place) = insertOp(id, value, place)
  BY DEF Replicas!insertOp, insertOp
<1>7. ASSUME NEW id, NEW target PROVE Replicas!deleteOp(id, target) = deleteOp(id, target)
  BY DEF Replicas!deleteOp, deleteOp
<1>8. ASSUME NEW s, NEW pos, NEW left, NEW right
      PROVE  Replicas!OriginsAt(s, pos, left, right) <=> OriginsAt(s, pos, left, right)
  BY DEF Replicas!OriginsAt, OriginsAt, Replicas!leftOrigin, leftOrigin,
     Replicas!rightOrigin, rightOrigin, Replicas!rootSentinelID, rootSentinelID,
     Replicas!nil, nil
<1>9. ASSUME NEW S PROVE Replicas!Cardinality(S) = Cardinality(S)
  BY DEF Replicas!Cardinality, Cardinality, Replicas!IsFiniteSet, IsFiniteSet
<1> QED
  BY <1>1, <1>2, <1>3, <1>4, <1>5, <1>6, <1>7, <1>8, <1>9

(* An intent that becomes an operation is an edit of the replica, and the  *)
(* budget leaves room for it.                                              *)
LEMMA ResolveIsEdit ==
  ASSUME IInv, NEW n \in Node, NEW w \in Worker, ResolveIntent(n, w)
  PROVE  Replicas!Edit(n) \/ UNCHANGED treeVars
<1> DEFINE intent == worker[n][w].intent
           visible == visibleNodes(tree[n])
<1>1. intent \in Intent /\ <<n, w>> \in Resolving
  BY WorkerTyped DEF IInv, ResolveIntent, Resolving
<1>2. Cardinality(sent) < MaxIntents
  <2>1. /\ IsFiniteSet(Resolving \ {<<n, w>>})
        /\ Cardinality(Resolving \ {<<n, w>>}) = Cardinality(Resolving) - 1
    BY <1>1, FS_RemoveElement DEF IInv, WithinBudget
  <2>2. /\ Cardinality(Resolving \ {<<n, w>>}) \in Nat /\ Cardinality(Resolving) \in Nat
        /\ Cardinality(Waiting) \in Nat /\ Cardinality(sent) \in Nat
    BY <2>1, FS_CardinalityType DEF IInv, WithinBudget
  <2> QED
    BY <2>1, <2>2, ClusterAssumption DEF IInv, WithinBudget, TypeOK
<1>3. ASSUME NEW op \in Resolution(n, intent),
             counter' = [counter EXCEPT ![n] = @ + 1],
             tree' = [tree EXCEPT ![n] = ApplyOperation(@, op)],
             sent' = sent \union {op},
             handed' = [handed EXCEPT ![n] = @ \union {op}]
      PROVE  Replicas!Edit(n)
  <2>1. Replicas!Issue(n, op)
    BY <1>2, <1>3, SameOperators DEF Replicas!Issue
  <2>2. CASE intent.type = "insert_intent"
    <3>1. PICK o \in (DOMAIN tree[n]) \X (DOMAIN tree[n] \union {nil}) :
            /\ OriginsAt(visible, intent.pos, o[1], o[2])
            /\ op = insertOp(nextID(n), intent.char, selectParent(tree[n], o[1], o[2]))
      BY <2>2 DEF Resolution
    <3>2. intent.char \in Char /\ intent.pos \in 0 .. Len(visible)
      BY <1>1, <2>2, <3>1 DEF Intent, OriginsAt
    <3> HIDE DEF visible
    <3>3. /\ Replicas!OriginsAt(visible, intent.pos, o[1], o[2])
          /\ op = Replicas!insertOp(Replicas!nextID(n), intent.char,
                                    Replicas!selectParent(tree[n], o[1], o[2]))
          /\ visible = Replicas!visibleNodes(tree[n])
          /\ o[1] \in DOMAIN tree[n] /\ o[2] \in DOMAIN tree[n] \union {Replicas!nil}
      BY <3>1, SameOperators DEF visible, nextID, Replicas!nextID
    <3>4. Replicas!InsertAt(n, intent.pos, intent.char)
      BY <2>1, <3>3 DEF Replicas!InsertAt
    <3> QED
      BY <3>2, <3>3, <3>4 DEF Replicas!Edit, Replicas!Positions
  <2>3. CASE intent.type # "insert_intent"
    <3>1. PICK target \in Nodes(tree[n]) :
            /\ intent.pos \in 0 .. Len(visible) - 1
            /\ target = visible[intent.pos + 1]
            /\ op = deleteOp(nextID(n), target)
      BY <2>3 DEF Resolution
    <3> HIDE DEF visible
    <3>2. /\ op = Replicas!deleteOp(Replicas!nextID(n), target)
          /\ visible = Replicas!visibleNodes(tree[n])
          /\ target \in DOMAIN tree[n] \ {Replicas!rootSentinelID}
      BY <3>1, SameOperators DEF visible, nextID, Replicas!nextID, Nodes
    <3>3. Replicas!DeleteAt(n, intent.pos)
      BY <2>1, <3>1, <3>2 DEF Replicas!DeleteAt
    <3>4. intent.pos \in 0 .. Len(visible)
      <4>1. Len(visible) - 1 \in Int
        BY <3>1
      <4> QED
        BY <3>1
    <3> QED
      BY <3>2, <3>3, <3>4 DEF Replicas!Edit, Replicas!Positions
  <2> QED
    BY <2>2, <2>3
<1> QED
  BY <1>3 DEF ResolveIntent

LEMMA ApplyIsReceive ==
  ASSUME IInv, NEW n \in Node, NEW w \in Worker, Apply(n, w)
  PROVE  worker[n][w].op \in sent /\ Replicas!Receive(n, worker[n][w].op)
<1>1. worker[n][w].op \in sent
  BY WorkerTyped DEF IInv, Apply
<1> QED
  BY <1>1, SameOperators DEF Apply, Replicas!Receive

(* The steps that do not touch a tree.                                     *)
LEMMA OtherSteps ==
  ASSUME NEW n \in Node, NEW w \in Worker,
         \/ ClientIntent(n) \/ RedisDelta(n) \/ LoseMessage(n)
         \/ Take(n, w) \/ Broadcast(n, w) \/ Publish(n, w) \/ PublishFails(n, w)
         \/ UNCHANGED vars
  PROVE  UNCHANGED treeVars
BY DEF ClientIntent, RedisDelta, LoseMessage, Take, Broadcast, Publish, PublishFails, vars

LEMMA RestartForgets ==
  ASSUME NEW n \in Node, Restart(n)
  PROVE  \E m \in restarted' \ restarted : Forget(m)
BY DEF Restart, Forget

InSomeOrder == Replicas!Next \/ \E n \in restarted' \ restarted : Forget(n)

LEMMA NextDelivers == IInv /\ [FaultyNext]_vars => [InSomeOrder]_treeVars
<1> SUFFICES ASSUME IInv, [FaultyNext]_vars PROVE InSomeOrder \/ UNCHANGED treeVars
  OBVIOUS
<1>1. ASSUME NEW n \in Node, NEW w \in Worker, ResolveIntent(n, w)
      PROVE  InSomeOrder \/ UNCHANGED treeVars
  BY <1>1, ResolveIsEdit DEF InSomeOrder, Replicas!Next, Node
<1>2. ASSUME NEW n \in Node, NEW w \in Worker, Apply(n, w)
      PROVE  InSomeOrder
  BY <1>2, ApplyIsReceive DEF InSomeOrder, Replicas!Next, Node
<1>3. ASSUME NEW n \in Node, NEW w \in Worker,
             Take(n, w) \/ Broadcast(n, w) \/ Publish(n, w) \/ PublishFails(n, w)
      PROVE  UNCHANGED treeVars
  BY <1>3, OtherSteps
<1>4. ASSUME NEW n \in Node, ClientIntent(n) \/ RedisDelta(n) \/ LoseMessage(n)
      PROVE  UNCHANGED treeVars
  BY <1>4 DEF ClientIntent, RedisDelta, LoseMessage
<1>5. ASSUME NEW n \in Node, Restart(n)
      PROVE  InSomeOrder
  BY <1>5, RestartForgets DEF InSomeOrder
<1>6. CASE UNCHANGED vars
  BY <1>6 DEF vars
<1> QED
  BY <1>1, <1>2, <1>3, <1>4, <1>5, <1>6 DEF FaultyNext, RestartNext, Next, Work

LEMMA InitDelivers == Init => Replicas!Init
BY SameOperators DEF Init, Replicas!Init, Node

(* Whatever is lost, delayed, overtaken or restarted, the nodes are        *)
(* replicas that receive operations in some order, every step of the       *)
(* pipeline being one of theirs or none (HandleDelta, handleClientMsg).    *)
THEOREM ClusterDelivers == FaultySpec => DeliversInSomeOrder
<1>1. IInv /\ [FaultyNext]_vars => [InSomeOrder]_treeVars
  BY NextDelivers
<1>2. DeliversInSomeOrder <=> Replicas!Init /\ [][InSomeOrder]_treeVars
  BY DEF DeliversInSomeOrder, InSomeOrder
<1> QED
  BY <1>1, <1>2, InitDelivers, InitIInv, NextIInv, PTL DEF FaultySpec

-----------------------------------------------------------------------------
(* What becomes of each operation.                                         *)

(* Every tombstone comes from a delete that was issued.                    *)
TombstonesWereSent ==
  \A n \in Node : \A id \in Tombstones(tree[n]) :
    \E op \in sent : op.type = "delete" /\ op.target = id

(* op is still on its way to the tree of n.                                *)
OnItsWay(n, op) ==
  \/ \E k \in 1 .. Len(jobs[n]) : jobs[n][k].type = "delta" /\ jobs[n][k].op = op
  \/ \E w \in Worker : worker[n][w].pc = "apply" /\ worker[n][w].op = op
  \/ \E i \in 1 .. Len(wire) : i > read[n] /\ wire[i].origin # n /\ wire[i].op = op
  \/ /\ op.id[1] # n
     /\ \E w \in Worker : Own(op.id[1], w) /\ worker[op.id[1]][w].op = op

(* An operation reaches every node, unless a fault keeps it from one.      *)
Accounted ==
  \A n \in Node, op \in sent : op \in handed[n] \/ op \in lost[n] \/ OnItsWay(n, op)

LEMMA InitAccounted == Init => Accounted /\ TombstonesWereSent
<1> SUFFICES ASSUME Init PROVE Accounted /\ TombstonesWereSent
  OBVIOUS
<1>1. Accounted
  BY DEF Init, Accounted
<1>2. \A n \in Node : Tombstones(tree[n]) = {}
  BY NewTreeSound DEF Init
<1> QED
  BY <1>1, <1>2 DEF TombstonesWereSent

LEMMA AppliesTombstones ==
  ASSUME IInv, TombstonesWereSent, NEW n \in Node, NEW op \in Operation, Applies(n, op)
  PROVE  TombstonesWereSent'
<1>1. /\ Effect(tree[n], op, tree'[n])
      /\ \A m \in Node \ {n} : tree'[m] = tree[m]
  BY AppliesSound DEF IInv
<1>2. sent \subseteq sent' /\ op \in sent'
  BY DEF Applies
<1> SUFFICES ASSUME NEW m \in Node, NEW id \in Tombstones(tree'[m])
             PROVE  \E o \in sent' : o.type = "delete" /\ o.target = id
  BY DEF TombstonesWereSent
<1>3. id \in Tombstones(tree[m]) \/ (op.type = "delete" /\ op.target = id)
  <2>1. CASE m = n
    BY <1>1, <2>1 DEF Effect
  <2>2. CASE m # n
    BY <1>1, <2>2
  <2> QED
    BY <2>1, <2>2
<1> QED
  BY <1>2, <1>3 DEF TombstonesWereSent

LEMMA TombstonesNext ==
  ASSUME IInv, TombstonesWereSent, [FaultyNext]_vars
  PROVE  TombstonesWereSent'
<1>1. ASSUME UNCHANGED treeVars PROVE TombstonesWereSent'
  BY <1>1 DEF treeVars, TombstonesWereSent
<1>2. ASSUME NEW n \in Node, NEW w \in Worker, ResolveIntent(n, w)
      PROVE  TombstonesWereSent'
  <2>1. worker[n][w].intent \in Intent
    BY <1>2, WorkerTyped DEF IInv, ResolveIntent
  <2>2. ASSUME NEW op \in Resolution(n, worker[n][w].intent),
               tree' = [tree EXCEPT ![n] = ApplyOperation(@, op)],
               sent' = sent \union {op},
               handed' = [handed EXCEPT ![n] = @ \union {op}]
        PROVE  TombstonesWereSent'
    <3>1. op \in Operation
      BY <2>1, ResolutionIsGood DEF IInv
    <3> QED
      BY <2>2, <3>1, AppliesTombstones DEF Applies
  <2> QED
    BY <1>1, <1>2, <2>2 DEF ResolveIntent
<1>3. ASSUME NEW n \in Node, NEW w \in Worker, Apply(n, w)
      PROVE  TombstonesWereSent'
  <2>1. worker[n][w].op \in sent /\ worker[n][w].op \in Operation
    BY <1>3, WorkerTyped DEF IInv, TypeOK, Apply
  <2> QED
    BY <1>3, <2>1, AppliesTombstones DEF Apply, Applies
<1>4. ASSUME NEW n \in Node, Restart(n) PROVE TombstonesWereSent'
  <2>1. /\ tree'[n] = NewFugueTree /\ \A m \in Node \ {n} : tree'[m] = tree[m]
        /\ sent' = sent
    BY <1>4 DEF Restart, IInv, TypeOK
  <2> QED
    BY <2>1, NewTreeSound DEF TombstonesWereSent
<1>5. ASSUME NEW n \in Node, NEW w \in Worker,
             Take(n, w) \/ Broadcast(n, w) \/ Publish(n, w) \/ PublishFails(n, w)
      PROVE  TombstonesWereSent'
  BY <1>1, <1>5, OtherSteps
<1>6. ASSUME NEW n \in Node, ClientIntent(n) \/ RedisDelta(n) \/ LoseMessage(n)
      PROVE  TombstonesWereSent'
  BY <1>1, <1>6 DEF ClientIntent, RedisDelta, LoseMessage
<1>7. CASE UNCHANGED vars
  BY <1>1, <1>7 DEF vars
<1> QED
  BY <1>2, <1>3, <1>4, <1>5, <1>6, <1>7 DEF FaultyNext, RestartNext, Next, Work

(* A worker that takes a step still has its operation on the way, or what  *)
(* it had is accounted for otherwise.                                      *)
LEMMA BecomeAccounted ==
  ASSUME IInv, Accounted, NEW n \in Node, NEW w \in Worker, NEW state, Become(n, w, state),
         UNCHANGED <<jobs, read>>, sent' = sent,
         Len(wire') >= Len(wire), \A i \in 1 .. Len(wire) : wire'[i] = wire[i],
         \A m \in Node : handed[m] \subseteq handed'[m] /\ lost[m] \subseteq lost'[m],
         worker[n][w].pc = "apply" => worker[n][w].op \in handed'[n],
         \A op \in sent : Own(n, w) /\ worker[n][w].op = op =>
           \/ state.pc \in {"apply", "broadcast", "publish"} /\ state.local /\ state.op = op
           \/ \A m \in Node \ {n} : op \in lost'[m] \/ OnItsWay(m, op)'
  PROVE  Accounted'
<1>1. /\ worker'[n][w] = state
      /\ \A m \in Node, v \in Worker : m # n \/ v # w => worker'[m][v] = worker[m][v]
  BY BecomeEffect DEF IInv
<1>2. Len(wire) \in Nat /\ Len(wire') \in Nat
  BY DEF IInv, TypeOK
<1> SUFFICES ASSUME NEW m \in Node, NEW op \in sent
             PROVE  op \in handed'[m] \/ op \in lost'[m] \/ OnItsWay(m, op)'
  BY DEF Accounted
<1>3. CASE op \in handed[m] \/ op \in lost[m]
  BY <1>3
<1>4. CASE \E k \in 1 .. Len(jobs[m]) : jobs[m][k].type = "delta" /\ jobs[m][k].op = op
  BY <1>4 DEF OnItsWay
<1>5. ASSUME NEW v \in Worker, worker[m][v].pc = "apply", worker[m][v].op = op
      PROVE  op \in handed'[m] \/ OnItsWay(m, op)'
  BY <1>1, <1>5 DEF OnItsWay
<1>6. CASE \E i \in 1 .. Len(wire) : i > read[m] /\ wire[i].origin # m /\ wire[i].op = op
  BY <1>2, <1>6 DEF OnItsWay
<1>7. ASSUME op.id[1] # m, NEW v \in Worker, Own(op.id[1], v), worker[op.id[1]][v].op = op
      PROVE  op \in lost'[m] \/ OnItsWay(m, op)'
  <2>1. op.id[1] \in Node
    BY DEF IInv, IdsIssuedOnce
  <2>2. CASE op.id[1] # n \/ v # w
    <3>1. worker'[op.id[1]][v] = worker[op.id[1]][v]
      BY <1>1, <2>1, <2>2
    <3> QED
      BY <1>7, <3>1 DEF OnItsWay, Own
  <2>3. CASE op.id[1] = n /\ v = w
    <3>1. Own(n, w) /\ worker[n][w].op = op /\ m \in Node \ {n}
      BY <1>7, <2>3
    <3>2. CASE op \in lost'[m] \/ OnItsWay(m, op)'
      BY <3>2
    <3>3. CASE state.pc \in {"apply", "broadcast", "publish"} /\ state.local /\ state.op = op
      <4>1. Own(n, w)' /\ worker'[n][w].op = op
        BY <1>1, <3>3 DEF Own
      <4> QED
        BY <1>7, <2>3, <4>1 DEF OnItsWay
    <3> QED
      BY <3>1, <3>2, <3>3
  <2> QED
    BY <2>2, <2>3
<1> QED
  BY <1>3, <1>4, <1>5, <1>6, <1>7 DEF Accounted, OnItsWay

LEMMA SubmitAccounted ==
  ASSUME IInv, Accounted, NEW n \in Node,
         ClientIntent(n) \/ RedisDelta(n) \/ LoseMessage(n)
  PROVE  Accounted'
<1>1. /\ UNCHANGED <<treeVars, worker, wire>>
      /\ \A m \in Node : /\ lost[m] \subseteq lost'[m]
                         /\ m # n => read'[m] = read[m] /\ jobs'[m] = jobs[m]
  <2>1. CASE ClientIntent(n) \/ RedisDelta(n)
    BY <2>1 DEF ClientIntent, RedisDelta, Submit, IInv, TypeOK
  <2>2. CASE LoseMessage(n)
    BY <2>2 DEF LoseMessage, IInv, TypeOK
  <2> QED
    BY <2>1, <2>2
<1>2. \A k \in 1 .. Len(jobs[n]) : k \in 1 .. Len(jobs'[n]) /\ jobs'[n][k] = jobs[n][k]
  <2>1. CASE UNCHANGED jobs
    BY <2>1
  <2>2. ASSUME NEW job, Submit(n, job)
        PROVE  \A k \in 1 .. Len(jobs[n]) : k \in 1 .. Len(jobs'[n]) /\ jobs'[n][k] = jobs[n][k]
    <3>1. jobs[n] \in Seq(Job(sent) \union {job}) /\ jobs'[n] = Append(jobs[n], job)
      <4>1. jobs[n] \in Seq(Job(sent)) /\ jobs'[n] = Append(jobs[n], job)
        BY <2>2 DEF Submit, IInv, TypeOK
      <4> QED
        BY <4>1, SeqMonotonic
    <3> QED
      BY <3>1, AppendItem
  <2> QED
    BY <2>1, <2>2 DEF ClientIntent, RedisDelta, LoseMessage
<1> SUFFICES ASSUME NEW m \in Node, NEW op \in sent
             PROVE  op \in handed[m] \/ op \in lost'[m] \/ OnItsWay(m, op)'
  BY <1>1 DEF Accounted, treeVars
<1>3. CASE op \in handed[m] \/ op \in lost[m]
  BY <1>1, <1>3
<1>4. CASE \E k \in 1 .. Len(jobs[m]) : jobs[m][k].type = "delta" /\ jobs[m][k].op = op
  BY <1>1, <1>2, <1>4 DEF OnItsWay
<1>5. CASE \/ \E w \in Worker : worker[m][w].pc = "apply" /\ worker[m][w].op = op
           \/ op.id[1] # m /\ \E w \in Worker : Own(op.id[1], w) /\ worker[op.id[1]][w].op = op
  BY <1>1, <1>5 DEF OnItsWay, Own
<1>6. ASSUME NEW i \in 1 .. Len(wire), i > read[m], wire[i].origin # m, wire[i].op = op
      PROVE  op \in lost'[m] \/ OnItsWay(m, op)'
  <2>1. CASE i > read'[m]
    BY <1>1, <1>6, <2>1 DEF OnItsWay
  <2>2. CASE ~(i > read'[m])
    <3>1. m = n /\ read' # read
      BY <1>1, <1>6, <2>2
    <3>2. i = read[n] + 1
      BY <1>6, <2>2, <3>1 DEF IInv, TypeOK, ClientIntent, RedisDelta, LoseMessage
    <3>3. CASE LoseMessage(n)
      BY <1>6, <3>1, <3>2, <3>3 DEF LoseMessage, IInv, TypeOK
    <3>4. CASE RedisDelta(n)
      <4> DEFINE job == [type |-> "delta", op |-> op]
      <4>1. Submit(n, job)
        BY <1>6, <3>1, <3>2, <3>4 DEF RedisDelta
      <4>2. jobs[n] \in Seq(Job(sent)) /\ jobs'[n] = Append(jobs[n], job) /\ job \in Job(sent)
        BY <4>1 DEF Submit, IInv, TypeOK, Job
      <4>3. Len(jobs[n]) + 1 \in 1 .. Len(jobs'[n]) /\ jobs'[n][Len(jobs[n]) + 1] = job
        BY <4>2, AppendItem
      <4> QED
        BY <3>1, <4>3 DEF OnItsWay
    <3> QED
      BY <3>1, <3>3, <3>4 DEF ClientIntent
  <2> QED
    BY <2>1, <2>2
<1> QED
  BY <1>3, <1>4, <1>5, <1>6 DEF Accounted, OnItsWay

LEMMA TakeAccounted ==
  ASSUME IInv, Accounted, NEW n \in Node, NEW w \in Worker, Take(n, w)
  PROVE  Accounted'
<1>1. worker[n][w] = Idle /\ Idle.pc = "idle" /\ TypeOK
  BY DEF Take, Idle, IInv
<1> DEFINE job == Head(jobs[n])
           state == IF job.type = "delta"
                    THEN [pc |-> "apply", op |-> job.op, local |-> FALSE]
                    ELSE [pc |-> "resolve", intent |-> job]
<1>2. /\ jobs[n] # <<>> /\ Become(n, w, state) /\ jobs' = [jobs EXCEPT ![n] = Tail(@)]
      /\ UNCHANGED <<treeVars, wire, read, lost>>
  BY DEF Take
<1>3. job.type = "delta" => state.pc = "apply" /\ state.op = job.op
  OBVIOUS
<1> HIDE DEF state
<1>4. /\ worker'[n][w] = state
      /\ \A m \in Node, v \in Worker : m # n \/ v # w => worker'[m][v] = worker[m][v]
  BY <1>1, <1>2, BecomeEffect
<1>5. \A m \in Node, v \in Worker : worker[m][v].pc # "idle" => worker'[m][v] = worker[m][v]
  BY <1>1, <1>4
<1>6. /\ jobs[n] \in Seq(Job(sent)) /\ jobs'[n] = Tail(jobs[n])
      /\ \A m \in Node \ {n} : jobs'[m] = jobs[m]
  BY <1>1, <1>2 DEF TypeOK
<1>7. /\ Len(jobs[n]) \in Nat /\ Len(jobs'[n]) = Len(jobs[n]) - 1 /\ job = jobs[n][1]
      /\ \A i \in 1 .. Len(jobs'[n]) : jobs'[n][i] = jobs[n][i + 1]
  <2> DEFINE q == jobs[n]
  <2>1. q \in Seq(Job(sent)) /\ q # <<>>
    BY <1>2, <1>6
  <2> HIDE DEF q
  <2>2. /\ Len(q) \in Nat /\ Len(Tail(q)) = Len(q) - 1 /\ Head(q) = q[1]
        /\ \A i \in 1 .. Len(Tail(q)) : Tail(q)[i] = q[i + 1]
    BY <2>1, TailItem
  <2> QED
    BY <1>6, <2>2 DEF q
<1> HIDE DEF job
<1> SUFFICES ASSUME NEW m \in Node, NEW op \in sent
             PROVE  op \in handed[m] \/ op \in lost[m] \/ OnItsWay(m, op)'
  BY <1>2 DEF Accounted, treeVars
<1>8. ASSUME NEW k \in 1 .. Len(jobs[m]), jobs[m][k].type = "delta", jobs[m][k].op = op
      PROVE  OnItsWay(m, op)'
  <2>1. CASE m # n
    BY <1>6, <1>8, <2>1 DEF OnItsWay
  <2>2. CASE m = n /\ k = 1
    BY <1>3, <1>4, <1>7, <1>8, <2>2 DEF OnItsWay
  <2>3. CASE m = n /\ k # 1
    <3>1. k - 1 \in 1 .. Len(jobs'[n]) /\ jobs'[n][k - 1] = jobs[n][k]
      BY <1>7, <1>8, <2>3
    <3> QED
      BY <1>8, <2>3, <3>1 DEF OnItsWay
  <2> QED
    BY <2>1, <2>2, <2>3
<1>9. ASSUME NEW v \in Worker, worker[m][v].pc = "apply", worker[m][v].op = op
      PROVE  OnItsWay(m, op)'
  BY <1>5, <1>9 DEF OnItsWay
<1>10. ASSUME op.id[1] # m, NEW v \in Worker, Own(op.id[1], v), worker[op.id[1]][v].op = op
       PROVE  OnItsWay(m, op)'
  <2>1. op.id[1] \in Node
    BY DEF IInv, IdsIssuedOnce
  <2>2. worker'[op.id[1]][v] = worker[op.id[1]][v]
    BY <1>5, <1>10, <2>1 DEF Own
  <2> QED
    BY <1>10, <2>2 DEF OnItsWay, Own
<1>11. CASE \E i \in 1 .. Len(wire) : i > read[m] /\ wire[i].origin # m /\ wire[i].op = op
  BY <1>2, <1>11 DEF OnItsWay
<1> QED
  BY <1>8, <1>9, <1>10, <1>11 DEF Accounted, OnItsWay

LEMMA ResolveAccounted ==
  ASSUME IInv, Accounted, NEW n \in Node, NEW w \in Worker, ResolveIntent(n, w)
  PROVE  Accounted'
<1>1. /\ worker[n][w].pc = "resolve" /\ ~Own(n, w)
      /\ UNCHANGED <<jobs, wire, read, lost>>
  BY DEF ResolveIntent, Own
<1>2. CASE Become(n, w, Idle) /\ UNCHANGED treeVars
  BY <1>1, <1>2, BecomeAccounted DEF treeVars, IInv, TypeOK
<1>3. ASSUME NEW op \in Resolution(n, worker[n][w].intent),
             sent' = sent \union {op},
             handed' = [handed EXCEPT ![n] = @ \union {op}],
             Become(n, w, [pc |-> "apply", op |-> op, local |-> TRUE])
      PROVE  Accounted'
  <2> DEFINE state == [pc |-> "apply", op |-> op, local |-> TRUE]
  <2>1. op.id[1] = n
    <3>1. worker[n][w].intent \in Intent
      BY <1>1, WorkerTyped DEF IInv
    <3> QED
      BY <3>1, ResolutionIsGood DEF IInv, nextID
  <2>2. /\ worker'[n][w] = state
        /\ \A m \in Node, v \in Worker : m # n \/ v # w => worker'[m][v] = worker[m][v]
    BY <1>3, BecomeEffect DEF IInv
  <2>3. \A m \in Node, v \in Worker : worker[m][v].pc # "resolve" => worker'[m][v] = worker[m][v]
    BY <1>1, <2>2
  <2>4. /\ op \in handed'[n] /\ \A m \in Node : handed[m] \subseteq handed'[m]
        /\ Own(n, w)' /\ worker'[n][w].op = op
    BY <1>3, <2>2 DEF Own, IInv, TypeOK
  <2> HIDE DEF state
  <2> SUFFICES ASSUME NEW m \in Node, NEW o \in sent'
               PROVE  o \in handed'[m] \/ o \in lost[m] \/ OnItsWay(m, o)'
    BY <1>1 DEF Accounted
  <2>5. CASE o = op
    BY <2>1, <2>4, <2>5 DEF OnItsWay
  <2>6. CASE o \in sent
    <3>1. CASE o \in handed[m] \/ o \in lost[m]
      BY <2>4, <3>1
    <3>2. CASE \/ \E k \in 1 .. Len(jobs[m]) : jobs[m][k].type = "delta" /\ jobs[m][k].op = o
               \/ \E i \in 1 .. Len(wire) : i > read[m] /\ wire[i].origin # m /\ wire[i].op = o
      BY <1>1, <3>2 DEF OnItsWay
    <3>3. ASSUME NEW v \in Worker, worker[m][v].pc = "apply", worker[m][v].op = o
          PROVE  OnItsWay(m, o)'
      BY <2>3, <3>3 DEF OnItsWay
    <3>4. ASSUME o.id[1] # m, NEW v \in Worker, Own(o.id[1], v), worker[o.id[1]][v].op = o
          PROVE  OnItsWay(m, o)'
      <4>1. o.id[1] \in Node
        BY <2>6 DEF IInv, IdsIssuedOnce
      <4>2. worker'[o.id[1]][v] = worker[o.id[1]][v]
        BY <2>3, <3>4, <4>1 DEF Own
      <4> QED
        BY <3>4, <4>2 DEF OnItsWay, Own
    <3> QED
      BY <2>6, <3>1, <3>2, <3>3, <3>4 DEF Accounted, OnItsWay
  <2> QED
    BY <1>3, <2>5, <2>6
<1> QED
  BY <1>2, <1>3 DEF ResolveIntent

LEMMA ApplyAccounted ==
  ASSUME IInv, Accounted, NEW n \in Node, NEW w \in Worker, Apply(n, w)
  PROVE  Accounted'
<1> DEFINE state == [worker[n][w] EXCEPT !.pc = "broadcast"]
<1>1. /\ worker[n][w].pc = "apply" /\ Become(n, w, state)
      /\ handed' = [handed EXCEPT ![n] = @ \union {worker[n][w].op}]
      /\ UNCHANGED <<counter, sent, jobs, wire, read, lost>>
  BY DEF Apply
<1>2. worker[n][w] \in Handling(sent)
  BY <1>1, WorkerTyped DEF IInv
<1>3. state.pc = "broadcast" /\ state.op = worker[n][w].op /\ state.local = worker[n][w].local
  BY <1>1, <1>2 DEF Handling
<1> HIDE DEF state
<1>4. /\ \A m \in Node : handed[m] \subseteq handed'[m]
      /\ worker[n][w].op \in handed'[n]
  BY <1>1 DEF IInv, TypeOK
<1>5. Own(n, w) => state.pc \in {"apply", "broadcast", "publish"} /\ state.local
                     /\ state.op = worker[n][w].op
  BY <1>3 DEF Own
<1>6. Len(wire') >= Len(wire) /\ \A i \in 1 .. Len(wire) : wire'[i] = wire[i]
  BY <1>1 DEF IInv, TypeOK
<1> QED
  BY <1>1, <1>4, <1>5, <1>6, BecomeAccounted

LEMMA BroadcastAccounted ==
  ASSUME IInv, Accounted, NEW n \in Node, NEW w \in Worker, Broadcast(n, w)
  PROVE  Accounted'
<1> DEFINE state == IF worker[n][w].local
                    THEN [worker[n][w] EXCEPT !.pc = "publish"]
                    ELSE Idle
<1>1. /\ worker[n][w].pc = "broadcast" /\ Become(n, w, state)
      /\ UNCHANGED <<treeVars, jobs, wire, read, lost>>
  BY DEF Broadcast
<1>2. worker[n][w] \in Handling(sent)
  BY <1>1, WorkerTyped DEF IInv
<1>3. Own(n, w) => state.pc \in {"apply", "broadcast", "publish"} /\ state.local
                     /\ state.op = worker[n][w].op
  BY <1>1, <1>2 DEF Handling, Own
<1> HIDE DEF state
<1>4. Len(wire') >= Len(wire) /\ \A i \in 1 .. Len(wire) : wire'[i] = wire[i]
  BY <1>1 DEF IInv, TypeOK
<1> QED
  BY <1>1, <1>3, <1>4, BecomeAccounted DEF treeVars

LEMMA PublishAccounted ==
  ASSUME IInv, Accounted, NEW n \in Node, NEW w \in Worker, Publish(n, w)
  PROVE  Accounted'
<1> DEFINE message == [op |-> worker[n][w].op, origin |-> n]
<1>1. /\ worker[n][w].pc = "publish" /\ Become(n, w, Idle) /\ wire' = Append(wire, message)
      /\ UNCHANGED <<treeVars, jobs, read, lost>>
  BY DEF Publish
<1>2. message \in Message(sent) /\ message.op = worker[n][w].op /\ message.origin = n
  BY <1>1, WorkerTyped DEF Message, IInv
<1> HIDE DEF message
<1>3. /\ Len(wire) \in Nat /\ Len(wire') = Len(wire) + 1
      /\ \A i \in 1 .. Len(wire) : wire'[i] = wire[i]
      /\ wire'[Len(wire) + 1] = message
  BY <1>1, <1>2, AppendItem DEF IInv, TypeOK
<1>4. ASSUME NEW op \in sent, worker[n][w].op = op, NEW m \in Node \ {n}
      PROVE  OnItsWay(m, op)'
  <2>1. Len(wire) + 1 \in 1 .. Len(wire') /\ Len(wire) + 1 > read'[m]
    BY <1>1, <1>3 DEF IInv, TypeOK
  <2>2. wire'[Len(wire) + 1].origin # m /\ wire'[Len(wire) + 1].op = op
    BY <1>2, <1>3, <1>4
  <2> QED
    BY <2>1, <2>2 DEF OnItsWay
<1> QED
  BY <1>1, <1>3, <1>4, BecomeAccounted DEF treeVars

LEMMA PublishFailsAccounted ==
  ASSUME IInv, Accounted, NEW n \in Node, NEW w \in Worker, PublishFails(n, w)
  PROVE  Accounted'
<1>1. /\ worker[n][w].pc = "publish" /\ Become(n, w, Idle)
      /\ UNCHANGED <<treeVars, jobs, wire, read>>
      /\ lost' = [m \in Node |-> IF m = n THEN lost[m] ELSE lost[m] \union {worker[n][w].op}]
  BY DEF PublishFails
<1>2. Len(wire') >= Len(wire) /\ \A i \in 1 .. Len(wire) : wire'[i] = wire[i]
  BY <1>1 DEF IInv, TypeOK
<1>3. /\ \A m \in Node : lost[m] \subseteq lost'[m]
      /\ \A m \in Node \ {n} : worker[n][w].op \in lost'[m]
  BY <1>1
<1> QED
  BY <1>1, <1>2, <1>3, BecomeAccounted DEF treeVars

(* The node that restarts has lost everything, the others what it had not  *)
(* published.                                                              *)
LEMMA RestartAccounted ==
  ASSUME IInv, Accounted, NEW n \in Node, Restart(n)
  PROVE  Accounted'
<1>1. /\ handed' = [handed EXCEPT ![n] = {}]
      /\ jobs' = [jobs EXCEPT ![n] = <<>>]
      /\ worker' = [worker EXCEPT ![n] = [w \in Worker |-> Idle]]
      /\ read' = [read EXCEPT ![n] = Len(wire)]
      /\ lost' = [m \in Node |-> IF m = n THEN sent ELSE lost[m] \union Unpublished(n)]
      /\ UNCHANGED <<sent, wire>>
  BY DEF Restart
<1>2. /\ lost'[n] = sent
      /\ \A m \in Node \ {n} :
           /\ lost[m] \subseteq lost'[m] /\ Unpublished(n) \subseteq lost'[m]
           /\ handed'[m] = handed[m] /\ jobs'[m] = jobs[m]
           /\ worker'[m] = worker[m] /\ read'[m] = read[m]
  BY <1>1 DEF IInv, TypeOK
<1> SUFFICES ASSUME NEW m \in Node, m # n, NEW op \in sent
             PROVE  op \in handed'[m] \/ op \in lost'[m] \/ OnItsWay(m, op)'
  BY <1>1, <1>2 DEF Accounted
<1>3. CASE op \in handed[m] \/ op \in lost[m]
  BY <1>2, <1>3
<1>4. CASE \/ \E k \in 1 .. Len(jobs[m]) : jobs[m][k].type = "delta" /\ jobs[m][k].op = op
           \/ \E w \in Worker : worker[m][w].pc = "apply" /\ worker[m][w].op = op
           \/ \E i \in 1 .. Len(wire) : i > read[m] /\ wire[i].origin # m /\ wire[i].op = op
  BY <1>1, <1>2, <1>4 DEF OnItsWay
<1>5. ASSUME op.id[1] # m, NEW w \in Worker, Own(op.id[1], w), worker[op.id[1]][w].op = op
      PROVE  op \in lost'[m] \/ OnItsWay(m, op)'
  <2>1. op.id[1] \in Node
    BY DEF IInv, IdsIssuedOnce
  <2>2. CASE op.id[1] = n
    <3>1. op \in Unpublished(n)
      BY <1>5, <2>2 DEF Unpublished, Own
    <3> QED
      BY <1>2, <3>1
  <2>3. CASE op.id[1] # n
    <3>1. worker'[op.id[1]] = worker[op.id[1]]
      BY <1>2, <2>1, <2>3
    <3> QED
      BY <1>5, <3>1 DEF OnItsWay, Own
  <2> QED
    BY <2>2, <2>3
<1> QED
  BY <1>3, <1>4, <1>5 DEF Accounted, OnItsWay

LEMMA NextAccounted ==
  ASSUME IInv, Accounted, [FaultyNext]_vars
  PROVE  Accounted'
<1>1. ASSUME NEW n \in Node, NEW w \in Worker, Work(n, w) \/ PublishFails(n, w)
      PROVE  Accounted'
  BY <1>1, TakeAccounted, ResolveAccounted, ApplyAccounted, BroadcastAccounted,
     PublishAccounted, PublishFailsAccounted DEF Work
<1>2. ASSUME NEW n \in Node,
             ClientIntent(n) \/ RedisDelta(n) \/ LoseMessage(n) \/ Restart(n)
      PROVE  Accounted'
  BY <1>2, SubmitAccounted, RestartAccounted
<1>3. CASE UNCHANGED vars
  BY <1>3 DEF vars, treeVars, Accounted, OnItsWay, Own
<1> QED
  BY <1>1, <1>2, <1>3 DEF FaultyNext, RestartNext, Next

(* When all is quiet, nothing is on its way any more.                      *)
LEMMA QuietSettled ==
  ASSUME IInv, Accounted, Quiet, NEW n \in Node, NEW op \in sent
  PROVE  op \in handed[n] \/ op \in lost[n]
<1>1. \A m \in Node : /\ jobs[m] = <<>> /\ read[m] = Len(wire)
                      /\ \A w \in Worker : worker[m][w].pc = "idle"
  BY DEF Quiet, Idle
<1>2. op.id[1] \in Node
  BY DEF IInv, IdsIssuedOnce
<1>3. Len(jobs[n]) = 0 /\ Len(wire) \in Nat
  BY <1>1 DEF IInv, TypeOK
<1>4. ~OnItsWay(n, op)
  BY <1>1, <1>2, <1>3 DEF OnItsWay, Own
<1> QED
  BY <1>4 DEF Accounted

(* Nodes that lack the same operations hold the same content.              *)
LEMMA SameMissingSameTree ==
  ASSUME IInv, TombstonesWereSent, restarted = {}, NEW n \in Node, NEW m \in Node,
         MissingAt(n) = MissingAt(m)
  PROVE  tree[n] = tree[m]
<1>1. \A op \in sent : Includes(tree[n], op) <=> Includes(tree[m], op)
  BY DEF MissingAt
<1>2. ASSUME NEW k \in Node, NEW l \in Node,
             \A op \in sent : Includes(tree[k], op) <=> Includes(tree[l], op)
      PROVE  Nodes(tree[k]) \subseteq Nodes(tree[l]) /\ Tombstones(tree[k]) \subseteq Tombstones(tree[l])
  <2>1. ASSUME NEW id \in Nodes(tree[k]) PROVE id \in Nodes(tree[l])
    <3>1. PICK op \in sent : op.type = "insert" /\ op.id = id
      BY DEF IInv, NodesWereSent
    <3> QED
      BY <1>2, <3>1 DEF Includes
  <2>2. ASSUME NEW id \in Tombstones(tree[k]) PROVE id \in Tombstones(tree[l])
    <3>1. PICK op \in sent : op.type = "delete" /\ op.target = id
      BY DEF TombstonesWereSent
    <3>2. op.type # "insert"
      BY <3>1
    <3> QED
      BY <1>2, <3>1, <3>2 DEF Includes
  <2> QED
    BY <2>1, <2>2
<1>3. SameContent(tree[n], tree[m])
  <2>1. Nodes(tree[n]) \subseteq Nodes(tree[m]) /\ Tombstones(tree[n]) \subseteq Tombstones(tree[m])
    BY <1>1, <1>2
  <2>2. Nodes(tree[m]) \subseteq Nodes(tree[n]) /\ Tombstones(tree[m]) \subseteq Tombstones(tree[n])
    <3>1. \A op \in sent : Includes(tree[m], op) <=> Includes(tree[n], op)
      BY <1>1
    <3> QED
      BY <1>2, <3>1
  <2> QED
    BY <2>1, <2>2 DEF SameContent
<1>4. Agree(tree[n], tree[m])
  BY IInvNoClash DEF OnlyRestartsClash, Agree
<1>5. SoundTree(tree[n]) /\ SoundTree(tree[m])
  BY DEF IInv, TypeOK
<1> QED
  BY <1>3, <1>4, <1>5, SameContentSameTree

LEMMA LossesExplain == IInv /\ Accounted /\ TombstonesWereSent => OnlyLossesDiverge
<1> SUFFICES ASSUME IInv, Accounted, TombstonesWereSent, Quiet
             PROVE  /\ \A n \in Node : MissingAt(n) \subseteq lost[n] \union Dropped(n)
                    /\ restarted = {} =>
                         \A n, m \in Node : MissingAt(n) = MissingAt(m) => tree[n] = tree[m]
  BY DEF OnlyLossesDiverge
<1>1. ASSUME NEW n \in Node, NEW op \in MissingAt(n) PROVE op \in lost[n] \union Dropped(n)
  <2>1. op \in sent /\ ~Includes(tree[n], op)
    BY <1>1 DEF MissingAt
  <2>2. op \in handed[n] \/ op \in lost[n]
    BY <2>1, QuietSettled
  <2> QED
    BY <2>1, <2>2 DEF Dropped
<1> QED
  BY <1>1, SameMissingSameTree

(* The pipeline itself loses nothing, with however many workers: when all  *)
(* is quiet, whatever a node lacks a fault has kept from it, or it was     *)
(* handed it and dropped it, and nodes that lack the same operations are   *)
(* in one state (Submit, runRedis, HandleDelta, applyInsert).              *)
THEOREM OnlyLossesSeparate == FaultySpec => []OnlyLossesDiverge
<1>1. IInv /\ Accounted /\ TombstonesWereSent /\ [FaultyNext]_vars => Accounted' /\ TombstonesWereSent'
  BY NextAccounted, TombstonesNext
<1> QED
  BY <1>1, LossesExplain, InitAccounted, InitIInv, NextIInv, PTL DEF FaultySpec

-----------------------------------------------------------------------------
(* What the clients of a node are told.  Predicates on the state of one    *)
(* node: how far it has read the wire, what it has applied (done), its     *)
(* workers (crew), its queue (todo) and its frames (told); gone are the    *)
(* nodes that have restarted.                                              *)

(* The worker is about to tell the clients of its operation.               *)
Telling(doing) == doing.pc \in {"apply", "broadcast"}

(* op has come to node n over the wire.                                    *)
Came(n, messages, upTo, op) ==
  \E i \in 1 .. upTo : messages[i].op = op /\ messages[i].origin # n

ToldOnce(n, gone, messages, upTo, done, told) ==
  /\ \A i, j \in 1 .. Len(told) : told[i] = told[j] => i = j \/ told[i].id[1] \in gone
  /\ \A i \in 1 .. Len(told) :
       told[i] \in done /\ (told[i].id[1] = n \/ Came(n, messages, upTo, told[i]))

(* What a worker is about to tell is news, and no other worker tells it.   *)
TellsNews(n, gone, messages, upTo, done, crew, told) ==
  \A w \in Worker : Telling(crew[w]) =>
    /\ crew[w].pc = "broadcast" => crew[w].op \in done
    /\ crew[w].op.id[1] = n \/ Came(n, messages, upTo, crew[w].op)
    /\ crew[w].op.id[1] \notin gone =>
         /\ \A i \in 1 .. Len(told) : told[i] # crew[w].op
         /\ \A v \in Worker : Telling(crew[v]) /\ crew[v].op = crew[w].op => v = w

(* And so is what is queued.                                               *)
QueuesNews(n, gone, messages, upTo, crew, todo, told) ==
  \A k \in 1 .. Len(todo) : todo[k].type = "delta" =>
    /\ Came(n, messages, upTo, todo[k].op)
    /\ todo[k].op.id[1] \notin gone =>
         /\ \A i \in 1 .. Len(told) : told[i] # todo[k].op
         /\ \A w \in Worker : Telling(crew[w]) => crew[w].op # todo[k].op
         /\ \A m \in 1 .. Len(todo) : todo[m].type = "delta" /\ todo[m].op = todo[k].op => m = k

HeardAt(n, gone, messages, upTo, done, crew, todo, told) ==
  /\ ToldOnce(n, gone, messages, upTo, done, told)
  /\ TellsNews(n, gone, messages, upTo, done, crew, told)
  /\ QueuesNews(n, gone, messages, upTo, crew, todo, told)

Heard ==
  \A n \in Node :
    HeardAt(n, restarted, wire, read[n], handed[n], worker[n], jobs[n], frames[n])

(* A node stays so while others go on: more on the wire, more restarts,    *)
(* more read, more applied.                                                *)
LEMMA HeardStays ==
  ASSUME NEW n, NEW gone, NEW messages, NEW upTo \in Nat, NEW done, NEW crew, NEW todo, NEW told,
         HeardAt(n, gone, messages, upTo, done, crew, todo, told),
         NEW more, gone \subseteq more, NEW wider, done \subseteq wider,
         NEW further \in Nat, upTo <= further,
         NEW longer, \A i \in 1 .. upTo : longer[i] = messages[i]
  PROVE  HeardAt(n, more, longer, further, wider, crew, todo, told)
<1>1. \A op : Came(n, messages, upTo, op) => Came(n, longer, further, op)
  BY DEF Came
<1>2. ToldOnce(n, more, longer, further, wider, told)
  BY <1>1 DEF HeardAt, ToldOnce
<1>3. TellsNews(n, more, longer, further, wider, crew, told)
  BY <1>1 DEF HeardAt, TellsNews
<1>4. QueuesNews(n, more, longer, further, crew, todo, told)
  BY <1>1 DEF HeardAt, QueuesNews
<1> QED
  BY <1>2, <1>3, <1>4 DEF HeardAt

(* A step of node n alone.                                                 *)
LEMMA OneNodeHears ==
  ASSUME TypeOK, Heard, NEW n \in Node, UNCHANGED restarted,
         Len(wire) <= Len(wire'), \A i \in 1 .. Len(wire) : wire'[i] = wire[i],
         \A m \in Node \ {n} :
           /\ read'[m] = read[m] /\ handed'[m] = handed[m] /\ worker'[m] = worker[m]
           /\ jobs'[m] = jobs[m] /\ frames'[m] = frames[m],
         HeardAt(n, restarted, wire', read'[n], handed'[n], worker'[n], jobs'[n], frames'[n])
  PROVE  Heard'
<1> SUFFICES ASSUME NEW m \in Node, m # n
             PROVE  HeardAt(m, restarted, wire', read[m], handed[m], worker[m], jobs[m], frames[m])
  BY DEF Heard
<1>1. read[m] \in Nat /\ \A i \in 1 .. read[m] : wire'[i] = wire[i]
  BY DEF TypeOK
<1>2. HeardAt(m, restarted, wire, read[m], handed[m], worker[m], jobs[m], frames[m])
  BY DEF Heard
<1> QED
  BY <1>1, <1>2, HeardStays

(* A worker lays down an operation that it has published, or has none.     *)
LEMMA QuietWorkerHears ==
  ASSUME NEW n, NEW gone, NEW messages, NEW upTo, NEW done, NEW crew, NEW todo, NEW told,
         HeardAt(n, gone, messages, upTo, done, crew, todo, told),
         NEW w \in Worker, NEW next,
         ~Telling(next[w]), \A v \in Worker \ {w} : next[v] = crew[v]
  PROVE  HeardAt(n, gone, messages, upTo, done, next, todo, told)
<1>1. \A v \in Worker : Telling(next[v]) => v # w /\ next[v] = crew[v]
  OBVIOUS
<1>2. TellsNews(n, gone, messages, upTo, done, next, told)
  BY <1>1 DEF HeardAt, TellsNews
<1>3. QueuesNews(n, gone, messages, upTo, next, todo, told)
  BY <1>1 DEF HeardAt, QueuesNews
<1> QED
  BY <1>2, <1>3 DEF HeardAt

LEMMA AddJobHears ==
  ASSUME NEW n, NEW gone, NEW messages, NEW upTo, NEW done, NEW crew, NEW told, NEW ops,
         NEW todo \in Seq(ops), NEW job \in ops,
         HeardAt(n, gone, messages, upTo, done, crew, todo, told),
         job.type = "delta" =>
           /\ Came(n, messages, upTo, job.op)
           /\ job.op.id[1] \notin gone =>
                /\ \A i \in 1 .. Len(told) : told[i] # job.op
                /\ \A w \in Worker : Telling(crew[w]) => crew[w].op # job.op
                /\ \A k \in 1 .. Len(todo) : todo[k].type = "delta" => todo[k].op # job.op
  PROVE  HeardAt(n, gone, messages, upTo, done, crew, Append(todo, job), told)
<1> DEFINE more == Append(todo, job)
<1>1. /\ Len(todo) \in Nat /\ Len(more) = Len(todo) + 1
      /\ \A k \in 1 .. Len(todo) : more[k] = todo[k]
      /\ more[Len(todo) + 1] = job
  BY AppendItem
<1> HIDE DEF more
<1>2. \A k \in 1 .. Len(more) : \/ k \in 1 .. Len(todo) /\ more[k] = todo[k]
                                \/ k = Len(todo) + 1 /\ more[k] = job
  BY <1>1
<1>3. QueuesNews(n, gone, messages, upTo, crew, more, told)
  BY <1>2 DEF HeardAt, QueuesNews
<1> QED
  BY <1>3 DEF HeardAt, more

(* A worker takes the first job.                                           *)
LEMMA TakeHears ==
  ASSUME NEW n, NEW gone, NEW messages, NEW upTo, NEW done, NEW crew, NEW told, NEW ops,
         NEW todo \in Seq(ops), todo # <<>>,
         HeardAt(n, gone, messages, upTo, done, crew, todo, told),
         NEW w \in Worker, NEW next, ~Telling(crew[w]),
         \A v \in Worker \ {w} : next[v] = crew[v],
         Telling(next[w]) => /\ Head(todo).type = "delta" /\ next[w].pc = "apply"
                             /\ next[w].op = Head(todo).op
  PROVE  HeardAt(n, gone, messages, upTo, done, next, Tail(todo), told)
<1> DEFINE rest == Tail(todo)
           job == Head(todo)
<1>1. /\ Len(todo) \in Nat /\ Len(todo) >= 1 /\ Len(rest) = Len(todo) - 1 /\ job = todo[1]
      /\ \A k \in 1 .. Len(rest) : rest[k] = todo[k + 1]
  BY TailItem
<1> HIDE DEF rest, job
<1>2. /\ 1 \in 1 .. Len(todo)
      /\ \A k \in 1 .. Len(rest) : k + 1 \in 1 .. Len(todo) /\ k + 1 # 1
      /\ \A k, m \in 1 .. Len(rest) : k + 1 = m + 1 => k = m
  BY <1>1
<1>3. Telling(next[w]) =>
        /\ Came(n, messages, upTo, next[w].op)
        /\ next[w].op.id[1] \notin gone =>
             /\ \A i \in 1 .. Len(told) : told[i] # next[w].op
             /\ \A v \in Worker : Telling(crew[v]) => crew[v].op # next[w].op
             /\ \A k \in 1 .. Len(rest) : rest[k].type = "delta" => rest[k].op # next[w].op
  BY <1>1, <1>2 DEF HeardAt, QueuesNews, job
<1>4. \A v \in Worker : Telling(next[v]) => v = w \/ (v # w /\ next[v] = crew[v])
  OBVIOUS
<1>5. TellsNews(n, gone, messages, upTo, done, next, told)
  <2> SUFFICES ASSUME NEW v \in Worker, Telling(next[v])
               PROVE  /\ next[v].pc = "broadcast" => next[v].op \in done
                      /\ next[v].op.id[1] = n \/ Came(n, messages, upTo, next[v].op)
                      /\ next[v].op.id[1] \notin gone =>
                           /\ \A i \in 1 .. Len(told) : told[i] # next[v].op
                           /\ \A u \in Worker : Telling(next[u]) /\ next[u].op = next[v].op => u = v
    BY DEF TellsNews
  <2>1. CASE v = w
    BY <1>3, <1>4, <2>1
  <2>2. CASE v # w
    BY <1>3, <1>4, <2>2 DEF HeardAt, TellsNews
  <2> QED
    BY <2>1, <2>2
<1>6. QueuesNews(n, gone, messages, upTo, next, rest, told)
  <2> SUFFICES ASSUME NEW k \in 1 .. Len(rest), rest[k].type = "delta"
               PROVE  /\ Came(n, messages, upTo, rest[k].op)
                      /\ rest[k].op.id[1] \notin gone =>
                           /\ \A i \in 1 .. Len(told) : told[i] # rest[k].op
                           /\ \A v \in Worker : Telling(next[v]) => next[v].op # rest[k].op
                           /\ \A m \in 1 .. Len(rest) :
                                rest[m].type = "delta" /\ rest[m].op = rest[k].op => m = k
    BY DEF QueuesNews
  <2>1. k + 1 \in 1 .. Len(todo) /\ todo[k + 1] = rest[k]
    BY <1>1, <1>2
  <2>2. /\ Came(n, messages, upTo, rest[k].op)
        /\ rest[k].op.id[1] \notin gone =>
             /\ \A i \in 1 .. Len(told) : told[i] # rest[k].op
             /\ \A v \in Worker : Telling(crew[v]) => crew[v].op # rest[k].op
             /\ \A m \in 1 .. Len(todo) :
                  todo[m].type = "delta" /\ todo[m].op = rest[k].op => m = k + 1
    BY <2>1 DEF HeardAt, QueuesNews
  <2>3. ASSUME rest[k].op.id[1] \notin gone, NEW m \in 1 .. Len(rest),
               rest[m].type = "delta", rest[m].op = rest[k].op
        PROVE  m = k
    BY <1>1, <1>2, <2>2, <2>3
  <2> QED
    BY <1>3, <1>4, <2>2, <2>3
<1> QED
  BY <1>5, <1>6 DEF HeardAt, rest

(* A worker turns an intent into an operation that is new.                 *)
LEMMA IssueHears ==
  ASSUME NEW n, NEW gone, NEW messages, NEW upTo \in Nat, NEW done, NEW crew, NEW todo, NEW told,
         HeardAt(n, gone, messages, upTo, done, crew, todo, told),
         NEW w \in Worker, NEW next, NEW op, NEW wider, done \subseteq wider,
         ~Telling(crew[w]), next[w].pc = "apply", next[w].op = op, op.id[1] = n,
         \A v \in Worker \ {w} : next[v] = crew[v],
         n \notin gone =>
           /\ \A i \in 1 .. Len(told) : told[i] # op
           /\ \A v \in Worker : Telling(crew[v]) => crew[v].op # op
           /\ \A k \in 1 .. Len(todo) : todo[k].type = "delta" => todo[k].op # op
  PROVE  HeardAt(n, gone, messages, upTo, wider, next, todo, told)
<1>1. \A v \in Worker : Telling(next[v]) => v = w \/ (v # w /\ next[v] = crew[v])
  OBVIOUS
<1>2. ToldOnce(n, gone, messages, upTo, wider, told)
  BY DEF HeardAt, ToldOnce
<1>3. TellsNews(n, gone, messages, upTo, wider, next, told)
  <2> SUFFICES ASSUME NEW v \in Worker, Telling(next[v])
               PROVE  /\ next[v].pc = "broadcast" => next[v].op \in wider
                      /\ next[v].op.id[1] = n \/ Came(n, messages, upTo, next[v].op)
                      /\ next[v].op.id[1] \notin gone =>
                           /\ \A i \in 1 .. Len(told) : told[i] # next[v].op
                           /\ \A u \in Worker : Telling(next[u]) /\ next[u].op = next[v].op => u = v
    BY DEF TellsNews
  <2>1. CASE v = w
    BY <1>1, <2>1
  <2>2. CASE v # w
    BY <1>1, <2>2 DEF HeardAt, TellsNews
  <2> QED
    BY <2>1, <2>2
<1>4. QueuesNews(n, gone, messages, upTo, next, todo, told)
  BY <1>1 DEF HeardAt, QueuesNews
<1> QED
  BY <1>2, <1>3, <1>4 DEF HeardAt

(* A worker applies its operation.                                         *)
LEMMA ApplyHears ==
  ASSUME NEW n, NEW gone, NEW messages, NEW upTo, NEW done, NEW crew, NEW todo, NEW told,
         HeardAt(n, gone, messages, upTo, done, crew, todo, told),
         NEW w \in Worker, NEW next, NEW wider, done \subseteq wider,
         crew[w].pc = "apply", next[w].pc = "broadcast", next[w].op = crew[w].op,
         crew[w].op \in wider,
         \A v \in Worker \ {w} : next[v] = crew[v]
  PROVE  HeardAt(n, gone, messages, upTo, wider, next, todo, told)
<1>1. \A v \in Worker : /\ Telling(next[v]) <=> Telling(crew[v])
                        /\ Telling(next[v]) => next[v].op = crew[v].op
                        /\ next[v].pc = "broadcast" => v = w \/ crew[v].pc = "broadcast"
  BY DEF Telling
<1>2. ToldOnce(n, gone, messages, upTo, wider, told)
  BY DEF HeardAt, ToldOnce
<1>3. TellsNews(n, gone, messages, upTo, wider, next, told)
  BY <1>1 DEF HeardAt, TellsNews
<1>4. QueuesNews(n, gone, messages, upTo, next, todo, told)
  BY <1>1 DEF HeardAt, QueuesNews
<1> QED
  BY <1>2, <1>3, <1>4 DEF HeardAt

(* A worker tells the clients of its operation.                            *)
LEMMA BroadcastHears ==
  ASSUME NEW n, NEW gone, NEW messages, NEW upTo, NEW done, NEW crew, NEW todo, NEW ops,
         NEW told \in Seq(ops),
         HeardAt(n, gone, messages, upTo, done, crew, todo, told),
         NEW w \in Worker, NEW next, crew[w].pc = "broadcast", crew[w].op \in ops,
         ~Telling(next[w]), \A v \in Worker \ {w} : next[v] = crew[v]
  PROVE  HeardAt(n, gone, messages, upTo, done, next, todo, Append(told, crew[w].op))
<1> DEFINE op == crew[w].op
           more == Append(told, op)
<1>1. /\ Len(told) \in Nat /\ Len(more) = Len(told) + 1
      /\ \A i \in 1 .. Len(told) : more[i] = told[i]
      /\ more[Len(told) + 1] = op
  BY AppendItem
<1> HIDE DEF more
<1>2. \A i \in 1 .. Len(more) : \/ i \in 1 .. Len(told) /\ more[i] = told[i]
                                \/ i = Len(told) + 1 /\ more[i] = op
  BY <1>1
<1>3. /\ op.id[1] = n \/ Came(n, messages, upTo, op)
      /\ op \in done
      /\ op.id[1] \notin gone =>
           /\ \A i \in 1 .. Len(told) : told[i] # op
           /\ \A v \in Worker : Telling(crew[v]) /\ crew[v].op = op => v = w
           /\ \A k \in 1 .. Len(todo) : todo[k].type = "delta" => todo[k].op # op
  BY DEF HeardAt, TellsNews, QueuesNews, Telling
<1> HIDE DEF op
<1>4. \A v \in Worker : Telling(next[v]) => v # w /\ next[v] = crew[v] /\ Telling(crew[v])
  OBVIOUS
<1>5. ToldOnce(n, gone, messages, upTo, done, more)
  <2>1. ToldOnce(n, gone, messages, upTo, done, told)
    BY DEF HeardAt
  <2>2. \A i, j \in 1 .. Len(more) : more[i] = more[j] => i = j \/ more[i].id[1] \in gone
    BY <1>2, <1>3, <2>1 DEF ToldOnce
  <2>3. \A i \in 1 .. Len(more) :
          more[i] \in done /\ (more[i].id[1] = n \/ Came(n, messages, upTo, more[i]))
    BY <1>2, <1>3, <2>1 DEF ToldOnce
  <2> QED
    BY <2>2, <2>3 DEF ToldOnce
<1>6. TellsNews(n, gone, messages, upTo, done, next, more)
  <2> SUFFICES ASSUME NEW v \in Worker, Telling(next[v])
               PROVE  /\ next[v].pc = "broadcast" => next[v].op \in done
                      /\ next[v].op.id[1] = n \/ Came(n, messages, upTo, next[v].op)
                      /\ next[v].op.id[1] \notin gone =>
                           /\ \A i \in 1 .. Len(more) : more[i] # next[v].op
                           /\ \A u \in Worker : Telling(next[u]) /\ next[u].op = next[v].op => u = v
    BY DEF TellsNews
  <2>1. v # w /\ next[v] = crew[v] /\ Telling(crew[v])
    BY <1>4
  <2>2. crew[v].op.id[1] \notin gone => crew[v].op # op
    BY <1>3, <2>1
  <2> QED
    BY <1>2, <1>4, <2>1, <2>2 DEF HeardAt, TellsNews
<1>7. QueuesNews(n, gone, messages, upTo, next, todo, more)
  <2> SUFFICES ASSUME NEW k \in 1 .. Len(todo), todo[k].type = "delta"
               PROVE  /\ Came(n, messages, upTo, todo[k].op)
                      /\ todo[k].op.id[1] \notin gone =>
                           /\ \A i \in 1 .. Len(more) : more[i] # todo[k].op
                           /\ \A v \in Worker : Telling(next[v]) => next[v].op # todo[k].op
                           /\ \A m \in 1 .. Len(todo) :
                                todo[m].type = "delta" /\ todo[m].op = todo[k].op => m = k
    BY DEF QueuesNews
  <2>1. todo[k].op.id[1] \notin gone => todo[k].op # op
    BY <1>3
  <2> QED
    BY <1>2, <1>4, <2>1 DEF HeardAt, QueuesNews
<1> QED
  BY <1>5, <1>6, <1>7 DEF HeardAt, more, op

-----------------------------------------------------------------------------
(* The steps of the cluster keep Heard.                                    *)

LEMMA InitHeard == Init => Heard
<1> SUFFICES ASSUME Init, NEW n \in Node
             PROVE  HeardAt(n, {}, <<>>, 0, {}, [w \in Worker |-> Idle], <<>>, <<>>)
  BY DEF Init, Heard
<1>1. \A w \in Worker : ~Telling([v \in Worker |-> Idle][w])
  BY DEF Telling, Idle
<1> QED
  BY <1>1 DEF HeardAt, ToldOnce, TellsNews, QueuesNews

LEMMA TellingTyped ==
  ASSUME TypeOK, NEW n \in Node, NEW w \in Worker, Telling(worker[n][w])
  PROVE  worker[n][w].op \in sent /\ worker[n][w].op \in Operation
BY WorkerTyped DEF Telling, TypeOK

LEMMA ClientIntentHeard ==
  ASSUME IInv, Heard, NEW n \in Node, ClientIntent(n)
  PROVE  Heard'
<1>1. UNCHANGED <<treeVars, worker, wire, read, frames, restarted>>
  BY DEF ClientIntent
<1>2. PICK job \in Intent : Submit(n, job)
  <2>1. PICK pos \in 0 .. MaxIntents :
          \/ \E char \in Char :
               Submit(n, [type |-> "insert_intent", pos |-> pos, char |-> char])
          \/ Submit(n, [type |-> "delete_intent", pos |-> pos])
    BY DEF ClientIntent
  <2>2. pos \in Nat
    BY ClusterAssumption
  <2> QED
    BY <2>1, <2>2 DEF Intent
<1>3. job \in Job(sent) /\ job.type # "delta" /\ jobs[n] \in Seq(Job(sent))
  BY DEF IInv, TypeOK, Job, Intent
<1>4. jobs'[n] = Append(jobs[n], job) /\ \A m \in Node \ {n} : jobs'[m] = jobs[m]
  BY <1>2 DEF Submit, IInv, TypeOK
<1>5. HeardAt(n, restarted, wire, read[n], handed[n], worker[n], jobs[n], frames[n])
  BY DEF Heard
<1>6. HeardAt(n, restarted, wire, read[n], handed[n], worker[n], Append(jobs[n], job), frames[n])
  BY <1>3, <1>5, AddJobHears
<1>7. Len(wire) <= Len(wire') /\ \A i \in 1 .. Len(wire) : wire'[i] = wire[i]
  BY <1>1 DEF IInv, TypeOK
<1> QED
  BY <1>1, <1>4, <1>6, <1>7, OneNodeHears DEF IInv, treeVars

(* A message that is new on the wire is news to the node it reaches.       *)
LEMMA RedisDeltaHeard ==
  ASSUME IInv, Heard, NEW n \in Node, RedisDelta(n) \/ LoseMessage(n)
  PROVE  Heard'
<1> DEFINE op == wire[read[n] + 1].op
           job == [type |-> "delta", op |-> op]
<1>1. /\ read[n] < Len(wire) /\ read' = [read EXCEPT ![n] = @ + 1]
      /\ UNCHANGED <<treeVars, worker, wire, frames, restarted>>
      /\ UNCHANGED jobs \/ (wire[read[n] + 1].origin # n /\ Submit(n, job))
  BY DEF RedisDelta, LoseMessage
<1>2. TypeOK /\ NoEchoLoop /\ OwnIsNew
  BY DEF IInv
<1>3. /\ read[n] \in Nat /\ read'[n] = read[n] + 1 /\ \A m \in Node \ {n} : read'[m] = read[m]
      /\ Len(wire) \in Nat /\ read[n] + 1 \in 1 .. Len(wire)
  BY <1>1, <1>2 DEF TypeOK
<1>4. HeardAt(n, restarted, wire, read[n], handed[n], worker[n], jobs[n], frames[n])
  BY DEF Heard
<1>5. HeardAt(n, restarted, wire, read'[n], handed[n], worker[n], jobs[n], frames[n])
  BY <1>3, <1>4, HeardStays
<1>6. Len(wire) <= Len(wire') /\ \A i \in 1 .. Len(wire) : wire'[i] = wire[i]
  BY <1>1, <1>3
<1>7. CASE UNCHANGED jobs
  <2>1. HeardAt(n, restarted, wire', read'[n], handed'[n], worker'[n], jobs'[n], frames'[n])
    BY <1>1, <1>5, <1>7 DEF treeVars
  <2> QED
    BY <1>1, <1>2, <1>3, <1>6, <1>7, <2>1, OneNodeHears DEF treeVars
<1>8. CASE wire[read[n] + 1].origin # n /\ Submit(n, job)
  <2>1. op \in sent
    BY <1>2, <1>3, WireTyped
  <2>2. op.id[1] # n /\ op.id[1] = wire[read[n] + 1].origin
    BY <1>2, <1>3, <1>8 DEF NoEchoLoop
  <2>3. Came(n, wire, read'[n], op)
    <3>1. read[n] + 1 \in 1 .. read'[n]
      BY <1>3
    <3> QED
      BY <1>8, <3>1 DEF Came
  <2>4. op.id[1] \notin restarted => ~Came(n, wire, read[n], op)
    <3> SUFFICES ASSUME op.id[1] \notin restarted, NEW i \in 1 .. read[n], wire[i].op = op
                 PROVE  FALSE
      BY DEF Came
    <3>1. i \in 1 .. Len(wire) /\ i # read[n] + 1
      BY <1>3
    <3> QED
      BY <1>2, <1>3, <2>2, <3>1 DEF NoEchoLoop
  <2>5. op.id[1] \notin restarted =>
          /\ \A i \in 1 .. Len(frames[n]) : frames[n][i] # op
          /\ \A w \in Worker : Telling(worker[n][w]) => worker[n][w].op # op
          /\ \A k \in 1 .. Len(jobs[n]) : jobs[n][k].type = "delta" => jobs[n][k].op # op
    BY <1>4, <2>2, <2>4 DEF HeardAt, ToldOnce, TellsNews, QueuesNews
  <2>6. job \in Job(sent) /\ job.op = op /\ jobs[n] \in Seq(Job(sent))
    BY <1>2, <2>1 DEF Job, TypeOK
  <2>7. jobs'[n] = Append(jobs[n], job) /\ \A m \in Node \ {n} : jobs'[m] = jobs[m]
    BY <1>2, <1>8 DEF Submit, TypeOK
  <2> HIDE DEF job, op
  <2>8. HeardAt(n, restarted, wire, read'[n], handed[n], worker[n], Append(jobs[n], job), frames[n])
    BY <1>5, <2>3, <2>5, <2>6, AddJobHears
  <2>9. HeardAt(n, restarted, wire', read'[n], handed'[n], worker'[n], jobs'[n], frames'[n])
    BY <1>1, <2>7, <2>8 DEF treeVars
  <2> QED
    BY <1>1, <1>2, <1>3, <1>6, <2>7, <2>9, OneNodeHears DEF treeVars
<1> QED
  BY <1>1, <1>7, <1>8

(* What a step of worker w of node n leaves of the other workers.          *)
LEMMA CrewAfter ==
  ASSUME TypeOK, NEW n \in Node, NEW w \in Worker, NEW state, Become(n, w, state)
  PROVE  /\ worker'[n][w] = state
         /\ \A v \in Worker \ {w} : worker'[n][v] = worker[n][v]
         /\ \A m \in Node \ {n} : worker'[m] = worker[m]
<1>1. worker \in [Node -> [Worker -> WorkerState(sent)]]
  BY DEF TypeOK
<1>2. worker'[n] = [worker[n] EXCEPT ![w] = state] /\ \A m \in Node \ {n} : worker'[m] = worker[m]
  BY <1>1 DEF Become
<1> QED
  BY <1>1, <1>2

LEMMA TakeHeard ==
  ASSUME IInv, Heard, NEW n \in Node, NEW w \in Worker, Take(n, w)
  PROVE  Heard'
<1> DEFINE job == Head(jobs[n])
           state == IF job.type = "delta"
                    THEN [pc |-> "apply", op |-> job.op, local |-> FALSE]
                    ELSE [pc |-> "resolve", intent |-> job]
<1>1. /\ worker[n][w] = Idle /\ jobs[n] # <<>> /\ Become(n, w, state)
      /\ jobs' = [jobs EXCEPT ![n] = Tail(@)]
      /\ UNCHANGED <<treeVars, wire, read, frames, restarted>>
  BY DEF Take
<1>2. Telling(state) => job.type = "delta" /\ state.pc = "apply" /\ state.op = job.op
  BY DEF Telling
<1> HIDE DEF state
<1>3. TypeOK /\ ~Telling(worker[n][w])
  BY <1>1 DEF IInv, Telling, Idle
<1>4. /\ worker'[n][w] = state
      /\ \A v \in Worker \ {w} : worker'[n][v] = worker[n][v]
      /\ \A m \in Node \ {n} : worker'[m] = worker[m]
  BY <1>1, <1>3, CrewAfter
<1>5. /\ jobs[n] \in Seq(Job(sent)) /\ jobs'[n] = Tail(jobs[n])
      /\ \A m \in Node \ {n} : jobs'[m] = jobs[m]
  BY <1>1, <1>3 DEF TypeOK
<1>6. HeardAt(n, restarted, wire, read[n], handed[n], worker[n], jobs[n], frames[n])
  BY DEF Heard
<1>7. HeardAt(n, restarted, wire, read[n], handed[n], worker'[n], Tail(jobs[n]), frames[n])
  BY <1>1, <1>2, <1>3, <1>4, <1>5, <1>6, TakeHears
<1>8. Len(wire) <= Len(wire') /\ \A i \in 1 .. Len(wire) : wire'[i] = wire[i]
  BY <1>1, <1>3 DEF TypeOK
<1> QED
  BY <1>1, <1>3, <1>4, <1>5, <1>7, <1>8, OneNodeHears DEF treeVars

LEMMA ResolveHeard ==
  ASSUME IInv, Heard, NEW n \in Node, NEW w \in Worker, ResolveIntent(n, w)
  PROVE  Heard'
<1>1. /\ worker[n][w].pc = "resolve"
      /\ UNCHANGED <<jobs, wire, read, frames, restarted>>
  BY DEF ResolveIntent
<1>2. TypeOK /\ IdsIssuedOnce /\ ~Telling(worker[n][w])
  BY <1>1 DEF IInv, Telling
<1>3. HeardAt(n, restarted, wire, read[n], handed[n], worker[n], jobs[n], frames[n])
  BY DEF Heard
<1>4. Len(wire) <= Len(wire') /\ \A i \in 1 .. Len(wire) : wire'[i] = wire[i]
  BY <1>1, <1>2 DEF TypeOK
<1>5. CASE Become(n, w, Idle) /\ UNCHANGED treeVars
  <2>1. ~Telling(Idle)
    BY DEF Telling, Idle
  <2>2. /\ worker'[n][w] = Idle
        /\ \A v \in Worker \ {w} : worker'[n][v] = worker[n][v]
        /\ \A m \in Node \ {n} : worker'[m] = worker[m]
    BY <1>2, <1>5, CrewAfter
  <2>3. HeardAt(n, restarted, wire, read[n], handed[n], worker'[n], jobs[n], frames[n])
    BY <1>3, <2>1, <2>2, QuietWorkerHears
  <2> QED
    BY <1>1, <1>2, <1>4, <1>5, <2>2, <2>3, OneNodeHears DEF treeVars
<1>6. ASSUME NEW op \in Resolution(n, worker[n][w].intent),
             handed' = [handed EXCEPT ![n] = @ \union {op}],
             Become(n, w, [pc |-> "apply", op |-> op, local |-> TRUE])
      PROVE  Heard'
  <2> DEFINE state == [pc |-> "apply", op |-> op, local |-> TRUE]
  <2>1. op.id = nextID(n) /\ op.id[1] = n
    <3>1. worker[n][w].intent \in Intent
      BY <1>1, <1>2, WorkerTyped
    <3> QED
      BY <1>2, <3>1, ResolutionIsGood DEF nextID
  <2>2. n \notin restarted => \A o \in sent : o # op
    BY <1>2, <2>1, NewIdIsFresh
  <2>3. n \notin restarted =>
          /\ \A i \in 1 .. Len(frames[n]) : frames[n][i] # op
          /\ \A v \in Worker : Telling(worker[n][v]) => worker[n][v].op # op
          /\ \A k \in 1 .. Len(jobs[n]) : jobs[n][k].type = "delta" => jobs[n][k].op # op
    <3>1. \A i \in 1 .. Len(frames[n]) : frames[n][i] \in sent
      <4>1. frames[n] \in Seq(sent)
        BY <1>2 DEF TypeOK
      <4> QED
        BY <4>1, ElementOfSeq
    <3>2. \A v \in Worker : Telling(worker[n][v]) => worker[n][v].op \in sent
      BY <1>2, TellingTyped
    <3>3. \A k \in 1 .. Len(jobs[n]) : jobs[n][k].type = "delta" => jobs[n][k].op \in sent
      <4>1. jobs[n] \in Seq(Job(sent))
        BY <1>2 DEF TypeOK
      <4>2. \A k \in 1 .. Len(jobs[n]) : jobs[n][k] \in Job(sent)
        BY <4>1, ElementOfSeq
      <4> QED
        BY <4>2 DEF Job, Intent
    <3> QED
      BY <2>2, <3>1, <3>2, <3>3
  <2>4. /\ worker'[n][w] = state
        /\ \A v \in Worker \ {w} : worker'[n][v] = worker[n][v]
        /\ \A m \in Node \ {n} : worker'[m] = worker[m]
    BY <1>2, <1>6, CrewAfter
  <2>5. state.pc = "apply" /\ state.op = op
    OBVIOUS
  <2> HIDE DEF state
  <2>6. /\ handed'[n] = handed[n] \union {op}
        /\ \A m \in Node \ {n} : handed'[m] = handed[m]
    BY <1>2, <1>6 DEF TypeOK
  <2>7. worker'[n][w].pc = "apply" /\ worker'[n][w].op = op /\ read[n] \in Nat
        /\ handed[n] \subseteq handed'[n]
    BY <1>2, <2>4, <2>5, <2>6 DEF TypeOK
  <2>8. HeardAt(n, restarted, wire, read[n], handed'[n], worker'[n], jobs[n], frames[n])
    BY <1>2, <1>3, <2>1, <2>3, <2>4, <2>7, IssueHears
  <2> QED
    BY <1>1, <1>2, <1>4, <2>4, <2>6, <2>8, OneNodeHears
<1> QED
  BY <1>5, <1>6 DEF ResolveIntent

LEMMA ApplyHeard ==
  ASSUME IInv, Heard, NEW n \in Node, NEW w \in Worker, Apply(n, w)
  PROVE  Heard'
<1> DEFINE op == worker[n][w].op
           state == [worker[n][w] EXCEPT !.pc = "broadcast"]
<1>1. /\ worker[n][w].pc = "apply" /\ Become(n, w, state)
      /\ handed' = [handed EXCEPT ![n] = @ \union {op}]
      /\ UNCHANGED <<jobs, wire, read, frames, restarted>>
  BY DEF Apply
<1>2. TypeOK /\ worker[n][w] \in Handling(sent)
  BY <1>1, WorkerTyped DEF IInv
<1>3. state.pc = "broadcast" /\ state.op = op
  BY <1>2 DEF Handling
<1> HIDE DEF state, op
<1>4. /\ worker'[n][w] = state
      /\ \A v \in Worker \ {w} : worker'[n][v] = worker[n][v]
      /\ \A m \in Node \ {n} : worker'[m] = worker[m]
  BY <1>1, <1>2, CrewAfter
<1>5. /\ handed'[n] = handed[n] \union {op}
      /\ \A m \in Node \ {n} : handed'[m] = handed[m]
  BY <1>1, <1>2 DEF TypeOK
<1>6. HeardAt(n, restarted, wire, read[n], handed[n], worker[n], jobs[n], frames[n])
  BY DEF Heard
<1>7. /\ worker'[n][w].pc = "broadcast" /\ worker'[n][w].op = worker[n][w].op
      /\ worker[n][w].op \in handed'[n] /\ handed[n] \subseteq handed'[n]
  BY <1>3, <1>4, <1>5 DEF op
<1>8. HeardAt(n, restarted, wire, read[n], handed'[n], worker'[n], jobs[n], frames[n])
  BY <1>1, <1>4, <1>6, <1>7, ApplyHears
<1>9. Len(wire) <= Len(wire') /\ \A i \in 1 .. Len(wire) : wire'[i] = wire[i]
  BY <1>1, <1>2 DEF TypeOK
<1> QED
  BY <1>1, <1>2, <1>4, <1>5, <1>8, <1>9, OneNodeHears

LEMMA BroadcastHeard ==
  ASSUME IInv, Heard, NEW n \in Node, NEW w \in Worker, Broadcast(n, w)
  PROVE  Heard'
<1> DEFINE state == IF worker[n][w].local
                    THEN [worker[n][w] EXCEPT !.pc = "publish"]
                    ELSE Idle
<1>1. /\ worker[n][w].pc = "broadcast" /\ Become(n, w, state)
      /\ frames' = [frames EXCEPT ![n] = Append(@, worker[n][w].op)]
      /\ UNCHANGED <<treeVars, jobs, wire, read, restarted>>
  BY DEF Broadcast
<1>2. TypeOK /\ worker[n][w] \in Handling(sent) /\ worker[n][w].op \in sent
  BY <1>1, WorkerTyped DEF IInv
<1>3. ~Telling(state)
  BY <1>2 DEF Handling, Telling, Idle
<1> HIDE DEF state
<1>4. /\ worker'[n][w] = state
      /\ \A v \in Worker \ {w} : worker'[n][v] = worker[n][v]
      /\ \A m \in Node \ {n} : worker'[m] = worker[m]
  BY <1>1, <1>2, CrewAfter
<1>5. /\ frames[n] \in Seq(sent) /\ frames'[n] = Append(frames[n], worker[n][w].op)
      /\ \A m \in Node \ {n} : frames'[m] = frames[m]
  BY <1>1, <1>2 DEF TypeOK
<1>6. HeardAt(n, restarted, wire, read[n], handed[n], worker[n], jobs[n], frames[n])
  BY DEF Heard
<1>7. HeardAt(n, restarted, wire, read[n], handed[n], worker'[n], jobs[n],
              Append(frames[n], worker[n][w].op))
  BY <1>1, <1>2, <1>3, <1>4, <1>5, <1>6, BroadcastHears
<1>8. Len(wire) <= Len(wire') /\ \A i \in 1 .. Len(wire) : wire'[i] = wire[i]
  BY <1>1, <1>2 DEF TypeOK
<1> QED
  BY <1>1, <1>2, <1>4, <1>5, <1>7, <1>8, OneNodeHears DEF treeVars

LEMMA PublishHeard ==
  ASSUME IInv, Heard, NEW n \in Node, NEW w \in Worker, Publish(n, w) \/ PublishFails(n, w)
  PROVE  Heard'
<1>1. /\ worker[n][w].pc = "publish" /\ Become(n, w, Idle)
      /\ UNCHANGED <<treeVars, jobs, read, frames, restarted>>
      /\ UNCHANGED wire \/ wire' = Append(wire, [op |-> worker[n][w].op, origin |-> n])
  BY DEF Publish, PublishFails
<1>2. TypeOK /\ worker[n][w].op \in sent
  BY <1>1, WorkerTyped DEF IInv
<1>3. /\ worker'[n][w] = Idle
      /\ \A v \in Worker \ {w} : worker'[n][v] = worker[n][v]
      /\ \A m \in Node \ {n} : worker'[m] = worker[m]
  BY <1>1, <1>2, CrewAfter
<1>4. Len(wire) <= Len(wire') /\ \A i \in 1 .. Len(wire) : wire'[i] = wire[i]
  <2>1. wire \in Seq(Message(sent)) /\ [op |-> worker[n][w].op, origin |-> n] \in Message(sent)
    BY <1>2 DEF TypeOK, Message
  <2> QED
    BY <1>1, <2>1, AppendItem
<1>5. HeardAt(n, restarted, wire, read[n], handed[n], worker[n], jobs[n], frames[n])
  BY DEF Heard
<1>6. ~Telling(Idle)
  BY DEF Telling, Idle
<1>7. HeardAt(n, restarted, wire, read[n], handed[n], worker'[n], jobs[n], frames[n])
  BY <1>3, <1>5, <1>6, QuietWorkerHears
<1>8. read[n] \in Nat /\ \A i \in 1 .. read[n] : wire'[i] = wire[i]
  BY <1>2, <1>4 DEF TypeOK
<1>9. HeardAt(n, restarted, wire', read[n], handed[n], worker'[n], jobs[n], frames[n])
  BY <1>7, <1>8, HeardStays
<1> QED
  BY <1>1, <1>2, <1>3, <1>4, <1>9, OneNodeHears DEF treeVars

LEMMA RestartHeard ==
  ASSUME IInv, Heard, NEW n \in Node, Restart(n)
  PROVE  Heard'
<1>1. /\ restarted' = restarted \union {n}
      /\ handed' = [handed EXCEPT ![n] = {}]
      /\ jobs' = [jobs EXCEPT ![n] = <<>>]
      /\ worker' = [worker EXCEPT ![n] = [w \in Worker |-> Idle]]
      /\ read' = [read EXCEPT ![n] = Len(wire)]
      /\ frames' = [frames EXCEPT ![n] = <<>>]
      /\ UNCHANGED wire
  BY DEF Restart
<1> SUFFICES ASSUME NEW m \in Node
             PROVE  HeardAt(m, restarted', wire, read'[m], handed'[m], worker'[m], jobs'[m], frames'[m])
  BY <1>1 DEF Heard
<1>2. CASE m = n
  <2>1. /\ Len(jobs'[m]) = 0 /\ Len(frames'[m]) = 0
        /\ \A w \in Worker : ~Telling(worker'[m][w])
    BY <1>1, <1>2 DEF IInv, TypeOK, Telling, Idle
  <2> QED
    BY <2>1 DEF HeardAt, ToldOnce, TellsNews, QueuesNews
<1>3. CASE m # n
  <2>1. /\ read'[m] = read[m] /\ handed'[m] = handed[m] /\ worker'[m] = worker[m]
        /\ jobs'[m] = jobs[m] /\ frames'[m] = frames[m]
        /\ read[m] \in Nat /\ restarted \subseteq restarted'
    BY <1>1, <1>3 DEF IInv, TypeOK
  <2>2. HeardAt(m, restarted, wire, read[m], handed[m], worker[m], jobs[m], frames[m])
    BY DEF Heard
  <2> QED
    BY <2>1, <2>2, HeardStays
<1> QED
  BY <1>2, <1>3

LEMMA NextHeard ==
  ASSUME IInv, Heard, [FaultyNext]_vars
  PROVE  Heard'
<1>1. ASSUME NEW n \in Node, NEW w \in Worker, Work(n, w) \/ PublishFails(n, w)
      PROVE  Heard'
  BY <1>1, TakeHeard, ResolveHeard, ApplyHeard, BroadcastHeard, PublishHeard DEF Work
<1>2. ASSUME NEW n \in Node,
             ClientIntent(n) \/ RedisDelta(n) \/ LoseMessage(n) \/ Restart(n)
      PROVE  Heard'
  BY <1>2, ClientIntentHeard, RedisDeltaHeard, RestartHeard
<1>3. CASE UNCHANGED vars
  BY <1>3 DEF vars, treeVars, Heard
<1> QED
  BY <1>1, <1>2, <1>3 DEF FaultyNext, RestartNext, Next

(* Whatever is lost and however many workers a node has, its clients are   *)
(* told of an operation at most once, by one worker, and not before the    *)
(* node has applied it (HandleDelta, runRedis).                            *)
THEOREM ClientsHearOnce == FaultySpec => []FramesAreNews
<1>1. Heard => FramesAreNews
  BY DEF Heard, HeardAt, ToldOnce, FramesAreNews
<1>2. IInv /\ Heard /\ [FaultyNext]_vars => Heard'
  BY NextHeard
<1> QED
  BY <1>1, <1>2, InitHeard, InitIInv, NextIInv, PTL DEF FaultySpec
=============================================================================
