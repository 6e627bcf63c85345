----------------------- MODULE SyncClusterOrderProofs -----------------------
(***************************************************************************)
(* What SyncCluster promises when no fault keeps anything from a node      *)
(* (Spec), however many workers a node has: as long as no operation is     *)
(* dropped for want of what it refers to, the nodes are replicas with      *)
(* causal delivery, in one state when all is quiet.  And nothing is        *)
(* dropped as long as the workers of a node handle one job at a time: it   *)
(* is their overtaking each other that drops operations.  For every set    *)
(* of nodes and workers, every queue and every number of intents.          *)
(***************************************************************************)
EXTENDS SyncClusterProofs

(* No worker of a node starts on a job before the others are done.         *)
OneAtATime ==
  \A n \in Node : \A w, v \in Worker :
    worker[n][w] # Idle /\ worker[n][v] # Idle => w = v

(* Nothing has kept an operation from a node.                              *)
NoFaults == restarted = {} /\ \A n \in Node : lost[n] = {}

-----------------------------------------------------------------------------
(* The inductive invariant.  Its parts are predicates on the state of one  *)
(* node n: what it has applied (done), its one busy worker (doing), its    *)
(* queue (todo) and how far it has read the wire.                          *)

(* The node that op hangs from or marks.                                   *)
Ref(op) == IF op.type = "insert" THEN op.parent ELSE op.target

(* One of the first k messages brings what op refers to.                   *)
Grounded(messages, k, op) ==
  \/ Ref(op) = rootSentinelID
  \/ \E j \in 1 .. k : messages[j].op.type = "insert" /\ messages[j].op.id = Ref(op)

(* The wire is a causal order.                                             *)
WireIsCausal(messages) ==
  \A i \in 1 .. Len(messages) : Grounded(messages, i - 1, messages[i].op)

Inserted(done) == {op.id : op \in {o \in done : o.type = "insert"}}

Deleted(done) == {op.target : op \in {o \in done : o.type = "delete"}}

(* A tree shows exactly what has been applied to it.                       *)
Shown(t, done) ==
  /\ Nodes(t) = Inserted(done) /\ Tombstones(t) = Deleted(done)
  /\ \A op \in done : Refers(t, op)

Local(doing) == doing.pc \in {"apply", "broadcast", "publish"} /\ doing.local

Remote(doing) == doing.pc \in {"apply", "broadcast"} /\ ~doing.local

(* What a node has applied is on the wire, what it does itself excepted.   *)
AppliedIsOut(n, messages, done, doing) ==
  /\ \A op \in done :
       (\E i \in 1 .. Len(messages) : messages[i].op = op) \/ (Local(doing) /\ doing.op = op)
  /\ \A i \in 1 .. Len(messages) : messages[i].origin = n => messages[i].op \in done
  /\ Local(doing) => doing.op \in done /\ Grounded(messages, Len(messages), doing.op)
  /\ doing.pc = "broadcast" => doing.op \in done

(* op has been applied, or is about to be before what follows job k.       *)
Coming(done, doing, todo, k, op) ==
  \/ op \in done
  \/ doing.pc = "apply" /\ ~doing.local /\ doing.op = op
  \/ \E m \in 1 .. k : todo[m].type = "delta" /\ todo[m].op = op

(* What has been read is on its way to the tree, in the order of the wire. *)
InWireOrder(n, messages, upTo, done, doing, todo) ==
  /\ \A i \in 1 .. upTo : Coming(done, doing, todo, Len(todo), messages[i].op)
  /\ Remote(doing) =>
       \E i \in 1 .. upTo : /\ messages[i].op = doing.op /\ messages[i].origin # n
                            /\ \A j \in 1 .. i - 1 : messages[j].op \in done
  /\ \A k \in 1 .. Len(todo) : todo[k].type = "delta" =>
       \E i \in 1 .. upTo : /\ messages[i].op = todo[k].op /\ messages[i].origin # n
                            /\ \A j \in 1 .. i - 1 :
                                 Coming(done, doing, todo, k - 1, messages[j].op)

Orderly(n, messages, upTo, done, doing, todo) ==
  /\ AppliedIsOut(n, messages, done, doing)
  /\ InWireOrder(n, messages, upTo, done, doing, todo)

(* Nobody but w works.                                                     *)
Alone(crew, w) == \A v \in Worker \ {w} : crew[v] = Idle

(* What Spec adds to IInv when workers handle one job at a time.           *)
OInv ==
  /\ restarted = {}
  /\ WireIsCausal(wire)
  /\ \A n \in Node : Shown(tree[n], handed[n])
  /\ \A n \in Node, w \in Worker : Alone(worker[n], w) =>
       Orderly(n, wire, read[n], handed[n], worker[n][w], jobs[n])

-----------------------------------------------------------------------------
(* The steps of one node, as facts about its state.                        *)

NodeTyped(ops, messages, upTo, done, doing, todo) ==
  /\ messages \in Seq(Message(ops)) /\ upTo \in Nat /\ upTo <= Len(messages)
  /\ done \subseteq ops
  /\ doing \in WorkerState(ops)
  /\ todo \in Seq(Job(ops))

LEMMA Lengths ==
  ASSUME NEW ops, NEW messages, NEW upTo, NEW done, NEW doing, NEW todo,
         NodeTyped(ops, messages, upTo, done, doing, todo)
  PROVE  /\ Len(messages) \in Nat /\ Len(todo) \in Nat /\ upTo \in Nat
         /\ \A i \in 1 .. upTo : i \in 1 .. Len(messages)
         /\ \A i \in 1 .. Len(messages) : messages[i].op \in ops
         /\ \A k \in 1 .. Len(todo) : todo[k].type = "delta" => todo[k].op \in ops
         /\ doing.pc \in {"apply", "broadcast", "publish"} => doing.op \in ops
<1>1. Len(messages) \in Nat /\ Len(todo) \in Nat /\ upTo \in Nat
  BY DEF NodeTyped
<1>2. \A i \in 1 .. upTo : i \in 1 .. Len(messages)
  BY <1>1 DEF NodeTyped
<1>3. \A i \in 1 .. Len(messages) : messages[i].op \in ops
  <2> TAKE i \in 1 .. Len(messages)
  <2>1. messages[i] \in Message(ops)
    BY ElementOfSeq DEF NodeTyped
  <2> QED
    BY <2>1 DEF Message
<1>4. \A k \in 1 .. Len(todo) : todo[k].type = "delta" => todo[k].op \in ops
  <2> TAKE k \in 1 .. Len(todo)
  <2>1. todo[k] \in Job(ops)
    BY ElementOfSeq DEF NodeTyped
  <2> QED
    BY <2>1 DEF Job, Intent
<1>5. doing.pc \in {"apply", "broadcast", "publish"} => doing.op \in ops
  BY StateCases DEF NodeTyped
<1> QED
  BY <1>1, <1>2, <1>3, <1>4, <1>5

(* A new job does not disturb what is before it.                           *)
LEMMA ComingBefore ==
  ASSUME NEW ops, NEW todo \in Seq(Job(ops)), NEW job \in Job(ops), NEW k \in 0 .. Len(todo),
         NEW done, NEW doing, NEW op
  PROVE  Coming(done, doing, Append(todo, job), k, op) <=> Coming(done, doing, todo, k, op)
<1>1. Len(todo) \in Nat /\ \A m \in 1 .. k : m \in 1 .. Len(todo) /\ Append(todo, job)[m] = todo[m]
  BY AppendItem
<1> QED
  BY <1>1 DEF Coming

LEMMA AddIntentOrderly ==
  ASSUME NEW ops, NEW n, NEW messages, NEW upTo, NEW done, NEW doing, NEW todo,
         NodeTyped(ops, messages, upTo, done, doing, todo),
         Orderly(n, messages, upTo, done, doing, todo),
         NEW job \in Intent
  PROVE  Orderly(n, messages, upTo, done, doing, Append(todo, job))
<1> DEFINE more == Append(todo, job)
<1>1. /\ Len(todo) \in Nat /\ Len(more) = Len(todo) + 1
      /\ \A k \in 1 .. Len(todo) : more[k] = todo[k]
      /\ more[Len(todo) + 1] = job
      /\ todo \in Seq(Job(ops)) /\ job \in Job(ops) /\ job.type # "delta"
  BY AppendItem DEF NodeTyped, Job, Intent
<1>2. \A op : \A k \in 0 .. Len(todo) :
        Coming(done, doing, more, k, op) <=> Coming(done, doing, todo, k, op)
  BY <1>1, ComingBefore
<1>3. \A op : Coming(done, doing, todo, Len(todo), op) => Coming(done, doing, more, Len(more), op)
  BY <1>1 DEF Coming
<1> HIDE DEF more
<1>4. \A k \in 1 .. Len(more) : more[k].type = "delta" => k \in 1 .. Len(todo) /\ more[k] = todo[k]
  BY <1>1
<1>5. InWireOrder(n, messages, upTo, done, doing, more)
  <2>1. ASSUME NEW k \in 1 .. Len(more), more[k].type = "delta"
        PROVE  \E i \in 1 .. upTo : /\ messages[i].op = more[k].op /\ messages[i].origin # n
                                    /\ \A j \in 1 .. i - 1 :
                                         Coming(done, doing, more, k - 1, messages[j].op)
    <3>1. k \in 1 .. Len(todo) /\ more[k] = todo[k] /\ k - 1 \in 0 .. Len(todo)
      BY <1>1, <1>4, <2>1
    <3> QED
      BY <1>2, <2>1, <3>1 DEF Orderly, InWireOrder
  <2> QED
    BY <1>3, <2>1 DEF Orderly, InWireOrder
<1> QED
  BY <1>5 DEF Orderly, more

(* The echo of its own message tells a node nothing.                       *)
LEMMA SkipEchoOrderly ==
  ASSUME NEW ops, NEW n, NEW messages, NEW upTo, NEW done, NEW doing, NEW todo,
         NodeTyped(ops, messages, upTo, done, doing, todo),
         Orderly(n, messages, upTo, done, doing, todo),
         upTo < Len(messages), messages[upTo + 1].origin = n
  PROVE  Orderly(n, messages, upTo + 1, done, doing, todo)
<1>1. /\ Len(messages) \in Nat /\ upTo \in Nat
      /\ \A i \in 1 .. upTo : i \in 1 .. upTo + 1
      /\ \A i \in 1 .. upTo + 1 : i \in 1 .. upTo \/ i = upTo + 1
      /\ upTo + 1 \in 1 .. Len(messages)
  BY Lengths
<1>2. Coming(done, doing, todo, Len(todo), messages[upTo + 1].op)
  BY <1>1 DEF Orderly, AppliedIsOut, Coming
<1>3. InWireOrder(n, messages, upTo + 1, done, doing, todo)
  BY <1>1, <1>2 DEF Orderly, InWireOrder
<1> QED
  BY <1>3 DEF Orderly

(* A message of another node is news, and it follows what is before it.    *)
LEMMA AddDeltaOrderly ==
  ASSUME NEW ops, NEW n, NEW messages, NEW upTo, NEW done, NEW doing, NEW todo,
         NodeTyped(ops, messages, upTo, done, doing, todo),
         Orderly(n, messages, upTo, done, doing, todo),
         upTo < Len(messages), messages[upTo + 1].origin # n,
         NEW job, job = [type |-> "delta", op |-> messages[upTo + 1].op]
  PROVE  Orderly(n, messages, upTo + 1, done, doing, Append(todo, job))
<1> DEFINE more == Append(todo, job)
           news == messages[upTo + 1].op
<1>1. /\ Len(messages) \in Nat /\ upTo \in Nat
      /\ \A i \in 1 .. upTo : i \in 1 .. upTo + 1 /\ i \in 1 .. Len(messages) /\ i # upTo + 1
      /\ \A i \in 1 .. upTo + 1 : i \in 1 .. upTo \/ i = upTo + 1
      /\ upTo + 1 \in 1 .. Len(messages) /\ news \in ops
  BY Lengths
<1>2. job \in Job(ops) /\ job.type = "delta" /\ job.op = news /\ todo \in Seq(Job(ops))
  BY <1>1 DEF Job, NodeTyped
<1>3. /\ Len(todo) \in Nat /\ Len(more) = Len(todo) + 1
      /\ \A k \in 1 .. Len(todo) : more[k] = todo[k]
      /\ more[Len(todo) + 1] = job
  BY <1>2, AppendItem
<1>4. \A op : \A k \in 0 .. Len(todo) :
        Coming(done, doing, more, k, op) <=> Coming(done, doing, todo, k, op)
  BY <1>2, ComingBefore
<1>5. /\ \A op : Coming(done, doing, todo, Len(todo), op) => Coming(done, doing, more, Len(more), op)
      /\ Coming(done, doing, more, Len(more), news)
  BY <1>2, <1>3 DEF Coming
<1> HIDE DEF more, news
<1>6. \A k \in 1 .. Len(more) : \/ k \in 1 .. Len(todo) /\ more[k] = todo[k]
                                \/ k = Len(todo) + 1 /\ more[k] = job
  BY <1>3
<1>7. InWireOrder(n, messages, upTo + 1, done, doing, more)
  <2>1. \A i \in 1 .. upTo + 1 : Coming(done, doing, more, Len(more), messages[i].op)
    BY <1>1, <1>5 DEF Orderly, InWireOrder, news
  <2>2. ASSUME NEW k \in 1 .. Len(more), more[k].type = "delta"
        PROVE  \E i \in 1 .. upTo + 1 :
                 /\ messages[i].op = more[k].op /\ messages[i].origin # n
                 /\ \A j \in 1 .. i - 1 : Coming(done, doing, more, k - 1, messages[j].op)
    <3>1. CASE k \in 1 .. Len(todo)
      <4>1. more[k] = todo[k] /\ k - 1 \in 0 .. Len(todo)
        BY <1>3, <3>1
      <4> QED
        BY <1>1, <1>4, <2>2, <3>1, <4>1 DEF Orderly, InWireOrder
    <3>2. CASE k = Len(todo) + 1
      <4>1. more[k].op = messages[upTo + 1].op /\ k - 1 = Len(todo)
        BY <1>2, <1>3, <3>2 DEF news
      <4>2. \A j \in 1 .. upTo : Coming(done, doing, more, k - 1, messages[j].op)
        BY <1>3, <1>4, <4>1 DEF Orderly, InWireOrder
      <4>3. (upTo + 1) - 1 = upTo
        BY <1>1
      <4> QED
        BY <1>1, <4>1, <4>2, <4>3
    <3> QED
      BY <1>6, <3>1, <3>2
  <2>3. Remote(doing) =>
          \E i \in 1 .. upTo + 1 : /\ messages[i].op = doing.op /\ messages[i].origin # n
                                   /\ \A j \in 1 .. i - 1 : messages[j].op \in done
    BY <1>1 DEF Orderly, InWireOrder
  <2> QED
    BY <2>1, <2>2, <2>3 DEF InWireOrder
<1> QED
  BY <1>7 DEF Orderly, more

(* The worker takes the first job.                                         *)
LEMMA TakeOrderly ==
  ASSUME NEW ops, NEW n, NEW messages, NEW upTo, NEW done, NEW todo,
         NodeTyped(ops, messages, upTo, done, Idle, todo),
         Orderly(n, messages, upTo, done, Idle, todo),
         todo # <<>>, NEW job, job = Head(todo),
         NEW doing, doing = IF job.type = "delta"
                            THEN [pc |-> "apply", op |-> job.op, local |-> FALSE]
                            ELSE [pc |-> "resolve", intent |-> job]
  PROVE  Orderly(n, messages, upTo, done, doing, Tail(todo))
<1> DEFINE less == Tail(todo)
<1>1. /\ Len(todo) \in Nat /\ Len(todo) >= 1 /\ Len(less) = Len(todo) - 1
      /\ job = todo[1]
      /\ \A k \in 1 .. Len(less) : less[k] = todo[k + 1]
  BY TailItem DEF NodeTyped
<1>2. /\ job.type = "delta" => doing.pc = "apply" /\ ~doing.local /\ doing.op = job.op
      /\ job.type # "delta" => doing.pc = "resolve"
      /\ ~Local(doing) /\ doing.pc # "broadcast" /\ ~Local(Idle) /\ Idle.pc = "idle"
  BY DEF Local, Idle
<1> HIDE DEF less
<1>3. \A k \in 1 .. Len(less) : k + 1 \in 1 .. Len(todo) /\ k + 1 # 1
  BY <1>1
<1>4. ASSUME NEW k \in 1 .. Len(todo), NEW op, Coming(done, Idle, todo, k, op)
      PROVE  Coming(done, doing, less, k - 1, op)
  <2>1. op \in done \/ \E m \in 1 .. k : todo[m].type = "delta" /\ todo[m].op = op
    BY <1>2, <1>4 DEF Coming
  <2>2. ASSUME NEW m \in 1 .. k, todo[m].type = "delta", todo[m].op = op
        PROVE  Coming(done, doing, less, k - 1, op)
    <3>1. CASE m = 1
      BY <1>1, <1>2, <2>2, <3>1 DEF Coming
    <3>2. CASE m # 1
      <4>1. m - 1 \in 1 .. k - 1 /\ m - 1 \in 1 .. Len(less) /\ (m - 1) + 1 = m
        BY <1>1, <3>2
      <4>2. less[m - 1] = todo[m]
        BY <1>1, <4>1
      <4> QED
        BY <2>2, <4>1, <4>2 DEF Coming
    <3> QED
      BY <3>1, <3>2
  <2> QED
    BY <2>1, <2>2 DEF Coming
<1>5. AppliedIsOut(n, messages, done, doing)
  BY <1>2 DEF Orderly, AppliedIsOut
<1>6. InWireOrder(n, messages, upTo, done, doing, less)
  <2>1. \A i \in 1 .. upTo : Coming(done, doing, less, Len(less), messages[i].op)
    <3>1. Len(todo) \in 1 .. Len(todo) /\ Len(less) = Len(todo) - 1
      BY <1>1
    <3> QED
      BY <1>4, <3>1 DEF Orderly, InWireOrder
  <2>2. ASSUME Remote(doing)
        PROVE  \E i \in 1 .. upTo : /\ messages[i].op = doing.op /\ messages[i].origin # n
                                    /\ \A j \in 1 .. i - 1 : messages[j].op \in done
    <3>1. job.type = "delta" /\ doing.op = job.op /\ 1 \in 1 .. Len(todo)
      BY <1>1, <1>2, <2>2 DEF Remote
    <3>2. PICK i \in 1 .. upTo : /\ messages[i].op = todo[1].op /\ messages[i].origin # n
                                 /\ \A j \in 1 .. i - 1 :
                                      Coming(done, Idle, todo, 1 - 1, messages[j].op)
      BY <1>1, <3>1 DEF Orderly, InWireOrder
    <3>3. \A op : Coming(done, Idle, todo, 1 - 1, op) => op \in done
      BY <1>2 DEF Coming
    <3> QED
      BY <1>1, <3>1, <3>2, <3>3
  <2>3. ASSUME NEW k \in 1 .. Len(less), less[k].type = "delta"
        PROVE  \E i \in 1 .. upTo : /\ messages[i].op = less[k].op /\ messages[i].origin # n
                                    /\ \A j \in 1 .. i - 1 :
                                         Coming(done, doing, less, k - 1, messages[j].op)
    <3>1. k + 1 \in 1 .. Len(todo) /\ less[k] = todo[k + 1] /\ (k + 1) - 1 = k /\ k \in 1 .. Len(todo)
      BY <1>1, <1>3
    <3>2. PICK i \in 1 .. upTo : /\ messages[i].op = todo[k + 1].op /\ messages[i].origin # n
                                 /\ \A j \in 1 .. i - 1 :
                                      Coming(done, Idle, todo, k, messages[j].op)
      BY <2>3, <3>1 DEF Orderly, InWireOrder
    <3>3. \A j \in 1 .. i - 1 : Coming(done, doing, less, k - 1, messages[j].op)
      BY <1>4, <3>1, <3>2
    <3> QED
      BY <3>1, <3>2, <3>3
  <2> QED
    BY <2>1, <2>2, <2>3 DEF InWireOrder
<1> QED
  BY <1>5, <1>6 DEF Orderly, less

(* A job is laid down when nothing comes of it.                            *)
LEMMA DropOrderly ==
  ASSUME NEW ops, NEW n, NEW messages, NEW upTo, NEW done, NEW doing, NEW todo,
         NodeTyped(ops, messages, upTo, done, doing, todo),
         Orderly(n, messages, upTo, done, doing, todo),
         doing.pc = "resolve"
  PROVE  Orderly(n, messages, upTo, done, Idle, todo)
<1>1. Idle.pc = "idle" /\ ~Local(Idle) /\ ~Local(doing) /\ ~Remote(Idle)
  BY DEF Local, Remote, Idle
<1>2. \A k, op : Coming(done, doing, todo, k, op) => Coming(done, Idle, todo, k, op)
  BY DEF Coming
<1>3. AppliedIsOut(n, messages, done, Idle)
  BY <1>1 DEF Orderly, AppliedIsOut
<1>4. InWireOrder(n, messages, upTo, done, Idle, todo)
  BY <1>1, <1>2 DEF Orderly, InWireOrder
<1> QED
  BY <1>3, <1>4 DEF Orderly

(* An intent becomes an operation that nobody has seen.                    *)
LEMMA IssueOrderly ==
  ASSUME NEW ops, NEW n, NEW messages, NEW upTo, NEW done, NEW old, NEW todo,
         NodeTyped(ops, messages, upTo, done, old, todo),
         Orderly(n, messages, upTo, done, old, todo),
         old.pc = "resolve", NEW op, Grounded(messages, Len(messages), op),
         NEW doing, doing = [pc |-> "apply", op |-> op, local |-> TRUE]
  PROVE  Orderly(n, messages, upTo, done \union {op}, doing, todo)
<1>1. /\ ~Local(old) /\ Local(doing) /\ ~Remote(doing)
      /\ doing.op = op /\ doing.pc = "apply" /\ doing.local
  BY DEF Local, Remote
<1>2. \A k, o : Coming(done, old, todo, k, o) => Coming(done \union {op}, doing, todo, k, o)
  BY DEF Coming
<1>3. AppliedIsOut(n, messages, done \union {op}, doing)
  BY <1>1 DEF Orderly, AppliedIsOut
<1>4. InWireOrder(n, messages, upTo, done \union {op}, doing, todo)
  BY <1>1, <1>2 DEF Orderly, InWireOrder
<1> QED
  BY <1>3, <1>4 DEF Orderly

(* The worker applies its operation.                                       *)
LEMMA ApplyOrderly ==
  ASSUME NEW ops, NEW n, NEW messages, NEW upTo, NEW done, NEW old, NEW todo,
         NodeTyped(ops, messages, upTo, done, old, todo),
         Orderly(n, messages, upTo, done, old, todo),
         old.pc = "apply", NEW doing, doing = [old EXCEPT !.pc = "broadcast"]
  PROVE  Orderly(n, messages, upTo, done \union {old.op}, doing, todo)
<1>1. old \in Handling(ops)
  BY StateCases DEF NodeTyped
<1>2. /\ doing.pc = "broadcast" /\ doing.op = old.op /\ doing.local = old.local
      /\ Local(doing) <=> Local(old)
      /\ Remote(doing) <=> Remote(old)
  BY <1>1 DEF Handling, Local, Remote
<1> DEFINE more == done \union {old.op}
<1> HIDE DEF more
<1>3. \A k, op : Coming(done, old, todo, k, op) => Coming(more, doing, todo, k, op)
  BY <1>2 DEF Coming, more
<1>4. more = done \union {old.op} /\ done \subseteq more /\ old.op \in more
  BY DEF more
<1>5. AppliedIsOut(n, messages, more, doing)
  <2>1. Remote(old) => \E i \in 1 .. Len(messages) : messages[i].op = old.op
    BY Lengths DEF Orderly, InWireOrder
  <2>2. Local(old) \/ Remote(old)
    BY DEF Local, Remote
  <2> QED
    BY <1>2, <1>4, <2>1, <2>2 DEF Orderly, AppliedIsOut
<1>6. InWireOrder(n, messages, upTo, more, doing, todo)
  BY <1>2, <1>3, <1>4 DEF Orderly, InWireOrder
<1> QED
  BY <1>5, <1>6 DEF Orderly, more

(* The clients are told of it.                                             *)
LEMMA TellOrderly ==
  ASSUME NEW ops, NEW n, NEW messages, NEW upTo, NEW done, NEW old, NEW todo,
         NodeTyped(ops, messages, upTo, done, old, todo),
         Orderly(n, messages, upTo, done, old, todo),
         old.pc = "broadcast",
         NEW doing, doing = IF old.local THEN [old EXCEPT !.pc = "publish"] ELSE Idle
  PROVE  Orderly(n, messages, upTo, done, doing, todo)
<1>1. old \in Handling(ops) /\ old.op \in ops
  BY StateCases DEF NodeTyped
<1>2. /\ old.local => doing.pc = "publish" /\ doing.op = old.op /\ doing.local
      /\ ~old.local => doing.pc = "idle"
      /\ Local(doing) <=> Local(old)
      /\ ~Remote(doing) /\ doing.pc \notin {"apply", "broadcast"}
  BY <1>1 DEF Handling, Local, Remote, Idle
<1>3. \A k, op : Coming(done, old, todo, k, op) => Coming(done, doing, todo, k, op)
  BY <1>2 DEF Coming
<1>4. AppliedIsOut(n, messages, done, doing)
  BY <1>2 DEF Orderly, AppliedIsOut, Local
<1>5. InWireOrder(n, messages, upTo, done, doing, todo)
  BY <1>2, <1>3 DEF Orderly, InWireOrder
<1> QED
  BY <1>4, <1>5 DEF Orderly

(* A message more does not disturb what has been read.                     *)
LEMMA MoreMessages ==
  ASSUME NEW ops, NEW n, NEW messages, NEW upTo, NEW done, NEW doing, NEW todo,
         NodeTyped(ops, messages, upTo, done, doing, todo),
         NEW message \in Message(ops)
  PROVE  /\ Len(Append(messages, message)) = Len(messages) + 1
         /\ \A i \in 1 .. Len(messages) : Append(messages, message)[i] = messages[i]
         /\ Append(messages, message)[Len(messages) + 1] = message
         /\ InWireOrder(n, messages, upTo, done, doing, todo) =>
              InWireOrder(n, Append(messages, message), upTo, done, doing, todo)
         /\ \A op : Grounded(messages, Len(messages), op) =>
              Grounded(Append(messages, message), Len(messages) + 1, op)
<1> DEFINE more == Append(messages, message)
<1>1. /\ Len(messages) \in Nat /\ upTo \in Nat
      /\ Len(more) = Len(messages) + 1
      /\ \A i \in 1 .. Len(messages) : more[i] = messages[i]
      /\ more[Len(messages) + 1] = message
  BY AppendItem DEF NodeTyped
<1> HIDE DEF more
<1>2. \A i \in 1 .. upTo : more[i] = messages[i] /\ \A j \in 1 .. i - 1 : more[j] = messages[j]
  BY <1>1 DEF NodeTyped
<1>3. InWireOrder(n, messages, upTo, done, doing, todo) =>
        InWireOrder(n, more, upTo, done, doing, todo)
  BY <1>2 DEF InWireOrder
<1>4. \A op : Grounded(messages, Len(messages), op) => Grounded(more, Len(messages) + 1, op)
  BY <1>1 DEF Grounded
<1> QED
  BY <1>1, <1>3, <1>4 DEF more

(* The worker publishes its operation.                                     *)
LEMMA PublishOrderly ==
  ASSUME NEW ops, NEW n \in Node, NEW messages, NEW upTo, NEW done, NEW old, NEW todo,
         NodeTyped(ops, messages, upTo, done, old, todo),
         Orderly(n, messages, upTo, done, old, todo),
         old.pc = "publish", NEW message, message = [op |-> old.op, origin |-> n]
  PROVE  Orderly(n, Append(messages, message), upTo, done, Idle, todo)
<1>1. old \in Handling(ops) /\ old.op \in ops
  BY StateCases DEF NodeTyped
<1>2. /\ Local(old) /\ ~Remote(old) /\ message.op = old.op /\ message.origin = n
      /\ message \in Message(ops)
      /\ Idle.pc = "idle" /\ ~Local(Idle) /\ ~Remote(Idle)
  BY <1>1 DEF Handling, Local, Remote, Message, Idle
<1> DEFINE more == Append(messages, message)
<1>3. /\ Len(messages) \in Nat /\ Len(more) = Len(messages) + 1
      /\ \A i \in 1 .. Len(messages) : more[i] = messages[i]
      /\ more[Len(messages) + 1] = message
      /\ InWireOrder(n, more, upTo, done, old, todo)
  BY <1>2, MoreMessages, Lengths DEF Orderly
<1> HIDE DEF more
<1>4. \A k, op : Coming(done, old, todo, k, op) => Coming(done, Idle, todo, k, op)
  BY <1>2 DEF Coming
<1>5. AppliedIsOut(n, more, done, Idle)
  <2>1. old.op \in done /\ \A op \in done : (\E i \in 1 .. Len(messages) : messages[i].op = op)
                                            \/ old.op = op
    BY <1>2 DEF Orderly, AppliedIsOut
  <2>2. \A op \in done : \E i \in 1 .. Len(more) : more[i].op = op
    BY <1>2, <1>3, <2>1
  <2>3. \A i \in 1 .. Len(more) : more[i].origin = n => more[i].op \in done
    BY <1>2, <1>3, <2>1 DEF Orderly, AppliedIsOut
  <2> QED
    BY <1>2, <2>2, <2>3 DEF AppliedIsOut
<1>6. InWireOrder(n, more, upTo, done, Idle, todo)
  BY <1>2, <1>3, <1>4 DEF InWireOrder
<1> QED
  BY <1>5, <1>6 DEF Orderly, more

(* Another node publishes.                                                 *)
LEMMA OtherPublishesOrderly ==
  ASSUME NEW ops, NEW n, NEW messages, NEW upTo, NEW done, NEW doing, NEW todo,
         NodeTyped(ops, messages, upTo, done, doing, todo),
         Orderly(n, messages, upTo, done, doing, todo),
         NEW message \in Message(ops), message.origin # n
  PROVE  Orderly(n, Append(messages, message), upTo, done, doing, todo)
<1> DEFINE more == Append(messages, message)
<1>1. /\ Len(messages) \in Nat /\ Len(more) = Len(messages) + 1
      /\ \A i \in 1 .. Len(messages) : more[i] = messages[i]
      /\ more[Len(messages) + 1] = message
      /\ InWireOrder(n, more, upTo, done, doing, todo)
      /\ \A op : Grounded(messages, Len(messages), op) => Grounded(more, Len(messages) + 1, op)
  BY MoreMessages, Lengths DEF Orderly
<1> HIDE DEF more
<1>2. AppliedIsOut(n, more, done, doing)
  BY <1>1 DEF Orderly, AppliedIsOut
<1> QED
  BY <1>1, <1>2 DEF Orderly, more

-----------------------------------------------------------------------------
(* The trees.                                                              *)

LEMMA RefersApplied ==
  ASSUME NEW t, SoundTree(t), NEW op \in Operation, Refers(t, op),
         NEW done, done \subseteq Operation, Shown(t, done)
  PROVE  Shown(ApplyOperation(t, op), done \union {op})
<1> DEFINE u == ApplyOperation(t, op)
           more == done \union {op}
<1> SUFFICES Shown(u, more)
  OBVIOUS
<1>1. Effect(t, op, u)
  BY ApplyOperationEffect
<1> HIDE DEF u
<1>2. /\ Nodes(t) \subseteq Nodes(u) /\ DOMAIN t \subseteq DOMAIN u
  BY <1>1 DEF Effect, SoundTree, IsTree, Nodes
<1>3. op.type = "insert" \/ op.type = "delete"
  BY DEF Operation, FugueInsertOp, FugueDeleteOp
<1>4. CASE op.type = "insert"
  <2>1. Nodes(u) = Nodes(t) \union {op.id} /\ Tombstones(u) = Tombstones(t)
    BY <1>1, <1>4 DEF Effect, Refers
  <2>2. Inserted(more) = Inserted(done) \union {op.id}
    BY <1>4 DEF Inserted
  <2>3. Deleted(more) = Deleted(done)
    BY <1>4 DEF Deleted
  <2>4. \A o \in more : Refers(u, o)
    BY <1>2, <1>4 DEF Shown, Refers
  <2> QED
    BY <2>1, <2>2, <2>3, <2>4 DEF Shown
<1>5. CASE op.type = "delete"
  <2>1. op.target \in Nodes(t)
    BY <1>5 DEF Refers
  <2>2. Nodes(u) = Nodes(t) /\ Tombstones(u) = Tombstones(t) \union {op.target}
    BY <1>1, <1>5, <2>1 DEF Effect
  <2>3. Inserted(more) = Inserted(done)
    BY <1>5 DEF Inserted
  <2>4. Deleted(more) = Deleted(done) \union {op.target}
    BY <1>5 DEF Deleted
  <2>5. \A o \in more : Refers(u, o)
    BY <1>2 DEF Shown, Refers
  <2> QED
    BY <2>2, <2>3, <2>4, <2>5 DEF Shown
<1> QED
  BY <1>3, <1>4, <1>5

(* What has been applied of the wire is enough for what follows it.        *)
LEMMA GroundedRefers ==
  ASSUME NEW t, SoundTree(t), NEW op \in Operation, NEW done, Shown(t, done),
         NEW messages, NEW k, Grounded(messages, k, op),
         \A j \in 1 .. k : messages[j].op \in done
  PROVE  Refers(t, op)
<1>1. rootSentinelID \in DOMAIN t
  BY DEF SoundTree, IsTree
<1>2. op.type # "insert" => op.target # rootSentinelID
  BY RootIsNoOpID DEF Operation, FugueInsertOp, FugueDeleteOp
<1>3. CASE Ref(op) = rootSentinelID
  BY <1>1, <1>2, <1>3 DEF Ref, Refers
<1>4. CASE \E j \in 1 .. k : messages[j].op.type = "insert" /\ messages[j].op.id = Ref(op)
  <2>1. Ref(op) \in Nodes(t)
    BY <1>4 DEF Shown, Inserted
  <2> QED
    BY <2>1 DEF Ref, Refers, Nodes
<1> QED
  BY <1>3, <1>4 DEF Grounded

(* What a node issues refers to what is on the wire.                       *)
LEMMA RefersGrounded ==
  ASSUME NEW t, SoundTree(t), NEW op \in Operation, Refers(t, op), NEW done, Shown(t, done),
         NEW messages, \A o \in done : \E i \in 1 .. Len(messages) : messages[i].op = o
  PROVE  Grounded(messages, Len(messages), op)
<1>1. Ref(op) \in Nodes(t) \union {rootSentinelID}
  BY DEF Ref, Refers, Nodes
<1>2. ASSUME Ref(op) \in Nodes(t)
      PROVE  \E j \in 1 .. Len(messages) : messages[j].op.type = "insert" /\ messages[j].op.id = Ref(op)
  <2>1. PICK o \in done : o.type = "insert" /\ o.id = Ref(op)
    BY <1>2 DEF Shown, Inserted
  <2> QED
    BY <2>1
<1> QED
  BY <1>1, <1>2 DEF Grounded

-----------------------------------------------------------------------------
(* The cluster.                                                            *)

LEMMA NodeFacts ==
  ASSUME IInv, OInv, NEW n \in Node, NEW w \in Worker
  PROVE  /\ NodeTyped(sent, wire, read[n], handed[n], worker[n][w], jobs[n])
         /\ Alone(worker[n], w) =>
              Orderly(n, wire, read[n], handed[n], worker[n][w], jobs[n])
         /\ SoundTree(tree[n]) /\ Shown(tree[n], handed[n])
         /\ handed[n] \subseteq Operation
<1>1. NodeTyped(sent, wire, read[n], handed[n], worker[n][w], jobs[n])
  BY DEF IInv, TypeOK, NodeTyped
<1>2. SoundTree(tree[n]) /\ handed[n] \subseteq Operation
  BY DEF IInv, TypeOK
<1> QED
  BY <1>1, <1>2 DEF OInv

(* While a worker is busy the others are not.                              *)
LEMMA BusyIsAlone ==
  ASSUME OneAtATime, NEW n \in Node, NEW w \in Worker, worker[n][w] # Idle
  PROVE  Alone(worker[n], w)
BY DEF OneAtATime, Alone

(* A worker starts only when all the others are idle.                      *)
LEMMA StartsAlone ==
  ASSUME TypeOK, OneAtATime', NEW n \in Node, NEW w \in Worker, NEW state, state # Idle,
         Become(n, w, state)
  PROVE  Alone(worker[n], w)
<1>1. worker'[n][w] = state /\ \A v \in Worker \ {w} : worker'[n][v] = worker[n][v]
  BY CrewAfter
<1> QED
  BY <1>1 DEF OneAtATime, Alone

(* A step of node n, the wire and the other nodes being left alone.        *)
LEMMA OneNodeMoves ==
  ASSUME IInv, OInv, NEW n \in Node,
         UNCHANGED <<wire, restarted>>,
         \A m \in Node \ {n} :
           /\ tree'[m] = tree[m] /\ handed'[m] = handed[m] /\ worker'[m] = worker[m]
           /\ jobs'[m] = jobs[m] /\ read'[m] = read[m],
         Shown(tree'[n], handed'[n]),
         \A w \in Worker : Alone(worker'[n], w) =>
           Orderly(n, wire, read'[n], handed'[n], worker'[n][w], jobs'[n])
  PROVE  OInv'
<1>1. restarted' = {} /\ WireIsCausal(wire')
  BY DEF OInv
<1>2. \A m \in Node : Shown(tree'[m], handed'[m])
  BY DEF OInv
<1>3. ASSUME NEW m \in Node, NEW v \in Worker, Alone(worker'[m], v)
      PROVE  Orderly(m, wire', read'[m], handed'[m], worker'[m][v], jobs'[m])
  <2>1. CASE m = n
    BY <1>3, <2>1
  <2>2. CASE m # n
    BY <1>3, <2>2 DEF OInv
  <2> QED
    BY <2>1, <2>2
<1> QED
  BY <1>1, <1>2, <1>3 DEF OInv

(* A step of worker w of node n, who works alone.                          *)
LEMMA OneWorkerMoves ==
  ASSUME IInv, OInv, NEW n \in Node, NEW w \in Worker, NEW state, Become(n, w, state),
         Alone(worker[n], w), UNCHANGED <<wire, read, restarted>>,
         \A m \in Node \ {n} :
           tree'[m] = tree[m] /\ handed'[m] = handed[m] /\ jobs'[m] = jobs[m],
         Shown(tree'[n], handed'[n]),
         Orderly(n, wire, read[n], handed'[n], state, jobs'[n])
  PROVE  OInv'
<1>1. /\ worker'[n][w] = state
      /\ \A v \in Worker \ {w} : worker'[n][v] = worker[n][v]
      /\ \A m \in Node \ {n} : worker'[m] = worker[m]
  BY CrewAfter DEF IInv
<1>2. ASSUME NEW v \in Worker, Alone(worker'[n], v) PROVE worker'[n][v] = state
  <2>1. CASE v = w
    BY <1>1, <2>1
  <2>2. CASE v # w
    <3>1. worker'[n][w] = Idle
      BY <1>2, <2>2 DEF Alone
    <3>2. worker'[n][v] = Idle
      BY <1>1, <2>2 DEF Alone
    <3> QED
      BY <1>1, <3>1, <3>2
  <2> QED
    BY <2>1, <2>2
<1> QED
  BY <1>1, <1>2, OneNodeMoves

LEMMA InitOInv == Init => OInv
<1> SUFFICES ASSUME Init PROVE OInv
  OBVIOUS
<1>1. restarted = {} /\ WireIsCausal(wire)
  BY DEF Init, WireIsCausal
<1>2. ASSUME NEW n \in Node PROVE Shown(tree[n], handed[n])
  <2>1. tree[n] = NewFugueTree /\ handed[n] = {}
    BY DEF Init
  <2> QED
    BY <2>1, NewTreeSound DEF Shown, Inserted, Deleted
<1>3. ASSUME NEW n \in Node, NEW w \in Worker
      PROVE  Orderly(n, wire, read[n], handed[n], worker[n][w], jobs[n])
  <2>1. /\ wire = <<>> /\ read[n] = 0 /\ handed[n] = {} /\ worker[n][w].pc = "idle"
        /\ jobs[n] = <<>>
    BY DEF Init, Idle
  <2>2. AppliedIsOut(n, wire, handed[n], worker[n][w])
    BY <2>1 DEF AppliedIsOut, Local
  <2>3. InWireOrder(n, wire, read[n], handed[n], worker[n][w], jobs[n])
    BY <2>1 DEF InWireOrder, Remote
  <2> QED
    BY <2>2, <2>3 DEF Orderly
<1> QED
  BY <1>1, <1>2, <1>3 DEF OInv

LEMMA ClientIntentOInv ==
  ASSUME IInv, OInv, NEW n \in Node, ClientIntent(n)
  PROVE  OInv'
<1>1. UNCHANGED <<treeVars, worker, wire, read, restarted>>
  BY DEF ClientIntent
<1>2. PICK job \in Intent : Submit(n, job)
  <2>1. PICK pos \in 0 .. MaxIntents :
          \/ \E char \in Char :
               Submit(n, [type |-> "insert_intent", pos |-> pos, char |-> char])
          \/ Submit(n, [type |-> "delete_intent", pos |-> pos])
    BY DEF ClientIntent
  <2>2. pos \in Nat
    BY ClusterAssumption
  <2> QED
    BY <2>1, <2>2 DEF Intent
<1>3. jobs'[n] = Append(jobs[n], job) /\ \A m \in Node \ {n} : jobs'[m] = jobs[m]
  BY <1>2 DEF Submit, IInv, TypeOK
<1>4. ASSUME NEW w \in Worker, Alone(worker[n], w)
      PROVE  Orderly(n, wire, read[n], handed[n], worker[n][w], Append(jobs[n], job))
  BY <1>4, NodeFacts, AddIntentOrderly
<1>5. Shown(tree'[n], handed'[n])
  BY <1>1 DEF treeVars, OInv
<1> QED
  BY <1>1, <1>3, <1>4, <1>5, OneNodeMoves DEF treeVars

LEMMA RedisDeltaOInv ==
  ASSUME IInv, OInv, NEW n \in Node, RedisDelta(n)
  PROVE  OInv'
<1> DEFINE job == [type |-> "delta", op |-> wire[read[n] + 1].op]
<1>1. /\ UNCHANGED <<treeVars, worker, wire, restarted>>
      /\ read[n] < Len(wire) /\ read' = [read EXCEPT ![n] = @ + 1]
      /\ IF wire[read[n] + 1].origin = n THEN UNCHANGED jobs ELSE Submit(n, job)
  BY DEF RedisDelta
<1>2. read'[n] = read[n] + 1 /\ \A m \in Node \ {n} : read'[m] = read[m]
  BY <1>1 DEF IInv, TypeOK
<1> HIDE DEF job
<1>3. Shown(tree'[n], handed'[n])
  BY <1>1 DEF treeVars, OInv
<1>4. CASE wire[read[n] + 1].origin = n
  <2>1. ASSUME NEW w \in Worker, Alone(worker[n], w)
        PROVE  Orderly(n, wire, read[n] + 1, handed[n], worker[n][w], jobs[n])
    BY <1>1, <1>4, <2>1, NodeFacts, SkipEchoOrderly
  <2> QED
    BY <1>1, <1>2, <1>3, <1>4, <2>1, OneNodeMoves DEF treeVars
<1>5. CASE wire[read[n] + 1].origin # n
  <2>1. ASSUME NEW w \in Worker, Alone(worker[n], w)
        PROVE  Orderly(n, wire, read[n] + 1, handed[n], worker[n][w], Append(jobs[n], job))
    BY <1>1, <1>5, <2>1, NodeFacts, AddDeltaOrderly DEF job
  <2>2. jobs'[n] = Append(jobs[n], job) /\ \A m \in Node \ {n} : jobs'[m] = jobs[m]
    BY <1>1, <1>5 DEF Submit, IInv, TypeOK
  <2> QED
    BY <1>1, <1>2, <1>3, <2>1, <2>2, OneNodeMoves DEF treeVars
<1> QED
  BY <1>4, <1>5

LEMMA TakeOInv ==
  ASSUME IInv, OInv, OneAtATime', NEW n \in Node, NEW w \in Worker, Take(n, w)
  PROVE  OInv'
<1> DEFINE job == Head(jobs[n])
           state == IF job.type = "delta"
                    THEN [pc |-> "apply", op |-> job.op, local |-> FALSE]
                    ELSE [pc |-> "resolve", intent |-> job]
<1>1. /\ worker[n][w] = Idle /\ jobs[n] # <<>>
      /\ Become(n, w, state) /\ jobs' = [jobs EXCEPT ![n] = Tail(@)]
      /\ UNCHANGED <<treeVars, wire, read, restarted>>
  BY DEF Take
<1>2. state # Idle
  <2>1. Idle.pc = "idle" /\ state.pc # "idle"
    BY DEF Idle
  <2> QED
    BY <2>1
<1>3. Alone(worker[n], w)
  BY <1>1, <1>2, StartsAlone DEF IInv
<1>4. Orderly(n, wire, read[n], handed[n], state, Tail(jobs[n]))
  BY <1>1, <1>3, NodeFacts, TakeOrderly
<1> HIDE DEF state
<1>5. jobs'[n] = Tail(jobs[n]) /\ \A m \in Node \ {n} : jobs'[m] = jobs[m]
  BY <1>1 DEF IInv, TypeOK
<1>6. Shown(tree'[n], handed'[n])
  BY <1>1 DEF treeVars, OInv
<1> QED
  BY <1>1, <1>3, <1>4, <1>5, <1>6, OneWorkerMoves DEF treeVars

LEMMA ResolveOInv ==
  ASSUME IInv, OInv, OneAtATime, NEW n \in Node, NEW w \in Worker, ResolveIntent(n, w)
  PROVE  OInv'
<1>1. worker[n][w].pc = "resolve" /\ UNCHANGED <<jobs, wire, read, restarted>>
  BY DEF ResolveIntent
<1>2. worker[n][w].intent \in Intent
  BY <1>1, WorkerTyped DEF IInv
<1>3. Alone(worker[n], w)
  BY <1>1, BusyIsAlone DEF Idle
<1>4. CASE Become(n, w, Idle) /\ UNCHANGED treeVars
  <2>1. Orderly(n, wire, read[n], handed[n], Idle, jobs[n])
    BY <1>1, <1>3, NodeFacts, DropOrderly
  <2>2. Shown(tree'[n], handed'[n])
    BY <1>4 DEF treeVars, OInv
  <2> QED
    BY <1>1, <1>3, <1>4, <2>1, <2>2, OneWorkerMoves DEF treeVars
<1>5. ASSUME NEW op \in Resolution(n, worker[n][w].intent),
             counter' = [counter EXCEPT ![n] = @ + 1],
             tree' = [tree EXCEPT ![n] = ApplyOperation(@, op)],
             sent' = sent \union {op},
             handed' = [handed EXCEPT ![n] = @ \union {op}],
             Become(n, w, [pc |-> "apply", op |-> op, local |-> TRUE])
      PROVE  OInv'
  <2> DEFINE state == [pc |-> "apply", op |-> op, local |-> TRUE]
  <2>1. op \in Operation /\ Refers(tree[n], op)
    BY <1>2, ResolutionIsGood DEF IInv
  <2>2. \A o \in handed[n] : \E i \in 1 .. Len(wire) : wire[i].op = o
    <3>1. AppliedIsOut(n, wire, handed[n], worker[n][w]) /\ ~Local(worker[n][w])
      BY <1>1, <1>3, NodeFacts DEF Orderly, Local
    <3> QED
      BY <3>1 DEF AppliedIsOut
  <2>3. Grounded(wire, Len(wire), op)
    BY <2>1, <2>2, NodeFacts, RefersGrounded
  <2>4. Orderly(n, wire, read[n], handed[n] \union {op}, state, jobs[n])
    BY <1>1, <1>3, <2>3, NodeFacts, IssueOrderly
  <2> HIDE DEF state
  <2>5. /\ tree'[n] = ApplyOperation(tree[n], op)
        /\ handed'[n] = handed[n] \union {op}
        /\ \A m \in Node \ {n} : tree'[m] = tree[m] /\ handed'[m] = handed[m]
    BY <1>5 DEF IInv, TypeOK
  <2>6. Shown(ApplyOperation(tree[n], op), handed[n] \union {op})
    BY <2>1, NodeFacts, RefersApplied
  <2>7. Become(n, w, state)
    BY <1>5 DEF state
  <2> QED
    BY <1>1, <1>3, <2>4, <2>5, <2>6, <2>7, OneWorkerMoves
<1> QED
  BY <1>4, <1>5 DEF ResolveIntent

(* What a worker applies finds what it refers to.                          *)
LEMMA ApplyFindsPlace ==
  ASSUME IInv, OInv, OneAtATime, NEW n \in Node, NEW w \in Worker, Apply(n, w)
  PROVE  worker[n][w].op \in Operation /\ Refers(tree[n], worker[n][w].op)
<1> DEFINE op == worker[n][w].op
<1>1. worker[n][w].pc = "apply" /\ op \in sent /\ op \in Operation
  BY WorkerTyped DEF Apply, IInv, TypeOK
<1>2. Orderly(n, wire, read[n], handed[n], worker[n][w], jobs[n])
  BY <1>1, BusyIsAlone, NodeFacts DEF Idle
<1> HIDE DEF op
<1>3. CASE Local(worker[n][w])
  BY <1>2, <1>3, NodeFacts DEF Orderly, AppliedIsOut, Shown, op
<1>4. CASE Remote(worker[n][w])
  <2>1. PICK i \in 1 .. read[n] : wire[i].op = op /\ \A j \in 1 .. i - 1 : wire[j].op \in handed[n]
    BY <1>2, <1>4 DEF Orderly, InWireOrder, op
  <2>2. i \in 1 .. Len(wire)
    BY NodeFacts, Lengths
  <2>3. Grounded(wire, i - 1, op)
    BY <2>1, <2>2 DEF OInv, WireIsCausal
  <2> QED
    BY <1>1, <2>1, <2>3, NodeFacts, GroundedRefers DEF op
<1> QED
  BY <1>1, <1>3, <1>4 DEF Local, Remote, op

LEMMA ApplyOInv ==
  ASSUME IInv, OInv, OneAtATime, NEW n \in Node, NEW w \in Worker, Apply(n, w)
  PROVE  OInv'
<1> DEFINE op == worker[n][w].op
           state == [worker[n][w] EXCEPT !.pc = "broadcast"]
<1>1. /\ worker[n][w].pc = "apply" /\ Become(n, w, state)
      /\ tree' = [tree EXCEPT ![n] = ApplyOperation(@, op)]
      /\ handed' = [handed EXCEPT ![n] = @ \union {op}]
      /\ UNCHANGED <<jobs, wire, read, restarted>>
  BY DEF Apply
<1>2. Alone(worker[n], w)
  BY <1>1, BusyIsAlone DEF Idle
<1>3. Orderly(n, wire, read[n], handed[n] \union {op}, state, jobs[n])
  BY <1>1, <1>2, NodeFacts, ApplyOrderly
<1>4. Shown(ApplyOperation(tree[n], op), handed[n] \union {op})
  BY NodeFacts, ApplyFindsPlace, RefersApplied
<1> HIDE DEF state, op
<1>5. /\ tree'[n] = ApplyOperation(tree[n], op)
      /\ handed'[n] = handed[n] \union {op}
      /\ \A m \in Node \ {n} : tree'[m] = tree[m] /\ handed'[m] = handed[m]
  BY <1>1 DEF IInv, TypeOK
<1> QED
  BY <1>1, <1>2, <1>3, <1>4, <1>5, OneWorkerMoves

LEMMA BroadcastOInv ==
  ASSUME IInv, OInv, OneAtATime, NEW n \in Node, NEW w \in Worker, Broadcast(n, w)
  PROVE  OInv'
<1> DEFINE state == IF worker[n][w].local THEN [worker[n][w] EXCEPT !.pc = "publish"] ELSE Idle
<1>1. /\ worker[n][w].pc = "broadcast" /\ Become(n, w, state)
      /\ UNCHANGED <<treeVars, jobs, wire, read, restarted>>
  BY DEF Broadcast
<1>2. Alone(worker[n], w)
  BY <1>1, BusyIsAlone DEF Idle
<1>3. Orderly(n, wire, read[n], handed[n], state, jobs[n])
  BY <1>1, <1>2, NodeFacts, TellOrderly
<1> HIDE DEF state
<1>4. Shown(tree'[n], handed'[n])
  BY <1>1 DEF treeVars, OInv
<1> QED
  BY <1>1, <1>2, <1>3, <1>4, OneWorkerMoves DEF treeVars

LEMMA PublishOInv ==
  ASSUME IInv, OInv, OneAtATime, NEW n \in Node, NEW w \in Worker, Publish(n, w)
  PROVE  OInv'
<1> DEFINE op == worker[n][w].op
           message == [op |-> op, origin |-> n]
<1>1. /\ worker[n][w].pc = "publish" /\ Become(n, w, Idle) /\ wire' = Append(wire, message)
      /\ UNCHANGED <<treeVars, jobs, read, restarted>>
  BY DEF Publish
<1>2. op \in sent /\ Local(worker[n][w]) /\ message \in Message(sent) /\ message.origin = n
  BY <1>1, WorkerTyped DEF IInv, Handling, Local, Message
<1>3. Alone(worker[n], w)
  BY <1>1, BusyIsAlone DEF Idle
<1>4. Orderly(n, Append(wire, message), read[n], handed[n], Idle, jobs[n])
  BY <1>1, <1>3, NodeFacts, PublishOrderly
<1> HIDE DEF message
<1>5. /\ worker'[n][w] = Idle
      /\ \A v \in Worker \ {w} : worker'[n][v] = worker[n][v]
      /\ \A m \in Node \ {n} : worker'[m] = worker[m]
  BY <1>1, CrewAfter DEF IInv
<1>6. \A v \in Worker : worker'[n][v] = Idle
  BY <1>3, <1>5 DEF Alone
<1>7. \A m \in Node : Shown(tree'[m], handed'[m])
  BY <1>1 DEF treeVars, OInv
<1>8. ASSUME NEW m \in Node, NEW v \in Worker, Alone(worker'[m], v)
      PROVE  Orderly(m, wire', read'[m], handed'[m], worker'[m][v], jobs'[m])
  <2>1. CASE m = n
    BY <1>1, <1>4, <1>6, <2>1 DEF treeVars
  <2>2. CASE m # n
    <3>1. Alone(worker[m], v) /\ worker'[m][v] = worker[m][v]
      BY <1>5, <1>8, <2>2
    <3>2. Orderly(m, Append(wire, message), read[m], handed[m], worker[m][v], jobs[m])
      BY <1>2, <2>2, <3>1, NodeFacts, OtherPublishesOrderly
    <3> QED
      BY <1>1, <3>1, <3>2 DEF treeVars
  <2> QED
    BY <2>1, <2>2
<1>9. WireIsCausal(wire')
  <2>1. /\ Len(wire) \in Nat /\ Len(wire') = Len(wire) + 1
        /\ \A i \in 1 .. Len(wire) : wire'[i] = wire[i]
        /\ wire'[Len(wire) + 1] = message
    BY <1>1, <1>2, AppendItem DEF IInv, TypeOK
  <2>2. Grounded(wire, Len(wire), op)
    BY <1>2, <1>3, NodeFacts DEF Orderly, AppliedIsOut
  <2>3. ASSUME NEW i \in 1 .. Len(wire') PROVE Grounded(wire', i - 1, wire'[i].op)
    <3>1. CASE i \in 1 .. Len(wire)
      <4>1. Grounded(wire, i - 1, wire[i].op) /\ wire'[i] = wire[i]
        BY <2>1, <3>1 DEF OInv, WireIsCausal
      <4>2. \A j \in 1 .. i - 1 : wire'[j] = wire[j]
        BY <2>1, <3>1
      <4> QED
        BY <4>1, <4>2 DEF Grounded
    <3>2. CASE i = Len(wire) + 1
      <4>1. wire'[i].op = op /\ i - 1 = Len(wire)
        BY <2>1, <3>2 DEF message
      <4> QED
        BY <2>1, <2>2, <4>1 DEF Grounded
    <3> QED
      BY <2>1, <3>1, <3>2
  <2> QED
    BY <2>3 DEF WireIsCausal
<1> QED
  BY <1>1, <1>7, <1>8, <1>9 DEF OInv

LEMMA NextOInv ==
  ASSUME IInv, OInv, OneAtATime, OneAtATime', [Next]_vars
  PROVE  OInv'
<1>1. ASSUME NEW n \in Node, NEW w \in Worker, Work(n, w) PROVE OInv'
  BY <1>1, TakeOInv, ResolveOInv, ApplyOInv, BroadcastOInv, PublishOInv DEF Work
<1>2. ASSUME NEW n \in Node, ClientIntent(n) \/ RedisDelta(n) PROVE OInv'
  BY <1>2, ClientIntentOInv, RedisDeltaOInv
<1>3. CASE UNCHANGED vars
  BY <1>3 DEF vars, treeVars, OInv, Alone
<1> QED
  BY <1>1, <1>2, <1>3 DEF Next

(* What a tree shows has not been dropped.                                 *)
LEMMA ShownNotDropped ==
  ASSUME IInv, OInv
  PROVE  NothingDropped
<1> SUFFICES ASSUME NEW n \in Node, NEW op \in handed[n] PROVE Includes(tree[n], op)
  BY DEF NothingDropped, Dropped
<1>1. Shown(tree[n], handed[n])
  BY DEF OInv
<1>2. op \in Operation
  BY DEF IInv, TypeOK
<1>3. op.type = "insert" \/ op.type = "delete"
  BY <1>2 DEF Operation, FugueInsertOp, FugueDeleteOp
<1> QED
  BY <1>1, <1>3 DEF Shown, Inserted, Deleted, Includes

-----------------------------------------------------------------------------
(* Convergence and causal delivery as long as nothing is dropped.          *)

LEMMA StaysFaultless ==
  ASSUME NoFaults, [Next]_vars
  PROVE  NoFaults'
<1>1. UNCHANGED <<restarted, lost>>
  BY DEF Next, Work, ClientIntent, RedisDelta, Take, ResolveIntent, Apply, Broadcast,
     Publish, vars
<1> QED
  BY <1>1 DEF NoFaults

LEMMA QuietConverged ==
  ASSUME IInv, Accounted, TombstonesWereSent, NoFaults, NothingDropped
  PROVE  ConvergedWhenQuiet
<1> SUFFICES ASSUME Quiet, NEW n \in Node, NEW m \in Node PROVE tree[n] = tree[m]
  BY DEF ConvergedWhenQuiet
<1>1. \A k \in Node : MissingAt(k) = {}
  <2> SUFFICES ASSUME NEW k \in Node, NEW op \in sent PROVE Includes(tree[k], op)
    BY DEF MissingAt
  <2>1. op \in handed[k]
    BY QuietSettled DEF NoFaults
  <2> QED
    BY <2>1 DEF NothingDropped, Dropped
<1>2. MissingAt(n) = MissingAt(m)
  BY <1>1
<1> QED
  BY <1>2, SameMissingSameTree DEF NoFaults

(* What an operation leaves in the tree it found its place in.             *)
LEMMA IncludedWasReady ==
  ASSUME IInv, restarted = {}, NEW n \in Node, NEW op \in sent, NEW u,
         Effect(tree[n], op, u), Includes(u, op)
  PROVE  Replicas!Ready(tree[n], op)
<1> DEFINE t == tree[n]
<1>1. SoundTree(t) /\ op \in Operation
  BY DEF IInv, TypeOK
<1>2. op.type = "insert" \/ op.type = "delete"
  BY <1>1 DEF Operation, FugueInsertOp, FugueDeleteOp
<1>3. CASE op.type = "insert"
  <2>1. op.id \in Nodes(u)
    BY <1>3 DEF Includes
  <2>2. CASE op.id \in Nodes(t)
    <3>1. PICK o \in sent : o.id = op.id /\ o.parent = t[op.id].parent
      BY <2>2 DEF IInv, NodesWereSent
    <3>2. o = op
      BY <3>1 DEF IInv, IdsIssuedOnce
    <3>3. t[op.id].parent \in DOMAIN t
      BY <1>1, <2>2 DEF SoundTree, IsTree, Nodes
    <3> QED
      BY <1>3, <3>1, <3>2, <3>3 DEF Replicas!Ready
  <2>3. CASE op.id \notin Nodes(t)
    BY <1>3, <2>1, <2>3 DEF Effect, Replicas!Ready
  <2> QED
    BY <2>2, <2>3
<1>4. CASE op.type = "delete"
  <2>1. op.target \in Nodes(u) /\ Nodes(u) = Nodes(t)
    BY <1>4 DEF Includes, Tombstones, Effect
  <2> QED
    BY <1>4, <2>1 DEF Replicas!Ready, Nodes
<1> QED
  BY <1>2, <1>3, <1>4

LEMMA ApplyIsReceiveReady ==
  ASSUME IInv, NoFaults, NothingDropped', NEW n \in Node, NEW w \in Worker, Apply(n, w)
  PROVE  \E op \in sent : Replicas!ReceiveReady(n, op)
<1> DEFINE op == worker[n][w].op
<1>1. op \in sent /\ op \in Operation /\ Replicas!Receive(n, op)
  BY ApplyIsReceive DEF IInv, TypeOK
<1>2. /\ tree'[n] = ApplyOperation(tree[n], op)
      /\ op \in handed'[n]
  BY DEF Apply, IInv, TypeOK
<1> HIDE DEF op
<1>3. Effect(tree[n], op, tree'[n])
  BY <1>1, <1>2, ApplyOperationEffect DEF IInv, TypeOK
<1>4. Includes(tree'[n], op)
  BY <1>2 DEF NothingDropped, Dropped
<1>5. Replicas!Ready(tree[n], op)
  BY <1>1, <1>3, <1>4, IncludedWasReady DEF NoFaults
<1> QED
  BY <1>1, <1>5 DEF Replicas!ReceiveReady

LEMMA NextDeliversCausally ==
  ASSUME IInv, NoFaults, NothingDropped', [Next]_vars
  PROVE  Replicas!CausalNext \/ UNCHANGED treeVars
<1>1. ASSUME NEW n \in Node, NEW w \in Worker, ResolveIntent(n, w)
      PROVE  Replicas!CausalNext \/ UNCHANGED treeVars
  BY <1>1, ResolveIsEdit DEF Replicas!CausalNext, Node
<1>2. ASSUME NEW n \in Node, NEW w \in Worker, Apply(n, w)
      PROVE  Replicas!CausalNext
  BY <1>2, ApplyIsReceiveReady DEF Replicas!CausalNext, Node
<1>3. ASSUME NEW n \in Node, NEW w \in Worker,
             Take(n, w) \/ Broadcast(n, w) \/ Publish(n, w)
      PROVE  UNCHANGED treeVars
  BY <1>3, OtherSteps
<1>4. ASSUME NEW n \in Node, ClientIntent(n) \/ RedisDelta(n)
      PROVE  UNCHANGED treeVars
  BY <1>4 DEF ClientIntent, RedisDelta
<1>5. CASE UNCHANGED vars
  BY <1>5 DEF vars
<1> QED
  BY <1>1, <1>2, <1>3, <1>4, <1>5 DEF Next, Work

LEMMA NextIsFaultyNext == [Next]_vars => [FaultyNext]_vars
BY DEF FaultyNext, RestartNext

LEMMA InitFaultless == Init => NoFaults
BY DEF Init, NoFaults

(* Workers that overtake each other are all that drops an operation: while *)
(* the workers of a node handle one job at a time, each finds in the tree  *)
(* what its operation refers to (runRedis, HandleDelta, applyInsert).      *)
THEOREM SerialWorkersDropNothing == Spec /\ []OneAtATime => []NothingDropped
<1>1. IInv /\ OInv => NothingDropped
  BY ShownNotDropped
<1>2. IInv /\ OInv /\ OneAtATime /\ OneAtATime' /\ [Next]_vars => OInv'
  BY NextOInv
<1> QED
  BY <1>1, <1>2, InitIInv, InitOInv, NextIInv, NextIsFaultyNext, PTL DEF Spec

(* With any number of workers: unless a node drops an operation, the nodes *)
(* are in one state when everything sent has been worked off (HandleDelta, *)
(* runRedis, Publish).                                                     *)
THEOREM QuietClusterConverged == Spec /\ []NothingDropped => []ConvergedWhenQuiet
<1>1. IInv /\ Accounted /\ TombstonesWereSent /\ NoFaults /\ NothingDropped => ConvergedWhenQuiet
  BY QuietConverged
<1>2. IInv /\ Accounted /\ TombstonesWereSent /\ [FaultyNext]_vars => Accounted' /\ TombstonesWereSent'
  BY NextAccounted, TombstonesNext
<1>3. NoFaults /\ [Next]_vars => NoFaults'
  BY StaysFaultless
<1> QED
  BY <1>1, <1>2, <1>3, InitAccounted, InitFaultless, InitIInv, NextIInv, NextIsFaultyNext, PTL
     DEF Spec

(* With any number of workers: unless a node drops an operation, the       *)
(* cluster implements replicas with causal delivery, which nothing in the  *)
(* code checks (runRedis, pool.Submit, HandleDelta).                       *)
THEOREM ClusterDeliversCausally == Spec /\ []NothingDropped => DeliversCausally
<1>1. IInv /\ NoFaults /\ NothingDropped' /\ [Next]_vars => [Replicas!CausalNext]_treeVars
  BY NextDeliversCausally
<1>2. NoFaults /\ [Next]_vars => NoFaults'
  BY StaysFaultless
<1>3. DeliversCausally <=> Replicas!Init /\ [][Replicas!CausalNext]_treeVars
  BY DEF DeliversCausally, Replicas!CausalSpec, Replicas!vars, treeVars
<1> QED
  BY <1>1, <1>2, <1>3, InitDelivers, InitFaultless, InitIInv, NextIInv, NextIsFaultyNext, PTL
     DEF Spec
=============================================================================
