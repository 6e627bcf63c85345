---------------------------- MODULE SyncCluster ----------------------------
(***************************************************************************)
(* Server nodes that keep one document in step: cmd/demo-app's dispatcher, *)
(* the worker pool it feeds, SyncUseCase.HandleDelta and the Redis channel *)
(* between the nodes.                                                      *)
(*                                                                         *)
(* A client's intent and a delta from Redis become jobs of the node's one  *)
(* queue; each worker runs its job step by step, and the steps of workers  *)
(* interleave.  Redis gives all subscribers of the channel the messages in *)
(* one order: wire is that order and read[n] how far node n has come.      *)
(* NODE_ID is the ReplicaID of the node's tree, so nodes are replicas.     *)
(***************************************************************************)
EXTENDS FugueTree, FiniteSets

CONSTANTS
  Worker,        \* the goroutines of each node's pool
  QueueSize,     \* the capacity of pool.jobs
  MaxIntents,    \* bound: how many intents the clients send in all
  MayRestart     \* bound: the nodes that may restart, once each

ASSUME ClusterAssumption ==
  /\ QueueSize \in Nat \ {0}
  /\ MaxIntents \in Nat

Node == Replica

VARIABLES
  tree,       \* tree[n]: the document in the repository of node n
  counter,    \* counter[n]: its ft.counter
  jobs,       \* jobs[n]: the queue of n's worker pool
  worker,     \* worker[n][w]: what worker w of n is about to do, and on what
  wire,       \* history: the messages on the document's channel, in order
  read,       \* read[n]: how many of them n's dispatcher has taken
  asked,      \* how many intents have been sent
  sent,       \* history: the operations the nodes have issued
  handed,     \* history: handed[n] is what has been applied to n's tree
  frames,     \* history: frames[n], the operations broadcast to n's clients
  restarted,  \* history: the nodes that have restarted
  lost        \* history: lost[n], the operations a fault has kept from n

treeVars == <<tree, counter, sent, handed>>
vars == <<treeVars, jobs, worker, wire, read, asked, frames, restarted, lost>>

Idle == [pc |-> "idle"]

Init ==
  /\ tree = [n \in Node |-> NewFugueTree]
  /\ counter = [n \in Node |-> 0]
  /\ jobs = [n \in Node |-> <<>>]
  /\ worker = [n \in Node |-> [w \in Worker |-> Idle]]
  /\ wire = <<>>
  /\ read = [n \in Node |-> 0]
  /\ asked = 0
  /\ sent = {}
  /\ handed = [n \in Node |-> {}]
  /\ frames = [n \in Node |-> <<>>]
  /\ restarted = {}
  /\ lost = [n \in Node |-> {}]

-----------------------------------------------------------------------------
(* The dispatcher.                                                         *)

(* Mutant: TrySubmit in its place, its result ignored.                     *)
TrySubmit(n, job) ==
  jobs' = [jobs EXCEPT ![n] = IF Len(@) < QueueSize THEN Append(@, job) ELSE @]

(* pool.Submit blocks while the queue is full.                             *)
Submit(n, job) ==
  /\ Len(jobs[n]) < QueueSize
  /\ jobs' = [jobs EXCEPT ![n] = Append(@, job)]

(* runWS: an intent of a client, whose position is the one the client sees *)
(* and need not fit the tree any more.                                     *)
ClientIntent(n) ==
  /\ asked < MaxIntents
  /\ asked' = asked + 1
  /\ \E pos \in 0 .. MaxIntents :
       \/ \E char \in Char :
            Submit(n, [type |-> "insert_intent", pos |-> pos, char |-> char])
       \/ Submit(n, [type |-> "delete_intent", pos |-> pos])
  /\ UNCHANGED <<treeVars, worker, wire, read, frames, restarted, lost>>

(* Mutant: the node's own messages are not filtered out.                   *)
RedisDeltaAnyOrigin(n) ==
  /\ read[n] < Len(wire)
  /\ Submit(n, [type |-> "delta", op |-> wire[read[n] + 1].op])
  /\ read' = [read EXCEPT ![n] = @ + 1]
  /\ UNCHANGED <<treeVars, worker, wire, asked, frames, restarted, lost>>

(* runRedis: the node drops the echo of its own messages.                  *)
RedisDelta(n) ==
  /\ read[n] < Len(wire)
  /\ LET delta == wire[read[n] + 1]
     IN  IF delta.origin = n
         THEN UNCHANGED jobs
         ELSE Submit(n, [type |-> "delta", op |-> delta.op])
  /\ read' = [read EXCEPT ![n] = @ + 1]
  /\ UNCHANGED <<treeVars, worker, wire, asked, frames, restarted, lost>>

-----------------------------------------------------------------------------
(* The workers.                                                            *)

Become(n, w, state) == worker' = [worker EXCEPT ![n][w] = state]

(* Mutant: a worker takes the youngest job.                                *)
TakeLast(n, w) ==
  /\ worker[n][w] = Idle
  /\ jobs[n] # <<>>
  /\ LET job == jobs[n][Len(jobs[n])]
     IN  Become(n, w, IF job.type = "delta"
                      THEN [pc |-> "apply", op |-> job.op, local |-> FALSE]
                      ELSE [pc |-> "resolve", intent |-> job])
  /\ jobs' = [jobs EXCEPT ![n] = SubSeq(@, 1, Len(@) - 1)]
  /\ UNCHANGED <<treeVars, wire, read, asked, frames, restarted, lost>>

(* A worker takes the next job.                                            *)
Take(n, w) ==
  /\ worker[n][w] = Idle
  /\ jobs[n] # <<>>
  /\ LET job == Head(jobs[n])
     IN  Become(n, w, IF job.type = "delta"
                      THEN [pc |-> "apply", op |-> job.op, local |-> FALSE]
                      ELSE [pc |-> "resolve", intent |-> job])
  /\ jobs' = [jobs EXCEPT ![n] = Tail(@)]
  /\ UNCHANGED <<treeVars, wire, read, asked, frames, restarted, lost>>

(* Mutant: all nodes make their trees under one name.                      *)
nextIDOneName(n) == <<1, counter[n] + 1>>

(* GetOrCreate makes the tree of node n with its NODE_ID as replica id.    *)
nextID(n) == <<n, counter[n] + 1>>

(* The operation an intent stands for on the tree as it is now, none when  *)
(* its position is out of range.  The neighbours are nodes of the tree.    *)
Resolution(n, intent) ==
  LET t == tree[n]
      visible == visibleNodes(t)
      neighbours == {o \in (DOMAIN t) \X (DOMAIN t \union {nil}) :
                       OriginsAt(visible, intent.pos, o[1], o[2])}
      targets == {target \in Nodes(t) :
                    /\ intent.pos \in 0 .. Len(visible) - 1
                    /\ target = visible[intent.pos + 1]}
  IN  IF intent.type = "insert_intent"
      THEN {insertOp(nextID(n), intent.char, selectParent(t, o[1], o[2])) : o \in neighbours}
      ELSE {deleteOp(nextID(n), target) : target \in targets}

(* Mutant: the operation is made here and left to HandleDelta to apply.    *)
ResolveWithoutApplying(n, w) ==
  /\ worker[n][w].pc = "resolve"
  /\ \/ /\ Resolution(n, worker[n][w].intent) = {}
        /\ Become(n, w, Idle)
        /\ UNCHANGED treeVars
     \/ \E op \in Resolution(n, worker[n][w].intent) :
          /\ counter' = [counter EXCEPT ![n] = @ + 1]
          /\ sent' = sent \union {op}
          /\ Become(n, w, [pc |-> "apply", op |-> op, local |-> TRUE])
          /\ UNCHANGED <<tree, handed>>
  /\ UNCHANGED <<jobs, wire, read, asked, frames, restarted, lost>>

(* handleClientMsg up to the call of HandleDelta: InsertAt or DeleteAt on  *)
(* the node's tree; an error ends the job.                                 *)
ResolveIntent(n, w) ==
  /\ worker[n][w].pc = "resolve"
  /\ \/ /\ Resolution(n, worker[n][w].intent) = {}
        /\ Become(n, w, Idle)
        /\ UNCHANGED treeVars
     \/ \E op \in Resolution(n, worker[n][w].intent) :
          /\ counter' = [counter EXCEPT ![n] = @ + 1]
          /\ tree' = [tree EXCEPT ![n] = ApplyOperation(@, op)]
          /\ sent' = sent \union {op}
          /\ handed' = [handed EXCEPT ![n] = @ \union {op}]
          /\ Become(n, w, [pc |-> "apply", op |-> op, local |-> TRUE])
  /\ UNCHANGED <<jobs, wire, read, asked, frames, restarted, lost>>

(* HandleDelta: tree.ApplyOperation, which for a local operation repeats   *)
(* what InsertAt or DeleteAt has already done.                             *)
Apply(n, w) ==
  /\ worker[n][w].pc = "apply"
  /\ tree' = [tree EXCEPT ![n] = ApplyOperation(@, worker[n][w].op)]
  /\ handed' = [handed EXCEPT ![n] = @ \union {worker[n][w].op}]
  /\ Become(n, w, [worker[n][w] EXCEPT !.pc = "broadcast"])
  /\ UNCHANGED <<counter, sent, jobs, wire, read, asked, frames, restarted, lost>>

(* Mutant: a delta from another node is published again.                   *)
BroadcastThenPublish(n, w) ==
  /\ worker[n][w].pc = "broadcast"
  /\ frames' = [frames EXCEPT ![n] = Append(@, worker[n][w].op)]
  /\ Become(n, w, [worker[n][w] EXCEPT !.pc = "publish"])
  /\ UNCHANGED <<treeVars, jobs, wire, read, asked, restarted, lost>>

(* HandleDelta: Broadcast to the node's clients, whatever the origin.      *)
Broadcast(n, w) ==
  /\ worker[n][w].pc = "broadcast"
  /\ frames' = [frames EXCEPT ![n] = Append(@, worker[n][w].op)]
  /\ Become(n, w, IF worker[n][w].local
                  THEN [worker[n][w] EXCEPT !.pc = "publish"]
                  ELSE Idle)
  /\ UNCHANGED <<treeVars, jobs, wire, read, asked, restarted, lost>>

(* HandleDelta: Publish a local operation to every subscriber.             *)
Publish(n, w) ==
  /\ worker[n][w].pc = "publish"
  /\ wire' = Append(wire, [op |-> worker[n][w].op, origin |-> n])
  /\ Become(n, w, Idle)
  /\ UNCHANGED <<treeVars, jobs, read, asked, frames, restarted, lost>>

Work(n, w) ==
  \/ Take(n, w)
  \/ ResolveIntent(n, w)
  \/ Apply(n, w)
  \/ Broadcast(n, w)
  \/ Publish(n, w)

Next ==
  \E n \in Node :
    \/ ClientIntent(n)
    \/ RedisDelta(n)
    \/ \E w \in Worker : Work(n, w)

-----------------------------------------------------------------------------
(* Redis Pub/Sub is fire-and-forget.                                       *)

(* A message does not reach node n.                                        *)
LoseMessage(n) ==
  /\ read[n] < Len(wire)
  /\ read' = [read EXCEPT ![n] = @ + 1]
  /\ lost' = [lost EXCEPT ![n] = @ \union {wire[read[n] + 1].op}]
  /\ UNCHANGED <<treeVars, jobs, worker, wire, asked, frames, restarted>>

(* Publish returns an error: HandleDelta gives up, nobody tries again.     *)
PublishFails(n, w) ==
  /\ worker[n][w].pc = "publish"
  /\ Become(n, w, Idle)
  /\ lost' = [m \in Node |-> IF m = n THEN lost[m] ELSE lost[m] \union {worker[n][w].op}]
  /\ UNCHANGED <<treeVars, jobs, wire, read, asked, frames, restarted>>

-----------------------------------------------------------------------------
(* A node's process ends and is started again with the same NODE_ID, which *)
(* is what docker-compose.yml gives it.  All of its state was in memory:   *)
(* it begins with an empty document and counts from 1, its subscription    *)
(* sees what is published from now on, its clients connect anew.  What it  *)
(* had not published yet reaches nobody.                                   *)
Unpublished(n) ==
  {worker[n][w].op : w \in {v \in Worker :
     worker[n][v].pc \in {"apply", "broadcast", "publish"} /\ worker[n][v].local}}

Restart(n) ==
  /\ n \in MayRestart \ restarted
  /\ restarted' = restarted \union {n}
  /\ tree' = [tree EXCEPT ![n] = NewFugueTree]
  /\ counter' = [counter EXCEPT ![n] = 0]
  /\ handed' = [handed EXCEPT ![n] = {}]
  /\ jobs' = [jobs EXCEPT ![n] = <<>>]
  /\ worker' = [worker EXCEPT ![n] = [w \in Worker |-> Idle]]
  /\ read' = [read EXCEPT ![n] = Len(wire)]
  /\ frames' = [frames EXCEPT ![n] = <<>>]
  /\ lost' = [m \in Node |-> IF m = n THEN sent ELSE lost[m] \union Unpublished(n)]
  /\ UNCHANGED <<sent, wire, asked>>

RestartNext == Next \/ \E n \in Node : Restart(n)

FaultyNext ==
  \/ RestartNext
  \/ \E n \in Node : LoseMessage(n) \/ \E w \in Worker : PublishFails(n, w)

-----------------------------------------------------------------------------
Spec == Init /\ [][Next]_vars

RestartSpec == Init /\ [][RestartNext]_vars

FaultySpec == Init /\ [][FaultyNext]_vars

(* Go runs every goroutine that can move, and a connected subscriber gets  *)
(* what is published.  Clients need not send anything.                     *)
FairSpec ==
  /\ Spec
  /\ \A n \in Node : WF_vars(RedisDelta(n))
  /\ \A n \in Node : \A w \in Worker : WF_vars(Work(n, w))

-----------------------------------------------------------------------------
(* Properties.                                                             *)

Quiet ==
  \A n \in Node :
    /\ jobs[n] = <<>>
    /\ read[n] = Len(wire)
    /\ \A w \in Worker : worker[n][w] = Idle

(* No echo loop: an operation crosses the wire at most once, and only from *)
(* the node that issued it (HandleDelta, runRedis), unless that node issues*)
(* an equal one after a restart.                                           *)
NoEchoLoop ==
  /\ \A i, j \in 1 .. Len(wire) :
       wire[i].op = wire[j].op => i = j \/ wire[i].origin \in restarted
  /\ \A i \in 1 .. Len(wire) : wire[i].origin = wire[i].op.id[1]

(* The clients of a node are told of an operation at most once, by         *)
(* whichever of its workers, and not before HandleDelta has applied it,    *)
(* whatever is lost; a node that has restarted may issue an equal one.     *)
FramesAreNews ==
  \A n \in Node :
    /\ \A i, j \in 1 .. Len(frames[n]) :
         frames[n][i] = frames[n][j] => i = j \/ frames[n][i].id[1] \in restarted
    /\ \A i \in 1 .. Len(frames[n]) : frames[n][i] \in handed[n]

(* What applyInsert and applyDelete did nothing with, for want of the node *)
(* that the operation hangs from or marks.                                 *)
Dropped(n) == {op \in handed[n] : ~Includes(tree[n], op)}

NothingDropped == \A n \in Node : Dropped(n) = {}

MissingAt(n) == {op \in sent : ~Includes(tree[n], op)}

(* The pipeline itself loses nothing, with however many workers: when all  *)
(* is quiet, a node lacks only operations that a fault kept from it, or    *)
(* that it was handed and dropped; and nodes that lack the same ones are   *)
(* in one state (Submit, HandleDelta, runRedis).                           *)
OnlyLossesDiverge ==
  Quiet =>
    /\ \A n \in Node : MissingAt(n) \subseteq lost[n] \union Dropped(n)
    /\ restarted = {} => \A n, m \in Node : MissingAt(n) = MissingAt(m) => tree[n] = tree[m]

(* A delta that is missed delays convergence, which is guaranteed once any *)
(* later message arrives (docs/adr/0006-transport-layer.md): when all is   *)
(* quiet and the last message has reached every node, they agree.          *)
LaterMessageHeals ==
  Quiet /\ wire # <<>> /\ (\A n \in Node : wire[Len(wire)].op \in handed[n]) =>
    \A n, m \in Node : tree[n] = tree[m]

(* When everything sent has been worked off, the nodes are in one state,   *)
(* in whatever order they have received it (doc.go).  With one job at a    *)
(* time per node this holds without faults; the workers that main starts   *)
(* may overtake each other and drop an operation, and then it does not.    *)
ConvergedWhenQuiet == Quiet => \A n, m \in Node : tree[n] = tree[m]

(* The nodes are the replicas of FugueReplicas, and the pipeline between   *)
(* them delivers an operation only where its parent or target is: with one *)
(* worker a node handles what it receives in the order in which it was     *)
(* issued, and StrongConvergence holds for the cluster.                    *)
Replicas == INSTANCE FugueReplicas WITH
              MaxOps <- MaxIntents, applied <- handed

DeliversCausally == Replicas!CausalSpec

(* Every edit a node accepts is handed to the tree of every other node in  *)
(* the end, however small the queues are (Submit, runRedis, Publish);      *)
(* whether the tree takes it is DeliversCausally's concern.                *)
EditsReachEveryNode ==
  \A n \in Node, k \in 1 .. MaxIntents :
    counter[n] >= k ~>
      \A m \in Node : \E op \in handed[m] : op.id = <<n, k>>

(* Whatever is lost, delayed or overtaken between the workers, the nodes   *)
(* are still replicas of FugueReplicas that receive operations in some     *)
(* order, up to a restart, which is the one step that takes a replica back *)
(* to where it began (HandleDelta, handleClientMsg, main).                 *)
Forget(n) ==
  /\ tree' = [tree EXCEPT ![n] = NewFugueTree]
  /\ counter' = [counter EXCEPT ![n] = 0]
  /\ handed' = [handed EXCEPT ![n] = {}]
  /\ sent' = sent

DeliversInSomeOrder ==
  /\ Replicas!Init
  /\ [][Replicas!Next \/ \E n \in restarted' \ restarted : Forget(n)]_treeVars

(* An OpID is unique without coordination, as engine.go says: no two       *)
(* operations that nodes have issued share one.                            *)
IdsNameOneEdit == \A op, other \in sent : op.id = other.id => op = other

(* What is true of a node that comes back under its NODE_ID: two nodes show*)
(* different characters, or the same one in different places, under one id *)
(* only if the node that issues these ids has restarted.  Loss, failed     *)
(* publishes and racing workers alone never have this effect.              *)
OnlyRestartsClash ==
  \A n, m \in Node : \A id \in Nodes(tree[n]) \intersect Nodes(tree[m]) :
    \/ id[1] \in restarted
    \/ /\ tree[n][id].value = tree[m][id].value
       /\ tree[n][id].parent = tree[m][id].parent
       /\ tree[n][id].side = tree[m][id].side
=============================================================================
