# Verification of CRDT-Engine

TLA+ specifications of the CRDT engine and its collaboration server, the TLC
configurations that check them on small instances, and theorems that TLAPS
checks for every instance. All definitions are read off the Go code; paths below
are relative to the repository.

- `tlc -config X.cfg M` checks run `X` (the table in section 4 gives `M`).
- `tlapm M.tla` checks the proofs of a `*Proofs` module.
- `PROJECT.json` holds the same information in machine-readable form: the runs,
  a mutation of the model that violates each property, the source lines behind
  each definition, the hazards of the code, the findings and the theorems.

## 1. The system

A document is a sequence of characters that many people edit at once. Server
nodes each hold a copy of it in memory; browsers talk to a node over WebSocket,
nodes talk to each other over Redis Pub/Sub.

    browser --intent--> Hub.inbound --> runWS ----+
                                                  +-> worker pool -> handleClientMsg -> HandleDelta
    Redis --delta--> Subscriber.out --> runRedis -+                                       |    |    |
                                                                              FugueTree <-+    |    +-> Publisher -> Redis
                                                                              Hub.Broadcast <--+

| Component | State | Operations | Talks to |
|---|---|---|---|
| `FugueTree` (`pkg/crdt/fugue.go`, `engine.go`) | tree of nodes with tombstones, counter, `mu` | `InsertAt`, `DeleteAt`, `ApplyRemoteInsert/Delete`, `ApplyOperation`, `Merge`, reads | called by everybody, from any goroutine |
| `SyncUseCase` (`internal/usecase/sync.go`) | none of its own | `HandleDelta`: decode, apply, broadcast, publish | repository, hub, publisher |
| dispatcher (`cmd/demo-app/main.go`) | none of its own | `runWS`, `runRedis`, `handleClientMsg` | hub, subscriber, pool, use case |
| worker pool (`internal/worker/pool.go`) | `jobs` channel, `stopped`, pool context, workers | `New`, `Submit`, `TrySubmit`, `Stop` | runs the dispatcher's jobs |
| hub (`internal/websocket`) | registry, `registerCh`, `unregisterCh`, `inbound`; per client a `send` channel, `closed`, two pumps | `HandleUpgrade`, `Run`, `Broadcast`, `unregister`, `Shutdown` | sockets, dispatcher, workers |
| Redis adapter (`internal/redis`) | subscriptions, output channel | `Publish`, `Subscribe`, `Unsubscribe`, `Close`, `run` | Redis, dispatcher |
| repository (`internal/repository`) | map of documents | `GetOrCreate`, `Get`, `Create`, `Save`, `Delete`, `Exists` | use cases |
| `VectorClock`, `GSet`, `TwoPSet`, `LWWRegister` (`pkg/crdt`) | a map, two sets, a value | increments, adds, sets, `Merge`, `Compare` | library only; the server does not use them |

What is hard, and what must hold:

- **`FugueTree`.** Operations arrive late, twice and out of order. Replicas with
  the same operations must be equal; nothing may be lost, revived, moved or
  shown twice; a character must land where it was typed; concurrent text should
  stay whole. `Merge` gives up one lock before it takes the other, starts from a
  Go map in random order and sorts by counter alone.
- **The pipeline.** Eight workers run jobs of one queue in any order; Redis loses
  messages and echoes a node's own; Publish may fail half-way through a delta.
  Nodes should converge, no message may circle, clients should be told once.
- **The pool.** `Submit` races with `Stop`, `Stop` with itself and with the
  deadline of its context. No accepted job may be lost and no call may hang.
- **The hub.** A client is closed by its reader, by a broadcast that finds it
  slow, and by `Shutdown`, all at once; channels fill up; registration and
  unregistration travel in different channels. The server must not panic, wait
  for a client, or hold on to one.
- **The Redis subscriber.** `Subscribe`, `Unsubscribe` and `Close` race; a call to
  Redis may fail half-way; `run` may be blocked on a full channel when it is told
  to stop. Its books must match the connection, and its channel must be closed.
- **The repository.** It hands out pointers, and may drop or replace the tree
  behind one. Those who create a document together must share one tree.
- **The small data types.** Merge works with a copy that goes out of date; locks
  of two objects are taken together, or ought to be and are not; timestamps tie.

The hazards, each at its line and with the properties that cover it, are in
`PROJECT.json`.

## 2. The modules

| Module | Models | Role |
|---|---|---|
| `FugueTree` | every helper of `fugue.go` as an operator on trees | pure definitions shared by the modules below |
| `FugueReplicas` | replicas that exchange operations | core state machine; `Spec` (any order) and `CausalSpec` (parents first) |
| `ReplicatedNodeSet` | what a document promises of its characters | abstract specification that `FugueReplicas` and, in its merging form, `FugueMerge` implement |
| `FugueRuns` | concurrent typing sessions | restricts the edits of `FugueReplicas` to runs of text |
| `FugueMerge` | `Merge` between live replicas | state-based exchange |
| `CausalClocks` | `vclock.go` | component; calls and the locks they hold and wait for |
| `TwoPSets` | `twopset.go` on `gset.go` | component; calls cut into locked steps |
| `LWWRegisters` | `lww_register.go` | component |
| `SyncCluster` | dispatcher, pool, `HandleDelta`, Redis, several nodes | composition; implements `FugueReplicas`; loss, failed publishes, restarts |
| `WorkerPool` | `internal/worker` | component |
| `RedisSubscriber` | `internal/redis/subscriber.go` | component |
| `Repository` | `internal/repository`, `document.go` | component |
| `Hub` | `internal/websocket` | component |
| `MCDataTypes` | | `FugueMerge`, `FugueRuns` and the small data types side by side |
| `MCServices` | | `WorkerPool`, `RedisSubscriber` and `Repository` side by side |
| `MCFugueAndServices` | | `FugueReplicas` beside those |
| other `MC...` | | values for the constants, symmetry sets |
| `FugueTreeProofs` | | proofs: sorted child slices, insertion, deletion, operations commute |
| `FugueTraversalProofs` | | proofs: the order of characters in any sound tree |
| `FugueReplicasProofs` | | proofs: `FugueReplicas`, that it implements `ReplicatedNodeSet`, and the typing sessions of `FugueRuns` |
| `DataTypesProofs` | | proofs: `CausalClocks`, `TwoPSets`, `LWWRegisters`, `FugueMerge` and the laws of its `Merge`, sessions of `MCDataTypes` |
| `ServicesProofs` | | proofs: `WorkerPool`, `Repository`, `RedisSubscriber` |
| `HubProofs` | | proofs: `Hub` |
| `SyncClusterProofs` | | proofs: `SyncCluster` with losses, restarts and any number of workers; it implements `FugueReplicas` |
| `SyncClusterOrderProofs` | | proofs: `SyncCluster` without faults: what holds if no operation is dropped, and when none is |

`MCDataTypes`, `MCServices` and `MCFugueAndServices` put modules that share no state
into one run: a behaviour chooses one of them at the start and leaves the others as
they begin, so that the state spaces add up instead of multiplying. Nothing about a
module depends on its neighbours there, and fairness asks nothing of one that has
nothing to do.
`MCDataTypes` extends the small data types, so their common names are told apart:
`SetClock` and `WriteClock` are `VectorClock.Set` and the critical sections of its
writers, `ApplySetOp` is `LWWRegister.ApplyOperation`.

How state and steps correspond to the code:

- **`FugueTree`.** A tree is a function from ids to nodes, as `ft.nodes` is a map;
  the child slices are sequences of ids. An `OpID` is a pair of numbers: replica
  ids are numbers because only their order matters, the root sentinel is
  `<<0, 0>>`. `"__root__"` need not be the least string, but the root is never a
  child, so it is never compared for order. Positions count from 0, and one that
  is out of range changes nothing, so it is no step.
- **`FugueReplicas`.** One action per critical section of `ft.mu`: `InsertAt`,
  `DeleteAt`, `Receive`. `sent` is every operation ever returned to a caller, and
  a step may deliver any of them anywhere again; the code leaves transport to its
  user. `applied` is a history of what each replica was handed. A delivery that
  the tree drops changes `applied` only: this is how a lost operation shows.
- **`FugueMerge`.** `CopyOther` ends at `otherTree.mu.RUnlock()`, `ApplyCopied` is
  the rest. The copy is a set because Go maps have no order; `SortedByCounter`
  is every sequence `sort.Slice` may return, as it is not stable.
- **`FugueRuns`.** First one replica writes the text, with insertions and deletions
  anywhere (`Write`), and everybody gets it (`Begin`). Then each session types forward
  (the caret follows the text) or backward (the caret stays), from a position of its
  choice, and the runs are exchanged. Its steps are `InsertAt`, `DeleteAt` and
  `ReceiveReady`.
- **`SyncCluster`.** A worker is a small program counter: resolve the intent, apply,
  broadcast, publish, each atomic because each holds one lock or sends one
  message. For a local operation HandleDelta applies what `InsertAt` has already
  applied; that second application is a step of its own, as in the code. The
  hub's inbound channel and the pool's queue are one queue per node, and so are
  the subscriber's channel and that queue: they are FIFO, and only the join
  reorders, which the dispatchers' interleaving covers. Redis orders the messages
  of a channel (`wire`), each node reads it at its own pace. `Restart` ends a
  process and starts it again under its `NODE_ID`: everything it had was in memory,
  so its tree, counter, jobs and workers begin anew, and its subscription starts
  with the next message.
- **`WorkerPool`.** `Submit` is two steps, the check of `p.stopped` and the select;
  `Stop` is three, set, close, wait. A send on a closed channel sets `crashed`,
  after which nothing moves, since a Go panic takes the process down.
- **`RedisSubscriber`.** `s.mu` is held across calls to Redis, so a call begins
  (`CallRedis`), takes effect at Redis or not (`RedisDoes`, external), and returns. An
  error comes whenever it has not taken effect and may come when it has (`CallFails`).
  The first `Subscribe` has no error to return: `client.Subscribe` (line 62) keeps
  its own to itself, so that `Opened` takes a call for done whatever Redis did. `unsure`
  is a history of the documents whose last call has failed. `Close` is three: flag,
  `close(s.stop)`, `ps.Close()`, which ends all subscriptions of the connection. `run`
  has the states of its two selects. A delta is told from an undecodable payload and
  from nothing else, so `s.out` is a number.
- **`Repository`.** Every method is one step under `r.mu`; what it returns is kept in
  `held`, and `Edit` applies an operation to that tree however old it is. `LoadOrCreate`,
  `Text` and the snapshot handler are `GetOrCreate` and a read.
- **`CausalClocks`.** A call is cut where it holds one lock and waits for another,
  or has let go of one and not yet taken the next. A writer that has called `Lock` keeps
  new readers out, as in Go's `RWMutex`, and gets the lock when the old ones have left.
- **`TwoPSets`.** `s.mu` is only ever locked for reading and excludes nobody; a method
  is the sequence of its `GSet` calls, with anything in between.
- **`LWWRegisters`.** `writes` is every write there has been, handed to any register
  at any time (`ApplyOperation`), and `seen` is what a register has been told of.
- **`Hub`.** Channels are sequences with their capacity. Whoever disconnects a client
  swaps `c.closed`, closes `c.send` and hands the client to `unregisterCh`, in three
  steps; `closeAll` does the first two. Both panics on `c.send` are in the model: a send
  after the close (`Push`) and a second close (`CloseSend`), and after either nothing
  moves. A message is told from others by its sender alone, so `send[c]` is a number. A
  failed socket is `Disconnect`, whenever it happens.

## 3. Fairness

- `FugueReplicas!DeliveryFairness`: each replica keeps receiving, as long as
  something has not been handed to it, in whatever order. That is the duty of whoever
  carries operations; edits are not fair.
- `FugueMerge!FairSpec`: strong fairness of each pair's `Merge`. A call returns,
  and callers merge periodically; `MaxRunning` bounds the calls under way, so a
  pair's turn is enabled again and again rather than for good.
- `SyncCluster!FairSpec`: weak fairness of each worker and of `runRedis`: Go
  schedules every goroutine that can run, and the connection stays up. Clients
  need not send.
- `WorkerPool!PoolFairness`: strong fairness of a blocked sender (the Go runtime queues
  goroutines blocked on a channel first in, first out), weak fairness of workers
  (jobs end) and of the steps of a `Stop` that has been called. Nobody has to
  call `Stop`, its context need not expire. `SchedulingFairness`, which `PoolStop` uses,
  is the same for jobs that need not end: nothing in the pool makes them.
- `RedisSubscriber!Fairness`: calls to Redis return, done or not, `Close` that has begun
  goes on, `run` runs; strong fairness of its start, which waits for `s.mu`: `sync.Mutex`
  serves a waiter in the end, while callers may come again and again. Nobody has to read
  `Messages`.
- `Hub!FairSpec`: weak fairness of `Run`, which takes one of the cases that are ready;
  strong fairness of each `Broadcast` and of the readers that disconnect their clients,
  taken together: who is blocked on `unregisterCh` gets its turn when others come and
  go. Sockets are not fair: a client may never read.

## 4. The runs

| Run | Module | Checks | Shows |
|---|---|---|---|
| `FugueAndServices` | `MCFugueAndServices` | replicas: `TypeOK`, `ChildListsMatchParents`, `TraversalCoversNodes`, `OrderAgreement`, `SameNodesSameTree`, `StrongConvergence`, `NodesAgree`, `HistoryIsKept`, `ImplementsNodeSet`, `InsertLandsUnlessDeepBelow`, `EventualConvergence` | what holds of operation-based replicas in every order of delivery, with what is dropped left out where it must be |
| | | services: `StopLeavesNothing`, `OnlyOverlapCrashes`, `AcceptedJobsRun`, `CallsReturn`; `SubscribedUnlessCallFailed`, `MessagesEnd`; `EditsReachTheDocument` | the contracts of the pool, the subscriber and the repository |
| `FugueInsertPosition` | `MCFugueReplicas` | `InsertLandsAtPos` (violated) | finding 1 |
| `FugueBackwardRuns` | `MCFugueRuns` | `RunsNeverInterleave` (violated) | finding 2 |
| `DataTypes` | `MCDataTypes` | `MergedTreesAgree`, `MergeMissesOnlyInversions`, `RepeatedMergeConverges`, `ForwardRunsStayWhole`, `CompareDecidesCausality`, `OnlyCrossedComparesBlock`, `ContainsIsAtomic`, `StateMissesOnlyRemovals`, `OnlyTiesDiverge` | Merge of trees interleaved with edits; which typed text stays whole; what clocks, two-phase sets and registers give callers that use them at once |
| `ClusterInOrder` | `MCSyncCluster` | `ConvergedWhenQuiet`, `DeliversCausally`, `EditsReachEveryNode` | what the pipeline would give if a node ran one job at a time: causal delivery |
| `ClusterLossy` | `MCSyncCluster` | `OnlyRestartsClash`, `NoEchoLoop`, `FramesAreNews`, `OnlyLossesDiverge`, `DeliversInSomeOrder` | what it gives as it is: several workers, lost messages, failed publishes, a restart |
| `ClusterWorkersRace` | `MCSyncCluster` | `ConvergedWhenQuiet` (violated) | finding 3 |
| `ClusterRestart` | `MCSyncCluster` | `IdsNameOneEdit` (violated) | finding 4 |
| `ClusterLaterMessage` | `MCSyncCluster` | `LaterMessageHeals` (violated) | finding 5 |
| `PoolStop` | `WorkerPool` | `StopEndsWithContext` (violated) | finding 6 |
| `HubSafety` | `MCHub` | `SendIsClosedOnce`, `ServedOrClosed`, `ShutdownMissesOnlyQueued` | the hub under every interleaving |
| `HubLiveness` | `MCHub` | `LeaversAreRemoved`, `NobodyWaitsForClients` | nothing gets stuck on a client |

Deadlock is checked in `FugueInsertPosition`, where redelivery keeps every state from
being final. The other runs end when their bounded inputs are used up, and the pool,
the subscriber and the hub when they have been stopped or have panicked.

Bounds, and why they are enough:

- `MaxOps = 3` on three replicas contains an operation, one that hangs from it and
  a concurrent third, in all orders, so that an operation comes before its parent, a
  deletion before its target, and siblings come in both orders; the shortest
  misplaced insertion takes three.
- The typing sessions have two characters each on every text that three edits by one
  replica make, in every pair of positions and directions: chains and prepended
  texts, texts with a tombstone, positions behind which a deep descendant hangs. A third
  character of a run hangs from the second as that does from the first.
- `ClusterInOrder` has three intents and a queue of two, so that a queue fills up
  and a node has two operations of the other in flight; `ClusterLossy` has two
  workers per node, the fewest that overtake each other, and a queue of one.
- `ClusterLossy` and `ClusterRestart` let one node restart once (`MayRestart`): an id
  is then used twice, and the other node has seen the first use or not.
- Merging trees: three edits on three replicas and one `Merge` under way at a time
  (`MaxRunning`), the least that inverts parent and child in one Merge.
- Clocks: two clocks, two goroutines that write and two that compare, so that two
  comparisons can be crossed with a writer waiting at each end; one event per clock
  (`MaxEvents`) tells all four answers of `Compare` apart. Two-phase sets: two
  elements, one reader, one Merge that runs beside `Add` and `Remove` by anybody;
  `Merges` has one pair, for the other direction is the same with the names changed.
  Registers: two values and two instants (`MaxTime`), two writes beside the two
  first ones (`MaxWrites`): a tie of one replica with itself and a later write.
- The services of `FugueAndServices`: the pool has two callers of everything and a queue
  of one, full after one job; the subscriber two documents, two callers, two closers
  and buffers of one, so that `run` can be stuck with a delta; the repository two
  documents, two users, three trees, two edits (`MaxTrees`, `MaxUpdates`) and one
  deletion or replacement per document (`MaxTurns`).
- `HubSafety` has three messages and buffers of one, so that two broadcasts may
  find the same client slow at the same time, while it leaves by itself and the
  hub shuts down. `HubLiveness` has two clients that leave through a channel of one.

Clients, workers and the like are interchangeable in `HubSafety`, whose cfg uses
symmetry; it checks invariants only.

Findings, each with the run that shows it:

1. `InsertAt` may put a character at another position than the one given, on one
   replica and without concurrency: insert at 0 three times, and the third
   character is last (`fugue.go:202`). `InsertLandsUnlessDeepBelow` says exactly
   when: if the right neighbour hangs below the left one, but not directly.
   ADR-0005 knows the tree shape and holds that correctness is not affected.
2. As a consequence, two sessions that type at the start of a text with the caret
   in place are interleaved character by character, which `doc.go` excludes. A run
   typed forward stays whole, against other sessions and the text, if it begins where
   `InsertAt` lands (`ForwardRunsStayWhole`, `StartsClean`). If not, the text itself
   breaks it: on a text `y x` typed by prepending, `ab` typed at 0 gives `y b x a`.
3. Workers of one node overtake each other, an operation that comes before its
   parent is dropped (`fugue.go:214`), and nodes stay different although nothing
   was lost: `main.go:52` starts eight. `doc.go:21-23` promises convergence "in any
   order". The nodes converge if no operation is dropped (`QuietClusterConverged`), and
   none is if each node works on one job at a time (`SerialWorkersDropNothing`).
   `OnlyLossesDiverge` says that, with any number of workers, nothing else sets them
   apart. `HandleDelta` also sends a dropped operation to the node's clients
   (`sync.go:101-107`), who then hear of a character that is not in the document.
4. A node that is started again under its `NODE_ID`, as `docker-compose.yml` does,
   counts from 0 again (`main.go:45`, `fugue.go:76`) and gives ids of its first life to
   new operations, which replicas that know the old ones ignore. `engine.go` calls
   the ids globally unique. `OnlyRestartsClash` says that nothing else does this.
5. A message that Redis loses is not made up for: what builds on it is dropped at that
   node, and no later message brings the nodes together. ADR-0006 (line 42) says
   "convergence is guaranteed once any later message arrives", and also that a node
   that was cut off must run a state transfer, which the code does not have.
6. `Stop` waits for the jobs after its context has expired, for as long as they take:
   `<-done` at `pool.go:126`, with no other case. The comments at `pool.go:7` and
   `pool.go:100-101` say that it waits for the jobs *or* for its context. What it does
   instead, on purpose or not, is to leave no accepted job behind (`StopLeavesNothing`).

Some behaviours that the passing runs contain and describe, rather than deny:
a `Submit` that overlaps with `Stop` may panic on the closed channel
(`OnlyOverlapCrashes` says that nothing else does); a `trySend` that overlaps with
the closing of its client may panic likewise, while a second close is excluded
(`SendIsClosedOnce`); a connection
that is still queued for registration at `Shutdown` stays open
(`ShutdownMissesOnlyQueued`), and one that comes when `registerCh` is full waits in
`HandleUpgrade` for ever. A client whose unregistration overtakes its registration stays
in the registry for good, and `ClientCount` counts it as active (`hub.go:157`);
`LeaversAreRemoved` is about clients that are registered when they leave. A single `Merge` may leave nodes out, if a parent's
counter is not below its child's (`MergeMissesOnlyInversions`); repeated merging
makes up for it. `Compare` called crosswise, or of a clock with itself, may block
for ever while writers wait, and nothing else in `vclock.go` does
(`OnlyCrossedComparesBlock`). `TwoPSet.State` may return a set that never was
(`StateMissesOnlyRemovals` says how far off it can be), while `Contains` is always
right (`ContainsIsAtomic`). Registers stay apart after a replica writes twice at one
time (`OnlyTiesDiverge`). A subscriber that is closed before any `Subscribe` never
closes its channel (`MessagesEnd` asks for a subscription), and a failed Redis call
leaves its books out of step (`SubscribedUnlessCallFailed`).

Four more comments say otherwise than the code does; the model has what the code does,
and no run of its own refutes them:

- `doc.go:40-42`, of `Merge`: "it pulls every missing node and tombstone in one shot".
  `MergeMissesOnlyInversions` and the theorem `InvertedNodesAreLost` say what it leaves.
- `twopset.go:25`, of `mu`: "для атомарности Contains и State" (for the atomicity of
  Contains and State). `Add`, `Remove` and `Merge` do not take `mu`, and `State` is not
  atomic (`StateMissesOnlyRemovals`); `Contains` is, for another reason.
- `subscriber.go:14-15` and ADR-0006 (line 26): a node subscribes to all documents that
  are active on it. `main.go:73` subscribes to `DOC_ID` alone; edits of a document opened
  with `?doc=` never reach another node.
- `subscriber.go:51-52` has `Subscribe` return an error, and `main.go:73-75` ends the
  process on one; the error of the first call is lost at line 62.

## 5. The proofs

Every safety property that a passing run checks is also a theorem. All are for
arbitrary constants, from the assumptions the modules name: `ReplicaAssumption` (replica ids are positive
numbers), `MaxOpsAssumption`, `BoundsAssumption` (bounds are numbers, at least one
`Merge` may run), `PoolAssumption` (at least one worker, a natural queue size),
`HubAssumption` and `ClusterAssumption` (bounds are numbers, the buffered channels hold
at least one message, as in the code),
`ClocksAssumption`, `SetsAssumption`, `RegistersAssumption` (bounds are numbers, merges
are between sets, registers are numbered), `TypingAssumption` (typists are positive
numbers, the author is one of them, bounds are numbers). None assumes that a set is finite.

**Trees** (`FugueTreeProofs`). `InsertChildProperties`: an insertion into a sorted
slice keeps it sorted, adds one element and no duplicate. `ApplyOperationEffect`
says what any operation does to any sound tree. `SameContentSameTree` rests on the
fact that a finite set has one sorted enumeration (`SortedUnique`). A tree is sound
(`SoundTree`) if child slices match parent links and its nodes can be put in an
order in which parents come first (`Founded`).

**The order of characters** (`FugueTraversalProofs`). `traverse` recurses over the
children of a node and down the tree. That such recursive functions exist is proved
first, by induction on the length of a slice and on the height of a node
(`EveryNatural`, from the least element of a set of numbers, replaces the library's
induction theorem, which takes a predicate as its parameter). `WalkFacts` then
says what one node's walk is: the walks of its left children, itself, the walks of
its right children, all disjoint. `UpTheTree` and `DownTheTree` are induction along
the tree for a set of nodes. They give `TraversalIsComplete` (every node is visited
once) and `SharedNodesInOneOrder` (two trees that agree on the nodes they share
visit these in the same order, whatever else each has): the second compares two
nodes where their paths part. `LandsAt` says where an insertion becomes visible: the
tree afterwards shows the same characters in the same order and one more
(`OneMore`), so the order of the new one and its two neighbours fixes its position,
and that order is read off the place that `selectParent` gave it (`LandsBetween`).

**`FugueReplicas`.** `TypeOK` is not inductive: that an id is free when it is
issued needs `IdsIssuedOnce` (issued counters are not above the replica's), that two
replicas agree on a node needs `NodesWereSent` (each node comes from an issued
insert), and that child slices match parent links needs `SoundTree`. Their
conjunction `IInv` is preserved by every step of `Next`. From it: `SpecTypeOK`,
`SpecChildLists`, `SpecNodesAgree`, `SpecSameNodesSameTree`, with the two results on
traversals `SpecTraversalCovers` and `SpecOrderAgreement`, and for a tree and its
successor `SpecKeepsHistory` (an action property: no step removes, revives or moves
a character), and `LandsAt` gives `SpecInsertLands`. Under `CausalSpec`,
`AppliedIsShown` (a tree holds exactly what was handed to its replica) is inductive
too, and gives `CausalSpecConverges`: strong convergence. In any order of delivery a tree
holds at most what was handed to its replica (`ContentWasApplied`), and the rest is what
it dropped: `SpecConverges`.

**Typing sessions.** `RunsStayWhole` shows that `FugueRuns!ForwardRunsStayWhole` is
an invariant, if `Author` is a replica and `TextLen` and `RunLen` are natural
numbers, whatever the author has written and whatever the directions of the other
sessions. While the text is written, `IInv` of `FugueReplicas` holds (`Writing`). From
then on `RunInv` says what each operation may hang from (`OpsFit`: the text or its own
session; typed forward from a clean start, the character before it) and that a caret
moving forward stands behind the character typed last (`TypesAlone`): that is where
`LandsAt` is needed, and it applies because the run starts clean and nothing hangs from
its last character yet (`LastIsBare`). So the
characters of a forward session that a replica has are the earliest of them and all
that hangs from it (`RunIsOnePiece`), and a traversal visits such a set in one piece
(`ShownInOnePiece`). The run `DataTypes` checks the property through the `INSTANCE`
named `Typing` in `MCDataTypes`; `TypesKeepRunsWhole` (`DataTypesProofs`) proves it of
the specification of that run, from `RunsStayWhole` and the fact that the operators of
the two instances are the same.

**Operations as such.** What `doc.go` promises of operations, as laws about any
sound tree (`FugueTreeProofs`): two operations that a tree takes have one effect in
both orders (`OperationsCommute`), and one that is applied again has none
(`AppliedAgainIsNothing`). A tree takes an operation if it has the parent or target; one
that it does not take is dropped, which `doc.go:21-23` leaves out and finding 3 is about.

**Refinement.** `SpecImplementsNodeSet`: with `nodes` and `dead` read off the trees,
an insertion creates a character nobody has, a deletion removes one, a delivery
teaches what its author knows (`IssuedIsShown`) or stutters when it is dropped or
repeated.

**`FugueMerge`** (`DataTypesProofs`). `MergeIInv` says that all trees are sound and
that an id stands for one insert in all trees and all copies that running calls
carry (`KnownOnce`); hence `MergesKeepTreesAgreeing`. For
`MergesMissOnlyInversions` the loop of `Merge` is followed over a list sorted by
counter: a copied node is there afterwards if the counters along its path from the root
grow. It needs that a copy is closed under
parents (`CopiesClosed`), which its owner's tree was when it was copied.
`MergingImplementsNodeSet` is the refinement: although nodes are dropped and copies
are old, each `Merge` teaches only what the other replica has by then
(`CopiesStayTrue`), and no removal before its character. This refinement is in no run
of section 4; TLC has checked it for three replicas, three edits and two running
merges.

**The laws of Merge** (`DataTypesProofs`). `doc.go:17-19` lists commutativity,
associativity and idempotence. `Merged(t, u)` is the set of trees that `t.Merge(u)` may
come to, one for each order in which the unstable sort may leave equal counters; it
is never empty (`SortedExists`).

- `InOrder(t, u)`: every node of `u` that `t` lacks hangs from a node of `t` or has a
  counter above its parent's. Then the merge is complete (`MergeBringsAll`), and if it
  holds both ways the two merges give one tree (`MergesInOrderCommute`).
- `CountersGrow(t)`: counters grow from parent to child. Merges of such trees
  associate (`MergesOfGrowingTreesAssociate`).
- `MergeWithEqualIsNothing` needs no condition.
- `InvertedNodesAreLost`: without the condition the laws, and the comment at
  `doc.go:40-42` ("pulls every missing node and tombstone in one shot"), are false. A
  node with a counter below that of a parent the receiver lacks is lost by `t.Merge(u)` and kept by `u.Merge(t)`. Such trees occur: replica 1
  types three characters, replica 2 receives them and types its first behind the last;
  an empty replica 3 that merges replica 2's tree does not get that character.
- `OneAuthorIsInOrder` ties the laws to the replicas of `FugueMerge`: their trees meet
  the hypotheses, and a counter always grows between nodes of one author
  (`OwnInsertsGrow`); only the nodes of two authors can be inverted.

Clocks obey the laws without a condition: `Merge` is the least upper bound under
`Compare` (`MergedClockIsLeast`). Registers do up to ties: commutativity fails exactly
for two different writes with one stamp (`RegistersMergeUpToTies`).

**Small data types** (`DataTypesProofs`). None of the properties is inductive,
because the answer of a call depends on what it saw some steps ago.

- Clocks: every clock counts its past, and so does the copy a `Merge` carries
  (`ClocksCountPasts`, `CopiesCountPasts`). `PastOrder` turns the order of counts into
  inclusion of pasts, `PastOfIncrement`, `PastOfSet` and `PastOfJoin` say what the
  three writes do to a past. From the types alone (only `Compare` waits with a lock
  in its hands) follows who can block whom: `ClocksOnlyCrossedComparesBlock`.
- Two-phase sets: the inner sets only grow (`Grow`), a call in progress carries what
  its answer will need (`ContainsSound`, `StateSound`), and growth keeps that true
  (`GrowKeepsSound`); so each step has to be looked at for one call only
  (`OneCallChanges`).
- Registers: a register holds a write it has seen, and nothing it has seen wins
  against it (`HoldsLast`); the copy of a `Merge` is the last of what its owner knew
  (`CopiesLast`). `LastOfUnion` is the transitivity of `Wins`.

**Services** (`ServicesProofs`). For the pool, the invariant adds to the types that
a job accepted is queued, running or done (`NothingLost`), that a worker exits only
on a closed and drained channel, that Stop returns only then, and that one caller
closes the channel. For the repository, that whoever holds the tree of a
document that was never dropped or replaced holds the current one
(`HeldIsCurrent`), and that no edit is counted for a later tree than the
current one (`EditsAreNoLater`). For the subscriber, the invariant `RedisInv` adds that one
goroutine at a time is in a call (`OneCall`), that the connection is made by the
first one (`OpensFirst`), before which nothing is subscribed (`NothingElseIsOpen`), and that what
a call has done at Redis stands until it returns, unless `Close` ends the connection
(`WorkStands`).

**`Hub`** (`HubProofs`). The inductive invariant follows a client through the
goroutines that may hold it: a broadcast is busy with a client it found in the
registry (`BusyWithTarget`), whoever is on its way out has been closed
(`LeaversAreClosed`), no two goroutines are about to close one client's channel, and none
once it is closed (`OneCloser`), `Shutdown` takes all there is in the registry
(`RegistryIsTaken`), and a client whose pumps run is closed, queued for registration,
in the registry, or among those that `Shutdown` has yet to close (`RunningIsKnown`). From it: `SendNeverClosedTwice`,
`BroadcastIsNotSilent`, `ShutdownClosesRegistered`.

**`SyncCluster`.** Of `FaultySpec`, with losses, failed publishes, restarts and any
number of workers (`SyncClusterProofs`): all that is queued, in a worker's hands,
on the wire or in a tree has been issued (`TypeOK`, `NodesWereSent`), an id is issued
twice only across a restart (`IdsIssuedOnce`), what a worker handles as local is its
node's own and not on the wire yet (`OwnIsNew`), and an intent becomes one operation or
none (`WithinBudget`). From it: `NothingIsEchoed`, `ClashesNeedARestart`, and
`ClusterDelivers`: each step is a step of `FugueReplicas!Spec` or none, as long as no
node restarts. Every operation issued is handed to a node, on its way to it (in a worker
of its author, on the wire ahead, in the node's queue or in one of its workers) or lost to
it (`Accounted`), which gives `OnlyLossesSeparate`. And whatever a node's clients have
been told, a worker is about to tell them or waits in the queue is one thing each
(`Heard`), which gives `ClientsHearOnce`.

Of `Spec`, with no faults and any number of workers (`SyncClusterOrderProofs`):
`QuietClusterConverged` and `ClusterDeliversCausally` (the cluster implements
`FugueReplicas!CausalSpec`) hold of every behaviour in which no operation is dropped
(`NothingDropped`). That is the condition that the code leaves to chance: finding 3
(`ClusterWorkersRace`) shows a behaviour of two workers in which it fails.
`SerialWorkersDropNothing` says what would secure it: at most one job in the hands of a
node's workers at a time (`OneAtATime`), as with one worker per node in `ClusterInOrder`. Then
each node handles what it has issued at once and the messages of others in the order of
the wire (`Orderly`), and the wire is a causal order (`WireIsCausal`), so that everything
handed to a tree is shown (`Shown`).

Some operators are written in a form that TLAPS can reason about: recursion as
recursive functions, "all later elements" instead of folds.

**Only model-checked.** Liveness, which TLAPS does not do: `EventualConvergence`,
`RepeatedMergeConverges`, `AcceptedJobsRun`, `CallsReturn`, `MessagesEnd`,
`LeaversAreRemoved`, `NobodyWaitsForClients`, `EditsReachEveryNode`. Every safety
property of a passing run has a theorem.

## 6. Not modelled

- Raw Fugue operations sent by a client (`main.go:268-276`), malformed payloads and
  other decoding errors; negative positions (rejected like those out of range). The
  demo page sends intents only.
- Several documents in the cluster: documents share no state but the pool and the
  hub's channels. A document other than `DOC_ID` is one all of whose messages are
  lost, which `ClusterLossy` contains.
- The sequence of `hub.Shutdown`, `pool.Stop` and `subscriber.Close` in `main`. Each is
  modelled against callers that go on, which is what `main` leaves running: the
  dispatchers still submit while the pool stops, and the subscriber still delivers.
- `VectorClock.Set` with a count that nobody has reached, or of the clock's own
  component: causality then means nothing.
- `uint64` counters do not wrap: 2^64 operations of one replica are out of reach.
- The HTML client, logging, metrics, Docker, CI.

## 7. Plan

Done, in this order: the Fugue core with its abstract specification, typing
sessions, Merge, the cluster pipeline with its refinements, the pool, the hub,
restarts in the cluster, the Redis subscriber, the repository, the small data types;
then the proofs of section 5.

Left: `ServerShutdown`, that is `Hub`, `WorkerPool` and the dispatchers composed in the
order of `main.go:114-129`.
