---------------------------- MODULE CausalClocks ----------------------------
(***************************************************************************)
(* pkg/crdt/vclock.go: vector clocks shared between goroutines.            *)
(*                                                                         *)
(* Every replica has a clock, and is named by it: only its own component   *)
(* is incremented there, the others come from merging.  A clock is a       *)
(* function of all replicas, with 0 for a component that the map lacks.    *)
(*                                                                         *)
(* vc.mu is a sync.RWMutex: once a writer waits in Lock, RLock blocks.  A  *)
(* call that holds at most one lock and does not wait while it holds it is *)
(* one step.  Compare holds its first read lock while it waits for the     *)
(* second, a writer waits in the queue of its lock.                        *)
(***************************************************************************)
EXTENDS Integers

CONSTANTS
  Clock,        \* the clocks, one for each replica
  Editor,       \* goroutines that increment, set and merge clocks
  Comparer,     \* goroutines that compare them
  MaxEvents     \* bound: how many events each replica has

ASSUME ClocksAssumption == MaxEvents \in Nat

VARIABLES
  clocks,       \* clocks[c][r]: component r of clock c
  clockCall,    \* clockCall[g]: the call g is in the middle of
  past          \* history: past[c], the events that happened before or at c

clockVars == <<clocks, clockCall, past>>

Goroutine == Editor \union Comparer

Zero == [r \in Clock |-> 0]
noClockCall == [pc |-> "none", held |-> {}]

ClocksInit ==
  /\ clocks = [c \in Clock |-> Zero]
  /\ clockCall = [g \in Goroutine |-> noClockCall]
  /\ past = [c \in Clock |-> {}]

-----------------------------------------------------------------------------
(* Compare.                                                                *)

(* Mutant: only the components of the receiver's own map are looked at.    *)
CompareOwnKeys(vc, other) ==
  LET mine == {r \in Clock : vc[r] > 0}
      lessOrEqual == \A r \in mine : vc[r] <= other[r]
      greaterOrEqual == \A r \in mine : vc[r] >= other[r]
  IN  IF lessOrEqual /\ greaterOrEqual THEN "equal"
      ELSE IF lessOrEqual THEN "before"
      ELSE IF greaterOrEqual THEN "after" ELSE "concurrent"

Compare(vc, other) ==
  LET lessOrEqual == \A r \in Clock : vc[r] <= other[r]
      greaterOrEqual == \A r \in Clock : vc[r] >= other[r]
  IN  IF lessOrEqual /\ greaterOrEqual THEN "equal"
      ELSE IF lessOrEqual THEN "before"
      ELSE IF greaterOrEqual THEN "after" ELSE "concurrent"

-----------------------------------------------------------------------------
(* The locks.  A call that has to wait in the middle says which clocks it  *)
(* holds for reading and, from Lock on, which one it waits to write.       *)

Idle(g) == clockCall[g] = noClockCall

Proceed(g, call) == clockCall' = [clockCall EXCEPT ![g] = call]

Writers(c) == {g \in Goroutine : clockCall[g].pc = "write" /\ clockCall[g].clock = c}

Readers(c) == {g \in Goroutine : c \in clockCall[g].held}

(* RLock returns; Lock is entered, after which no RLock returns; the       *)
(* writer that entered gets the lock.                                      *)
MayRLock(c) == Writers(c) = {}
MayQueue(c) == Writers(c) = {}
MayWrite(c) == Readers(c) = {}

-----------------------------------------------------------------------------
(* Increment and Set.                                                      *)

Increment(g, c) ==
  /\ Idle(g) /\ MayQueue(c) /\ clocks[c][c] < MaxEvents
  /\ Proceed(g, [pc |-> "write", held |-> {}, clock |-> c, kind |-> "increment"])
  /\ UNCHANGED <<clocks, past>>

(* Set overwrites a component: here one of another replica, by a number of *)
(* events which that replica has had.                                      *)
SetClock(g, c, r, value) ==
  /\ Idle(g) /\ MayQueue(c)
  /\ r # c /\ value <= clocks[r][r]
  /\ Proceed(g, [pc |-> "write", held |-> {}, clock |-> c, kind |-> "set",
               replica |-> r, value |-> value])
  /\ UNCHANGED <<clocks, past>>

(* Mutant: other stays locked for reading until Merge returns.             *)
MergeSnapshotHeld(g, c, other) ==
  /\ Idle(g) /\ MayRLock(other)
  /\ Proceed(g, [pc |-> "merge", held |-> {other}, clock |-> c, kind |-> "merge",
               snapshot |-> clocks[other], known |-> past[other]])
  /\ UNCHANGED <<clocks, past>>

(* Merge copies the other clock and lets go of it, then locks its own.     *)
MergeSnapshot(g, c, other) ==
  /\ Idle(g) /\ MayRLock(other)
  /\ Proceed(g, [pc |-> "merge", held |-> {}, clock |-> c, kind |-> "merge",
               snapshot |-> clocks[other], known |-> past[other]])
  /\ UNCHANGED <<clocks, past>>

MergeLock(g) ==
  /\ clockCall[g].pc = "merge" /\ MayQueue(clockCall[g].clock)
  /\ Proceed(g, [clockCall[g] EXCEPT !.pc = "write"])
  /\ UNCHANGED <<clocks, past>>

Join(vc, snapshot) ==
  [r \in Clock |-> IF snapshot[r] > vc[r] THEN snapshot[r] ELSE vc[r]]

Events(r, n) == {<<r, k>> : k \in 1 .. n}

(* The critical section of Increment, Set and Merge.                       *)
WriteClock(g) ==
  /\ clockCall[g].pc = "write" /\ MayWrite(clockCall[g].clock)
  /\ LET call == clockCall[g]
         c == call.clock
     IN  \/ /\ call.kind = "increment"
            /\ clocks' = [clocks EXCEPT ![c][c] = @ + 1]
            /\ past' = [past EXCEPT ![c] = @ \union {<<c, clocks[c][c] + 1>>}]
         \/ /\ call.kind = "set"
            /\ clocks' = [clocks EXCEPT ![c][call.replica] = call.value]
            /\ past' = [past EXCEPT ![c] =
                 {e \in @ : e[1] # call.replica} \union Events(call.replica, call.value)]
         \/ /\ call.kind = "merge"
            /\ clocks' = [clocks EXCEPT ![c] = Join(@, call.snapshot)]
            /\ past' = [past EXCEPT ![c] = @ \union call.known]
  /\ Proceed(g, noClockCall)

(* Compare locks the receiver for reading, and then the other clock; what  *)
(* is left is one step.  Get, Copy and String read under one lock.         *)
CompareFirst(g, c, other) ==
  /\ Idle(g) /\ MayRLock(c)
  /\ Proceed(g, [pc |-> "compare", held |-> {c}, clock |-> c, other |-> other])
  /\ UNCHANGED <<clocks, past>>

CompareSecond(g) ==
  /\ clockCall[g].pc = "compare" /\ MayRLock(clockCall[g].other)
  /\ Proceed(g, noClockCall)
  /\ UNCHANGED <<clocks, past>>

ClocksNext ==
  \/ \E g \in Editor :
       \/ \E c \in Clock :
            \/ Increment(g, c)
            \/ \E r \in Clock, value \in 0 .. MaxEvents : SetClock(g, c, r, value)
            \/ \E other \in Clock : MergeSnapshot(g, c, other)
       \/ MergeLock(g)
       \/ WriteClock(g)
  \/ \E g \in Comparer :
       \/ \E c, other \in Clock : CompareFirst(g, c, other)
       \/ CompareSecond(g)

ClocksSpec == ClocksInit /\ [][ClocksNext]_clockVars

-----------------------------------------------------------------------------
(* Properties.                                                             *)

(* Compare finds out what happened before what: one clock is before        *)
(* another exactly if it knows less, and two are concurrent exactly if     *)
(* each knows an event the other does not, although Merge works with a     *)
(* copy that may be out of date (Compare, Merge).                          *)
CompareDecidesCausality ==
  \A c, d \in Clock :
    Compare(clocks[c], clocks[d]) =
      IF past[c] = past[d] THEN "equal"
      ELSE IF past[c] \subseteq past[d] THEN "before"
      ELSE IF past[d] \subseteq past[c] THEN "after" ELSE "concurrent"

Blocked(g) ==
  \/ clockCall[g].pc = "merge" /\ ~MayQueue(clockCall[g].clock)
  \/ clockCall[g].pc = "write" /\ ~MayWrite(clockCall[g].clock)
  \/ clockCall[g].pc = "compare" /\ ~MayRLock(clockCall[g].other)

(* Comparisons each of which waits behind a writer of a clock that one of  *)
(* them holds: a.Compare(b) and b.Compare(a), or a.Compare(a) alone.       *)
CrossedCompares ==
  LET comparing == {g \in Goroutine : clockCall[g].pc = "compare"}
  IN  comparing # {} /\ \A g \in comparing :
        /\ Writers(clockCall[g].other) # {}
        /\ Readers(clockCall[g].other) \intersect comparing # {}

(* Calls can block each other for ever, and only if Compare is called      *)
(* crosswise while writers wait.  Merge in both directions at once, or of  *)
(* a clock with itself, never does.                                        *)
OnlyCrossedComparesBlock ==
  LET busy == {g \in Goroutine : ~Idle(g)}
  IN  busy # {} /\ (\A g \in busy : Blocked(g)) => CrossedCompares
=============================================================================
