--------------------------- MODULE DataTypesProofs ---------------------------
(***************************************************************************)
(* What the data types of pkg/crdt keep, each on its own: that Compare     *)
(* decides causality and only crossed calls of it block, that the answers  *)
(* of a two-phase set are right although its locks are taken one by one,   *)
(* that registers with the same writes agree, ties apart, what Merge does  *)
(* to trees and which laws it obeys, that merging replicas implement       *)
(* ReplicatedNodeSet, and that typing sessions keep their runs whole.  For *)
(* any number of replicas, goroutines, events, elements, writes and edits. *)
(***************************************************************************)
EXTENDS MCDataTypes, FugueTraversalProofs, FiniteSetTheorems, TLAPS

-----------------------------------------------------------------------------
(* VectorClock                                                             *)
(* -----------                                                             *)

(* The inductive invariant: a clock counts its past, and so does the copy  *)
(* that a Merge has taken; only Compare waits with a lock in its hands.    *)

VC == [Clock -> Nat]

Event == Clock \X (Nat \ {0})

Past(vc) == {e \in Event : e[2] <= vc[e[1]]}

ClockCall ==
  [pc : {"none"}, held : {{}}]
    \union [pc : {"write"}, held : {{}}, clock : Clock, kind : {"increment"}]
    \union [pc : {"write"}, held : {{}}, clock : Clock, kind : {"set"},
            replica : Clock, value : Nat]
    \union [pc : {"merge", "write"}, held : {{}}, clock : Clock, kind : {"merge"},
            snapshot : VC, known : SUBSET Event]
    \union [pc : {"compare"}, held : SUBSET Clock, clock : Clock, other : Clock]

ClocksTypeOK ==
  /\ clocks \in [Clock -> VC]
  /\ past \in [Clock -> SUBSET Event]
  /\ clockCall \in [Goroutine -> ClockCall]

ClocksCountPasts == \A c \in Clock : past[c] = Past(clocks[c])

CopySound(call) == call.pc \in {"merge", "write"} /\ call.kind = "merge" =>
                     call.known = Past(call.snapshot)

CopiesCountPasts == \A g \in Goroutine : CopySound(clockCall[g])

ClocksIInv == ClocksTypeOK /\ ClocksCountPasts /\ CopiesCountPasts

-----------------------------------------------------------------------------
(* Clocks are ordered as their pasts are.                                  *)

LEMMA PastOrder ==
  ASSUME NEW vc \in VC, NEW other \in VC
  PROVE  Past(vc) \subseteq Past(other) <=> \A r \in Clock : vc[r] <= other[r]
<1>1. ASSUME \A r \in Clock : vc[r] <= other[r], NEW e \in Past(vc)
      PROVE  e \in Past(other)
  <2>1. e \in Event /\ e[1] \in Clock /\ e[2] \in Nat /\ e[2] <= vc[e[1]]
    BY DEF Past, Event
  <2>2. vc[e[1]] \in Nat /\ other[e[1]] \in Nat /\ vc[e[1]] <= other[e[1]]
    BY <1>1, <2>1 DEF VC
  <2> QED BY <2>1, <2>2 DEF Past
<1>2. ASSUME Past(vc) \subseteq Past(other), NEW r \in Clock
      PROVE  vc[r] <= other[r]
  <2>1. vc[r] \in Nat /\ other[r] \in Nat
    BY DEF VC
  <2>2. CASE vc[r] = 0
    BY <2>1, <2>2
  <2>3. CASE vc[r] # 0
    <3>1. <<r, vc[r]>> \in Event
      BY <2>1, <2>3 DEF Event
    <3>2. <<r, vc[r]>> \in Past(vc)
      BY <2>1, <3>1 DEF Past
    <3>3. <<r, vc[r]>> \in Past(other)
      BY <1>2, <3>2
    <3> QED BY <3>3 DEF Past
  <2> QED BY <2>2, <2>3
<1> QED BY <1>1, <1>2

(* a knows no event that b does not know, as Compare tells it.             *)
NotAfter(a, b) == Compare(a, b) \in {"equal", "before"}

LEMMA NotAfterIsOrder ==
  ASSUME NEW a \in VC, NEW b \in VC
  PROVE  NotAfter(a, b) <=> \A r \in Clock : a[r] <= b[r]
BY DEF NotAfter, Compare

(* Merge computes the least clock that knows all that both know, whichever *)
(* of the two is the receiver and in whatever groups and however often     *)
(* clocks are merged (Merge, Compare; the contract of doc.go).             *)
THEOREM MergedClockIsLeast ==
  ASSUME NEW a \in VC, NEW b \in VC
  PROVE  /\ NotAfter(a, Join(a, b)) /\ NotAfter(b, Join(a, b))
         /\ \A c \in VC : NotAfter(a, c) /\ NotAfter(b, c) => NotAfter(Join(a, b), c)
         /\ Join(a, b) = Join(b, a)
         /\ Join(a, a) = a
         /\ \A c \in VC : Join(Join(a, b), c) = Join(a, Join(b, c))
<1>1. \A x, y \in VC : /\ Join(x, y) \in VC
                       /\ \A r \in Clock : Join(x, y)[r] = IF y[r] > x[r] THEN y[r] ELSE x[r]
  BY DEF Join, VC
<1>2. \A x \in VC : \A r \in Clock : x[r] \in Nat
  BY DEF VC
<1>3. \A x, y \in VC : (\A r \in Clock : x[r] = y[r]) => x = y
  BY DEF VC
<1>4. NotAfter(a, Join(a, b)) /\ NotAfter(b, Join(a, b))
  BY <1>1, <1>2, NotAfterIsOrder
<1>5. ASSUME NEW c \in VC, NotAfter(a, c), NotAfter(b, c)
      PROVE  NotAfter(Join(a, b), c)
  BY <1>1, <1>2, <1>5, NotAfterIsOrder
<1>6. Join(a, b) = Join(b, a)
  <2>1. \A r \in Clock : Join(a, b)[r] = Join(b, a)[r]
    BY <1>1, <1>2
  <2> QED
    BY <1>1, <1>3, <2>1
<1>7. Join(a, a) = a
  BY <1>1, <1>3
<1>8. ASSUME NEW c \in VC PROVE Join(Join(a, b), c) = Join(a, Join(b, c))
  <2>1. Join(a, b) \in VC /\ Join(b, c) \in VC
    BY <1>1
  <2>2. Join(Join(a, b), c) \in VC /\ Join(a, Join(b, c)) \in VC
    BY <1>1, <2>1
  <2>3. ASSUME NEW r \in Clock PROVE Join(Join(a, b), c)[r] = Join(a, Join(b, c))[r]
    <3>1. /\ Join(a, b)[r] = IF b[r] > a[r] THEN b[r] ELSE a[r]
          /\ Join(b, c)[r] = IF c[r] > b[r] THEN c[r] ELSE b[r]
      BY <1>1
    <3>2. /\ Join(Join(a, b), c)[r] = IF c[r] > Join(a, b)[r] THEN c[r] ELSE Join(a, b)[r]
          /\ Join(a, Join(b, c))[r] = IF Join(b, c)[r] > a[r] THEN Join(b, c)[r] ELSE a[r]
      BY <1>1, <2>1
    <3>3. a[r] \in Nat /\ b[r] \in Nat /\ c[r] \in Nat
      BY <1>2
    <3> QED
      BY <3>1, <3>2, <3>3
  <2> QED
    BY <1>3, <2>2, <2>3
<1> QED
  BY <1>4, <1>5, <1>6, <1>7, <1>8

LEMMA ComparePasts ==
  ASSUME NEW vc \in VC, NEW other \in VC
  PROVE  Compare(vc, other) =
           IF Past(vc) = Past(other) THEN "equal"
           ELSE IF Past(vc) \subseteq Past(other) THEN "before"
           ELSE IF Past(other) \subseteq Past(vc) THEN "after" ELSE "concurrent"
<1>1. \A r \in Clock : vc[r] \in Int /\ other[r] \in Int
  BY DEF VC
<1>2. Past(vc) \subseteq Past(other) <=> \A r \in Clock : vc[r] <= other[r]
  BY PastOrder
<1>3. Past(other) \subseteq Past(vc) <=> \A r \in Clock : vc[r] >= other[r]
  <2>1. Past(other) \subseteq Past(vc) <=> \A r \in Clock : other[r] <= vc[r]
    BY PastOrder
  <2> QED BY <1>1, <2>1
<1>4. Past(vc) = Past(other) <=> Past(vc) \subseteq Past(other) /\ Past(other) \subseteq Past(vc)
  OBVIOUS
<1> QED BY <1>2, <1>3, <1>4 DEF Compare

-----------------------------------------------------------------------------
(* What the three writes do to the past that a clock counts.               *)

LEMMA PastOfIncrement ==
  ASSUME NEW vc \in VC, NEW c \in Clock
  PROVE  /\ [vc EXCEPT ![c] = @ + 1] \in VC
         /\ <<c, vc[c] + 1>> \in Event
         /\ Past([vc EXCEPT ![c] = @ + 1]) = Past(vc) \union {<<c, vc[c] + 1>>}
<1> DEFINE new == [vc EXCEPT ![c] = @ + 1]
<1>1. vc[c] \in Nat /\ new \in VC
  BY DEF VC
<1>2. <<c, vc[c] + 1>> \in Event
  BY <1>1 DEF Event
<1>3. ASSUME NEW e \in Event
      PROVE  e \in Past(new) <=> e \in Past(vc) \/ e = <<c, vc[c] + 1>>
  <2>1. PICK r \in Clock, k \in Nat \ {0} : e = <<r, k>>
    BY DEF Event
  <2>2. e[1] = r /\ e[2] = k /\ vc[r] \in Nat
    BY <2>1 DEF VC
  <2>3. CASE r = c
    <3>1. new[r] = vc[c] + 1
      BY <2>3 DEF VC
    <3>2. k <= vc[c] + 1 <=> k <= vc[c] \/ k = vc[c] + 1
      BY <1>1
    <3> QED BY <2>1, <2>2, <2>3, <3>1, <3>2 DEF Past
  <2>4. CASE r # c
    <3>1. new[r] = vc[r]
      BY <2>4 DEF VC
    <3> QED BY <2>1, <2>2, <2>4, <3>1 DEF Past
  <2> QED BY <2>3, <2>4
<1>4. Past(new) = Past(vc) \union {<<c, vc[c] + 1>>}
  <2> HIDE DEF new
  <2> QED BY <1>2, <1>3 DEF Past
<1> QED BY <1>1, <1>2, <1>4

LEMMA PastOfSet ==
  ASSUME NEW vc \in VC, NEW r \in Clock, NEW value \in Nat
  PROVE  /\ [vc EXCEPT ![r] = value] \in VC
         /\ Past([vc EXCEPT ![r] = value]) =
              {e \in Past(vc) : e[1] # r} \union Events(r, value)
<1> DEFINE new == [vc EXCEPT ![r] = value]
<1>1. new \in VC
  BY DEF VC
<1>2. Events(r, value) \subseteq Event
  BY DEF Events, Event
<1>3. ASSUME NEW e \in Event
      PROVE  e \in Past(new) <=> (e \in Past(vc) /\ e[1] # r) \/ e \in Events(r, value)
  <2>1. PICK s \in Clock, k \in Nat \ {0} : e = <<s, k>>
    BY DEF Event
  <2>2. e[1] = s /\ e[2] = k
    BY <2>1
  <2>3. e \in Events(r, value) <=> s = r /\ k <= value
    BY <2>1 DEF Events
  <2>4. CASE s = r
    <3>1. new[s] = value
      BY <2>4 DEF VC
    <3> QED BY <2>2, <2>3, <2>4, <3>1 DEF Past
  <2>5. CASE s # r
    <3>1. new[s] = vc[s]
      BY <2>5 DEF VC
    <3> QED BY <2>2, <2>3, <2>5, <3>1 DEF Past
  <2> QED BY <2>4, <2>5
<1>4. Past(new) = {e \in Past(vc) : e[1] # r} \union Events(r, value)
  <2> HIDE DEF new
  <2> QED BY <1>2, <1>3 DEF Past
<1> QED BY <1>1, <1>4

LEMMA PastOfJoin ==
  ASSUME NEW vc \in VC, NEW snapshot \in VC
  PROVE  /\ Join(vc, snapshot) \in VC
         /\ Past(Join(vc, snapshot)) = Past(vc) \union Past(snapshot)
<1>1. Join(vc, snapshot) \in VC
  BY DEF Join, VC
<1>2. ASSUME NEW e \in Event
      PROVE  e \in Past(Join(vc, snapshot)) <=> e \in Past(vc) \/ e \in Past(snapshot)
  <2>1. e[1] \in Clock /\ e[2] \in Nat
    BY DEF Event
  <2>2. vc[e[1]] \in Nat /\ snapshot[e[1]] \in Nat
    BY <2>1 DEF VC
  <2>3. Join(vc, snapshot)[e[1]] =
          IF snapshot[e[1]] > vc[e[1]] THEN snapshot[e[1]] ELSE vc[e[1]]
    BY <2>1 DEF Join
  <2> QED BY <2>1, <2>2, <2>3 DEF Past
<1>3. Past(Join(vc, snapshot)) = Past(vc) \union Past(snapshot)
  BY <1>2 DEF Past
<1> QED BY <1>1, <1>3

-----------------------------------------------------------------------------
(* Steps that change no clock.                                             *)

LEMMA CallOnly ==
  ASSUME ClocksIInv, UNCHANGED <<clocks, past>>,
         NEW g \in Goroutine, NEW call \in ClockCall, Proceed(g, call), CopySound(call)
  PROVE  ClocksIInv'
<1>1. ClocksTypeOK' /\ ClocksCountPasts'
  BY DEF ClocksIInv, ClocksTypeOK, ClocksCountPasts, Past, Proceed
<1>2. ASSUME NEW h \in Goroutine PROVE CopySound(clockCall'[h])
  <2>1. clockCall'[h] = IF h = g THEN call ELSE clockCall[h]
    BY DEF Proceed, ClocksIInv, ClocksTypeOK
  <2> QED BY <2>1 DEF ClocksIInv, CopiesCountPasts
<1> QED BY <1>1, <1>2 DEF ClocksIInv, CopiesCountPasts, CopySound, Past

LEMMA WaitingSound ==
  ASSUME ClocksIInv, NEW g \in Editor,
         \/ \E c \in Clock :
              \/ Increment(g, c)
              \/ \E r \in Clock, value \in 0 .. MaxEvents : SetClock(g, c, r, value)
              \/ \E other \in Clock : MergeSnapshot(g, c, other)
         \/ MergeLock(g)
  PROVE  ClocksIInv'
<1> g \in Goroutine
  BY DEF Goroutine
<1>1. ASSUME NEW c \in Clock, Increment(g, c) PROVE ClocksIInv'
  <2> DEFINE call == [pc |-> "write", held |-> {}, clock |-> c, kind |-> "increment"]
  <2>1. Proceed(g, call) /\ UNCHANGED <<clocks, past>>
    BY <1>1 DEF Increment
  <2>2. call \in ClockCall /\ CopySound(call)
    BY DEF ClockCall, CopySound
  <2> QED BY <2>1, <2>2, CallOnly
<1>2. ASSUME NEW c \in Clock, NEW r \in Clock, NEW value \in 0 .. MaxEvents,
             SetClock(g, c, r, value)
      PROVE  ClocksIInv'
  <2> DEFINE call == [pc |-> "write", held |-> {}, clock |-> c, kind |-> "set",
                      replica |-> r, value |-> value]
  <2>1. Proceed(g, call) /\ UNCHANGED <<clocks, past>>
    BY <1>2 DEF SetClock
  <2>2. value \in Nat
    BY ClocksAssumption
  <2>3. call \in ClockCall /\ CopySound(call)
    BY <2>2 DEF ClockCall, CopySound
  <2> QED BY <2>1, <2>3, CallOnly
<1>3. ASSUME NEW c \in Clock, NEW other \in Clock, MergeSnapshot(g, c, other)
      PROVE  ClocksIInv'
  <2> DEFINE call == [pc |-> "merge", held |-> {}, clock |-> c, kind |-> "merge",
                      snapshot |-> clocks[other], known |-> past[other]]
  <2>1. Proceed(g, call) /\ UNCHANGED <<clocks, past>>
    BY <1>3 DEF MergeSnapshot
  <2>2. clocks[other] \in VC /\ past[other] \in SUBSET Event
    BY DEF ClocksIInv, ClocksTypeOK
  <2>3. call \in ClockCall
    BY <2>2 DEF ClockCall
  <2>4. CopySound(call)
    BY DEF CopySound, ClocksIInv, ClocksCountPasts
  <2> QED BY <2>1, <2>3, <2>4, CallOnly
<1>4. CASE MergeLock(g)
  <2> DEFINE old == clockCall[g]
             call == [old EXCEPT !.pc = "write"]
  <2>1. Proceed(g, call) /\ UNCHANGED <<clocks, past>>
    BY <1>4 DEF MergeLock
  <2>2. old \in [pc : {"merge", "write"}, held : {{}}, clock : Clock, kind : {"merge"},
                 snapshot : VC, known : SUBSET Event]
    BY <1>4 DEF MergeLock, ClocksIInv, ClocksTypeOK, ClockCall
  <2>3. call \in ClockCall
    BY <2>2 DEF ClockCall
  <2>4. call.known = old.known /\ call.snapshot = old.snapshot
    BY <2>2
  <2>5. old.known = Past(old.snapshot)
    BY <2>2 DEF ClocksIInv, CopiesCountPasts, CopySound
  <2>6. CopySound(call)
    BY <2>4, <2>5 DEF CopySound
  <2> QED BY <2>1, <2>3, <2>6, CallOnly
<1> QED BY <1>1, <1>2, <1>3, <1>4

LEMMA CompareSound ==
  ASSUME ClocksIInv, NEW g \in Comparer,
         \/ \E c, other \in Clock : CompareFirst(g, c, other)
         \/ CompareSecond(g)
  PROVE  ClocksIInv'
<1> g \in Goroutine
  BY DEF Goroutine
<1>1. ASSUME NEW c \in Clock, NEW other \in Clock, CompareFirst(g, c, other)
      PROVE  ClocksIInv'
  <2> DEFINE call == [pc |-> "compare", held |-> {c}, clock |-> c, other |-> other]
  <2>1. Proceed(g, call) /\ UNCHANGED <<clocks, past>>
    BY <1>1 DEF CompareFirst
  <2>2. call \in ClockCall /\ CopySound(call)
    BY DEF ClockCall, CopySound
  <2> QED BY <2>1, <2>2, CallOnly
<1>2. CASE CompareSecond(g)
  <2>1. Proceed(g, noClockCall) /\ UNCHANGED <<clocks, past>>
    BY <1>2 DEF CompareSecond
  <2>2. noClockCall \in ClockCall /\ CopySound(noClockCall)
    BY DEF noClockCall, ClockCall, CopySound
  <2> QED BY <2>1, <2>2, CallOnly
<1> QED BY <1>1, <1>2

-----------------------------------------------------------------------------
(* The critical sections.                                                  *)

LEMMA OneClockChanges ==
  ASSUME ClocksIInv, NEW g \in Goroutine, Proceed(g, noClockCall),
         NEW c \in Clock, NEW vc \in VC, NEW known,
         clocks' = [clocks EXCEPT ![c] = vc], past' = [past EXCEPT ![c] = known],
         known = Past(vc)
  PROVE  ClocksIInv'
<1>1. ClocksTypeOK'
  <2>1. known \in SUBSET Event
    BY DEF Past
  <2> QED BY <2>1 DEF ClocksIInv, ClocksTypeOK, Proceed, noClockCall, ClockCall
<1>2. ASSUME NEW d \in Clock PROVE past'[d] = Past(clocks'[d])
  <2>1. past'[d] = (IF d = c THEN known ELSE past[d])
    BY DEF ClocksIInv, ClocksTypeOK
  <2>2. clocks'[d] = (IF d = c THEN vc ELSE clocks[d])
    BY DEF ClocksIInv, ClocksTypeOK
  <2> QED BY <2>1, <2>2 DEF ClocksIInv, ClocksCountPasts
<1>3. ASSUME NEW h \in Goroutine PROVE CopySound(clockCall'[h])
  <2>1. clockCall'[h] = IF h = g THEN noClockCall ELSE clockCall[h]
    BY DEF Proceed, ClocksIInv, ClocksTypeOK
  <2>2. CopySound(noClockCall)
    BY DEF CopySound, noClockCall
  <2> QED BY <2>1, <2>2 DEF ClocksIInv, CopiesCountPasts
<1> QED BY <1>1, <1>2, <1>3 DEF ClocksIInv, ClocksCountPasts, CopiesCountPasts, CopySound, Past

LEMMA WriteSound ==
  ASSUME ClocksIInv, NEW g \in Editor, WriteClock(g) PROVE ClocksIInv'
<1> DEFINE call == clockCall[g]
           c == call.clock
<1> g \in Goroutine
  BY DEF Goroutine
<1>1. call \in ClockCall /\ call.pc = "write" /\ Proceed(g, noClockCall)
  BY DEF WriteClock, ClocksIInv, ClocksTypeOK
<1>2. c \in Clock
  BY <1>1 DEF ClockCall
<1>3. clocks[c] \in VC /\ past[c] = Past(clocks[c])
  BY <1>2 DEF ClocksIInv, ClocksTypeOK, ClocksCountPasts
<1>4. CASE call.kind = "increment"
  <2> DEFINE vc == [clocks[c] EXCEPT ![c] = @ + 1]
             known == past[c] \union {<<c, clocks[c][c] + 1>>}
  <2>1. clocks' = [clocks EXCEPT ![c] = vc] /\ past' = [past EXCEPT ![c] = known]
    BY <1>4 DEF WriteClock
  <2>2. vc \in VC /\ known = Past(vc)
    BY <1>2, <1>3, PastOfIncrement
  <2> HIDE DEF vc, known, call, c
  <2> QED BY <1>1, <1>2, <2>1, <2>2, OneClockChanges
<1>5. CASE call.kind = "set"
  <2> DEFINE vc == [clocks[c] EXCEPT ![call.replica] = call.value]
             known == {e \in past[c] : e[1] # call.replica}
                        \union Events(call.replica, call.value)
  <2>1. clocks' = [clocks EXCEPT ![c] = vc] /\ past' = [past EXCEPT ![c] = known]
    BY <1>5 DEF WriteClock
  <2>2. call.replica \in Clock /\ call.value \in Nat
    BY <1>1, <1>5 DEF ClockCall
  <2>3. vc \in VC /\ known = Past(vc)
    BY <1>2, <1>3, <2>2, PastOfSet
  <2> HIDE DEF vc, known, call, c
  <2> QED BY <1>1, <1>2, <2>1, <2>3, OneClockChanges
<1>6. CASE call.kind = "merge"
  <2> DEFINE vc == Join(clocks[c], call.snapshot)
             known == past[c] \union call.known
  <2>1. clocks' = [clocks EXCEPT ![c] = vc] /\ past' = [past EXCEPT ![c] = known]
    BY <1>6 DEF WriteClock
  <2>2. call.snapshot \in VC /\ call.known = Past(call.snapshot)
    BY <1>1, <1>6 DEF ClockCall, ClocksIInv, CopiesCountPasts, CopySound
  <2>3. vc \in VC /\ known = Past(vc)
    BY <1>2, <1>3, <2>2, PastOfJoin
  <2> HIDE DEF vc, known, call, c
  <2> QED BY <1>1, <1>2, <2>1, <2>3, OneClockChanges
<1>7. call.kind \in {"increment", "set", "merge"}
  BY <1>1 DEF ClockCall
<1> QED BY <1>4, <1>5, <1>6, <1>7

-----------------------------------------------------------------------------
LEMMA InitClocksIInv == ClocksInit => ClocksIInv
<1> SUFFICES ASSUME ClocksInit PROVE ClocksIInv
  OBVIOUS
<1>1. ClocksTypeOK
  BY DEF ClocksInit, Zero, VC, noClockCall, ClockCall, ClocksTypeOK
<1>2. Past(Zero) = {}
  BY DEF Past, Event, Zero
<1>3. ClocksCountPasts
  BY <1>2 DEF ClocksInit, ClocksCountPasts
<1>4. CopiesCountPasts
  BY DEF ClocksInit, noClockCall, CopiesCountPasts, CopySound
<1> QED BY <1>1, <1>3, <1>4 DEF ClocksIInv

LEMMA NextClocksIInv ==
  ASSUME ClocksIInv, [ClocksNext]_clockVars PROVE ClocksIInv'
<1>1. CASE UNCHANGED clockVars
  BY <1>1 DEF clockVars, ClocksIInv, ClocksTypeOK, ClocksCountPasts, CopiesCountPasts,
     CopySound, Past
<1> QED BY <1>1, WaitingSound, WriteSound, CompareSound DEF ClocksNext

-----------------------------------------------------------------------------
(* One clock is before another exactly if its past is a part of the        *)
(* other's, although Merge works with copies that grow old                 *)
(* (VectorClock.Compare, Merge).                                           *)
THEOREM ClocksCompareDecidesCausality ==
  ClocksSpec => []CompareDecidesCausality
<1>1. ClocksIInv => CompareDecidesCausality
  <2> SUFFICES ASSUME ClocksIInv, NEW c \in Clock, NEW d \in Clock
               PROVE  Compare(clocks[c], clocks[d]) =
                        IF past[c] = past[d] THEN "equal"
                        ELSE IF past[c] \subseteq past[d] THEN "before"
                        ELSE IF past[d] \subseteq past[c] THEN "after" ELSE "concurrent"
    BY DEF CompareDecidesCausality
  <2>1. clocks[c] \in VC /\ clocks[d] \in VC
    BY DEF ClocksIInv, ClocksTypeOK
  <2>2. past[c] = Past(clocks[c]) /\ past[d] = Past(clocks[d])
    BY DEF ClocksIInv, ClocksCountPasts
  <2> QED BY <2>1, <2>2, ComparePasts
<1> QED BY <1>1, InitClocksIInv, NextClocksIInv, PTL DEF ClocksSpec

(* Calls that all wait for each other have a Compare among them, and each  *)
(* Compare waits behind a writer that waits for a Compare                  *)
(* (VectorClock.Compare and sync.RWMutex).                                 *)
THEOREM ClocksOnlyCrossedComparesBlock ==
  ClocksSpec => []OnlyCrossedComparesBlock
<1>1. ClocksIInv => OnlyCrossedComparesBlock
  <2> DEFINE busy == {g \in Goroutine : ~Idle(g)}
             comparing == {g \in Goroutine : clockCall[g].pc = "compare"}
  <2> SUFFICES ASSUME ClocksIInv, busy # {}, \A g \in busy : Blocked(g)
               PROVE  CrossedCompares
    BY DEF OnlyCrossedComparesBlock
  <2>1. \A g \in Goroutine : clockCall[g] \in ClockCall
    BY DEF ClocksIInv, ClocksTypeOK
  <2>2. \A g \in Goroutine : clockCall[g].held # {} => g \in comparing
    BY <2>1 DEF ClockCall
  <2>3. \A c : Readers(c) \subseteq comparing
    BY <2>2 DEF Readers
  <2>4. ASSUME NEW c, Writers(c) # {} PROVE Readers(c) # {}
    <3>1. PICK g \in Goroutine : clockCall[g].pc = "write" /\ clockCall[g].clock = c
      BY <2>4 DEF Writers
    <3>2. g \in busy
      BY <3>1 DEF Idle, noClockCall
    <3>3. Blocked(g)
      BY <3>2
    <3> QED BY <3>1, <3>3 DEF Blocked, MayWrite
  <2>5. ASSUME NEW g \in comparing
        PROVE  /\ Writers(clockCall[g].other) # {}
               /\ Readers(clockCall[g].other) \intersect comparing # {}
    <3>1. g \in busy
      BY DEF Idle, noClockCall
    <3>2. Blocked(g)
      BY <3>1
    <3>3. Writers(clockCall[g].other) # {}
      BY <3>2, <2>5 DEF Blocked, MayRLock
    <3> QED BY <2>3, <2>4, <3>3
  <2>6. comparing # {}
    <3>1. PICK g \in busy : Blocked(g)
      OBVIOUS
    <3>2. PICK c : g \in comparing \/ Writers(c) # {} \/ Readers(c) # {}
      BY <3>1 DEF Blocked, MayQueue, MayWrite
    <3> QED BY <2>3, <2>4, <3>2
  <2> QED BY <2>5, <2>6 DEF CrossedCompares
<1> QED BY <1>1, InitClocksIInv, NextClocksIInv, PTL DEF ClocksSpec

-----------------------------------------------------------------------------
(* TwoPSet                                                                 *)
(* -------                                                                 *)

(* The inductive invariant.                                                *)

ReturnedCall ==
  [pc : {"returned"}, kind : {"none"}]
    \union [pc : {"returned"}, kind : {"contains"}, answer : BOOLEAN, right : SUBSET BOOLEAN]
    \union [pc : {"returned"}, kind : {"state"},
            found : SUBSET Item, before : SUBSET Item, after : SUBSET Item]

ReadCall ==
  [pc : {"contains"}, set : TwoPSet, item : Item, before : BOOLEAN]
    \union [pc : {"state"}, set : TwoPSet, todo : SUBSET Item,
            found : SUBSET Item, before : SUBSET Item]

SetMergeCall ==
  [pc : {"joinAdded"}, set : TwoPSet, other : TwoPSet, snapshot : SUBSET Item]
    \union [pc : {"copyRemoved"}, set : TwoPSet, other : TwoPSet]
    \union [pc : {"joinRemoved"}, set : TwoPSet, snapshot : SUBSET Item]

SetCall == ReturnedCall \union ReadCall \union SetMergeCall

SetsTypeOK ==
  /\ added \in [TwoPSet -> SUBSET Item]
  /\ removed \in [TwoPSet -> SUBSET Item]
  /\ setCall \in [Reader \union Merger -> SetCall]

(* Contains is past its first lookup only for an element that was added.   *)
ContainsSound(call, add) ==
  call.pc = "contains" => call.item \in add[call.set]

(* What State has passed over, and what it would pass over if it were to   *)
(* look at it although it was not there in the beginning, is removed.      *)
StateSound(call, rem) ==
  call.pc = "state" =>
    /\ call.found \subseteq call.before
    /\ call.before \ call.todo \subseteq call.found \union rem[call.set]
    /\ call.todo \subseteq call.before \union rem[call.set]

AnswerSound(call) ==
  /\ call.pc = "returned" /\ call.kind = "contains" => call.answer \in call.right
  /\ call.pc = "returned" /\ call.kind = "state" =>
       /\ call.found \subseteq call.before
       /\ call.before \intersect call.after \subseteq call.found

CallSound(call, add, rem) ==
  ContainsSound(call, add) /\ StateSound(call, rem) /\ AnswerSound(call)

CallsSound == \A g \in Reader \union Merger : CallSound(setCall[g], added, removed)

SetsIInv == SetsTypeOK /\ CallsSound

-----------------------------------------------------------------------------
(* Both inner sets only grow, and a call that rests stays sound.           *)

Grow ==
  /\ added' \in [TwoPSet -> SUBSET Item]
  /\ removed' \in [TwoPSet -> SUBSET Item]
  /\ \A s \in TwoPSet : added[s] \subseteq added'[s] /\ removed[s] \subseteq removed'[s]

LEMMA GrowKeepsSound ==
  ASSUME SetsTypeOK, Grow, NEW call \in SetCall, CallSound(call, added, removed)
  PROVE  CallSound(call, added', removed')
<1>1. ContainsSound(call, added')
  <2> SUFFICES ASSUME call.pc = "contains" PROVE call.item \in added'[call.set]
    BY DEF ContainsSound
  <2>1. call.set \in TwoPSet
    BY DEF SetCall, ReturnedCall, ReadCall, SetMergeCall
  <2> QED BY <2>1 DEF CallSound, ContainsSound, Grow
<1>2. StateSound(call, removed')
  <2> SUFFICES ASSUME call.pc = "state"
               PROVE  /\ call.found \subseteq call.before
                      /\ call.before \ call.todo \subseteq call.found \union removed'[call.set]
                      /\ call.todo \subseteq call.before \union removed'[call.set]
    BY DEF StateSound
  <2>1. call.set \in TwoPSet
    BY DEF SetCall, ReturnedCall, ReadCall, SetMergeCall
  <2> QED BY <2>1 DEF CallSound, StateSound, Grow
<1>3. AnswerSound(call)
  BY DEF CallSound, AnswerSound
<1> QED BY <1>1, <1>2, <1>3 DEF CallSound

(* So a step that lets the sets grow and leaves every call alone but one,  *)
(* which it makes a sound one, keeps the invariant.                        *)
LEMMA OneCallChanges ==
  ASSUME SetsIInv, Grow, NEW g \in Reader \union Merger, NEW call \in SetCall,
         Enter(g, call), CallSound(call, added', removed')
  PROVE  SetsIInv'
<1>1. SetsTypeOK'
  BY DEF SetsIInv, SetsTypeOK, Grow, Enter
<1>2. ASSUME NEW d \in SetCall, CallSound(d, added, removed)
      PROVE  CallSound(d, added', removed')
  BY <1>2, GrowKeepsSound DEF SetsIInv
<1>3. ASSUME NEW h \in Reader \union Merger PROVE CallSound(setCall'[h], added', removed')
  <2>1. CASE h = g
    <3>1. setCall'[h] = call
      BY <2>1 DEF Enter, SetsIInv, SetsTypeOK
    <3> QED BY <3>1 DEF CallSound, ContainsSound, StateSound, AnswerSound
  <2>2. CASE h # g
    <3>1. setCall'[h] = setCall[h]
      BY <2>2 DEF Enter, SetsIInv, SetsTypeOK
    <3>2. setCall[h] \in SetCall /\ CallSound(setCall[h], added, removed)
      BY DEF SetsIInv, SetsTypeOK, CallsSound
    <3> QED BY <1>2, <3>1, <3>2 DEF CallSound, ContainsSound, StateSound, AnswerSound
  <2> QED BY <2>1, <2>2
<1> QED BY <1>1, <1>3 DEF SetsIInv, CallsSound

LEMMA NoCallChanges ==
  ASSUME SetsIInv, Grow, UNCHANGED setCall PROVE SetsIInv'
<1>1. SetsTypeOK'
  BY DEF SetsIInv, SetsTypeOK, Grow
<1>2. ASSUME NEW d \in SetCall, CallSound(d, added, removed)
      PROVE  CallSound(d, added', removed')
  BY <1>2, GrowKeepsSound DEF SetsIInv
<1>3. CallsSound'
  BY <1>2 DEF SetsIInv, SetsTypeOK, CallsSound, CallSound, ContainsSound, StateSound, AnswerSound
<1> QED BY <1>1, <1>3 DEF SetsIInv

LEMMA StandStill ==
  ASSUME SetsIInv, UNCHANGED <<added, removed>> PROVE Grow
BY DEF SetsIInv, SetsTypeOK, Grow

-----------------------------------------------------------------------------
(* The answers of Contains and State, when they return.                    *)

LEMMA ContainsFirstSound ==
  ASSUME SetsIInv, NEW g \in Reader, NEW s \in TwoPSet, NEW item \in Item,
         ContainsFirst(g, s, item)
  PROVE  SetsIInv'
<1>1. UNCHANGED <<added, removed>> /\ Grow
  BY StandStill DEF ContainsFirst
<1>2. CASE item \in added[s]
  <2> DEFINE call == [pc |-> "contains", set |-> s, item |-> item,
                      before |-> item \in Visible(s)]
  <2>1. Enter(g, call)
    BY <1>2 DEF ContainsFirst, Passes, Lookups
  <2>2. call \in SetCall
    BY DEF SetCall, ReadCall
  <2>3. CallSound(call, added', removed')
    BY <1>1, <1>2 DEF CallSound, ContainsSound, StateSound, AnswerSound
  <2> QED BY <1>1, <2>1, <2>2, <2>3, OneCallChanges
<1>3. CASE item \notin added[s]
  <2> DEFINE call == [pc |-> "returned", kind |-> "contains", answer |-> FALSE,
                      right |-> {(item \in Visible(s))}]
  <2>1. Enter(g, call)
    BY <1>3 DEF ContainsFirst, Passes, Lookups, ContainsAnswer
  <2>2. (item \in Visible(s)) = FALSE
    BY <1>3 DEF Visible
  <2>3. call \in SetCall
    BY <2>2 DEF SetCall, ReturnedCall
  <2>4. CallSound(call, added', removed')
    BY <2>2 DEF CallSound, ContainsSound, StateSound, AnswerSound
  <2> QED BY <1>1, <2>1, <2>3, <2>4, OneCallChanges
<1> QED BY <1>2, <1>3

LEMMA ContainsSecondSound ==
  ASSUME SetsIInv, NEW g \in Reader, ContainsSecond(g)
  PROVE  SetsIInv'
<1> DEFINE old == setCall[g]
           answer == Passes(Lookups[2], old.set, old.item)
           right == {old.before, old.item \in Visible(old.set)}
           call == [pc |-> "returned", kind |-> "contains", answer |-> answer, right |-> right]
<1>1. UNCHANGED <<added, removed>> /\ Grow
  BY StandStill DEF ContainsSecond
<1>2. old.pc = "contains" /\ old \in SetCall /\ CallSound(old, added, removed)
  BY DEF ContainsSecond, SetsIInv, SetsTypeOK, CallsSound
<1>3. old.item \in added[old.set] /\ old.before \in BOOLEAN
  BY <1>2 DEF CallSound, ContainsSound, SetCall, ReturnedCall, ReadCall, SetMergeCall
<1>4. answer = (old.item \in Visible(old.set))
  <2>1. Lookups[2] = "removeSet"
    BY DEF Lookups
  <2>2. Passes("removeSet", old.set, old.item) = (old.item \notin removed[old.set])
    BY DEF Passes
  <2>3. (old.item \notin removed[old.set]) = (old.item \in Visible(old.set))
    BY <1>3 DEF Visible
  <2> QED BY <2>1, <2>2, <2>3
<1>5. Enter(g, call)
  BY DEF ContainsSecond, ContainsAnswer
<1>6. answer \in BOOLEAN /\ right \in SUBSET BOOLEAN /\ answer \in right
  <2> HIDE DEF answer
  <2> QED BY <1>3, <1>4
<1>7. call \in SetCall
  BY <1>6 DEF SetCall, ReturnedCall
<1>8. CallSound(call, added', removed')
  BY <1>6 DEF CallSound, ContainsSound, StateSound, AnswerSound
<1> QED BY <1>1, <1>5, <1>7, <1>8, OneCallChanges

LEMMA StateCopySound ==
  ASSUME SetsIInv, NEW g \in Reader, NEW s \in TwoPSet, StateCopy(g, s)
  PROVE  SetsIInv'
<1>1. UNCHANGED <<added, removed>> /\ Grow
  BY StandStill DEF StateCopy
<1>2. CASE added[s] = {}
  <2> DEFINE call == [pc |-> "returned", kind |-> "state",
                      found |-> {}, before |-> {}, after |-> {}]
  <2>1. Enter(g, call)
    BY <1>2 DEF StateCopy, StateAnswer
  <2>2. call \in SetCall
    BY DEF SetCall, ReturnedCall
  <2>3. CallSound(call, added', removed')
    BY DEF CallSound, ContainsSound, StateSound, AnswerSound
  <2> QED BY <1>1, <2>1, <2>2, <2>3, OneCallChanges
<1>3. CASE added[s] # {}
  <2> DEFINE call == [pc |-> "state", set |-> s, todo |-> added[s], found |-> {},
                      before |-> Visible(s)]
  <2>1. Enter(g, call)
    BY <1>3 DEF StateCopy
  <2>2. call \in SetCall
    BY DEF SetCall, ReadCall, Visible, SetsIInv, SetsTypeOK
  <2>3. CallSound(call, added', removed')
    BY <1>1 DEF CallSound, ContainsSound, StateSound, AnswerSound, Visible
  <2> QED BY <1>1, <2>1, <2>2, <2>3, OneCallChanges
<1> QED BY <1>2, <1>3

LEMMA StateItemSound ==
  ASSUME SetsIInv, NEW g \in Reader, NEW item \in Item, StateItem(g, item)
  PROVE  SetsIInv'
<1> DEFINE old == setCall[g]
           found == old.found \union ({item} \ removed[old.set])
<1>1. UNCHANGED <<added, removed>> /\ Grow
  BY StandStill DEF StateItem
<1>2. old.pc = "state" /\ item \in old.todo /\ old \in SetCall /\ CallSound(old, added, removed)
  BY DEF StateItem, SetsIInv, SetsTypeOK, CallsSound
<1>3. old \in [pc : {"state"}, set : TwoPSet, todo : SUBSET Item,
               found : SUBSET Item, before : SUBSET Item]
  BY <1>2 DEF SetCall, ReturnedCall, ReadCall, SetMergeCall
<1>4. /\ old.found \subseteq old.before
      /\ old.before \ old.todo \subseteq old.found \union removed[old.set]
      /\ old.todo \subseteq old.before \union removed[old.set]
  BY <1>2 DEF CallSound, StateSound
<1>5. found \subseteq old.before
  BY <1>2, <1>4
<1>6. CASE old.todo = {item}
  <2> DEFINE call == [pc |-> "returned", kind |-> "state", found |-> found,
                      before |-> old.before, after |-> Visible(old.set)]
  <2>1. Enter(g, call)
    BY <1>6 DEF StateItem, StateAnswer
  <2>2. call \in SetCall
    BY <1>3, <1>5 DEF SetCall, ReturnedCall, Visible, SetsIInv, SetsTypeOK
  <2>3. old.before \intersect Visible(old.set) \subseteq found
    BY <1>4, <1>6 DEF Visible
  <2>4. CallSound(call, added', removed')
    BY <1>5, <2>3 DEF CallSound, ContainsSound, StateSound, AnswerSound
  <2> QED BY <1>1, <2>1, <2>2, <2>4, OneCallChanges
<1>7. CASE old.todo # {item}
  <2> DEFINE call == [old EXCEPT !.todo = @ \ {item}, !.found = found]
  <2>1. Enter(g, call)
    BY <1>7 DEF StateItem
  <2>2. /\ call.pc = "state" /\ call.set = old.set /\ call.before = old.before
        /\ call.todo = old.todo \ {item} /\ call.found = found
    BY <1>3
  <2>3. call \in SetCall
    BY <1>3, <1>5 DEF SetCall, ReadCall
  <2>4. /\ old.before \ (old.todo \ {item}) \subseteq found \union removed[old.set]
        /\ old.todo \ {item} \subseteq old.before \union removed[old.set]
    BY <1>4
  <2>5. CallSound(call, added', removed')
    <3> HIDE DEF call, found
    <3> QED BY <1>1, <1>5, <2>2, <2>4 DEF CallSound, ContainsSound, StateSound, AnswerSound
  <2> QED BY <1>1, <2>1, <2>3, <2>5, OneCallChanges
<1> QED BY <1>6, <1>7

-----------------------------------------------------------------------------
(* Calls of Merge: sound because they return nothing.                      *)

LEMMA SetMergeSound ==
  ASSUME SetsIInv, NEW g \in Merger,
         \/ \E pair \in Merges : MergeCopyAdded(g, pair[1], pair[2])
         \/ MergeJoinAdded(g)
         \/ MergeCopyRemoved(g)
         \/ MergeJoinRemoved(g)
  PROVE  SetsIInv'
<1>1. ASSUME NEW pair \in Merges, MergeCopyAdded(g, pair[1], pair[2]) PROVE SetsIInv'
  <2> DEFINE call == [pc |-> "joinAdded", set |-> pair[1], other |-> pair[2],
                      snapshot |-> added[pair[2]]]
  <2>1. pair[1] \in TwoPSet /\ pair[2] \in TwoPSet
    BY SetsAssumption
  <2>2. Enter(g, call) /\ Grow
    BY <1>1, StandStill DEF MergeCopyAdded
  <2>3. call \in SetCall
    BY <2>1 DEF SetCall, SetMergeCall, SetsIInv, SetsTypeOK
  <2>4. CallSound(call, added', removed')
    BY DEF CallSound, ContainsSound, StateSound, AnswerSound
  <2> QED BY <2>2, <2>3, <2>4, OneCallChanges
<1>2. CASE MergeJoinAdded(g)
  <2> DEFINE old == setCall[g]
             call == [pc |-> "copyRemoved", set |-> old.set, other |-> old.other]
  <2>1. old \in [pc : {"joinAdded"}, set : TwoPSet, other : TwoPSet, snapshot : SUBSET Item]
    BY <1>2 DEF MergeJoinAdded, SetsIInv, SetsTypeOK, SetCall, ReturnedCall, ReadCall, SetMergeCall
  <2>2. Enter(g, call)
    BY <1>2 DEF MergeJoinAdded
  <2>3. Grow
    BY <1>2, <2>1 DEF MergeJoinAdded, SetsIInv, SetsTypeOK, Grow
  <2>4. call \in SetCall
    BY <2>1 DEF SetCall, SetMergeCall
  <2>5. CallSound(call, added', removed')
    BY DEF CallSound, ContainsSound, StateSound, AnswerSound
  <2> QED BY <2>2, <2>3, <2>4, <2>5, OneCallChanges
<1>3. CASE MergeCopyRemoved(g)
  <2> DEFINE old == setCall[g]
             call == [pc |-> "joinRemoved", set |-> old.set,
                      snapshot |-> removed[old.other]]
  <2>1. old \in [pc : {"copyRemoved"}, set : TwoPSet, other : TwoPSet]
    BY <1>3 DEF MergeCopyRemoved, SetsIInv, SetsTypeOK, SetCall, ReturnedCall, ReadCall, SetMergeCall
  <2>2. Enter(g, call) /\ Grow
    BY <1>3, StandStill DEF MergeCopyRemoved
  <2>3. call \in SetCall
    BY <2>1 DEF SetCall, SetMergeCall, SetsIInv, SetsTypeOK
  <2>4. CallSound(call, added', removed')
    BY DEF CallSound, ContainsSound, StateSound, AnswerSound
  <2> QED BY <2>2, <2>3, <2>4, OneCallChanges
<1>4. CASE MergeJoinRemoved(g)
  <2> DEFINE old == setCall[g]
  <2>1. old \in [pc : {"joinRemoved"}, set : TwoPSet, snapshot : SUBSET Item]
    BY <1>4 DEF MergeJoinRemoved, SetsIInv, SetsTypeOK, SetCall, ReturnedCall, ReadCall, SetMergeCall
  <2>2. Enter(g, noCall)
    BY <1>4 DEF MergeJoinRemoved
  <2>3. Grow
    BY <1>4, <2>1 DEF MergeJoinRemoved, SetsIInv, SetsTypeOK, Grow
  <2>4. noCall \in SetCall
    BY DEF noCall, SetCall, ReturnedCall
  <2>5. CallSound(noCall, added', removed')
    BY DEF noCall, CallSound, ContainsSound, StateSound, AnswerSound
  <2> QED BY <2>2, <2>3, <2>4, <2>5, OneCallChanges
<1> QED BY <1>1, <1>2, <1>3, <1>4

-----------------------------------------------------------------------------
LEMMA InitSetsIInv == SetsInit => SetsIInv
<1> SUFFICES ASSUME SetsInit PROVE SetsIInv
  OBVIOUS
<1>1. SetsTypeOK
  BY DEF SetsInit, SetsTypeOK, noCall, SetCall, ReturnedCall
<1>2. CallsSound
  BY DEF SetsInit, noCall, CallsSound, CallSound, ContainsSound, StateSound, AnswerSound
<1> QED BY <1>1, <1>2 DEF SetsIInv

LEMMA NextSetsIInv ==
  ASSUME SetsIInv, [SetsNext]_setVars PROVE SetsIInv'
<1>1. ASSUME NEW s \in TwoPSet, NEW item \in Item, Add(s, item) \/ Remove(s, item)
      PROVE  SetsIInv'
  <2>1. Grow /\ UNCHANGED setCall
    BY <1>1 DEF Add, Remove, Grow, SetsIInv, SetsTypeOK
  <2> QED BY <2>1, NoCallChanges
<1>2. ASSUME NEW g \in Reader, NEW s \in TwoPSet, NEW item \in Item, ContainsFirst(g, s, item)
      PROVE  SetsIInv'
  BY <1>2, ContainsFirstSound
<1>3. ASSUME NEW g \in Reader, ContainsSecond(g) PROVE SetsIInv'
  BY <1>3, ContainsSecondSound
<1>4. ASSUME NEW g \in Reader, NEW s \in TwoPSet, StateCopy(g, s) PROVE SetsIInv'
  BY <1>4, StateCopySound
<1>5. ASSUME NEW g \in Reader, NEW item \in Item, StateItem(g, item) PROVE SetsIInv'
  BY <1>5, StateItemSound
<1>6. ASSUME NEW g \in Merger,
             \/ \E pair \in Merges : MergeCopyAdded(g, pair[1], pair[2])
             \/ MergeJoinAdded(g)
             \/ MergeCopyRemoved(g)
             \/ MergeJoinRemoved(g)
      PROVE  SetsIInv'
  BY <1>6, SetMergeSound
<1>7. CASE UNCHANGED setVars
  BY <1>7, StandStill, NoCallChanges DEF setVars
<1> QED BY <1>1, <1>2, <1>3, <1>4, <1>5, <1>6, <1>7 DEF SetsNext

-----------------------------------------------------------------------------
(* Contains answers what was true when it began or when it ended, whatever *)
(* is added, removed and merged in between its lookups (TwoPSet.Contains). *)
THEOREM SetsContainsIsAtomic ==
  SetsSpec => []ContainsIsAtomic
<1>1. SetsIInv => ContainsIsAtomic
  BY DEF SetsIInv, CallsSound, CallSound, AnswerSound, ContainsIsAtomic, Returned
<1> QED BY <1>1, InitSetsIInv, NextSetsIInv, PTL DEF SetsSpec

(* State shows what was there when it began, and misses of it only what    *)
(* was removed before it ended (TwoPSet.State).                            *)
THEOREM SetsStateMissesOnlyRemovals ==
  SetsSpec => []StateMissesOnlyRemovals
<1>1. SetsIInv => StateMissesOnlyRemovals
  BY DEF SetsIInv, CallsSound, CallSound, AnswerSound, StateMissesOnlyRemovals, Returned
<1> QED BY <1>1, InitSetsIInv, NextSetsIInv, PTL DEF SetsSpec

-----------------------------------------------------------------------------
(* LWWRegister                                                             *)
(* -----------                                                             *)

(* The inductive invariant.                                                *)

RegisterCall == [pc : {"idle"}]
          \union [pc : {"copied"}, register : Register, copy : Write, known : SUBSET Write]

RegistersTypeOK ==
  /\ registers \in [Register -> Write]
  /\ mergeCall \in [Merging -> RegisterCall]
  /\ writes \subseteq Write
  /\ seen \in [Register -> SUBSET Write]

(* w is one of known, and none of known wins against it.                   *)
IsLast(w, known) == w \in known /\ \A x \in known : ~Wins(x, w)

HoldsLast == \A r \in Register : IsLast(registers[r], seen[r])

CopiesLast ==
  \A g \in Merging :
    mergeCall[g].pc = "copied" => IsLast(mergeCall[g].copy, mergeCall[g].known)

RegistersIInv == RegistersTypeOK /\ HoldsLast /\ CopiesLast

-----------------------------------------------------------------------------
LEMMA StampsAreNumbers ==
  ASSUME NEW w \in Write
  PROVE  w.timestamp \in Int /\ w.replicaID \in Int
<1>1. w.timestamp \in 0 .. MaxTime /\ w.replicaID \in Register
  BY DEF Write
<1>2. Register \subseteq Nat /\ MaxTime \in Nat
  BY RegistersAssumption
<1>3. \A i \in 0 .. MaxTime : i \in Int
  BY <1>2
<1>4. \A i \in Nat : i \in Int
  OBVIOUS
<1> QED BY <1>1, <1>2, <1>3, <1>4

(* The later of the last writes of two sets is the last of their union.    *)
LEMMA LastOfUnion ==
  ASSUME NEW A \in SUBSET Write, NEW B \in SUBSET Write,
         NEW a, NEW b, IsLast(a, A), IsLast(b, B)
  PROVE  IsLast(IF Wins(b, a) THEN b ELSE a, A \union B)
<1> DEFINE last == IF Wins(b, a) THEN b ELSE a
<1>1. last \in A \union B
  BY DEF IsLast
<1>2. ASSUME NEW x \in A \union B PROVE ~Wins(x, last)
  <2>1. x \in Write /\ a \in Write /\ b \in Write
    BY DEF IsLast
  <2>2. \A w \in Write : w.timestamp \in Int /\ w.replicaID \in Int
    BY StampsAreNumbers
  <2>3. \/ ~Wins(x, a)
        \/ ~Wins(x, b)
    BY DEF IsLast
  <2>4. CASE Wins(b, a)
    BY <2>1, <2>2, <2>3, <2>4 DEF Wins
  <2>5. CASE ~Wins(b, a)
    BY <2>1, <2>2, <2>3, <2>5 DEF Wins
  <2> QED BY <2>4, <2>5
<1> QED BY <1>1, <1>2 DEF IsLast

(* What a register that holds a holds after it is given b.                 *)
Given(a, b) == IF Wins(b, a) THEN b ELSE a

(* Registers may be given writes in any groups and any number of times.    *)
(* Which of two is the receiver makes no difference either, but for two    *)
(* writes of one replica at one time: these are just the exceptions        *)
(* (Set, ApplyOperation, Merge; the contract of doc.go).                   *)
THEOREM RegistersMergeUpToTies ==
  ASSUME NEW a \in Write, NEW b \in Write
  PROVE  /\ Given(a, a) = a
         /\ \A c \in Write : Given(Given(a, b), c) = Given(a, Given(b, c))
         /\ Given(a, b) = Given(b, a) <=> a = b \/ Stamp(a) # Stamp(b)
<1>1. \A w \in Write : w.timestamp \in Int /\ w.replicaID \in Int
  BY StampsAreNumbers
<1>2. Given(a, a) = a
  BY DEF Given
<1>3. ASSUME NEW c \in Write PROVE Given(Given(a, b), c) = Given(a, Given(b, c))
  BY <1>1 DEF Given, Wins
<1>4. Given(a, b) = Given(b, a) <=> a = b \/ Stamp(a) # Stamp(b)
  <2>1. Stamp(a) # Stamp(b) <=> a.timestamp # b.timestamp \/ a.replicaID # b.replicaID
    BY DEF Stamp
  <2> QED
    BY <1>1, <2>1 DEF Given, Wins
<1> QED
  BY <1>2, <1>3, <1>4

LEMMA OneWriteIsLast ==
  ASSUME NEW w \in Write
  PROVE  IsLast(w, {w})
<1>1. w.timestamp \in Int /\ w.replicaID \in Int
  BY StampsAreNumbers
<1> QED BY <1>1 DEF IsLast, Wins

(* A register that is given the last write of known comes to hold the last *)
(* of what it has seen and known.                                          *)
LEMMA PutKeepsLast ==
  ASSUME RegistersTypeOK, HoldsLast,
         NEW r \in Register, NEW w, NEW known \in SUBSET Write, IsLast(w, known),
         Put(r, w), seen' = [seen EXCEPT ![r] = @ \union known]
  PROVE  /\ registers' \in [Register -> Write]
         /\ seen' \in [Register -> SUBSET Write]
         /\ HoldsLast'
<1>1. w \in Write
  BY DEF IsLast
<1>2. registers' \in [Register -> Write] /\ seen' \in [Register -> SUBSET Write]
  BY <1>1 DEF RegistersTypeOK, Put
<1>3. IsLast(IF Wins(w, registers[r]) THEN w ELSE registers[r], seen[r] \union known)
  BY LastOfUnion DEF RegistersTypeOK, HoldsLast
<1>4. ASSUME NEW s \in Register PROVE IsLast(registers'[s], seen'[s])
  <2>1. CASE s = r
    BY <1>3, <2>1 DEF RegistersTypeOK, Put
  <2>2. CASE s # r
    BY <2>2 DEF RegistersTypeOK, HoldsLast, Put
  <2> QED BY <2>1, <2>2
<1> QED BY <1>2, <1>4 DEF HoldsLast, IsLast, Wins

-----------------------------------------------------------------------------
LEMMA InitRegistersIInv ==
  ASSUME RegistersInit PROVE RegistersIInv
<1>1. RegistersTypeOK
  BY DEF RegistersInit, RegistersTypeOK, RegisterCall, noMerge
<1>2. HoldsLast
  BY OneWriteIsLast DEF RegistersInit, HoldsLast
<1>3. CopiesLast
  BY DEF RegistersInit, CopiesLast, noMerge
<1> QED BY <1>1, <1>2, <1>3 DEF RegistersIInv

LEMMA NextRegistersIInv ==
  ASSUME RegistersIInv, [RegistersNext]_registerVars PROVE RegistersIInv'
<1> USE DEF RegistersIInv
<1>1. ASSUME NEW r \in Register, NEW value \in Value, NEW timestamp \in 0 .. MaxTime,
             Set(r, value, timestamp)
      PROVE  RegistersIInv'
  <2> DEFINE w == [value |-> value, timestamp |-> timestamp, replicaID |-> r]
  <2>1. w \in Write
    BY DEF Write
  <2>2. IsLast(w, {w})
    BY <2>1, OneWriteIsLast
  <2>3. Put(r, w) /\ seen' = [seen EXCEPT ![r] = @ \union {w}]
    BY <1>1 DEF Set
  <2>4. /\ registers' \in [Register -> Write]
        /\ seen' \in [Register -> SUBSET Write]
        /\ HoldsLast'
    BY ZenonT(40), <2>1, <2>2, <2>3, PutKeepsLast
  <2>5. writes' \subseteq Write /\ mergeCall' = mergeCall
    BY <1>1, <2>1 DEF Set, RegistersTypeOK
  <2> QED BY <2>4, <2>5 DEF RegistersTypeOK, CopiesLast
<1>2. ASSUME NEW r \in Register, NEW w \in writes, ApplySetOp(r, w)
      PROVE  RegistersIInv'
  <2>1. w \in Write
    BY DEF RegistersTypeOK
  <2>2. IsLast(w, {w})
    BY <2>1, OneWriteIsLast
  <2>3. Put(r, w) /\ seen' = [seen EXCEPT ![r] = @ \union {w}]
    BY <1>2 DEF ApplySetOp
  <2>4. /\ registers' \in [Register -> Write]
        /\ seen' \in [Register -> SUBSET Write]
        /\ HoldsLast'
    BY <2>1, <2>2, <2>3, PutKeepsLast
  <2> QED BY <1>2, <2>4 DEF ApplySetOp, RegistersTypeOK, CopiesLast
<1>3. ASSUME NEW g \in Merging, NEW r \in Register, NEW other \in Register,
             MergeCopy(g, r, other)
      PROVE  RegistersIInv'
  <2> DEFINE call == [pc |-> "copied", register |-> r,
                      copy |-> registers[other], known |-> seen[other]]
  <2>1. call \in RegisterCall
    BY DEF RegistersTypeOK, RegisterCall
  <2>2. mergeCall' = [mergeCall EXCEPT ![g] = call] /\ UNCHANGED <<registers, writes, seen>>
    BY <1>3 DEF MergeCopy
  <2>3. RegistersTypeOK' /\ HoldsLast'
    BY <2>1, <2>2 DEF RegistersTypeOK, HoldsLast
  <2>4. IsLast(call.copy, call.known)
    BY DEF HoldsLast
  <2>5. CopiesLast'
    BY <2>2, <2>4 DEF CopiesLast, RegistersTypeOK
  <2> QED BY <2>3, <2>5
<1>4. ASSUME NEW g \in Merging, MergeAssign(g)
      PROVE  RegistersIInv'
  <2> DEFINE call == mergeCall[g]
  <2>1. call.pc = "copied"
    BY <1>4 DEF MergeAssign
  <2>2. call.register \in Register /\ call.known \in SUBSET Write
    BY <2>1 DEF RegistersTypeOK, RegisterCall
  <2>3. IsLast(call.copy, call.known)
    BY <2>1 DEF CopiesLast
  <2>4. /\ Put(call.register, call.copy)
        /\ seen' = [seen EXCEPT ![call.register] = @ \union call.known]
    BY <1>4 DEF MergeAssign
  <2>5. /\ registers' \in [Register -> Write]
        /\ seen' \in [Register -> SUBSET Write]
        /\ HoldsLast'
    BY <2>2, <2>3, <2>4, PutKeepsLast
  <2>6. mergeCall' = [mergeCall EXCEPT ![g] = noMerge] /\ writes' = writes
    BY <1>4 DEF MergeAssign
  <2>7. RegistersTypeOK'
    BY <2>5, <2>6 DEF RegistersTypeOK, RegisterCall, noMerge
  <2>8. CopiesLast'
    BY <2>6 DEF CopiesLast, RegistersTypeOK, noMerge
  <2> QED BY <2>5, <2>7, <2>8
<1>5. CASE UNCHANGED registerVars
  BY <1>5 DEF registerVars, RegistersTypeOK, HoldsLast, CopiesLast
<1> QED BY <1>1, <1>2, <1>3, <1>4, <1>5 DEF RegistersNext

LEMMA RegistersIInvOnlyTies ==
  ASSUME RegistersIInv PROVE OnlyTiesDiverge
<1> SUFFICES ASSUME NEW r \in Register, NEW s \in Register,
                    seen[r] = seen[s], registers[r] # registers[s]
             PROVE  /\ registers[r].value # registers[s].value
                    /\ Stamp(registers[r]) = Stamp(registers[s])
                    /\ \A w \in seen[r] : w.timestamp <= registers[r].timestamp
  BY DEF OnlyTiesDiverge
<1>1. \A w \in Write : w.timestamp \in Int /\ w.replicaID \in Int
  BY StampsAreNumbers
<1>2. registers[r] \in Write /\ registers[s] \in Write /\ seen[r] \subseteq Write
  BY DEF RegistersIInv, RegistersTypeOK
<1>3. IsLast(registers[r], seen[r]) /\ IsLast(registers[s], seen[r])
  BY DEF RegistersIInv, HoldsLast
<1>4. \A w \in seen[r] : w.timestamp <= registers[r].timestamp
  BY <1>1, <1>2, <1>3 DEF IsLast, Wins
<1>5. /\ registers[r].timestamp = registers[s].timestamp
      /\ registers[r].replicaID = registers[s].replicaID
  BY <1>1, <1>2, <1>3 DEF IsLast, Wins
<1>6. registers[r].value # registers[s].value
  BY <1>2, <1>5 DEF Write
<1> QED BY <1>4, <1>5, <1>6 DEF Stamp

(* Registers that know of the same writes hold the same value, unless one  *)
(* replica wrote two at the same time and nobody wrote later               *)
(* (LWWRegister.Set, ApplySetOp and Merge).                            *)
THEOREM RegistersOnlyTiesDiverge ==
  RegistersSpec => []OnlyTiesDiverge
<1>1. RegistersInit => RegistersIInv
  BY InitRegistersIInv
<1>2. RegistersIInv /\ [RegistersNext]_registerVars => RegistersIInv'
  BY NextRegistersIInv
<1>3. RegistersIInv => OnlyTiesDiverge
  BY RegistersIInvOnlyTies
<1> QED BY <1>1, <1>2, <1>3, PTL DEF RegistersSpec

-----------------------------------------------------------------------------
(* FugueTree.Merge                                                         *)
(* ---------------                                                         *)

(* The inserts that made the nodes of t, as Merge rebuilds them.           *)
Inserts(t) == {insertOf(t, n) : n \in Nodes(t)}

(* The inserts that a replica holds, or that a running Merge has copied.   *)
CopiedBy(r) == UNION {copied[r][o].inserts : o \in Replica \ {r}}

KnownInserts == UNION {Inserts(tree[r]) \union CopiedBy(r) : r \in Replica}

MergeTypeOK ==
  /\ DOMAIN tree = Replica /\ counter \in [Replica -> Nat]
  /\ DOMAIN copied = Replica /\ \A r \in Replica : DOMAIN copied[r] = Replica \ {r}
  /\ \A r \in Replica : SoundTree(tree[r]) /\ IsFiniteSet(Nodes(tree[r]))
  /\ \A r \in Replica : \A o \in Replica \ {r} :
       IsFiniteSet(copied[r][o].inserts) /\ copied[r][o].deletes \subseteq OpID

(* An id that is known stands for one insert, and was issued.              *)
KnownOnce ==
  /\ KnownInserts \subseteq FugueInsertOp
  /\ \A op \in KnownInserts : op.id[1] \in Replica /\ op.id[2] <= counter[op.id[1]]
  /\ \A op1, op2 \in KnownInserts : op1.id = op2.id => op1 = op2

(* The inductive invariant.                                                *)
MergeIInv == MergeTypeOK /\ KnownOnce

(* u grew out of t by inserts of ops and marks.                            *)
GrownBy(t, ops, u) ==
  /\ SoundTree(u) /\ IsFiniteSet(Nodes(u))
  /\ Kept(t, u)
  /\ Inserts(u) \subseteq Inserts(t) \union ops

LEMMA FiniteInserts ==
  ASSUME NEW t, IsFiniteSet(Nodes(t))
  PROVE  IsFiniteSet(Inserts(t))
<1> DEFINE origin == [n \in Nodes(t) |-> insertOf(t, n)]
           image == {origin[n] : n \in Nodes(t)}
<1>1. image = Inserts(t)
  BY DEF Inserts
<1>2. origin \in Surjection(Nodes(t), image)
  BY DEF Surjection
<1> HIDE DEF origin, image
<1> QED
  BY <1>1, <1>2, FS_Surjection

LEMMA KeptInserts ==
  ASSUME NEW t, NEW u, Kept(t, u), NEW n \in Nodes(t)
  PROVE  insertOf(u, n) = insertOf(t, n)
BY DEF Kept, Nodes, insertOf, insertOp

LEMMA InsertGrows ==
  ASSUME NEW t, SoundTree(t), IsFiniteSet(Nodes(t)), NEW op \in FugueInsertOp
  PROVE  GrownBy(t, {op}, applyInsert(t, op))
<1> DEFINE u == applyInsert(t, op)
<1>1. op \in Operation /\ op.type = "insert" /\ u = ApplyOperation(t, op)
  BY DEF Operation, FugueInsertOp, ApplyOperation
<1> HIDE DEF u
<1>2. Effect(t, op, u)
  BY <1>1, ApplyOperationEffect
<1>3. IsFiniteSet(Nodes(u))
  <2>1. Nodes(u) = Nodes(t) \/ Nodes(u) = Nodes(t) \union {op.id}
    BY <1>2 DEF Effect
  <2> QED
    BY <2>1, FS_AddElement
<1>4. ASSUME NEW n \in Nodes(u)
      PROVE  insertOf(u, n) \in Inserts(t) \union {op}
  <2>1. CASE n \in Nodes(t)
    BY <1>2, <2>1, KeptInserts DEF Effect, Inserts
  <2>2. CASE n \notin Nodes(t)
    <3>1. n = op.id /\ u[n].value = op.value /\ u[n].parent = op.parent /\ u[n].side = op.side
      BY <1>2, <1>4, <2>2 DEF Effect
    <3>2. op = [type |-> "insert", id |-> op.id, value |-> op.value,
                parent |-> op.parent, side |-> op.side]
      BY DEF FugueInsertOp
    <3>3. insertOf(u, n) = op
      BY <3>1, <3>2 DEF insertOf, insertOp
    <3> QED
      BY <3>3
  <2> QED
    BY <2>1, <2>2
<1> QED
  BY <1>2, <1>3, <1>4 DEF GrownBy, Effect, Inserts, u

LEMMA GrowsOn ==
  ASSUME NEW t, NEW ops, NEW u, GrownBy(t, ops, u), NEW more \in SUBSET ops, NEW v, GrownBy(u, more, v)
  PROVE  GrownBy(t, ops, v)
<1>1. Kept(t, v)
  BY DEF GrownBy, Kept
<1> QED
  BY <1>1 DEF GrownBy

(* The loop of Merge: g[i] is the tree after the first i copies.           *)
LoopAt(t, seq, g, i) == IF i = 0 THEN t ELSE applyInsert(g[i - 1], seq[i])

InsertsUpTo(t, seq, k, g) == g = [i \in 0 .. k |-> LoopAt(t, seq, g, i)]

LEMMA LoopStep ==
  ASSUME NEW t, NEW seq, NEW k \in Nat, NEW g, InsertsUpTo(t, seq, k, g), NEW i \in 0 .. k
  PROVE  g[i] = LoopAt(t, seq, g, i)
<1> DEFINE rhs == [m \in 0 .. k |-> LoopAt(t, seq, g, m)]
<1>1. rhs[i] = LoopAt(t, seq, g, i)
  BY Zenon
<1>2. g = rhs
  BY Zenon DEF InsertsUpTo
<1> HIDE DEF rhs
<1> QED
  BY <1>1, <1>2, Zenon

LEMMA LoopNext ==
  ASSUME NEW t, NEW seq, NEW k \in Nat, NEW g, InsertsUpTo(t, seq, k, g),
         NEW i \in Nat, i + 1 <= k
  PROVE  g[i + 1] = applyInsert(g[i], seq[i + 1])
<1>1. i + 1 \in 0 .. k /\ i + 1 # 0 /\ (i + 1) - 1 = i
  OBVIOUS
<1>2. LoopAt(t, seq, g, i + 1) = applyInsert(g[(i + 1) - 1], seq[i + 1])
  BY <1>1, Zenon DEF LoopAt
<1>3. g[i + 1] = LoopAt(t, seq, g, i + 1)
  BY <1>1, LoopStep
<1> QED
  BY <1>1, <1>2, <1>3, Zenon

LEMMA LoopExists ==
  ASSUME NEW t, NEW seq, NEW k \in Nat
  PROVE  \E g : InsertsUpTo(t, seq, k, g)
<1> DEFINE good == {m \in Nat : \E g : InsertsUpTo(t, seq, m, g)}
<1>1. 0 \in good
  <2> DEFINE g == [i \in 0 .. 0 |-> t]
  <2>1. \A i \in 0 .. 0 : t = LoopAt(t, seq, g, i)
    BY DEF LoopAt
  <2>2. g = [i \in 0 .. 0 |-> LoopAt(t, seq, g, i)]
    BY <2>1
  <2> HIDE DEF g
  <2>3. InsertsUpTo(t, seq, 0, g)
    BY <2>2 DEF InsertsUpTo
  <2> QED
    BY <2>3
<1>2. ASSUME NEW m \in Nat, m \in good PROVE m + 1 \in good
  <2>1. PICK g : InsertsUpTo(t, seq, m, g)
    BY <1>2
  <2> DEFINE e == [i \in 0 .. m + 1 |-> LoopAt(t, seq, g, i)]
  <2>2. \A i \in 0 .. m : e[i] = g[i]
    <3>1. \A i \in 0 .. m + 1 : e[i] = LoopAt(t, seq, g, i)
      BY Zenon
    <3>2. \A i \in 0 .. m : g[i] = LoopAt(t, seq, g, i)
      BY <2>1, LoopStep
    <3>3. \A i \in 0 .. m : i \in 0 .. m + 1
      OBVIOUS
    <3> HIDE DEF e
    <3> QED
      BY <3>1, <3>2, <3>3, Zenon
  <2>3. \A i \in 0 .. m + 1 : i # 0 => i - 1 \in 0 .. m
    OBVIOUS
  <2> HIDE DEF e
  <2>4. \A i \in 0 .. m + 1 : LoopAt(t, seq, g, i) = LoopAt(t, seq, e, i)
    BY <2>2, <2>3 DEF LoopAt
  <2>5. e = [i \in 0 .. m + 1 |-> LoopAt(t, seq, e, i)]
    BY <2>4 DEF e
  <2>6. InsertsUpTo(t, seq, m + 1, e)
    BY <2>5 DEF InsertsUpTo
  <2> QED
    BY <2>6
<1> HIDE DEF good
<1>3. Nat \subseteq good
  BY <1>1, <1>2, EveryNatural
<1> QED
  BY <1>3 DEF good

LEMMA InsertAllIsLoop ==
  ASSUME NEW t, NEW seq
  PROVE  insertAll(t, seq) = (CHOOSE g : InsertsUpTo(t, seq, Len(seq), g))[Len(seq)]
BY Zenon DEF insertAll, InsertsUpTo, LoopAt

LEMMA InsertAllGrows ==
  ASSUME NEW t, SoundTree(t), IsFiniteSet(Nodes(t)), NEW ops \in SUBSET FugueInsertOp,
         NEW seq \in Seq(ops)
  PROVE  GrownBy(t, ops, insertAll(t, seq))
<1> DEFINE k == Len(seq)
           g == CHOOSE g : InsertsUpTo(t, seq, k, g)
<1>1. k \in Nat
  OBVIOUS
<1>2. InsertsUpTo(t, seq, k, g)
  BY <1>1, LoopExists
<1>3. insertAll(t, seq) = g[k]
  BY InsertAllIsLoop
<1> HIDE DEF g
<1> DEFINE good == {m \in Nat : m <= k => GrownBy(t, ops, g[m])}
<1>4. 0 \in good
  <2>1. g[0] = t
    <3>1. 0 \in 0 .. k
      BY <1>1
    <3>2. g[0] = LoopAt(t, seq, g, 0)
      BY <1>1, <1>2, <3>1, LoopStep
    <3> QED
      BY <3>2 DEF LoopAt
  <2> QED
    BY <2>1 DEF GrownBy, Kept
<1>5. ASSUME NEW m \in Nat, m \in good PROVE m + 1 \in good
  <2> SUFFICES ASSUME m + 1 <= k PROVE GrownBy(t, ops, g[m + 1])
    OBVIOUS
  <2>1. GrownBy(t, ops, g[m])
    BY <1>1, <1>5
  <2>2. g[m + 1] = applyInsert(g[m], seq[m + 1])
    BY <1>1, <1>2, LoopNext
  <2>3. seq[m + 1] \in ops
    BY <1>1
  <2>4. GrownBy(g[m], {seq[m + 1]}, g[m + 1])
    BY <2>1, <2>2, <2>3, InsertGrows DEF GrownBy
  <2> QED
    BY <2>1, <2>3, <2>4, GrowsOn
<1> HIDE DEF good
<1>6. Nat \subseteq good
  BY <1>4, <1>5, EveryNatural
<1> QED
  BY <1>1, <1>3, <1>6 DEF good

(* Every mark of the copy whose node is here is set.                       *)
LEMMA DeleteAllSound ==
  ASSUME NEW t, SoundTree(t), NEW targets \in SUBSET OpID
  PROVE  /\ SoundTree(deleteAll(t, targets))
         /\ Kept(t, deleteAll(t, targets))
         /\ Nodes(deleteAll(t, targets)) = Nodes(t)
<1> DEFINE u == deleteAll(t, targets)
<1>1. /\ DOMAIN u = DOMAIN t /\ u = [n \in DOMAIN u |-> u[n]]
      /\ \A n \in DOMAIN t : u[n] = IF n \in targets THEN [t[n] EXCEPT !.deleted = TRUE] ELSE t[n]
  BY DEF deleteAll
<1> HIDE DEF u
<1>2. IsTree(t) /\ ChildListsMatch(t) /\ PlainRoot(t) /\ Founded(t)
  BY DEF SoundTree
<1>3. ASSUME NEW n \in DOMAIN t
      PROVE  /\ u[n] \in FugueNode
             /\ u[n].value = t[n].value /\ u[n].parent = t[n].parent
             /\ u[n].side = t[n].side /\ u[n].kids = t[n].kids
  <2>1. t[n] \in FugueNode
    BY <1>2 DEF IsTree
  <2>2. u[n] = IF n \in targets THEN [t[n] EXCEPT !.deleted = TRUE] ELSE t[n]
    BY <1>1
  <2> QED
    BY <2>1, <2>2 DEF FugueNode
<1>4. Nodes(u) = Nodes(t)
  BY <1>1 DEF Nodes
<1>5. Kept(t, u)
  BY <1>1, <1>3 DEF Kept
<1>6. IsTree(u)
  <2>1. u \in [DOMAIN u -> FugueNode]
    BY <1>1, <1>3
  <2> QED
    BY <1>1, <1>2, <1>3, <1>4, <2>1 DEF IsTree
<1>7. ChildListsMatch(u)
  <2>1. \A p \in DOMAIN t, s \in Side : Children(u, p, s) = Children(t, p, s)
    <3>1. \A n \in Nodes(t) : u[n].parent = t[n].parent /\ u[n].side = t[n].side
      BY <1>3 DEF Nodes
    <3> QED
      BY <1>4, <3>1 DEF Children
  <2>2. \A p \in DOMAIN t : u[p].kids = t[p].kids
    BY <1>3
  <2> SUFFICES ASSUME NEW p \in DOMAIN t, NEW s \in Side
               PROVE  /\ Elements(u[p].kids[s]) = Children(u, p, s)
                      /\ StrictlySorted(u[p].kids[s])
    BY <1>1 DEF ChildListsMatch
  <2>3. /\ Elements(t[p].kids[s]) = Children(t, p, s)
        /\ StrictlySorted(t[p].kids[s])
    BY <1>2 DEF ChildListsMatch
  <2> QED
    BY <2>1, <2>2, <2>3
<1>8. PlainRoot(u)
  <2>1. rootSentinelID \in DOMAIN t /\ rootSentinelID \notin targets
    BY <1>2, RootIsNoOpID DEF IsTree
  <2>2. u[rootSentinelID] = t[rootSentinelID]
    BY <1>1, <2>1
  <2> QED
    BY <1>2, <2>2 DEF PlainRoot
<1>9. Founded(u)
  BY <1>1, <1>2, <1>5, SameFounded
<1> QED
  BY <1>4, <1>5, <1>6, <1>7, <1>8, <1>9 DEF SoundTree, u

LEMMA SameInserts ==
  ASSUME NEW t, NEW u, Kept(t, u), Nodes(u) = Nodes(t)
  PROVE  Inserts(u) = Inserts(t)
BY KeptInserts DEF Inserts

(* The sorted copies are a sequence of the copies.                         *)
LEMMA SortedIsSequence ==
  ASSUME NEW ops, IsFiniteSet(ops), NEW seq \in SortedByCounter(ops)
  PROVE  seq \in Seq(ops)
<1>1. \A S : Seqs!Cardinality(S) = Cardinality(S)
  BY Zenon DEF Seqs!Cardinality, Cardinality
<1>2. Cardinality(ops) \in Nat
  BY FS_CardinalityType
<1>3. seq \in [1 .. Cardinality(ops) -> ops]
  BY <1>1 DEF SortedByCounter, Seqs!SetToSeqs
<1> QED
  BY <1>2, <1>3, SeqDef

LEMMA MergeGrows ==
  ASSUME NEW t, SoundTree(t), IsFiniteSet(Nodes(t)), NEW ops \in SUBSET FugueInsertOp,
         IsFiniteSet(ops), NEW seq \in SortedByCounter(ops), NEW targets \in SUBSET OpID
  PROVE  GrownBy(t, ops, deleteAll(insertAll(t, seq), targets))
<1> DEFINE u == insertAll(t, seq)
<1>1. GrownBy(t, ops, u)
  BY SortedIsSequence, InsertAllGrows
<1> HIDE DEF u
<1> DEFINE v == deleteAll(u, targets)
<1>2. SoundTree(v) /\ Kept(u, v) /\ Nodes(v) = Nodes(u)
  BY <1>1, DeleteAllSound DEF GrownBy
<1> HIDE DEF v
<1>3. Inserts(v) = Inserts(u)
  BY <1>2, SameInserts
<1>4. Kept(t, v)
  BY <1>1, <1>2 DEF GrownBy, Kept
<1>5. GrownBy(t, ops, v)
  BY <1>1, <1>2, <1>3, <1>4 DEF GrownBy
<1> QED
  BY <1>5 DEF u, v

(* What is known to a replica or to a running Merge.                       *)
LEMMA Knows ==
  ASSUME NEW r \in Replica
  PROVE  /\ Inserts(tree[r]) \subseteq KnownInserts
         /\ \A o \in Replica \ {r} : copied[r][o].inserts \subseteq KnownInserts
<1>1. Inserts(tree[r]) \union CopiedBy(r) \subseteq KnownInserts
  BY DEF KnownInserts
<1>2. \A o \in Replica \ {r} : copied[r][o].inserts \subseteq CopiedBy(r)
  BY DEF CopiedBy
<1> QED
  BY <1>1, <1>2

(* One tree may grow by inserts that are known, and copies may be taken of *)
(* what is known.                                                          *)
LEMMA NothingNewIsKnown ==
  ASSUME MergeIInv,
         \A q \in Replica : Inserts(tree'[q]) \subseteq KnownInserts,
         \A q \in Replica : \A o \in Replica \ {q} : copied'[q][o].inserts \subseteq KnownInserts,
         counter' = counter
  PROVE  KnownOnce'
<1>1. KnownInserts' \subseteq KnownInserts
  <2> SUFFICES ASSUME NEW op \in KnownInserts' PROVE op \in KnownInserts
    OBVIOUS
  <2>1. PICK q \in Replica : op \in Inserts(tree'[q]) \/ op \in CopiedBy(q)'
    BY DEF KnownInserts
  <2>2. op \in CopiedBy(q)' => \E o \in Replica \ {q} : op \in copied'[q][o].inserts
    BY DEF CopiedBy
  <2> QED
    BY <2>1, <2>2
<1> QED
  BY <1>1 DEF MergeIInv, KnownOnce

-----------------------------------------------------------------------------

LEMMA MergeInit == Init => MergeIInv
<1> SUFFICES ASSUME Init PROVE MergeIInv
  OBVIOUS
<1>1. \A r \in Replica : SoundTree(tree[r]) /\ Nodes(tree[r]) = {}
  BY NewTreeSound DEF Init
<1>2. \A r \in Replica : \A o \in Replica \ {r} :
        copied[r][o].inserts = {} /\ copied[r][o].deletes = {}
  BY DEF Init, idle
<1>3. KnownInserts = {}
  BY <1>1, <1>2 DEF KnownInserts, CopiedBy, Inserts
<1>4. MergeTypeOK
  BY <1>1, <1>2, FS_EmptySet DEF Init, MergeTypeOK
<1> QED
  BY <1>3, <1>4 DEF MergeIInv, KnownOnce

(* An edit issues a fresh id.                                              *)
LEMMA IssueInsertKeeps ==
  ASSUME MergeIInv, NEW r \in Replica, NEW op \in FugueInsertOp, op.id = nextID(r), Issue(r, op)
  PROVE  MergeIInv'
<1>1. /\ counter \in [Replica -> Nat] /\ DOMAIN tree = Replica
      /\ SoundTree(tree[r]) /\ IsFiniteSet(Nodes(tree[r]))
  BY DEF MergeIInv, MergeTypeOK
<1>2. /\ counter' = [counter EXCEPT ![r] = @ + 1] /\ copied' = copied
      /\ DOMAIN tree' = Replica
      /\ tree'[r] = applyInsert(tree[r], op)
      /\ \A q \in Replica \ {r} : tree'[q] = tree[q]
  BY <1>1 DEF Issue, ApplyOperation, FugueInsertOp
<1>3. GrownBy(tree[r], {op}, tree'[r])
  BY <1>1, <1>2, InsertGrows
<1>4. KnownInserts' \subseteq KnownInserts \union {op}
  BY <1>2, <1>3 DEF KnownInserts, CopiedBy, GrownBy
<1>5. MergeTypeOK'
  BY <1>1, <1>2, <1>3 DEF MergeIInv, MergeTypeOK, GrownBy
<1>6. op.id[1] = r /\ op.id[2] = counter[r] + 1
  BY DEF nextID
<1>7. \A o \in KnownInserts : /\ o \in FugueInsertOp /\ o.id[1] \in Replica
                              /\ o.id[2] \in Nat /\ o.id[2] <= counter[o.id[1]]
  BY DEF MergeIInv, KnownOnce, FugueInsertOp, OpID
<1>8. \A o \in KnownInserts : o.id # op.id
  BY <1>1, <1>6, <1>7
<1>9. \A o \in KnownInserts' : o.id[1] \in Replica /\ o.id[2] <= counter'[o.id[1]]
  BY <1>1, <1>2, <1>4, <1>6, <1>7
<1>10. \A o1, o2 \in KnownInserts' : o1.id = o2.id => o1 = o2
  BY <1>4, <1>8 DEF MergeIInv, KnownOnce
<1>11. KnownInserts' \subseteq FugueInsertOp
  BY <1>4, <1>7
<1> QED
  BY <1>5, <1>9, <1>10, <1>11 DEF MergeIInv, KnownOnce

LEMMA IssueDeleteKeeps ==
  ASSUME MergeIInv, NEW r \in Replica, NEW op \in FugueDeleteOp, Issue(r, op)
  PROVE  MergeIInv'
<1>1. /\ counter \in [Replica -> Nat] /\ DOMAIN tree = Replica
      /\ SoundTree(tree[r]) /\ IsFiniteSet(Nodes(tree[r]))
  BY DEF MergeIInv, MergeTypeOK
<1>2. /\ counter' = [counter EXCEPT ![r] = @ + 1] /\ copied' = copied
      /\ DOMAIN tree' = Replica
      /\ tree'[r] = ApplyOperation(tree[r], op)
      /\ \A q \in Replica \ {r} : tree'[q] = tree[q]
  BY <1>1 DEF Issue
<1>3. op \in Operation /\ op.type = "delete"
  BY DEF Operation, FugueDeleteOp
<1>4. Effect(tree[r], op, tree'[r])
  BY <1>1, <1>2, <1>3, ApplyOperationEffect
<1>5. Nodes(tree'[r]) = Nodes(tree[r]) /\ SoundTree(tree'[r]) /\ Kept(tree[r], tree'[r])
  BY <1>3, <1>4 DEF Effect
<1>6. Inserts(tree'[r]) = Inserts(tree[r])
  BY <1>5, SameInserts
<1>7. KnownInserts' = KnownInserts
  BY <1>2, <1>6 DEF KnownInserts, CopiedBy
<1>8. MergeTypeOK'
  BY <1>1, <1>2, <1>5 DEF MergeIInv, MergeTypeOK
<1>9. \A o \in KnownInserts : /\ o.id[1] \in Replica
                              /\ o.id[2] \in Nat /\ o.id[2] <= counter[o.id[1]]
  BY DEF MergeIInv, KnownOnce, FugueInsertOp, OpID
<1>10. \A o \in KnownInserts : o.id[2] <= counter'[o.id[1]]
  BY <1>1, <1>2, <1>9
<1> QED
  BY <1>7, <1>8, <1>9, <1>10 DEF MergeIInv, KnownOnce

LEMMA EditKeepsMerge ==
  ASSUME MergeIInv, NEW r \in Replica, Edit(r)
  PROVE  MergeIInv'
<1>1. SoundTree(tree[r]) /\ counter[r] \in Nat
  BY DEF MergeIInv, MergeTypeOK
<1>2. nextID(r) \in OpID
  BY <1>1, ReplicaAssumption DEF nextID, OpID
<1>3. ASSUME NEW pos, NEW char \in Char, InsertAt(r, pos, char) PROVE MergeIInv'
  <2>1. PICK left \in DOMAIN tree[r], right \in DOMAIN tree[r] \union {nil} :
          Issue(r, insertOp(nextID(r), char, selectParent(tree[r], left, right)))
    BY <1>3 DEF InsertAt
  <2> DEFINE place == selectParent(tree[r], left, right)
             op == insertOp(nextID(r), char, place)
  <2>2. place.parent \in DOMAIN tree[r] /\ place.side \in Side
    BY DEF selectParent, Side
  <2>3. place.parent \in OpID \union {rootSentinelID}
    BY <1>1, <2>2 DEF SoundTree, IsTree, Nodes
  <2>4. op \in FugueInsertOp /\ op.id = nextID(r)
    BY <1>2, <2>2, <2>3 DEF insertOp, FugueInsertOp
  <2>5. Issue(r, op)
    BY <2>1
  <2> HIDE DEF place, op
  <2> QED
    BY <2>4, <2>5, IssueInsertKeeps
<1>4. ASSUME NEW pos, DeleteAt(r, pos) PROVE MergeIInv'
  <2>1. PICK target \in Nodes(tree[r]) : Issue(r, deleteOp(nextID(r), target))
    BY <1>4 DEF DeleteAt
  <2> DEFINE op == deleteOp(nextID(r), target)
  <2>2. target \in OpID
    BY <1>1 DEF SoundTree, IsTree
  <2>3. op \in FugueDeleteOp
    BY <1>2, <2>2 DEF deleteOp, FugueDeleteOp
  <2>4. Issue(r, op)
    BY <2>1
  <2> HIDE DEF op
  <2> QED
    BY <2>3, <2>4, IssueDeleteKeeps
<1> QED
  BY <1>3, <1>4 DEF Edit

(* A Merge takes a copy; what it copies was known.                         *)
LEMMA CopyOtherKeeps ==
  ASSUME MergeIInv, NEW r \in Replica, NEW o \in Replica \ {r}, CopyOther(r, o)
  PROVE  MergeIInv'
<1> DEFINE copy == [inserts |-> Inserts(tree[o]), deletes |-> Tombstones(tree[o]), running |-> TRUE]
<1>1. tree' = tree /\ counter' = counter /\ copied' = [copied EXCEPT ![r][o] = copy]
  BY DEF CopyOther, Inserts
<1>2. copy.inserts = Inserts(tree[o]) /\ copy.deletes = Tombstones(tree[o])
  OBVIOUS
<1> HIDE DEF copy
<1>3. DOMAIN copied = Replica /\ \A q \in Replica : DOMAIN copied[q] = Replica \ {q}
  BY DEF MergeIInv, MergeTypeOK
<1>4. /\ DOMAIN copied' = Replica /\ \A q \in Replica : DOMAIN copied'[q] = Replica \ {q}
      /\ copied'[r][o] = copy
      /\ \A q \in Replica : \A p \in Replica \ {q} : q # r \/ p # o => copied'[q][p] = copied[q][p]
  BY <1>1, <1>3
<1>5. IsFiniteSet(copy.inserts)
  BY <1>2, FiniteInserts DEF MergeIInv, MergeTypeOK
<1>6. copy.deletes \subseteq OpID
  BY <1>2 DEF MergeIInv, MergeTypeOK, SoundTree, IsTree, Tombstones
<1>7. MergeTypeOK'
  <2>1. \A q \in Replica : \A p \in Replica \ {q} :
          IsFiniteSet(copied'[q][p].inserts) /\ copied'[q][p].deletes \subseteq OpID
    BY <1>4, <1>5, <1>6 DEF MergeIInv, MergeTypeOK
  <2> QED
    BY <1>1, <1>4, <2>1 DEF MergeIInv, MergeTypeOK
<1>8. KnownOnce'
  <2>1. \A q \in Replica : \A p \in Replica \ {q} : copied'[q][p].inserts \subseteq KnownInserts
    BY <1>2, <1>4, Knows
  <2> QED
    BY <1>1, <2>1, Knows, NothingNewIsKnown
<1> QED
  BY <1>7, <1>8 DEF MergeIInv

(* A Merge applies its copy.                                               *)
LEMMA ApplyCopiedKeeps ==
  ASSUME MergeIInv, NEW r \in Replica, NEW o \in Replica \ {r}, ApplyCopied(r, o)
  PROVE  MergeIInv'
<1>1. PICK seq \in SortedByCounter(copied[r][o].inserts) :
        tree' = [tree EXCEPT ![r] = deleteAll(insertAll(@, seq), copied[r][o].deletes)]
  BY DEF ApplyCopied
<1>2. copied' = [copied EXCEPT ![r][o] = idle] /\ counter' = counter
  BY DEF ApplyCopied
<1>3. /\ DOMAIN tree = Replica /\ SoundTree(tree[r]) /\ IsFiniteSet(Nodes(tree[r]))
      /\ IsFiniteSet(copied[r][o].inserts) /\ copied[r][o].deletes \subseteq OpID
      /\ DOMAIN copied = Replica /\ \A q \in Replica : DOMAIN copied[q] = Replica \ {q}
  BY DEF MergeIInv, MergeTypeOK
<1>4. copied[r][o].inserts \subseteq KnownInserts /\ copied[r][o].inserts \subseteq FugueInsertOp
  BY Knows DEF MergeIInv, KnownOnce
<1>5. /\ DOMAIN tree' = Replica
      /\ tree'[r] = deleteAll(insertAll(tree[r], seq), copied[r][o].deletes)
      /\ \A q \in Replica \ {r} : tree'[q] = tree[q]
  BY <1>1, <1>3
<1>6. GrownBy(tree[r], copied[r][o].inserts, tree'[r])
  BY <1>3, <1>4, <1>5, MergeGrows
<1>7. idle.inserts = {} /\ idle.deletes = {}
  BY DEF idle
<1>8. /\ DOMAIN copied' = Replica /\ \A q \in Replica : DOMAIN copied'[q] = Replica \ {q}
      /\ copied'[r][o] = idle
      /\ \A q \in Replica : \A p \in Replica \ {q} : q # r \/ p # o => copied'[q][p] = copied[q][p]
  BY <1>2, <1>3
<1>9. MergeTypeOK'
  <2>1. \A q \in Replica : \A p \in Replica \ {q} :
          IsFiniteSet(copied'[q][p].inserts) /\ copied'[q][p].deletes \subseteq OpID
    BY ZenonT(40), <1>7, <1>8, FS_EmptySet DEF MergeIInv, MergeTypeOK
  <2>2. \A q \in Replica : SoundTree(tree'[q]) /\ IsFiniteSet(Nodes(tree'[q]))
    BY <1>5, <1>6 DEF MergeIInv, MergeTypeOK, GrownBy
  <2> QED
    BY <1>2, <1>5, <1>8, <2>1, <2>2 DEF MergeIInv, MergeTypeOK
<1>10. KnownOnce'
  <2>1. \A q \in Replica : \A p \in Replica \ {q} : copied'[q][p].inserts \subseteq KnownInserts
    BY <1>7, <1>8, Knows
  <2>2. \A q \in Replica : Inserts(tree'[q]) \subseteq KnownInserts
    BY <1>4, <1>5, <1>6, Knows DEF GrownBy
  <2> QED
    BY <1>2, <2>1, <2>2, NothingNewIsKnown
<1> QED
  BY <1>9, <1>10 DEF MergeIInv

LEMMA MergeNext == MergeIInv /\ [Next]_vars => MergeIInv'
<1> SUFFICES ASSUME MergeIInv, [Next]_vars PROVE MergeIInv'
  OBVIOUS
<1>1. ASSUME NEW r \in Replica, Edit(r) PROVE MergeIInv'
  BY <1>1, EditKeepsMerge
<1>2. ASSUME NEW r \in Replica, NEW o \in Replica \ {r}, Merge(r, o) PROVE MergeIInv'
  BY <1>2, CopyOtherKeeps, ApplyCopiedKeeps DEF Merge
<1>3. CASE UNCHANGED vars
  <2>1. tree' = tree /\ counter' = counter /\ copied' = copied
    BY <1>3 DEF vars
  <2>2. MergeTypeOK'
    BY <2>1 DEF MergeIInv, MergeTypeOK
  <2>3. KnownInserts' = KnownInserts
    BY <2>1 DEF KnownInserts, CopiedBy
  <2> QED
    BY <2>1, <2>2, <2>3 DEF MergeIInv, KnownOnce
<1> QED
  BY <1>1, <1>2, <1>3 DEF Next

(* Whatever order a Merge applies its copies in, and whatever was edited   *)
(* or merged since it took them: child slices and parent links describe    *)
(* one tree, two replicas agree on the nodes they share and show them in   *)
(* one order, and with the same nodes and marks they are in one state.     *)
THEOREM MergesKeepTreesAgreeing == Spec => []MergedTreesAgree
<1>1. MergeIInv => MergedTreesAgree
  <2> SUFFICES ASSUME MergeIInv, NEW r \in Replica, NEW q \in Replica
               PROVE  /\ ChildListsMatch(tree[r])
                      /\ Agree(tree[r], tree[q])
                      /\ SameOrder(tree[r], tree[q])
                      /\ SameContent(tree[r], tree[q]) => tree[r] = tree[q]
    BY DEF MergedTreesAgree
  <2>1. SoundTree(tree[r]) /\ SoundTree(tree[q])
    BY DEF MergeIInv, MergeTypeOK
  <2>2. Agree(tree[r], tree[q])
    <3> SUFFICES ASSUME NEW n \in Nodes(tree[r]) \intersect Nodes(tree[q])
                 PROVE  /\ tree[r][n].value = tree[q][n].value
                        /\ tree[r][n].parent = tree[q][n].parent
                        /\ tree[r][n].side = tree[q][n].side
      BY DEF Agree
    <3>1. insertOf(tree[r], n) \in KnownInserts /\ insertOf(tree[q], n) \in KnownInserts
      BY Knows DEF Inserts
    <3>2. insertOf(tree[r], n).id = n /\ insertOf(tree[q], n).id = n
      BY DEF insertOf, insertOp
    <3>3. insertOf(tree[r], n) = insertOf(tree[q], n)
      BY <3>1, <3>2 DEF MergeIInv, KnownOnce
    <3>4. \A t : /\ insertOf(t, n).value = t[n].value
                 /\ insertOf(t, n).parent = t[n].parent
                 /\ insertOf(t, n).side = t[n].side
      BY DEF insertOf, insertOp
    <3> QED
      BY <3>3, <3>4
  <2> QED
    BY <2>1, <2>2, SharedNodesInOneOrder, SameContentSameTree DEF SoundTree
<1> QED
  BY <1>1, MergeInit, MergeNext, PTL DEF Spec

-----------------------------------------------------------------------------
(* What a Merge achieves.                                                  *)

(* A copy holds the parents of its members: it was taken under one lock.   *)
CopiesClosed ==
  \A r \in Replica : \A o \in Replica \ {r} :
    \A op \in copied[r][o].inserts :
      \/ op.parent = rootSentinelID
      \/ \E p \in copied[r][o].inserts : p.id = op.parent

LEMMA InitCopiesClosed == Init => CopiesClosed
<1> SUFFICES ASSUME Init PROVE CopiesClosed
  OBVIOUS
<1>1. \A r \in Replica : \A o \in Replica \ {r} : copied[r][o].inserts = {}
  BY DEF Init, idle
<1> QED
  BY <1>1, Zenon DEF CopiesClosed

LEMMA NextCopiesClosed ==
  ASSUME MergeIInv, CopiesClosed, [Next]_vars
  PROVE  CopiesClosed'
<1>1. DOMAIN copied = Replica /\ \A q \in Replica : DOMAIN copied[q] = Replica \ {q}
  BY DEF MergeIInv, MergeTypeOK
<1>2. ASSUME NEW r \in Replica, Edit(r) PROVE CopiesClosed'
  BY <1>2 DEF Edit, InsertAt, DeleteAt, Issue, CopiesClosed
<1>3. ASSUME NEW r \in Replica, NEW o \in Replica \ {r}, NEW copy,
             copied' = [copied EXCEPT ![r][o] = copy],
             \A op \in copy.inserts : \/ op.parent = rootSentinelID
                                      \/ \E p \in copy.inserts : p.id = op.parent
      PROVE  CopiesClosed'
  <2>1. \A q \in Replica : \A p \in Replica \ {q} :
          copied'[q][p] = IF q = r /\ p = o THEN copy ELSE copied[q][p]
    BY <1>1, <1>3
  <2> QED
    BY <1>3, <2>1 DEF CopiesClosed
<1>4. ASSUME NEW r \in Replica, NEW o \in Replica \ {r}, CopyOther(r, o) PROVE CopiesClosed'
  <2> DEFINE t == tree[o]
             copy == [inserts |-> Inserts(t), deletes |-> Tombstones(t), running |-> TRUE]
  <2>1. copied' = [copied EXCEPT ![r][o] = copy]
    BY <1>4 DEF CopyOther, Inserts
  <2>2. IsTree(t)
    BY DEF MergeIInv, MergeTypeOK, SoundTree
  <2>3. ASSUME NEW op \in copy.inserts
        PROVE  \/ op.parent = rootSentinelID
               \/ \E p \in copy.inserts : p.id = op.parent
    <3>1. PICK n \in Nodes(t) : op = insertOf(t, n)
      BY DEF Inserts
    <3>2. op.parent = t[n].parent /\ t[n].parent \in DOMAIN t
      BY <2>2, <3>1 DEF insertOf, insertOp, IsTree, Nodes
    <3>3. CASE op.parent \in Nodes(t)
      <4>1. insertOf(t, op.parent) \in copy.inserts /\ insertOf(t, op.parent).id = op.parent
        BY <3>3 DEF Inserts, insertOf, insertOp
      <4> QED
        BY <4>1
    <3> QED
      BY <3>2, <3>3 DEF Nodes
  <2> HIDE DEF copy
  <2> QED
    BY <1>3, <2>1, <2>3
<1>5. ASSUME NEW r \in Replica, NEW o \in Replica \ {r}, ApplyCopied(r, o) PROVE CopiesClosed'
  <2>1. copied' = [copied EXCEPT ![r][o] = idle] /\ idle.inserts = {}
    BY <1>5 DEF ApplyCopied, idle
  <2> QED
    BY <1>3, <2>1
<1>6. CASE UNCHANGED vars
  BY <1>6 DEF vars, CopiesClosed
<1> QED
  BY <1>2, <1>4, <1>5, <1>6 DEF Next, Merge

(* The sorted copies are all of the copies, by rising counters.            *)
LEMMA SortedIsEnumeration ==
  ASSUME NEW ops, IsFiniteSet(ops), NEW seq \in SortedByCounter(ops)
  PROVE  /\ \A op \in ops : \E i \in 1 .. Len(seq) : seq[i] = op
         /\ \A i, j \in 1 .. Len(seq) : i < j => seq[i].id[2] <= seq[j].id[2]
         /\ \A i, j \in 1 .. Len(seq) : i # j => seq[i] # seq[j]
<1>1. \A S : Seqs!Cardinality(S) = Cardinality(S)
  BY Zenon DEF Seqs!Cardinality, Cardinality
<1> DEFINE k == Cardinality(ops)
<1>2. k \in Nat
  BY FS_CardinalityType
<1>3. seq \in [1 .. k -> ops] /\ \A i, j \in 1 .. k : i # j => seq[i] # seq[j]
  BY <1>1 DEF SortedByCounter, Seqs!SetToSeqs
<1>4. Len(seq) = k
  BY <1>2, <1>3
<1>5. seq \in Surjection(1 .. k, ops)
  <2>1. seq \in Injection(1 .. k, ops)
    BY <1>3 DEF Injection, IsInjective
  <2>2. IsFiniteSet(1 .. k) /\ Cardinality(1 .. k) = k
    BY <1>2, FS_Interval
  <2> QED
    BY <2>1, <2>2, FS_Injection
<1>6. \A op \in ops : \E i \in 1 .. k : seq[i] = op
  BY <1>5 DEF Surjection
<1> QED
  BY <1>3, <1>4, <1>6 DEF SortedByCounter

(* The loop of Merge inserts every copy that, like all above it, hangs     *)
(* from a node that is there, or comes later in the sorted order than its  *)
(* parent.                                                                 *)
LEMMA LoopInserts ==
  ASSUME NEW t, SoundTree(t), NEW ops \in SUBSET FugueInsertOp, IsFiniteSet(ops),
         NEW seq \in SortedByCounter(ops), NEW above \in SUBSET ops,
         \A c \in above : \/ c.parent \in DOMAIN t
                          \/ \E p \in above : p.id = c.parent /\ p.id[2] < c.id[2]
  PROVE  \A op \in above : op.id \in Nodes(insertAll(t, seq))
<1> DEFINE k == Len(seq)
           g == CHOOSE g : InsertsUpTo(t, seq, k, g)
<1>0. seq \in Seq(ops)
  BY SortedIsSequence
<1>1. k \in Nat
  BY <1>0
<1>2. InsertsUpTo(t, seq, k, g)
  BY <1>1, LoopExists
<1>3. insertAll(t, seq) = g[k]
  BY InsertAllIsLoop
<1> HIDE DEF g
<1> DEFINE inserted(m) == /\ SoundTree(g[m]) /\ DOMAIN t \subseteq DOMAIN g[m]
                          /\ \A j \in 1 .. m : seq[j] \in above => seq[j].id \in Nodes(g[m])
           good == {m \in Nat : m <= k => inserted(m)}
<1>4. 0 \in good
  <2>1. 0 \in 0 .. k
    BY <1>1
  <2>2. g[0] = LoopAt(t, seq, g, 0)
    BY <1>1, <1>2, <2>1, LoopStep
  <2>3. g[0] = t
    BY <2>2 DEF LoopAt
  <2> QED
    BY <2>3
<1>5. ASSUME NEW m \in Nat, m \in good PROVE m + 1 \in good
  <2> SUFFICES ASSUME m + 1 <= k PROVE inserted(m + 1)
    OBVIOUS
  <2> DEFINE u == g[m]
             v == g[m + 1]
             op == seq[m + 1]
  <2>1. inserted(m)
    BY <1>1, <1>5
  <2>2. v = applyInsert(u, op)
    BY <1>1, <1>2, LoopNext
  <2>3. op \in FugueInsertOp /\ m + 1 \in 1 .. k
    BY <1>0, <1>1
  <2>4. op \in Operation /\ op.type = "insert" /\ v = ApplyOperation(u, op)
    BY <2>2, <2>3 DEF Operation, FugueInsertOp, ApplyOperation
  <2>5. SoundTree(u)
    BY <2>1
  <2>6. Effect(u, op, v)
    BY <2>4, <2>5, ApplyOperationEffect
  <2>7. /\ SoundTree(v) /\ Nodes(u) \subseteq Nodes(v) /\ DOMAIN u \subseteq DOMAIN v
        /\ op.parent \in DOMAIN u => op.id \in Nodes(v)
    BY <2>4, <2>6 DEF Effect, Kept
  <2>8. ASSUME op \in above PROVE op.parent \in DOMAIN u
    <3>1. CASE op.parent \in DOMAIN t
      BY <2>1, <3>1
    <3>2. ASSUME NEW p \in above, p.id = op.parent, p.id[2] < op.id[2]
          PROVE  op.parent \in DOMAIN u
      <4>1. PICK j \in 1 .. k : seq[j] = p
        BY SortedIsEnumeration
      <4>2. p \in FugueInsertOp /\ p.id[2] \in Nat /\ op.id[2] \in Nat
        BY <2>3 DEF FugueInsertOp, OpID
      <4>3. m + 1 < j => op.id[2] <= p.id[2]
        BY <2>3, <4>1, SortedIsEnumeration
      <4>4. j # m + 1
        BY <3>2, <4>1, <4>2
      <4>5. j \in 1 .. m
        BY <1>1, <3>2, <4>2, <4>3, <4>4
      <4>6. p.id \in Nodes(u)
        BY <2>1, <4>1, <4>5
      <4> QED
        BY <3>2, <4>6 DEF Nodes
    <3> QED
      BY <2>8, <3>1, <3>2
  <2>9. ASSUME NEW j \in 1 .. m + 1, seq[j] \in above PROVE seq[j].id \in Nodes(v)
    <3>1. CASE j \in 1 .. m
      BY <2>1, <2>7, <2>9, <3>1
    <3>2. CASE j = m + 1
      BY <2>7, <2>8, <2>9, <3>2
    <3> QED
      BY <3>1, <3>2
  <2> QED
    BY <2>1, <2>7, <2>9
<1> HIDE DEF good
<1>6. Nat \subseteq good
  BY <1>4, <1>5, EveryNatural
<1>7. inserted(k)
  BY <1>1, <1>6 DEF good
<1> QED
  BY <1>3, <1>7, SortedIsEnumeration

(* A Merge marks every tombstone of the copy whose node is here.           *)
LEMMA DeleteAllMarks ==
  ASSUME NEW t, SoundTree(t), NEW targets
  PROVE  targets \intersect Nodes(t) \subseteq Tombstones(deleteAll(t, targets))
<1> SUFFICES ASSUME NEW n \in targets, n \in Nodes(t)
             PROVE  n \in Tombstones(deleteAll(t, targets))
  OBVIOUS
<1>1. t[n] \in FugueNode /\ n \in DOMAIN t
  BY DEF SoundTree, IsTree, Nodes
<1>2. deleteAll(t, targets)[n] = [t[n] EXCEPT !.deleted = TRUE]
  BY <1>1 DEF deleteAll
<1>3. deleteAll(t, targets)[n].deleted = TRUE
  BY <1>1, <1>2 DEF FugueNode
<1>4. n \in Nodes(deleteAll(t, targets))
  BY DEF deleteAll, Nodes
<1> QED
  BY <1>3, <1>4 DEF Tombstones

LEMMA ApplyCopiedAchieves ==
  ASSUME MergeIInv, CopiesClosed, NEW r \in Replica, NEW o \in Replica \ {r}, ApplyCopied(r, o)
  PROVE  LET ops == copied[r][o].inserts
         IN  /\ \A op \in ops : op.id \notin Nodes(tree'[r]) => BehindInversion(op, ops)
             /\ copied[r][o].deletes \intersect Nodes(tree'[r]) \subseteq Tombstones(tree'[r])
<1> DEFINE ops == copied[r][o].inserts
           targets == copied[r][o].deletes
<1>1. PICK seq \in SortedByCounter(ops) :
        tree' = [tree EXCEPT ![r] = deleteAll(insertAll(@, seq), targets)]
  BY DEF ApplyCopied
<1>2. /\ DOMAIN tree = Replica /\ SoundTree(tree[r]) /\ IsFiniteSet(Nodes(tree[r]))
      /\ IsFiniteSet(ops) /\ targets \subseteq OpID
  BY DEF MergeIInv, MergeTypeOK
<1>3. ops \in SUBSET FugueInsertOp
  BY Knows DEF MergeIInv, KnownOnce
<1>4. \A c \in ops : c.parent = rootSentinelID \/ \E p \in ops : p.id = c.parent
  BY DEF CopiesClosed
<1> HIDE DEF ops, targets
<1> DEFINE u == insertAll(tree[r], seq)
<1>5. tree'[r] = deleteAll(u, targets)
  BY <1>1, <1>2
<1>6. SoundTree(u)
  BY <1>2, <1>3, SortedIsSequence, InsertAllGrows DEF GrownBy
<1>7. Nodes(tree'[r]) = Nodes(u)
  BY <1>2, <1>5, <1>6, DeleteAllSound
<1>8. ASSUME NEW op \in ops, ~ BehindInversion(op, ops)
      PROVE  op.id \in Nodes(u)
  <2>1. PICK above \in SUBSET ops :
          /\ op \in above
          /\ \A c \in above, p \in ops : c.parent = p.id => p \in above
          /\ ~ \E c \in above : Inverted(c, ops)
    BY <1>8 DEF BehindInversion
  <2>2. ASSUME NEW c \in above, c.parent # rootSentinelID
        PROVE  \E p \in above : p.id = c.parent /\ p.id[2] < c.id[2]
    <3>1. PICK p \in ops : p.id = c.parent
      BY <1>4, <2>2
    <3>2. p \in above /\ ~(p.id[2] >= c.id[2])
      BY <2>1, <3>1 DEF Inverted
    <3>3. p.id[2] \in Nat /\ c.id[2] \in Nat
      BY <1>3 DEF FugueInsertOp, OpID
    <3> QED
      BY <3>1, <3>2, <3>3
  <2> HIDE DEF u
  <2>3. rootSentinelID \in DOMAIN tree[r]
    BY <1>2 DEF SoundTree, IsTree
  <2>4. \A x \in above : x.id \in Nodes(insertAll(tree[r], seq))
    BY <1>2, <1>3, <2>2, <2>3, LoopInserts
  <2> QED
    BY <2>1, <2>4 DEF u
<1>9. targets \intersect Nodes(u) \subseteq Tombstones(tree'[r])
  BY <1>5, <1>6, DeleteAllMarks
<1> QED
  BY <1>7, <1>8, <1>9 DEF ops, targets

(* A Merge leaves out a node of the copy only when some parent above it    *)
(* has a counter no lower than its child's, and it sets every mark of the  *)
(* copy whose node is here, whatever order the equal counters came out in. *)
THEOREM MergesMissOnlyInversions == Spec => MergeMissesOnlyInversions
<1>1. Init => MergeIInv /\ CopiesClosed
  BY MergeInit, InitCopiesClosed
<1>2. MergeIInv /\ CopiesClosed /\ [Next]_vars => MergeIInv' /\ CopiesClosed'
  BY MergeNext, NextCopiesClosed
<1>3. MergeIInv /\ CopiesClosed /\ [Next]_vars =>
        [\A r \in Replica : \A o \in Replica \ {r} :
           ApplyCopied(r, o) =>
             LET ops == copied[r][o].inserts
             IN  /\ \A op \in ops : op.id \notin Nodes(tree'[r]) => BehindInversion(op, ops)
                 /\ copied[r][o].deletes \intersect Nodes(tree'[r])
                      \subseteq Tombstones(tree'[r])]_vars
  BY ApplyCopiedAchieves
<1> QED
  BY <1>1, <1>2, <1>3, PTL DEF Spec, MergeMissesOnlyInversions

-----------------------------------------------------------------------------
(* Merge as an operation on trees.                                         *)

(* What t.Merge(u) may leave, if nothing happens to either in between.     *)
Merged(t, u) ==
  {deleteAll(insertAll(t, seq), Tombstones(u)) : seq \in SortedByCounter(Inserts(u))}

(* A tree as the invariant has it for every replica.                       *)
WholeTree(t) ==
  SoundTree(t) /\ IsFiniteSet(Nodes(t)) /\ Inserts(t) \subseteq FugueInsertOp

LEMMA LoopTrees ==
  ASSUME NEW t, NEW ops, NEW seq \in Seq(ops)
  PROVE  \E g : /\ g[0] = t /\ g[Len(seq)] = insertAll(t, seq)
                /\ \A m \in Nat : m + 1 <= Len(seq) => g[m + 1] = applyInsert(g[m], seq[m + 1])
<1> DEFINE k == Len(seq)
           g == CHOOSE g : InsertsUpTo(t, seq, k, g)
<1>1. k \in Nat /\ 0 \in 0 .. k
  OBVIOUS
<1>2. InsertsUpTo(t, seq, k, g)
  BY <1>1, LoopExists
<1>3. insertAll(t, seq) = g[k]
  BY InsertAllIsLoop
<1> HIDE DEF g
<1>4. g[0] = LoopAt(t, seq, g, 0)
  BY <1>1, <1>2, LoopStep
<1>5. g[0] = t
  BY <1>4 DEF LoopAt
<1>6. \A m \in Nat : m + 1 <= k => g[m + 1] = applyInsert(g[m], seq[m + 1])
  BY <1>1, <1>2, LoopNext
<1> QED
  BY <1>3, <1>5, <1>6

LEMMA InsertAllMarksNothing ==
  ASSUME NEW t, SoundTree(t), NEW ops \in SUBSET FugueInsertOp, NEW seq \in Seq(ops)
  PROVE  Tombstones(insertAll(t, seq)) = Tombstones(t)
<1> DEFINE k == Len(seq)
<1>1. k \in Nat
  OBVIOUS
<1>2. PICK g : /\ g[0] = t /\ g[k] = insertAll(t, seq)
               /\ \A m \in Nat : m + 1 <= k => g[m + 1] = applyInsert(g[m], seq[m + 1])
  BY LoopTrees
<1> DEFINE good == {m \in Nat : m <= k => SoundTree(g[m]) /\ Tombstones(g[m]) = Tombstones(t)}
<1>3. 0 \in good
  BY <1>2
<1>4. ASSUME NEW m \in Nat, m \in good PROVE m + 1 \in good
  <2> SUFFICES ASSUME m + 1 <= k
               PROVE  SoundTree(g[m + 1]) /\ Tombstones(g[m + 1]) = Tombstones(t)
    OBVIOUS
  <2>1. SoundTree(g[m]) /\ Tombstones(g[m]) = Tombstones(t)
    BY <1>1, <1>4
  <2>2. seq[m + 1] \in FugueInsertOp
    BY <1>1
  <2>3. /\ seq[m + 1] \in Operation /\ seq[m + 1].type = "insert"
        /\ g[m + 1] = ApplyOperation(g[m], seq[m + 1])
    BY <1>2, <2>2 DEF Operation, FugueInsertOp, ApplyOperation
  <2>4. Effect(g[m], seq[m + 1], g[m + 1])
    BY <2>1, <2>3, ApplyOperationEffect
  <2> QED
    BY <2>1, <2>3, <2>4 DEF Effect
<1> HIDE DEF good
<1>5. Nat \subseteq good
  BY <1>3, <1>4, EveryNatural
<1> QED
  BY <1>1, <1>2, <1>5 DEF good

LEMMA DeleteAllMarksOnly ==
  ASSUME NEW t, SoundTree(t), NEW targets
  PROVE  Tombstones(deleteAll(t, targets)) = Tombstones(t) \union (targets \intersect Nodes(t))
<1> DEFINE u == deleteAll(t, targets)
<1>1. Nodes(u) = Nodes(t)
  BY DEF deleteAll, Nodes
<1>2. ASSUME NEW n \in Nodes(t) PROVE u[n].deleted <=> t[n].deleted \/ n \in targets
  <2>1. t[n] \in FugueNode /\ n \in DOMAIN t
    BY DEF SoundTree, IsTree, Nodes
  <2>2. u[n] = IF n \in targets THEN [t[n] EXCEPT !.deleted = TRUE] ELSE t[n]
    BY <2>1 DEF deleteAll
  <2>3. n \in targets => u[n].deleted
    BY <2>1, <2>2 DEF FugueNode
  <2> QED
    BY <2>2, <2>3
<1> HIDE DEF u
<1>3. Tombstones(u) = Tombstones(t) \union (targets \intersect Nodes(t))
  BY <1>1, <1>2 DEF Tombstones
<1> QED
  BY <1>3 DEF u

(* What every Merge of whole trees that agree does, complete or not.       *)
LEMMA MergeFacts ==
  ASSUME NEW t, WholeTree(t), NEW u, WholeTree(u), Agree(t, u), NEW v \in Merged(t, u)
  PROVE  /\ WholeTree(v)
         /\ Kept(t, v) /\ Agree(u, v)
         /\ Nodes(t) \subseteq Nodes(v) /\ Nodes(v) \subseteq Nodes(t) \union Nodes(u)
         /\ Tombstones(v) = Tombstones(t) \union (Tombstones(u) \intersect Nodes(v))
<1> DEFINE ops == Inserts(u)
           marks == Tombstones(u)
<1>1. PICK seq \in SortedByCounter(ops) : v = deleteAll(insertAll(t, seq), marks)
  BY DEF Merged
<1>2. IsFiniteSet(ops) /\ SoundTree(t) /\ IsFiniteSet(Nodes(t)) /\ SoundTree(u)
  BY FiniteInserts DEF WholeTree
<1>3. ops \in SUBSET FugueInsertOp /\ Inserts(t) \in SUBSET FugueInsertOp
  BY DEF WholeTree
<1>4. marks \in SUBSET OpID /\ marks \subseteq Nodes(u)
  BY <1>2 DEF SoundTree, IsTree, Tombstones
<1>5. seq \in Seq(ops)
  BY <1>2, SortedIsSequence
<1> HIDE DEF ops, marks
<1>6. GrownBy(t, ops, v)
  BY <1>1, <1>2, <1>3, <1>4, MergeGrows
<1> DEFINE w == insertAll(t, seq)
<1>7. SoundTree(w) /\ Tombstones(w) = Tombstones(t)
  BY <1>2, <1>3, <1>5, InsertAllGrows, InsertAllMarksNothing DEF GrownBy
<1>8. Nodes(v) = Nodes(w)
  BY <1>1, <1>4, <1>7, DeleteAllSound
<1>9. Tombstones(v) = Tombstones(t) \union (marks \intersect Nodes(v))
  BY <1>1, <1>7, <1>8, DeleteAllMarksOnly
<1> HIDE DEF w
<1>10. WholeTree(v) /\ Kept(t, v) /\ Inserts(v) \subseteq Inserts(t) \union ops
  BY <1>3, <1>6 DEF GrownBy, WholeTree
<1>11. Nodes(t) \subseteq Nodes(v)
  BY <1>10 DEF Kept, Nodes
<1>12. \A x, n : /\ insertOf(x, n).id = n /\ insertOf(x, n).value = x[n].value
                 /\ insertOf(x, n).parent = x[n].parent /\ insertOf(x, n).side = x[n].side
  BY DEF insertOf, insertOp
<1>13. ASSUME NEW n \in Nodes(v)
       PROVE  \/ n \in Nodes(t)
              \/ n \in Nodes(u) /\ insertOf(v, n) = insertOf(u, n)
  <2>1. insertOf(v, n) \in Inserts(t) \union Inserts(u)
    BY <1>10 DEF Inserts, ops
  <2>2. \/ \E m \in Nodes(t) : insertOf(v, n) = insertOf(t, m)
        \/ \E m \in Nodes(u) : insertOf(v, n) = insertOf(u, m)
    BY <2>1 DEF Inserts
  <2> QED
    BY <1>12, <2>2
<1>14. ASSUME NEW n \in Nodes(u) \intersect Nodes(v)
       PROVE  /\ u[n].value = v[n].value
              /\ u[n].parent = v[n].parent
              /\ u[n].side = v[n].side
  <2>1. CASE n \in Nodes(t)
    BY <1>10, <2>1 DEF Kept, Agree, Nodes
  <2>2. CASE n \notin Nodes(t)
    <3>1. insertOf(v, n) = insertOf(u, n)
      BY <1>13, <2>2
    <3> QED
      BY <1>12, <3>1
  <2> QED
    BY <2>1, <2>2
<1> QED
  BY <1>9, <1>10, <1>11, <1>13, <1>14 DEF Agree, marks

(* The copies can be sorted: a Merge always comes to an end.               *)
LEMMA SortedExists ==
  ASSUME NEW ops \in SUBSET FugueInsertOp, IsFiniteSet(ops)
  PROVE  SortedByCounter(ops) # {}
<1>1. \A S : Seqs!Cardinality(S) = Cardinality(S)
  BY Zenon DEF Seqs!Cardinality, Cardinality
<1> DEFINE Sorts(S, k, f) ==
             /\ f \in [1 .. k -> S]
             /\ \A i, j \in 1 .. k : i # j => f[i] # f[j]
             /\ \A i, j \in 1 .. k : i < j => f[i].id[2] <= f[j].id[2]
           good == {k \in Nat : \A S \in SUBSET ops :
                      IsFiniteSet(S) /\ Cardinality(S) = k => \E f : Sorts(S, k, f)}
<1>2. 0 \in good
  <2> SUFFICES ASSUME NEW S \in SUBSET ops PROVE \E f : Sorts(S, 0, f)
    OBVIOUS
  <2>1. Sorts(S, 0, [i \in 1 .. 0 |-> i])
    OBVIOUS
  <2> QED
    BY <2>1
<1>3. ASSUME NEW k \in Nat, k \in good PROVE k + 1 \in good
  <2> SUFFICES ASSUME NEW S \in SUBSET ops, IsFiniteSet(S), Cardinality(S) = k + 1
               PROVE  \E f : Sorts(S, k + 1, f)
    OBVIOUS
  <2>1. S # {}
    BY FS_EmptySet
  <2>2. \A op \in S : op.id[2] \in Nat
    BY DEF FugueInsertOp, OpID
  <2>3. PICK first \in S : \A op \in S : first.id[2] <= op.id[2]
    <3> DEFINE numbers == {op.id[2] : op \in S}
    <3>1. numbers \in SUBSET Nat /\ numbers # {}
      BY <2>1, <2>2
    <3> HIDE DEF numbers
    <3>2. PICK n \in numbers : \A m \in numbers : n <= m
      BY <3>1, LeastNatural
    <3> QED
      BY <3>2 DEF numbers
  <2> DEFINE rest == S \ {first}
  <2>4. IsFiniteSet(rest) /\ Cardinality(rest) = k
    <3>1. IsFiniteSet(rest) /\ Cardinality(rest) = Cardinality(S) - 1
      BY FS_RemoveElement
    <3> HIDE DEF rest, Sorts, good
    <3> QED
      BY <3>1
  <2>5. PICK g : Sorts(rest, k, g)
    BY <1>3, <2>4
  <2> DEFINE f == [i \in 1 .. k + 1 |-> IF i = 1 THEN first ELSE g[i - 1]]
  <2>6. \A i \in 1 .. k + 1 : i # 1 => i - 1 \in 1 .. k
    OBVIOUS
  <2>7. /\ f[1] = first
        /\ \A i \in 1 .. k + 1 : i # 1 => f[i] = g[i - 1] /\ f[i] \in rest
    BY <2>5, <2>6
  <2>8. f \in [1 .. k + 1 -> S]
    BY <2>5, <2>6
  <2> HIDE DEF f
  <2>9. \A i, j \in 1 .. k + 1 : i # j => f[i] # f[j]
    BY <2>5, <2>6, <2>7
  <2>10. ASSUME NEW i \in 1 .. k + 1, NEW j \in 1 .. k + 1, i < j
         PROVE  f[i].id[2] <= f[j].id[2]
    <3>1. j # 1
      BY <2>10
    <3>2. CASE i = 1
      BY <2>3, <2>7, <3>1, <3>2
    <3>3. CASE i # 1
      <4>1. i - 1 \in 1 .. k /\ j - 1 \in 1 .. k /\ i - 1 < j - 1
        BY <2>6, <2>10, <3>1, <3>3
      <4>2. g[i - 1].id[2] <= g[j - 1].id[2]
        BY <2>5, <4>1
      <4> QED
        BY <2>7, <3>1, <3>3, <4>2
    <3> QED
      BY <3>2, <3>3
  <2> QED
    BY <2>8, <2>9, <2>10
<1> HIDE DEF good
<1>4. Nat \subseteq good
  BY <1>2, <1>3, EveryNatural
<1>5. Cardinality(ops) \in Nat
  BY FS_CardinalityType
<1>6. PICK f : Sorts(ops, Cardinality(ops), f)
  BY <1>4, <1>5 DEF good
<1>7. Len(f) = Cardinality(ops)
  BY <1>5, <1>6
<1>8. f \in SortedByCounter(ops)
  BY <1>1, <1>6, <1>7 DEF SortedByCounter, Seqs!SetToSeqs
<1> QED
  BY <1>8

(* A node that the receiver lacks hangs from one that it has, or has a     *)
(* counter above that of the node it hangs from.                           *)
InOrder(t, u) ==
  \A n \in Nodes(u) \ Nodes(t) : u[n].parent \in DOMAIN t \/ u[n].parent[2] < n[2]

(* A Merge of such a tree is complete: it brings every node and every      *)
(* tombstone of the other tree, in whatever order equal counters come out. *)
THEOREM MergeBringsAll ==
  ASSUME NEW t, WholeTree(t), NEW u, WholeTree(u), Agree(t, u), InOrder(t, u),
         NEW v \in Merged(t, u)
  PROVE  /\ Nodes(v) = Nodes(t) \union Nodes(u)
         /\ Tombstones(v) = Tombstones(t) \union Tombstones(u)
<1> DEFINE ops == Inserts(u)
<1>1. PICK seq \in SortedByCounter(ops) : v = deleteAll(insertAll(t, seq), Tombstones(u))
  BY DEF Merged
<1>2. IsFiniteSet(ops) /\ SoundTree(t) /\ ops \in SUBSET FugueInsertOp
  BY FiniteInserts DEF WholeTree
<1>3. IsTree(t) /\ IsTree(u)
  BY DEF WholeTree, SoundTree
<1>4. ASSUME NEW c \in ops
      PROVE  \/ c.parent \in DOMAIN t
             \/ \E p \in ops : p.id = c.parent /\ p.id[2] < c.id[2]
  <2>1. PICK n \in Nodes(u) : c = insertOf(u, n)
    BY DEF Inserts
  <2>2. c.id = n /\ c.parent = u[n].parent
    BY <2>1 DEF insertOf, insertOp
  <2>3. CASE n \in Nodes(t)
    <3>1. c.parent = t[n].parent /\ t[n].parent \in DOMAIN t
      BY <1>3, <2>2, <2>3 DEF Agree, IsTree, Nodes
    <3> QED
      BY <3>1
  <2>4. CASE n \notin Nodes(t) /\ c.parent \notin DOMAIN t
    <3>1. c.parent[2] < n[2]
      BY <2>2, <2>4 DEF InOrder
    <3>2. c.parent \in Nodes(u)
      BY <1>3, <2>2, <2>4 DEF IsTree, Nodes
    <3>3. insertOf(u, c.parent) \in ops /\ insertOf(u, c.parent).id = c.parent
      BY <3>2 DEF Inserts, insertOf, insertOp
    <3> QED
      BY <2>2, <3>1, <3>3
  <2> QED
    BY <2>3, <2>4
<1>5. \A c \in ops : c.id \in Nodes(insertAll(t, seq))
  <2> HIDE DEF ops
  <2> QED
    BY <1>2, <1>4, LoopInserts
<1>6. Nodes(v) = Nodes(insertAll(t, seq))
  BY <1>1 DEF deleteAll, Nodes
<1>7. Nodes(u) \subseteq Nodes(v)
  <2> SUFFICES ASSUME NEW n \in Nodes(u) PROVE n \in Nodes(v)
    OBVIOUS
  <2>1. insertOf(u, n) \in ops /\ insertOf(u, n).id = n
    BY DEF Inserts, insertOf, insertOp
  <2> QED
    BY <1>5, <1>6, <2>1
<1>8. Nodes(v) = Nodes(t) \union Nodes(u)
  BY <1>7, MergeFacts
<1>9. Tombstones(u) \subseteq Nodes(v)
  BY <1>7 DEF Tombstones
<1> QED
  BY <1>8, <1>9, MergeFacts

LEMMA AgreeBothWays ==
  ASSUME NEW t, NEW u, Agree(t, u)
  PROVE  Agree(u, t)
BY DEF Agree

(* What a merged tree holds it has from one of the two.                    *)
LEMMA MergedAgrees ==
  ASSUME NEW t, WholeTree(t), NEW u, WholeTree(u), Agree(t, u), NEW v \in Merged(t, u),
         NEW w, Agree(t, w), Agree(u, w)
  PROVE  Agree(v, w)
<1>1. Kept(t, v) /\ Agree(u, v) /\ Nodes(v) \subseteq Nodes(t) \union Nodes(u)
  BY MergeFacts
<1> SUFFICES ASSUME NEW n \in Nodes(v) \intersect Nodes(w)
             PROVE  /\ v[n].value = w[n].value
                    /\ v[n].parent = w[n].parent
                    /\ v[n].side = w[n].side
  BY DEF Agree
<1>2. CASE n \in Nodes(t)
  BY <1>1, <1>2 DEF Agree, Kept, Nodes
<1>3. CASE n \in Nodes(u)
  BY <1>1, <1>3 DEF Agree
<1> QED
  BY <1>1, <1>2, <1>3

(* t.Merge(u) and u.Merge(t) come to one tree if each finds the other's    *)
(* news in order: the first law of doc.go, under the condition it needs.   *)
THEOREM MergesInOrderCommute ==
  ASSUME NEW t, WholeTree(t), NEW u, WholeTree(u), Agree(t, u), InOrder(t, u), InOrder(u, t),
         NEW v \in Merged(t, u), NEW w \in Merged(u, t)
  PROVE  v = w
<1>1. Agree(u, t)
  BY AgreeBothWays
<1>2. SoundTree(v) /\ SoundTree(w)
  BY <1>1, MergeFacts DEF WholeTree
<1>3. SameContent(v, w)
  <2>1. /\ Nodes(v) = Nodes(t) \union Nodes(u)
        /\ Tombstones(v) = Tombstones(t) \union Tombstones(u)
    BY MergeBringsAll
  <2>2. /\ Nodes(w) = Nodes(u) \union Nodes(t)
        /\ Tombstones(w) = Tombstones(u) \union Tombstones(t)
    BY <1>1, MergeBringsAll
  <2> QED
    BY <2>1, <2>2 DEF SameContent
<1>4. Agree(t, w) /\ Agree(u, w)
  <2>1. Agree(t, w) /\ Kept(u, w)
    BY <1>1, MergeFacts
  <2> QED
    BY <2>1 DEF Agree, Kept, Nodes
<1>5. Agree(v, w)
  BY <1>4, MergedAgrees
<1> QED
  BY <1>2, <1>3, <1>5, SameContentSameTree

(* A tree that is merged with an equal one stays as it is: the third law   *)
(* of doc.go, without any condition.                                       *)
THEOREM MergeWithEqualIsNothing ==
  ASSUME NEW t, WholeTree(t), NEW v \in Merged(t, t)
  PROVE  v = t
<1>1. Agree(t, t)
  BY DEF Agree
<1>2. /\ SoundTree(v) /\ SoundTree(t) /\ Agree(t, v) /\ Nodes(v) = Nodes(t)
      /\ Tombstones(v) = Tombstones(t) \union (Tombstones(t) \intersect Nodes(v))
  BY <1>1, MergeFacts DEF WholeTree
<1>3. SameContent(t, v)
  BY <1>2 DEF SameContent
<1> QED
  BY <1>2, <1>3, SameContentSameTree

(* Every node has a counter above that of the node it hangs from, as in a  *)
(* document with one author.                                               *)
CountersGrow(t) ==
  \A n \in Nodes(t) : t[n].parent \in Nodes(t) => t[n].parent[2] < n[2]

LEMMA GrowingIsInOrder ==
  ASSUME NEW t, WholeTree(t), NEW u, WholeTree(u), CountersGrow(u)
  PROVE  InOrder(t, u)
<1>1. rootSentinelID \in DOMAIN t /\ \A n \in Nodes(u) : u[n].parent \in DOMAIN u
  BY DEF WholeTree, SoundTree, IsTree, Nodes
<1> QED
  BY <1>1 DEF InOrder, CountersGrow, Nodes

LEMMA MergedGrows ==
  ASSUME NEW t, WholeTree(t), NEW u, WholeTree(u), Agree(t, u), NEW v \in Merged(t, u),
         CountersGrow(t), CountersGrow(u)
  PROVE  CountersGrow(v)
<1>1. Kept(t, v) /\ Agree(u, v) /\ Nodes(v) \subseteq Nodes(t) \union Nodes(u)
  BY MergeFacts
<1> SUFFICES ASSUME NEW n \in Nodes(v), v[n].parent \in Nodes(v)
             PROVE  v[n].parent[2] < n[2]
  BY DEF CountersGrow
<1>2. IsTree(t) /\ IsTree(u)
  BY DEF WholeTree, SoundTree
<1>3. CASE n \in Nodes(t)
  <2>1. v[n].parent = t[n].parent /\ t[n].parent \in DOMAIN t
    BY <1>1, <1>2, <1>3 DEF Kept, IsTree, Nodes
  <2> QED
    BY <1>3, <2>1 DEF CountersGrow, Nodes
<1>4. CASE n \in Nodes(u)
  <2>1. v[n].parent = u[n].parent /\ u[n].parent \in DOMAIN u
    BY <1>1, <1>2, <1>4 DEF Agree, IsTree, Nodes
  <2> QED
    BY <1>4, <2>1 DEF CountersGrow, Nodes
<1> QED
  BY <1>1, <1>3, <1>4

(* Trees may be merged in any groups, if counters grow in each: the second *)
(* law of doc.go, under the condition it needs.                            *)
THEOREM MergesOfGrowingTreesAssociate ==
  ASSUME NEW t, WholeTree(t), CountersGrow(t),
         NEW u, WholeTree(u), CountersGrow(u),
         NEW w, WholeTree(w), CountersGrow(w),
         Agree(t, u), Agree(u, w), Agree(t, w),
         NEW tu \in Merged(t, u), NEW first \in Merged(tu, w),
         NEW uw \in Merged(u, w), NEW second \in Merged(t, uw)
  PROVE  first = second
<1>1. WholeTree(tu) /\ WholeTree(uw) /\ CountersGrow(uw)
  BY MergeFacts, MergedGrows
<1>2. Agree(tu, w) /\ Agree(t, uw)
  <2>1. Agree(u, t) /\ Agree(w, t)
    BY AgreeBothWays
  <2>2. Agree(tu, w)
    BY MergedAgrees
  <2>3. Agree(uw, t)
    BY <2>1, MergedAgrees
  <2> QED
    BY <2>2, <2>3, AgreeBothWays
<1>3. InOrder(t, u) /\ InOrder(tu, w) /\ InOrder(u, w) /\ InOrder(t, uw)
  BY <1>1, GrowingIsInOrder
<1>4. /\ Nodes(tu) = Nodes(t) \union Nodes(u)
      /\ Tombstones(tu) = Tombstones(t) \union Tombstones(u)
      /\ Nodes(uw) = Nodes(u) \union Nodes(w)
      /\ Tombstones(uw) = Tombstones(u) \union Tombstones(w)
  BY <1>3, MergeBringsAll
<1>5. /\ Nodes(first) = Nodes(tu) \union Nodes(w)
      /\ Tombstones(first) = Tombstones(tu) \union Tombstones(w)
      /\ Nodes(second) = Nodes(t) \union Nodes(uw)
      /\ Tombstones(second) = Tombstones(t) \union Tombstones(uw)
  BY <1>1, <1>2, <1>3, MergeBringsAll
<1>6. SameContent(first, second)
  BY <1>4, <1>5 DEF SameContent
<1>7. SoundTree(first) /\ SoundTree(second)
  BY <1>1, <1>2, MergeFacts DEF WholeTree
<1>8. Agree(t, second) /\ Agree(uw, second)
  <2>1. Kept(t, second) /\ Agree(uw, second)
    BY <1>1, <1>2, MergeFacts
  <2> QED
    BY <2>1 DEF Kept, Agree, Nodes
<1>9. Agree(u, second) /\ Agree(w, second)
  <2>1. Kept(u, uw) /\ Agree(w, uw)
    BY MergeFacts
  <2>2. Nodes(u) \subseteq Nodes(uw) /\ Nodes(w) \subseteq Nodes(uw)
    BY <1>4
  <2>3. Agree(u, uw)
    BY <2>1 DEF Kept, Agree, Nodes
  <2> QED
    BY <1>8, <2>1, <2>2, <2>3 DEF Agree
<1>10. Agree(tu, second)
  BY <1>8, <1>9, MergedAgrees
<1>11. Agree(first, second)
  BY <1>1, <1>2, <1>9, <1>10, MergedAgrees
<1> QED
  BY <1>6, <1>7, <1>11, SameContentSameTree

(* Without the condition the laws are false.  A node whose counter is      *)
(* below that of a parent which the receiver lacks is sorted before it,    *)
(* and lost in every outcome of t.Merge(u), while u.Merge(t) keeps it.     *)
THEOREM InvertedNodesAreLost ==
  ASSUME NEW t, WholeTree(t), NEW u, WholeTree(u), Agree(t, u),
         NEW n \in Nodes(u) \ Nodes(t),
         u[n].parent \notin DOMAIN t, u[n].parent[2] > n[2],
         NEW v \in Merged(t, u), NEW w \in Merged(u, t)
  PROVE  n \notin Nodes(v) /\ n \in Nodes(w) /\ v # w
<1> DEFINE ops == Inserts(u)
           p == u[n].parent
<1>1. PICK seq \in SortedByCounter(ops) : v = deleteAll(insertAll(t, seq), Tombstones(u))
  BY DEF Merged
<1>2. IsFiniteSet(ops) /\ ops \in SUBSET FugueInsertOp
  BY FiniteInserts DEF WholeTree
<1>3. rootSentinelID \in DOMAIN t /\ p \in DOMAIN u /\ n \in OpID
  BY DEF WholeTree, SoundTree, IsTree, Nodes
<1>4. p \in Nodes(u) /\ p \in OpID
  <2>1. p \in Nodes(u)
    BY <1>3 DEF Nodes
  <2> QED
    BY <2>1 DEF WholeTree, SoundTree, IsTree
<1>5. \A m \in Nodes(u) : /\ insertOf(u, m) \in ops
                          /\ insertOf(u, m).id = m /\ insertOf(u, m).parent = u[m].parent
  BY DEF Inserts, insertOf, insertOp
<1>6. \A op \in ops : op.id \in Nodes(u) /\ op = insertOf(u, op.id)
  BY DEF Inserts, insertOf, insertOp
<1>7. n \notin DOMAIN t
  BY DEF Nodes
<1> DEFINE k == Len(seq)
<1>8. seq \in Seq(ops) /\ k \in Nat
  BY <1>2, SortedIsSequence
<1>9. /\ \A op \in ops : \E i \in 1 .. k : seq[i] = op
      /\ \A i, j \in 1 .. k : i < j => seq[i].id[2] <= seq[j].id[2]
      /\ \A i, j \in 1 .. k : i # j => seq[i] # seq[j]
  BY <1>2, SortedIsEnumeration
<1>10. PICK i \in 1 .. k : seq[i] = insertOf(u, n)
  BY <1>5, <1>9
<1>11. PICK j \in 1 .. k : seq[j] = insertOf(u, p)
  BY <1>4, <1>5, <1>9
<1>12. i < j
  <2>1. seq[i].id = n /\ seq[j].id = p
    BY <1>4, <1>5, <1>10, <1>11
  <2>2. n[2] \in Nat /\ p[2] \in Nat
    BY <1>3, <1>4 DEF OpID
  <2>3. ~(j < i) /\ i # j
    BY <1>9, <2>1, <2>2
  <2> QED
    BY <2>3
<1>13. PICK g : /\ g[0] = t /\ g[k] = insertAll(t, seq)
                /\ \A m \in Nat : m + 1 <= k => g[m + 1] = applyInsert(g[m], seq[m + 1])
  BY <1>8, LoopTrees
<1>14. \A x, op : /\ DOMAIN applyInsert(x, op) \subseteq DOMAIN x \union {op.id}
                  /\ op.parent \notin DOMAIN x => applyInsert(x, op) = x
  BY DEF applyInsert
<1>15. ASSUME NEW m \in 1 .. k
       PROVE  /\ seq[m].id = n => m = i /\ seq[m].parent = p
              /\ seq[m].id = p => m = j
  <2>1. seq[m] \in ops
    BY <1>8
  <2> QED
    BY <1>5, <1>6, <1>9, <1>10, <1>11, <2>1
<1> HIDE DEF ops, p
<1> DEFINE good == {m \in Nat : m <= k => /\ n \notin DOMAIN g[m]
                                          /\ m < j => p \notin DOMAIN g[m]}
<1>16. 0 \in good
  BY <1>7, <1>13 DEF p
<1>17. ASSUME NEW m \in Nat, m \in good PROVE m + 1 \in good
  <2> SUFFICES ASSUME m + 1 <= k
               PROVE  n \notin DOMAIN g[m + 1] /\ (m + 1 < j => p \notin DOMAIN g[m + 1])
    OBVIOUS
  <2>1. n \notin DOMAIN g[m] /\ (m < j => p \notin DOMAIN g[m]) /\ m + 1 \in 1 .. k
    BY <1>8, <1>17
  <2>2. g[m + 1] = applyInsert(g[m], seq[m + 1])
    BY <1>13
  <2>3. CASE seq[m + 1].id = n
    <3>1. m + 1 = i /\ seq[m + 1].parent = p
      BY <1>15, <2>1, <2>3
    <3>2. p \notin DOMAIN g[m]
      BY <1>12, <2>1, <3>1
    <3>3. g[m + 1] = g[m]
      BY <1>14, <2>2, <3>1, <3>2
    <3> QED
      BY <2>1, <3>2, <3>3
  <2>4. CASE seq[m + 1].id # n
    <3>1. DOMAIN g[m + 1] \subseteq DOMAIN g[m] \union {seq[m + 1].id}
      BY <1>14, <2>2
    <3>2. m + 1 < j => seq[m + 1].id # p /\ m < j
      BY <1>15, <2>1
    <3> QED
      BY <2>1, <2>4, <3>1, <3>2
  <2> QED
    BY <2>3, <2>4
<1> HIDE DEF good
<1>18. Nat \subseteq good
  BY <1>16, <1>17, EveryNatural
<1>19. n \notin DOMAIN insertAll(t, seq)
  BY <1>8, <1>13, <1>18 DEF good
<1>20. n \notin Nodes(v)
  BY <1>1, <1>19 DEF deleteAll, Nodes
<1>21. n \in Nodes(w)
  BY AgreeBothWays, MergeFacts
<1> QED
  BY <1>20, <1>21

(* A node counts on from the node it hangs from, if both have one author.  *)
OwnNodesGrow(t) ==
  \A n \in Nodes(t) : t[n].parent[1] = n[1] => t[n].parent[2] < n[2]

(* The inductive invariant: so does every insert that is known.            *)
OwnInsertsGrow ==
  \A op \in KnownInserts : op.parent[1] = op.id[1] => op.parent[2] < op.id[2]

LEMMA InitOwnGrow == Init => OwnInsertsGrow
<1> SUFFICES ASSUME Init PROVE OwnInsertsGrow
  OBVIOUS
<1>1. \A r \in Replica : Nodes(tree[r]) = {}
  BY NewTreeSound DEF Init
<1>2. \A r \in Replica : \A o \in Replica \ {r} : copied[r][o].inserts = {}
  BY DEF Init, idle
<1>3. KnownInserts = {}
  BY <1>1, <1>2 DEF KnownInserts, CopiedBy, Inserts
<1> QED
  BY <1>3 DEF OwnInsertsGrow

(* What a step may add to the inserts that are known: a new one, which has *)
(* a counter above those of all nodes its author has made.                 *)
LEMMA EditGrowsOn ==
  ASSUME MergeIInv, OwnInsertsGrow, NEW r \in Replica, Edit(r)
  PROVE  OwnInsertsGrow'
<1>1. SoundTree(tree[r]) /\ counter[r] \in Nat /\ DOMAIN tree = Replica /\ IsFiniteSet(Nodes(tree[r]))
  BY DEF MergeIInv, MergeTypeOK
<1>2. nextID(r) \in OpID
  BY <1>1, ReplicaAssumption DEF nextID, OpID
<1>3. ASSUME NEW op, Issue(r, op)
      PROVE  /\ copied' = copied /\ tree'[r] = ApplyOperation(tree[r], op)
             /\ \A q \in Replica \ {r} : tree'[q] = tree[q]
  BY <1>1, <1>3 DEF Issue
<1>4. ASSUME NEW pos, NEW char \in Char, InsertAt(r, pos, char) PROVE OwnInsertsGrow'
  <2>1. PICK left \in DOMAIN tree[r], right \in DOMAIN tree[r] \union {nil} :
          Issue(r, insertOp(nextID(r), char, selectParent(tree[r], left, right)))
    BY <1>4 DEF InsertAt
  <2> DEFINE place == selectParent(tree[r], left, right)
             op == insertOp(nextID(r), char, place)
  <2>2. place.side \in Side /\ place.parent \in DOMAIN tree[r]
    BY <2>1 DEF selectParent, Side
  <2>3. op \in FugueInsertOp
    BY <1>1, <1>2, <2>2 DEF insertOp, FugueInsertOp, SoundTree, IsTree, Nodes
  <2>4. op.id = nextID(r) /\ op.parent \in DOMAIN tree[r] /\ op.type = "insert"
    BY <2>2 DEF insertOp
  <2>5. Issue(r, op)
    BY <2>1
  <2> HIDE DEF place, op
  <2>6. GrownBy(tree[r], {op}, tree'[r])
    BY <1>1, <1>3, <2>3, <2>4, <2>5, InsertGrows DEF ApplyOperation
  <2>7. KnownInserts' \subseteq KnownInserts \union {op}
    BY <1>3, <2>5, <2>6 DEF KnownInserts, CopiedBy, GrownBy
  <2>8. op.parent[1] = op.id[1] => op.parent[2] < op.id[2]
    <3> SUFFICES ASSUME op.parent[1] = r PROVE op.parent[2] < counter[r] + 1
      BY <2>4 DEF nextID
    <3>1. op.parent # rootSentinelID
      BY ReplicaAssumption DEF rootSentinelID
    <3>2. op.parent \in Nodes(tree[r]) /\ op.parent \in OpID
      BY <1>1, <2>4, <3>1 DEF Nodes, SoundTree, IsTree
    <3>3. insertOf(tree[r], op.parent) \in KnownInserts
      BY <3>2, Knows DEF Inserts
    <3>4. op.parent[2] <= counter[r]
      BY <3>3 DEF insertOf, insertOp, MergeIInv, KnownOnce
    <3> QED
      BY <1>1, <3>2, <3>4 DEF OpID
  <2> QED
    BY <2>7, <2>8 DEF OwnInsertsGrow
<1>5. ASSUME NEW pos, DeleteAt(r, pos) PROVE OwnInsertsGrow'
  <2>1. PICK target \in Nodes(tree[r]) : Issue(r, deleteOp(nextID(r), target))
    BY <1>5 DEF DeleteAt
  <2> DEFINE op == deleteOp(nextID(r), target)
  <2>2. op \in Operation /\ op.type = "delete"
    BY <1>1, <1>2 DEF deleteOp, FugueDeleteOp, Operation, SoundTree, IsTree
  <2>3. Issue(r, op)
    BY <2>1
  <2> HIDE DEF op
  <2>4. Effect(tree[r], op, tree'[r])
    BY <1>1, <1>3, <2>2, <2>3, ApplyOperationEffect
  <2>5. Inserts(tree'[r]) = Inserts(tree[r])
    BY <2>2, <2>4, SameInserts DEF Effect
  <2>6. KnownInserts' = KnownInserts
    BY <1>3, <2>3, <2>5 DEF KnownInserts, CopiedBy
  <2> QED
    BY <2>6 DEF OwnInsertsGrow
<1> QED
  BY <1>4, <1>5 DEF Edit

(* A Merge passes on inserts that are known.                               *)
LEMMA MergeKnowsNothingNew ==
  ASSUME MergeIInv, NEW r \in Replica, NEW o \in Replica \ {r}, Merge(r, o)
  PROVE  KnownInserts' \subseteq KnownInserts
<1>1. /\ DOMAIN tree = Replica /\ SoundTree(tree[r]) /\ IsFiniteSet(Nodes(tree[r]))
      /\ IsFiniteSet(copied[r][o].inserts) /\ copied[r][o].deletes \subseteq OpID
      /\ DOMAIN copied = Replica /\ \A q \in Replica : DOMAIN copied[q] = Replica \ {q}
      /\ copied[r][o].inserts \subseteq FugueInsertOp
  BY Knows DEF MergeIInv, MergeTypeOK, KnownOnce
<1>2. ASSUME \A q \in Replica : Inserts(tree'[q]) \subseteq KnownInserts,
             \A q \in Replica : \A p \in Replica \ {q} : copied'[q][p].inserts \subseteq KnownInserts
      PROVE  KnownInserts' \subseteq KnownInserts
  BY <1>2 DEF KnownInserts, CopiedBy
<1>3. CASE CopyOther(r, o)
  <2> DEFINE copy == [inserts |-> Inserts(tree[o]), deletes |-> Tombstones(tree[o]), running |-> TRUE]
  <2>1. tree' = tree /\ copied' = [copied EXCEPT ![r][o] = copy] /\ copy.inserts = Inserts(tree[o])
    BY <1>3 DEF CopyOther, Inserts
  <2> HIDE DEF copy
  <2>2. \A q \in Replica : \A p \in Replica \ {q} :
          copied'[q][p] = IF q = r /\ p = o THEN copy ELSE copied[q][p]
    BY <1>1, <2>1
  <2> QED
    BY <1>2, <2>1, <2>2, Knows
<1>4. CASE ApplyCopied(r, o)
  <2>1. PICK seq \in SortedByCounter(copied[r][o].inserts) :
          tree' = [tree EXCEPT ![r] = deleteAll(insertAll(@, seq), copied[r][o].deletes)]
    BY <1>4 DEF ApplyCopied
  <2>2. /\ tree'[r] = deleteAll(insertAll(tree[r], seq), copied[r][o].deletes)
        /\ \A q \in Replica \ {r} : tree'[q] = tree[q]
    BY <1>1, <2>1
  <2>3. Inserts(tree'[r]) \subseteq Inserts(tree[r]) \union copied[r][o].inserts
    BY <1>1, <2>2, MergeGrows DEF GrownBy
  <2>4. copied' = [copied EXCEPT ![r][o] = idle] /\ idle.inserts = {}
    BY <1>4 DEF ApplyCopied, idle
  <2>5. \A q \in Replica : \A p \in Replica \ {q} :
          copied'[q][p] = IF q = r /\ p = o THEN idle ELSE copied[q][p]
    BY <1>1, <2>4
  <2> QED
    BY <1>2, <2>2, <2>3, <2>4, <2>5, Knows
<1> QED
  BY <1>3, <1>4 DEF Merge

LEMMA NextOwnGrow == MergeIInv /\ OwnInsertsGrow /\ [Next]_vars => OwnInsertsGrow'
<1> SUFFICES ASSUME MergeIInv, OwnInsertsGrow, [Next]_vars PROVE OwnInsertsGrow'
  OBVIOUS
<1>1. ASSUME NEW r \in Replica, NEW o \in Replica \ {r}, Merge(r, o) PROVE OwnInsertsGrow'
  BY <1>1, MergeKnowsNothingNew DEF OwnInsertsGrow
<1>2. CASE UNCHANGED vars
  BY <1>2 DEF vars, OwnInsertsGrow, KnownInserts, CopiedBy
<1> QED
  BY <1>1, <1>2, EditGrowsOn DEF Next

(* The laws above are about the trees of replicas: each is whole, any two  *)
(* agree, and counters grow in a document with one author, so that only    *)
(* nodes of two authors can be inverted (nextID, InsertAt, Merge).         *)
THEOREM OneAuthorIsInOrder ==
  Spec => [](\A r, q \in Replica :
               /\ WholeTree(tree[r]) /\ Agree(tree[r], tree[q])
               /\ OwnNodesGrow(tree[r])
               /\ (\E a \in Replica : \A n \in Nodes(tree[r]) : n[1] = a) => CountersGrow(tree[r]))
<1> DEFINE LawsApply == \A r, q \in Replica :
               /\ WholeTree(tree[r]) /\ Agree(tree[r], tree[q])
               /\ OwnNodesGrow(tree[r])
               /\ (\E a \in Replica : \A n \in Nodes(tree[r]) : n[1] = a) => CountersGrow(tree[r])
<1>1. MergeIInv /\ OwnInsertsGrow /\ MergedTreesAgree => LawsApply
  <2> SUFFICES ASSUME MergeIInv, OwnInsertsGrow, MergedTreesAgree,
                      NEW r \in Replica, NEW q \in Replica
               PROVE  /\ WholeTree(tree[r]) /\ Agree(tree[r], tree[q])
                      /\ OwnNodesGrow(tree[r])
                      /\ (\E a \in Replica : \A n \in Nodes(tree[r]) : n[1] = a)
                           => CountersGrow(tree[r])
    OBVIOUS
  <2>1. WholeTree(tree[r])
    BY Knows DEF MergeIInv, MergeTypeOK, KnownOnce, WholeTree
  <2>2. Agree(tree[r], tree[q])
    BY DEF MergedTreesAgree
  <2>3. OwnNodesGrow(tree[r])
    <3> SUFFICES ASSUME NEW n \in Nodes(tree[r]), tree[r][n].parent[1] = n[1]
                 PROVE  tree[r][n].parent[2] < n[2]
      BY DEF OwnNodesGrow
    <3> DEFINE op == insertOf(tree[r], n)
    <3>1. op \in KnownInserts
      BY Knows DEF Inserts
    <3>2. op.id = n /\ op.parent = tree[r][n].parent
      BY DEF insertOf, insertOp
    <3> QED
      BY <3>1, <3>2 DEF OwnInsertsGrow
  <2>4. ASSUME NEW a \in Replica, \A n \in Nodes(tree[r]) : n[1] = a PROVE CountersGrow(tree[r])
    BY <2>3, <2>4 DEF CountersGrow, OwnNodesGrow
  <2> QED
    BY <2>1, <2>2, <2>3, <2>4
<1>2. Spec => []MergedTreesAgree
  BY MergesKeepTreesAgreeing
<1> QED
  BY <1>1, <1>2, MergeInit, MergeNext, InitOwnGrow, NextOwnGrow, PTL DEF Spec

-----------------------------------------------------------------------------
(* Merging replicas implement ReplicatedNodeSet.                           *)

ownNodes == [r \in Replica |-> Nodes(tree[r])]
ownDead == [r \in Replica |-> Tombstones(tree[r])]

(* The inductive invariant: what a running Merge has copied is still there.*)
CopiesStayTrue ==
  \A r \in Replica : \A o \in Replica \ {r} :
    /\ \A op \in copied[r][o].inserts : op.id \in Nodes(tree[o])
    /\ copied[r][o].deletes \subseteq Tombstones(tree[o])

(* One tree gains nodes and marks; the others stay as they are.            *)
TreeGains(r, new, gone) ==
  /\ Nodes(tree'[r]) = Nodes(tree[r]) \union new
  /\ Tombstones(tree'[r]) = Tombstones(tree[r]) \union gone
  /\ \A q \in Replica \ {r} : tree'[q] = tree[q]

LEMMA GainsMap ==
  ASSUME NEW r \in Replica, NEW new, NEW gone, TreeGains(r, new, gone)
  PROVE  /\ ownNodes' = [ownNodes EXCEPT ![r] = @ \union new]
         /\ ownDead' = [ownDead EXCEPT ![r] = @ \union gone]
<1>1. ownNodes' = [q \in Replica |-> Nodes(tree'[q])]
      /\ ownDead' = [q \in Replica |-> Tombstones(tree'[q])]
  BY DEF ownNodes, ownDead
<1> QED
  BY <1>1 DEF TreeGains, ownNodes, ownDead

(* Copies that are kept stay true while a tree gains.                      *)
LEMMA GainsKeepCopies ==
  ASSUME CopiesStayTrue, NEW r \in Replica, NEW new, NEW gone, TreeGains(r, new, gone),
         NEW q \in Replica, NEW o \in Replica \ {q}, copied'[q][o] = copied[q][o]
  PROVE  /\ \A op \in copied'[q][o].inserts : op.id \in Nodes(tree'[o])
         /\ copied'[q][o].deletes \subseteq Tombstones(tree'[o])
<1>1. Nodes(tree[o]) \subseteq Nodes(tree'[o]) /\ Tombstones(tree[o]) \subseteq Tombstones(tree'[o])
  BY DEF TreeGains
<1> QED
  BY <1>1 DEF CopiesStayTrue

(* An edit creates a node nobody has, or removes one.                      *)
LEMMA MergeEditMaps ==
  ASSUME MergeIInv, CopiesStayTrue, NEW r \in Replica, Edit(r)
  PROVE  CopiesStayTrue' /\ NodeSet!MergingNext
<1>1. SoundTree(tree[r]) /\ counter[r] \in Nat /\ DOMAIN tree = Replica
  BY DEF MergeIInv, MergeTypeOK
<1>2. nextID(r) \in OpID
  BY <1>1, ReplicaAssumption DEF nextID, OpID
<1>3. ASSUME NEW op \in Operation, Issue(r, op)
      PROVE  /\ Effect(tree[r], op, tree'[r])
             /\ \A q \in Replica \ {r} : tree'[q] = tree[q]
             /\ copied' = copied
  <2>1. tree'[r] = ApplyOperation(tree[r], op)
    BY <1>1, <1>3 DEF Issue
  <2> QED
    BY <1>1, <1>3, <2>1, ApplyOperationEffect DEF Issue
<1>4. ASSUME NEW new, NEW gone, TreeGains(r, new, gone), copied' = copied PROVE CopiesStayTrue'
  BY <1>4, GainsKeepCopies DEF CopiesStayTrue
<1>5. ASSUME NEW pos, NEW char \in Char, InsertAt(r, pos, char)
      PROVE  CopiesStayTrue' /\ NodeSet!MergingNext
  <2>1. PICK left \in DOMAIN tree[r], right \in DOMAIN tree[r] \union {nil} :
          Issue(r, insertOp(nextID(r), char, selectParent(tree[r], left, right)))
    BY <1>5 DEF InsertAt
  <2> DEFINE place == selectParent(tree[r], left, right)
             op == insertOp(nextID(r), char, place)
  <2>2. place.side \in Side /\ place.parent \in DOMAIN tree[r]
    BY <2>1 DEF selectParent, Side
  <2>3. op \in FugueInsertOp
    BY <1>1, <1>2, <2>2 DEF insertOp, FugueInsertOp, SoundTree, IsTree, Nodes
  <2>4. /\ op \in Operation /\ op.type = "insert" /\ op.id = nextID(r)
        /\ op.parent \in DOMAIN tree[r]
    BY <2>2, <2>3 DEF insertOp, Operation
  <2>5. Issue(r, op)
    BY <2>1
  <2> HIDE DEF place, op
  <2>6. /\ Effect(tree[r], op, tree'[r]) /\ copied' = copied
        /\ \A q \in Replica \ {r} : tree'[q] = tree[q]
    BY <1>3, <2>4, <2>5
  <2>7. TreeGains(r, {op.id}, {})
    BY <2>4, <2>6 DEF Effect, TreeGains
  <2>8. ASSUME NEW q \in Replica PROVE op.id \notin Nodes(tree[q])
    <3> SUFFICES ASSUME op.id \in Nodes(tree[q]) PROVE FALSE
      OBVIOUS
    <3>1. insertOf(tree[q], op.id) \in KnownInserts
      BY Knows DEF Inserts
    <3>2. op.id[2] <= counter[op.id[1]]
      BY <3>1 DEF insertOf, insertOp, MergeIInv, KnownOnce
    <3>3. op.id[1] = r /\ op.id[2] = counter[r] + 1
      BY <2>4 DEF nextID
    <3> QED
      BY <1>1, <3>2, <3>3
  <2>9. ownNodes' = [ownNodes EXCEPT ![r] = @ \union {op.id}] /\ op.id \in ownNodes'[r]
    BY <2>7, GainsMap DEF TreeGains, ownNodes
  <2>10. ownDead' = ownDead
    BY <2>7, GainsMap DEF TreeGains, ownDead
  <2>11. NodeSet!Create(r)
    BY <2>8, <2>9, <2>10 DEF NodeSet!Create, ownNodes, ownDead
  <2> QED
    BY <1>4, <2>6, <2>7, <2>11 DEF NodeSet!MergingNext
<1>6. ASSUME NEW pos, DeleteAt(r, pos) PROVE CopiesStayTrue' /\ NodeSet!MergingNext
  <2>1. PICK target \in Nodes(tree[r]) : Issue(r, deleteOp(nextID(r), target))
    BY <1>6 DEF DeleteAt
  <2> DEFINE op == deleteOp(nextID(r), target)
  <2>2. op \in Operation /\ op.type = "delete" /\ op.target = target
    BY <1>1, <1>2 DEF deleteOp, FugueDeleteOp, Operation, SoundTree, IsTree
  <2>3. Issue(r, op)
    BY <2>1
  <2> HIDE DEF op
  <2>4. /\ Effect(tree[r], op, tree'[r]) /\ copied' = copied
        /\ \A q \in Replica \ {r} : tree'[q] = tree[q]
    BY <1>3, <2>2, <2>3
  <2>5. TreeGains(r, {}, {target})
    BY <2>2, <2>4 DEF Effect, TreeGains
  <2>6. ownDead' = [ownDead EXCEPT ![r] = @ \union {target}] /\ target \in ownNodes[r]
    BY <2>5, GainsMap DEF ownNodes
  <2>7. ownNodes' = ownNodes
    BY <2>5, GainsMap DEF TreeGains, ownNodes
  <2>8. NodeSet!Remove(r)
    BY <2>6, <2>7 DEF NodeSet!Remove, ownNodes, ownDead
  <2> QED
    BY <1>4, <2>4, <2>5, <2>8 DEF NodeSet!MergingNext
<1> QED
  BY <1>5, <1>6 DEF Edit

(* A Merge teaches its replica part of what the other one has by then.     *)
LEMMA ApplyCopiedMaps ==
  ASSUME MergeIInv, CopiesStayTrue, NEW r \in Replica, NEW o \in Replica \ {r}, ApplyCopied(r, o)
  PROVE  CopiesStayTrue' /\ NodeSet!MergingNext
<1> DEFINE ops == copied[r][o].inserts
           marks == copied[r][o].deletes
<1>1. PICK seq \in SortedByCounter(ops) :
        tree' = [tree EXCEPT ![r] = deleteAll(insertAll(@, seq), marks)]
  BY DEF ApplyCopied
<1>2. /\ DOMAIN tree = Replica /\ SoundTree(tree[r]) /\ IsFiniteSet(Nodes(tree[r]))
      /\ IsFiniteSet(ops) /\ marks \subseteq OpID
      /\ DOMAIN copied = Replica /\ \A q \in Replica : DOMAIN copied[q] = Replica \ {q}
  BY DEF MergeIInv, MergeTypeOK
<1>3. ops \in SUBSET FugueInsertOp
  BY Knows DEF MergeIInv, KnownOnce
<1>4. /\ copied' = [copied EXCEPT ![r][o] = idle]
      /\ idle.inserts = {} /\ idle.deletes = {}
  BY DEF ApplyCopied, idle
<1>5. /\ copied'[r][o] = idle
      /\ \A q \in Replica : \A p \in Replica \ {q} : q # r \/ p # o => copied'[q][p] = copied[q][p]
  BY <1>2, <1>4
<1>6. /\ \A op \in ops : op.id \in Nodes(tree[o])
      /\ marks \subseteq Tombstones(tree[o])
  BY DEF CopiesStayTrue
<1> HIDE DEF ops, marks
<1> DEFINE t == tree[r]
           u == insertAll(t, seq)
           v == deleteAll(u, marks)
           new == Nodes(v) \ Nodes(t)
           gone == marks \intersect Nodes(v)
<1>7. tree'[r] = v /\ \A q \in Replica \ {r} : tree'[q] = tree[q]
  BY <1>1, <1>2
<1>8. GrownBy(t, ops, v)
  BY <1>2, <1>3, MergeGrows
<1>9. SoundTree(u) /\ Tombstones(u) = Tombstones(t)
  BY <1>2, <1>3, SortedIsSequence, InsertAllGrows, InsertAllMarksNothing DEF GrownBy
<1>10. Nodes(v) = Nodes(u) /\ Tombstones(v) = Tombstones(u) \union (marks \intersect Nodes(u))
  BY <1>9, DeleteAllMarksOnly DEF deleteAll, Nodes
<1> HIDE DEF u
<1>11. Nodes(t) \subseteq Nodes(v)
  BY <1>8 DEF GrownBy, Kept, Nodes
<1> HIDE DEF v
<1>12. new \subseteq Nodes(tree[o])
  <2> SUFFICES ASSUME NEW n \in new PROVE n \in Nodes(tree[o])
    OBVIOUS
  <2>1. insertOf(v, n) \in Inserts(t) \union ops
    BY <1>8 DEF GrownBy, Inserts
  <2>2. insertOf(v, n).id = n /\ \A m : insertOf(t, m).id = m
    BY DEF insertOf, insertOp
  <2>3. insertOf(v, n) \notin Inserts(t)
    BY <2>2 DEF Inserts
  <2> QED
    BY <1>6, <2>1, <2>2, <2>3
<1>13. TreeGains(r, new, gone)
  BY <1>7, <1>9, <1>10, <1>11 DEF TreeGains
<1>14. gone \subseteq Tombstones(tree[o]) /\ gone \subseteq Nodes(tree'[r])
  BY <1>6, <1>7
<1> HIDE DEF new, gone, t
<1>15. /\ ownNodes' = [ownNodes EXCEPT ![r] = @ \union new]
       /\ ownDead' = [ownDead EXCEPT ![r] = @ \union gone]
  BY <1>13, GainsMap
<1>16. new \in SUBSET ownNodes[o] /\ gone \in SUBSET ownDead[o] /\ gone \subseteq ownNodes'[r]
  BY <1>12, <1>14 DEF ownNodes, ownDead
<1>17. NodeSet!LearnMany(r, o)
  BY <1>15, <1>16 DEF NodeSet!LearnMany, ownNodes, ownDead
<1>18. CopiesStayTrue'
  <2> SUFFICES ASSUME NEW q \in Replica, NEW p \in Replica \ {q}
               PROVE  /\ \A op \in copied'[q][p].inserts : op.id \in Nodes(tree'[p])
                      /\ copied'[q][p].deletes \subseteq Tombstones(tree'[p])
    BY DEF CopiesStayTrue
  <2>1. CASE q = r /\ p = o
    BY <1>4, <1>5, <2>1
  <2>2. CASE q # r \/ p # o
    BY <1>5, <1>13, <2>2, GainsKeepCopies
  <2> QED
    BY <2>1, <2>2
<1> QED
  BY <1>17, <1>18 DEF NodeSet!MergingNext

(* A copy says what the other tree holds, and no set of nodes changes.     *)
LEMMA CopyOtherMaps ==
  ASSUME MergeIInv, CopiesStayTrue, NEW r \in Replica, NEW o \in Replica \ {r}, CopyOther(r, o)
  PROVE  CopiesStayTrue' /\ tree' = tree
<1> DEFINE copy == [inserts |-> Inserts(tree[o]), deletes |-> Tombstones(tree[o]), running |-> TRUE]
<1>1. tree' = tree /\ copied' = [copied EXCEPT ![r][o] = copy]
  BY DEF CopyOther, Inserts
<1>2. /\ \A op \in copy.inserts : op.id \in Nodes(tree[o])
      /\ copy.deletes \subseteq Tombstones(tree[o])
  BY DEF Inserts, insertOf, insertOp
<1> HIDE DEF copy
<1>3. \A q \in Replica : \A p \in Replica \ {q} :
        copied'[q][p] = IF q = r /\ p = o THEN copy ELSE copied[q][p]
  BY <1>1 DEF MergeIInv, MergeTypeOK
<1>4. CopiesStayTrue'
  BY <1>1, <1>2, <1>3 DEF CopiesStayTrue
<1> QED
  BY <1>1, <1>4

LEMMA MergingNextMaps ==
  MergeIInv /\ CopiesStayTrue /\ [Next]_vars =>
    CopiesStayTrue' /\ [NodeSet!MergingNext]_(NodeSet!vars)
<1> SUFFICES ASSUME MergeIInv, CopiesStayTrue, [Next]_vars
             PROVE  CopiesStayTrue' /\ [NodeSet!MergingNext]_(NodeSet!vars)
  OBVIOUS
<1>1. tree' = tree => UNCHANGED NodeSet!vars
  BY DEF NodeSet!vars
<1>2. ASSUME NEW r \in Replica, NEW o \in Replica \ {r}, Merge(r, o)
      PROVE  CopiesStayTrue' /\ [NodeSet!MergingNext]_(NodeSet!vars)
  BY <1>1, <1>2, CopyOtherMaps, ApplyCopiedMaps DEF Merge
<1>3. CASE UNCHANGED vars
  BY <1>1, <1>3 DEF vars, CopiesStayTrue
<1> QED
  BY <1>2, <1>3, MergeEditMaps DEF Next

LEMMA MergingInitMaps == Init => CopiesStayTrue /\ NodeSet!Init
<1> SUFFICES ASSUME Init PROVE CopiesStayTrue /\ NodeSet!Init
  OBVIOUS
<1>1. \A r \in Replica : Nodes(tree[r]) = {} /\ Tombstones(tree[r]) = {}
  BY NewTreeSound DEF Init
<1>2. CopiesStayTrue
  BY DEF Init, idle, CopiesStayTrue
<1> QED
  BY <1>1, <1>2 DEF NodeSet!Init

(* Whatever a Merge drops, and however old the copies are that it applies, *)
(* replicas that merge implement a replicated set of characters: an edit   *)
(* creates a character that no replica has, a Merge only teaches what the  *)
(* other replica has by then, no removal arrives before its character, and *)
(* no character and no removal is ever forgotten.                          *)
THEOREM MergingImplementsNodeSet == Spec => MergesImplementNodeSet
<1>1. Init => MergeIInv /\ CopiesStayTrue /\ NodeSet!Init
  BY MergeInit, MergingInitMaps
<1>2. MergeIInv /\ CopiesStayTrue /\ [Next]_vars =>
        MergeIInv' /\ CopiesStayTrue' /\ [NodeSet!MergingNext]_(NodeSet!vars)
  BY MergeNext, MergingNextMaps
<1> QED
  BY <1>1, <1>2, PTL DEF Spec, MergesImplementNodeSet, NodeSet!MergingSpec

-----------------------------------------------------------------------------
(* Typing sessions                                                         *)
(* ---------------                                                         *)

(* MCDataTypes takes FugueRuns as an instance, so that its trees are not   *)
(* those of FugueMerge.  The theorems about it come the same way.  What    *)
(* the two instances define is one thing, definition by definition.        *)
Sessions == INSTANCE FugueReplicasProofs
  WITH Replica <- Typist, tree <- typedTree, counter <- typedCounter

LEMMA SameInsertOperator ==
  \A t, op : Typing!applyInsert(t, op) = Sessions!applyInsert(t, op)
BY ZenonT(60) DEF Typing!applyInsert, Sessions!applyInsert, Typing!insertChild,
   Sessions!insertChild, Typing!Precedes, Sessions!Precedes, Typing!Seqs!InsertAt,
   Sessions!Seqs!InsertAt, Typing!NewNode, Sessions!NewNode, Typing!Side, Sessions!Side

LEMMA SameOperators ==
  ASSUME NEW t
  PROVE  /\ \A op : Typing!ApplyOperation(t, op) = Sessions!ApplyOperation(t, op)
         /\ Typing!visibleNodes(t) = Sessions!visibleNodes(t)
<1>1. \A op : Typing!ApplyOperation(t, op) = Sessions!ApplyOperation(t, op)
  BY SameInsertOperator, Zenon DEF Typing!ApplyOperation, Sessions!ApplyOperation,
     Typing!applyDelete, Sessions!applyDelete
<1>2. Typing!visibleNodes(t) = Sessions!visibleNodes(t)
  BY Zenon DEF Typing!visibleNodes, Sessions!visibleNodes, Typing!traverse,
     Sessions!traverse, Typing!rootSentinelID, Sessions!rootSentinelID
<1> QED
  BY <1>1, <1>2

LEMMA SameRunInit == Typing!RunInit <=> Sessions!RunInit
<1>1. Typing!NewFugueTree = Sessions!NewFugueTree
  BY Zenon DEF Typing!NewFugueTree, Sessions!NewFugueTree, Typing!rootSentinelID,
     Sessions!rootSentinelID, Typing!zeroRune, Sessions!zeroRune, Typing!NewNode,
     Sessions!NewNode, Typing!Side, Sessions!Side
<1>2. Typing!Init <=> Sessions!Init
  BY <1>1, Zenon DEF Typing!Init, Sessions!Init
<1> QED
  BY <1>1, <1>2, Zenon DEF Typing!RunInit, Sessions!RunInit

LEMMA SameIssue ==
  ASSUME NEW r, NEW op
  PROVE  Typing!Issue(r, op) <=> Sessions!Issue(r, op)
<1>1. Typing!ApplyOperation(typedTree[r], op) = Sessions!ApplyOperation(typedTree[r], op)
  BY SameOperators
<1>2. Typing!Cardinality(sent) = Sessions!Cardinality(sent)
  BY Zenon DEF Typing!Cardinality, Sessions!Cardinality
<1> QED
  BY <1>1, <1>2, Zenon DEF Typing!Issue, Sessions!Issue

LEMMA SameInsertAt ==
  ASSUME NEW r, NEW pos, NEW char
  PROVE  Typing!InsertAt(r, pos, char) <=> Sessions!InsertAt(r, pos, char)
<1>1. Typing!visibleNodes(typedTree[r]) = Sessions!visibleNodes(typedTree[r])
  BY SameOperators
<1>2. \A v, left, right :
        Typing!OriginsAt(v, pos, left, right) <=> Sessions!OriginsAt(v, pos, left, right)
  BY Zenon DEF Typing!OriginsAt, Sessions!OriginsAt, Typing!leftOrigin,
     Sessions!leftOrigin, Typing!rightOrigin, Sessions!rightOrigin, Typing!nil,
     Sessions!nil, Typing!rootSentinelID, Sessions!rootSentinelID
<1>3. \A t, left, right :
        Typing!insertOp(Typing!nextID(r), char, Typing!selectParent(t, left, right)) =
        Sessions!insertOp(Sessions!nextID(r), char, Sessions!selectParent(t, left, right))
  BY Zenon DEF Typing!insertOp, Sessions!insertOp, Typing!nextID, Sessions!nextID,
     Typing!selectParent, Sessions!selectParent, Typing!nil, Sessions!nil
<1>4. Typing!nil = Sessions!nil
  BY DEF Typing!nil, Sessions!nil
<1> QED
  BY <1>1, <1>2, <1>3, <1>4, SameIssue DEF Typing!InsertAt, Sessions!InsertAt

LEMMA SameDeleteAt ==
  ASSUME NEW r, NEW pos
  PROVE  Typing!DeleteAt(r, pos) <=> Sessions!DeleteAt(r, pos)
<1>1. Typing!visibleNodes(typedTree[r]) = Sessions!visibleNodes(typedTree[r])
  BY SameOperators
<1>2. \A target : Typing!deleteOp(Typing!nextID(r), target) = Sessions!deleteOp(Sessions!nextID(r), target)
  BY Zenon DEF Typing!deleteOp, Sessions!deleteOp, Typing!nextID, Sessions!nextID
<1>3. Typing!rootSentinelID = Sessions!rootSentinelID
  BY DEF Typing!rootSentinelID, Sessions!rootSentinelID
<1> QED
  BY <1>1, <1>2, <1>3, SameIssue DEF Typing!DeleteAt, Sessions!DeleteAt

LEMMA SamePositions == \A r : Typing!Positions(r) = Sessions!Positions(r)
BY SameOperators, Zenon DEF Typing!Positions, Sessions!Positions

LEMMA SameEdit == \A r : Typing!Edit(r) <=> Sessions!Edit(r)
BY SameInsertAt, SameDeleteAt, SamePositions, Zenon DEF Typing!Edit, Sessions!Edit

LEMMA SameRunNext == Typing!RunNext <=> Sessions!RunNext
<1>1. \A r : Typing!Type(r) <=> Sessions!Type(r)
  BY SameInsertAt, Zenon DEF Typing!Type, Sessions!Type, Typing!typed, Sessions!typed,
     Typing!firstCounter, Sessions!firstCounter, Typing!Caret, Sessions!Caret
<1>2. \A r : Typing!Exchange(r) <=> Sessions!Exchange(r)
  BY SameOperators, Zenon DEF Typing!Exchange, Sessions!Exchange, Typing!typed,
     Sessions!typed, Typing!firstCounter, Sessions!firstCounter, Typing!ReceiveReady,
     Sessions!ReceiveReady, Typing!Ready, Sessions!Ready, Typing!Receive, Sessions!Receive
<1>3. Typing!Write <=> Sessions!Write
  BY SameEdit, Zenon DEF Typing!Write, Sessions!Write
<1>4. Typing!Begin <=> Sessions!Begin
  BY SamePositions, Zenon DEF Typing!Begin, Sessions!Begin
<1> QED
  BY <1>1, <1>2, <1>3, <1>4, Zenon DEF Typing!RunNext, Sessions!RunNext

LEMMA SameRunsStayWhole ==
  Typing!ForwardRunsStayWhole <=> Sessions!ForwardRunsStayWhole
<1>1. \A w : Typing!Run(w) = Sessions!Run(w)
  BY Zenon DEF Typing!Run, Sessions!Run
<1>2. \A seq, S : Typing!Unbroken(seq, S) <=> Sessions!Unbroken(seq, S)
  BY Zenon DEF Typing!Unbroken, Sessions!Unbroken
<1>3. \A r, w : Typing!Unbroken(Typing!visibleNodes(typedTree[r]), Typing!Run(w)) <=>
                Sessions!Unbroken(Sessions!visibleNodes(typedTree[r]), Sessions!Run(w))
  BY <1>1, <1>2, SameOperators
<1>4. \A left, right : Typing!DeepBelow(text, left, right) <=> Sessions!DeepBelow(text, left, right)
  BY Zenon DEF Typing!DeepBelow, Sessions!DeepBelow, Typing!nil, Sessions!nil,
     Typing!Ancestors, Sessions!Ancestors
<1>5. \A v, pos : /\ Typing!leftOrigin(v, pos) = Sessions!leftOrigin(v, pos)
                  /\ Typing!rightOrigin(v, pos) = Sessions!rightOrigin(v, pos)
  BY Zenon DEF Typing!leftOrigin, Sessions!leftOrigin, Typing!rightOrigin,
     Sessions!rightOrigin, Typing!nil, Sessions!nil, Typing!rootSentinelID,
     Sessions!rootSentinelID
<1>6. \A w : Typing!ForwardRun(w) <=> Sessions!ForwardRun(w)
  BY <1>4, <1>5, SameOperators, Zenon DEF Typing!ForwardRun, Sessions!ForwardRun,
     Typing!StartsClean, Sessions!StartsClean
<1> QED
  BY <1>3, <1>6, Zenon DEF Typing!ForwardRunsStayWhole, Sessions!ForwardRunsStayWhole

(* Next to the other data types, too, no run typed forward from a position *)
(* where InsertAt lands is ever broken by another session or by the common *)
(* text, however that was written: RunsStayWhole, for the specification    *)
(* whose state space TLC explores.                                         *)
THEOREM TypesKeepRunsWhole == TypesSpec => []ForwardRunsStayWhole
<1>1. Sessions!RunSpec => []Sessions!ForwardRunsStayWhole
  BY TypingAssumption, Sessions!RunsStayWhole
<1>2. TypesInit => Sessions!RunInit
  BY SameRunInit DEF TypesInit
<1>3. [TypesNext]_typesVars => [Sessions!RunNext]_(Sessions!runVars)
  BY SameRunNext DEF TypesNext, typesVars, typingVars, Sessions!runVars
<1>4. Sessions!ForwardRunsStayWhole => ForwardRunsStayWhole
  BY SameRunsStayWhole DEF ForwardRunsStayWhole
<1> QED
  BY <1>1, <1>2, <1>3, <1>4, PTL DEF TypesSpec, Sessions!RunSpec
=============================================================================
