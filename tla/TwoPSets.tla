------------------------------ MODULE TwoPSets ------------------------------
(***************************************************************************)
(* pkg/crdt/twopset.go and gset.go: two-phase sets shared by goroutines.   *)
(*                                                                         *)
(* A TwoPSet is two GSets, each with a lock of its own: every GSet method  *)
(* is one step, GSet.Merge is two (it copies the other set under its lock  *)
(* and joins under its own).  TwoPSet.mu is only ever locked for reading,  *)
(* so it excludes nobody and is left out; its methods are sequences of     *)
(* steps on the inner sets, and everything may happen between them.        *)
(***************************************************************************)
EXTENDS Integers

CONSTANTS
  TwoPSet,      \* the sets
  Item,         \* what they may contain
  Reader,       \* goroutines that call Contains and State
  Merger,       \* goroutines that call Merge
  Merges        \* bound: the pairs of sets that are merged, into and from

ASSUME SetsAssumption == Merges \subseteq TwoPSet \X TwoPSet

VARIABLES
  added,        \* added[s]: the elements of s.addSet
  removed,      \* removed[s]: the elements of s.removeSet
  setCall       \* setCall[g]: the call g is in, or what its last one returned

setVars == <<added, removed, setCall>>

Visible(s) == added[s] \ removed[s]

noCall == [pc |-> "returned", kind |-> "none"]

SetsInit ==
  /\ added = [s \in TwoPSet |-> {}]
  /\ removed = [s \in TwoPSet |-> {}]
  /\ setCall = [g \in Reader \union Merger |-> noCall]

Enter(g, call) == setCall' = [setCall EXCEPT ![g] = call]

-----------------------------------------------------------------------------
(* Add and Remove, by anybody; ApplyOperation calls one of them.  A call   *)
(* that finds its element there changes nothing.                           *)

(* Mutant: adding an element takes its tombstone away.                     *)
AddAgain(s, item) ==
  /\ added' = [added EXCEPT ![s] = @ \union {item}]
  /\ removed' = [removed EXCEPT ![s] = @ \ {item}]
  /\ UNCHANGED setCall

Add(s, item) ==
  /\ item \notin added[s]
  /\ added' = [added EXCEPT ![s] = @ \union {item}]
  /\ UNCHANGED <<removed, setCall>>

Remove(s, item) ==
  /\ item \notin removed[s]
  /\ removed' = [removed EXCEPT ![s] = @ \union {item}]
  /\ UNCHANGED <<added, setCall>>

-----------------------------------------------------------------------------
(* Contains: addSet.Contains && !removeSet.Contains.  With the answer goes *)
(* what would have been right when the call began and when it ended.       *)

(* Mutant: the tombstones are looked up first.                             *)
LookupsSwapped == <<"removeSet", "addSet">>

Lookups == <<"addSet", "removeSet">>

Passes(lookup, s, item) ==
  \/ lookup = "addSet" /\ item \in added[s]
  \/ lookup = "removeSet" /\ item \notin removed[s]

ContainsAnswer(g, answer, right) ==
  Enter(g, [pc |-> "returned", kind |-> "contains", answer |-> answer, right |-> right])

ContainsFirst(g, s, item) ==
  /\ setCall[g].pc = "returned"
  /\ IF Passes(Lookups[1], s, item)
     THEN Enter(g, [pc |-> "contains", set |-> s, item |-> item,
                    before |-> item \in Visible(s)])
     ELSE ContainsAnswer(g, FALSE, {(item \in Visible(s))})
  /\ UNCHANGED <<added, removed>>

ContainsSecond(g) ==
  /\ setCall[g].pc = "contains"
  /\ LET call == setCall[g]
     IN  ContainsAnswer(g, Passes(Lookups[2], call.set, call.item),
                        {call.before, call.item \in Visible(call.set)})
  /\ UNCHANGED <<added, removed>>

-----------------------------------------------------------------------------
(* State: a copy of the elements of addSet, each of which is then looked   *)
(* up in removeSet, in any order.  Len calls it.                           *)

StateAnswer(g, found, before, after) ==
  Enter(g, [pc |-> "returned", kind |-> "state",
            found |-> found, before |-> before, after |-> after])

StateCopy(g, s) ==
  /\ setCall[g].pc = "returned"
  /\ IF added[s] = {}
     THEN StateAnswer(g, {}, {}, {})
     ELSE Enter(g, [pc |-> "state", set |-> s, todo |-> added[s], found |-> {},
                    before |-> Visible(s)])
  /\ UNCHANGED <<added, removed>>

StateItem(g, item) ==
  /\ setCall[g].pc = "state" /\ item \in setCall[g].todo
  /\ LET call == setCall[g]
         found == call.found \union ({item} \ removed[call.set])
     IN  IF call.todo = {item}
         THEN StateAnswer(g, found, call.before, Visible(call.set))
         ELSE Enter(g, [call EXCEPT !.todo = @ \ {item}, !.found = found])
  /\ UNCHANGED <<added, removed>>

-----------------------------------------------------------------------------
(* Merge: addSet.Merge and then removeSet.Merge.                           *)

MergeCopyAdded(g, s, other) ==
  /\ setCall[g].pc = "returned"
  /\ Enter(g, [pc |-> "joinAdded", set |-> s, other |-> other,
               snapshot |-> added[other]])
  /\ UNCHANGED <<added, removed>>

MergeJoinAdded(g) ==
  /\ setCall[g].pc = "joinAdded"
  /\ added' = [added EXCEPT ![setCall[g].set] = @ \union setCall[g].snapshot]
  /\ Enter(g, [pc |-> "copyRemoved", set |-> setCall[g].set, other |-> setCall[g].other])
  /\ UNCHANGED removed

MergeCopyRemoved(g) ==
  /\ setCall[g].pc = "copyRemoved"
  /\ Enter(g, [pc |-> "joinRemoved", set |-> setCall[g].set,
               snapshot |-> removed[setCall[g].other]])
  /\ UNCHANGED <<added, removed>>

MergeJoinRemoved(g) ==
  /\ setCall[g].pc = "joinRemoved"
  /\ removed' = [removed EXCEPT ![setCall[g].set] = @ \union setCall[g].snapshot]
  /\ Enter(g, noCall)
  /\ UNCHANGED added

SetsNext ==
  \/ \E s \in TwoPSet, item \in Item : Add(s, item) \/ Remove(s, item)
  \/ \E g \in Reader :
       \/ \E s \in TwoPSet :
            (\E item \in Item : ContainsFirst(g, s, item)) \/ StateCopy(g, s)
       \/ ContainsSecond(g)
       \/ \E item \in Item : StateItem(g, item)
  \/ \E g \in Merger :
       \/ \E pair \in Merges : MergeCopyAdded(g, pair[1], pair[2])
       \/ MergeJoinAdded(g)
       \/ MergeCopyRemoved(g)
       \/ MergeJoinRemoved(g)

SetsSpec == SetsInit /\ [][SetsNext]_setVars

-----------------------------------------------------------------------------
(* Properties.                                                             *)

Returned(kind) ==
  {setCall[g] : g \in {h \in Reader :
                         setCall[h].pc = "returned" /\ setCall[h].kind = kind}}

(* Contains looks at two sets at two moments, and still its answer was     *)
(* true when the call began or when it ended: because the tombstones are   *)
(* looked up last, an element that came and went meanwhile does not count  *)
(* (TwoPSet.Contains).                                                     *)
ContainsIsAtomic ==
  \A call \in Returned("contains") : call.answer \in call.right

(* State is not atomic: it may return a set that never was.  It shows only *)
(* what was there when it began, and misses of it only what was removed    *)
(* before it ended (TwoPSet.State, next to Add, Remove and Merge).         *)
StateMissesOnlyRemovals ==
  \A call \in Returned("state") :
    /\ call.found \subseteq call.before
    /\ call.before \intersect call.after \subseteq call.found
=============================================================================
