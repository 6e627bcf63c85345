---------------------------- MODULE LWWRegisters ----------------------------
(***************************************************************************)
(* pkg/crdt/lww_register.go: last-writer-wins registers that are written   *)
(* on their own and brought together by operations, in any order and any   *)
(* number of times, and by Merge, which works with a copy of the other     *)
(* register.  Timestamps come from the callers, so they may go back, and   *)
(* one replica may write twice within one tick of its clock.               *)
(***************************************************************************)
EXTENDS Integers, FiniteSets

CONSTANTS
  Register,     \* the replicas, numbered in the order of their names
  Value,        \* what they write
  Merging,      \* goroutines that call Merge
  MaxTime,      \* bound: timestamps go from 0 to MaxTime
  MaxWrites     \* bound: how many writes there are after the first ones

ASSUME RegistersAssumption == Register \subseteq Nat /\ MaxTime \in Nat

VARIABLES
  registers,    \* registers[r]: value, timestamp and replicaID of r
  mergeCall,    \* mergeCall[g]: the Merge that g is in the middle of
  writes,       \* the writes of all replicas: what is sent as a SetOp
  seen          \* history: seen[r], the writes that r has come to know of

registerVars == <<registers, mergeCall, writes, seen>>

Write == [value : Value, timestamp : 0 .. MaxTime, replicaID : Register]

noMerge == [pc |-> "idle"]

(* NewLWWRegister: each register begins with a write of its own.           *)
RegistersInit ==
  /\ registers \in [Register -> Write]
  /\ \A r \in Register :
       registers[r].replicaID = r /\ registers[r].timestamp = 0
  /\ mergeCall = [g \in Merging |-> noMerge]
  /\ writes = {registers[r] : r \in Register}
  /\ seen = [r \in Register |-> {registers[r]}]

-----------------------------------------------------------------------------
(* Mutant: of two writes with one timestamp, the first to come wins.       *)
LaterWins(w, current) == w.timestamp > current.timestamp

Wins(w, current) ==
  \/ w.timestamp > current.timestamp
  \/ w.timestamp = current.timestamp /\ w.replicaID > current.replicaID

Put(r, w) ==
  registers' = [registers EXCEPT ![r] = IF Wins(w, @) THEN w ELSE @]

(* Set, or ApplyOperation of a write that is made here.                    *)
Set(r, value, timestamp) ==
  LET w == [value |-> value, timestamp |-> timestamp, replicaID |-> r]
  IN  /\ w \notin writes
      /\ Cardinality(writes) < Cardinality(Register) + MaxWrites
      /\ Put(r, w)
      /\ writes' = writes \union {w}
      /\ seen' = [seen EXCEPT ![r] = @ \union {w}]
      /\ UNCHANGED mergeCall

(* ApplyOperation: a write of anybody arrives, perhaps again.              *)
ApplySetOp(r, w) ==
  /\ Put(r, w)
  /\ seen' = [seen EXCEPT ![r] = @ \union {w}]
  /\ UNCHANGED <<mergeCall, writes>>

(* Merge copies the other register, lets go of its lock and takes its own. *)
MergeCopy(g, r, other) ==
  /\ mergeCall[g].pc = "idle"
  /\ mergeCall' = [mergeCall EXCEPT ![g] =
       [pc |-> "copied", register |-> r, copy |-> registers[other], known |-> seen[other]]]
  /\ UNCHANGED <<registers, writes, seen>>

MergeAssign(g) ==
  /\ mergeCall[g].pc = "copied"
  /\ LET call == mergeCall[g]
     IN  /\ Put(call.register, call.copy)
         /\ seen' = [seen EXCEPT ![call.register] = @ \union call.known]
  /\ mergeCall' = [mergeCall EXCEPT ![g] = noMerge]
  /\ UNCHANGED writes

RegistersNext ==
  \/ \E r \in Register :
       \/ \E value \in Value, timestamp \in 0 .. MaxTime : Set(r, value, timestamp)
       \/ \E w \in writes : ApplySetOp(r, w)
  \/ \E g \in Merging :
       \/ \E r, other \in Register : MergeCopy(g, r, other)
       \/ MergeAssign(g)

RegistersSpec == RegistersInit /\ [][RegistersNext]_registerVars

-----------------------------------------------------------------------------
(* Properties.                                                             *)

Stamp(w) == <<w.timestamp, w.replicaID>>

(* Whatever way the writes have come, registers that know of the same ones *)
(* hold the same value, unless one replica wrote two values at the same    *)
(* time and nobody wrote later: then each keeps the one that it saw first, *)
(* and no Merge ever brings them together (Set, ApplyOperation, Merge).    *)
OnlyTiesDiverge ==
  \A r, s \in Register :
    seen[r] = seen[s] /\ registers[r] # registers[s] =>
      /\ registers[r].value # registers[s].value
      /\ Stamp(registers[r]) = Stamp(registers[s])
      /\ \A w \in seen[r] : w.timestamp <= registers[r].timestamp
=============================================================================
