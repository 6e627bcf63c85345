----------------------------- MODULE MCDataTypes -----------------------------
(***************************************************************************)
(* Small instances of the data types of pkg/crdt, for TLC: Fugue trees     *)
(* that are merged, typing sessions on a Fugue tree, vector clocks,        *)
(* two-phase sets and registers.                                           *)
(*                                                                         *)
(* They share no state: a behaviour chooses the type that it exercises and *)
(* leaves the others as they begin, so that their state spaces add up.     *)
(***************************************************************************)
EXTENDS FugueMerge, CausalClocks, TwoPSets, LWWRegisters

CONSTANTS Typist, MaxOps, Author, TextLen, RunLen, Directions   \* of FugueRuns

ASSUME TypingAssumption ==
  /\ Typist \subseteq Nat \ {0} /\ Author \in Typist
  /\ MaxOps \in Nat /\ TextLen \in Nat /\ RunLen \in Nat

VARIABLES type, typedTree, typedCounter, sent, applied, begun, text, plan

Typing == INSTANCE FugueRuns
  WITH Replica <- Typist, tree <- typedTree, counter <- typedCounter

typingVars == <<typedTree, typedCounter, sent, applied, begun, text, plan>>

typesVars == <<type, vars, typingVars, clockVars, setVars, registerVars>>

(* Where an initial state has a choice, only the type that is exercised    *)
(* takes it.                                                               *)
TypesInit ==
  /\ type \in {"merging", "typing", "clocks", "sets", "registers"}
  /\ Init
  /\ Typing!RunInit
  /\ ClocksInit
  /\ SetsInit
  /\ RegistersInit
  /\ type # "registers" =>
       \A r \in Register : registers[r].value = CHOOSE v \in Value : TRUE

TypesNext ==
  /\ UNCHANGED type
  /\ IF type = "merging" THEN Next ELSE UNCHANGED vars
  /\ IF type = "typing" THEN Typing!RunNext ELSE UNCHANGED typingVars
  /\ IF type = "clocks" THEN ClocksNext ELSE UNCHANGED clockVars
  /\ IF type = "sets" THEN SetsNext ELSE UNCHANGED setVars
  /\ IF type = "registers" THEN RegistersNext ELSE UNCHANGED registerVars

(* The fairness of FugueMerge, for the behaviours that merge trees.        *)
TypesSpec ==
  /\ TypesInit
  /\ [][TypesNext]_typesVars
  /\ \A r \in Replica : \A o \in Replica \ {r} : SF_vars(type = "merging" /\ Merge(r, o))

-----------------------------------------------------------------------------
(* A run typed forward is not broken up (FugueRuns).                       *)
ForwardRunsStayWhole == type = "typing" => Typing!ForwardRunsStayWhole

-----------------------------------------------------------------------------
TwoReplicas == {1, 2}
OneIntoTwo == {<<2, 1>>}
ThreeReplicas == {1, 2, 3}
Both == {"forward", "backward"}
=============================================================================
