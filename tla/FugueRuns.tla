----------------------------- MODULE FugueRuns -----------------------------
(***************************************************************************)
(* Concurrent typing sessions on one document.  Author writes a text, with *)
(* insertions and deletions wherever it likes, and every replica gets it;  *)
(* then each types a run of characters at a position of its choice without *)
(* hearing of the others, and at the end the runs are exchanged.           *)
(*                                                                         *)
(* Everything a replica does is an action of FugueReplicas; this module    *)
(* says only who types what, and where.                                    *)
(***************************************************************************)
EXTENDS FugueReplicas

CONSTANTS
  Author,       \* who writes the common text, one of the replicas
  TextLen,      \* how many edits it takes
  RunLen,       \* how many characters each session types
  Directions    \* how a session may move: "forward" and/or "backward"

VARIABLES
  begun,     \* the sessions have begun
  text,      \* history: the tree they start from
  plan       \* plan[r]: the position and direction of the run of r

runVars == <<tree, counter, sent, applied, begun, text, plan>>

RunInit ==
  /\ Init
  /\ begun = FALSE
  /\ text = NewFugueTree
  /\ plan = [r \in Replica |-> [start |-> 0, direction |-> "forward"]]

-----------------------------------------------------------------------------
Write ==
  /\ ~begun /\ counter[Author] < TextLen
  /\ Edit(Author)
  /\ UNCHANGED <<begun, text, plan>>

(* The text has reached everyone, and nothing of it is still on its way.   *)
Begin ==
  /\ ~begun /\ counter[Author] = TextLen
  /\ begun' = TRUE
  /\ text' = tree[Author]
  /\ tree' = [r \in Replica |-> tree[Author]]
  /\ sent' = {}
  /\ applied' = [r \in Replica |-> {}]
  /\ plan' \in [Replica -> [start : Positions(Author), direction : Directions]]
  /\ UNCHANGED counter

firstCounter(r) == IF r = Author THEN TextLen ELSE 0

typed(r) == counter[r] - firstCounter(r)

(* A caret moving forward goes one position on with every character; one   *)
(* that stays put types each character in front of the one before.         *)
Caret(r) ==
  plan[r].start + IF plan[r].direction = "forward" THEN typed(r) ELSE 0

Type(r) ==
  /\ begun /\ typed(r) < RunLen
  /\ \E char \in Char : InsertAt(r, Caret(r), char)
  /\ UNCHANGED <<begun, text, plan>>

Exchange(r) ==
  /\ begun /\ typed(r) = RunLen
  /\ \E op \in sent \ applied[r] : ReceiveReady(r, op)
  /\ UNCHANGED <<begun, text, plan>>

RunNext == Write \/ Begin \/ \E r \in Replica : Type(r) \/ Exchange(r)

RunSpec == RunInit /\ [][RunNext]_runVars

-----------------------------------------------------------------------------
(* Properties.                                                             *)

(* The characters of the session of w, wherever they have arrived.         *)
Run(w) == {op.id : op \in {o \in sent : o.id[1] = w}}

(* No other character stands between two characters of S in seq.           *)
Unbroken(seq, S) ==
  \A i, j, k \in 1 .. Len(seq) :
    i < j /\ j < k /\ seq[i] \in S /\ seq[k] \in S => seq[j] \in S

(* The session of w begins where InsertAt lands (DeepBelow): the character *)
(* right of the caret is no grandchild or deeper descendant of the left.   *)
StartsClean(w) ==
  LET visible == visibleNodes(text)
  IN  ~DeepBelow(text, leftOrigin(visible, plan[w].start), rightOrigin(visible, plan[w].start))

ForwardRun(w) == plan[w].direction = "forward" /\ StartsClean(w)

(* A run typed forward that begins where InsertAt lands is never broken by *)
(* another session or by the common text, on any replica, not even when    *)
(* only part of the others has arrived (selectParent chains it to the      *)
(* right; insertChild orders the chains).  One that begins elsewhere is:   *)
(* its first character lands behind the caret, the second at the caret.    *)
ForwardRunsStayWhole ==
  begun =>
    \A r, w \in Replica : ForwardRun(w) => Unbroken(visibleNodes(tree[r]), Run(w))

(* Text inserted concurrently at the same position is never interleaved    *)
(* character by character (doc.go): between two characters of a session    *)
(* there is none of another session that started at the same position.     *)
RunsNeverInterleave ==
  \A r, w, v \in Replica :
    w # v /\ plan[w].start = plan[v].start =>
      Unbroken(SelectSeq(visibleNodes(tree[r]), LAMBDA n : n \in Run(w) \union Run(v)),
               Run(w))
=============================================================================
