----------------------------- MODULE HubProofs -----------------------------
(***************************************************************************)
(* The safety of Hub for every number of clients and of workers, and every *)
(* capacity of its channels.                                               *)
(***************************************************************************)
EXTENDS Hub, TLAPS

Elements(ch) == {ch[i] : i \in 1 .. Len(ch)}

ReaderState ==
  [pc : {"idle", "registering", "reading", "sending", "dropping", "closing", "leaving",
         "gone"}]

RunState ==
  [pc : {"select", "done"}] \union
  [pc : {"closing"}, left : SUBSET Client, at : Client \union {nobody}]

(* What a worker in the middle of a Broadcast keeps.                       *)
Underway ==
  [pc : {"next", "sending", "dropping", "closing", "leaving"}, to : Client \union {nobody},
   left : SUBSET Client, missed : SUBSET Client]

(* Every channel keeps within its capacity.                                *)
TypeOK ==
  /\ registry \subseteq Client
  /\ registerCh \in Seq(Client) /\ Len(registerCh) <= AdminBuffer
  /\ unregisterCh \in Seq(Client) /\ Len(unregisterCh) <= AdminBuffer
  /\ inbound \in Seq(Client) /\ Len(inbound) <= InboundBuffer
  /\ cancelled \in BOOLEAN
  /\ crashed \in {"no", "send on closed channel", "close of closed channel"}
  /\ run \in RunState
  /\ conn \in [Client -> {"none", "open", "broken"}]
  /\ reader \in [Client -> ReaderState]
  /\ writer \in [Client -> {"idle", "writing", "gone"}]
  /\ closed \in [Client -> BOOLEAN]
  /\ send \in [Client -> 0 .. SendBuffer]
  /\ sendClosed \in [Client -> BOOLEAN]
  /\ broadcast \in [Broadcaster -> {idle} \union Underway]
  /\ messages \in 0 .. MaxMessages

(* While a worker is busy with a target, it has not ticked it off.         *)
BusyWithTarget ==
  \A b \in Broadcaster :
    broadcast[b].pc \in {"sending", "dropping", "closing", "leaving"} =>
      broadcast[b].to \in broadcast[b].left

(* Only clients that have been closed are on their way out of the registry.*)
LeaversAreClosed ==
  /\ \A c \in Client : Leaving(c) => closed[c]
  /\ \A c \in Elements(unregisterCh) : closed[c]

(* closeAll has taken all that there was in the registry.                  *)
RegistryIsTaken == run.pc # "select" => registry = {}

(* A client whose pumps run is closed, or the hub still knows of it.       *)
RunningIsKnown ==
  \A c \in Client : writer[c] = "writing" =>
    \/ closed[c]
    \/ c \in Elements(registerCh)
    \/ c \in registry
    \/ run.pc = "closing" /\ c \in run.left

ReaderCloser(c) == reader[c].pc = "closing"

RunCloser(c) == run.pc = "closing" /\ run.at = c

WorkerCloser(b, c) == broadcast[b].pc = "closing" /\ broadcast[b].to = c

(* Whoever is about to close c.send has set c.closed, finds c.send open,   *)
(* and is the only one.                                                    *)
OneCloser ==
  \A c \in Client :
    /\ sendClosed[c] => closed[c]
    /\ ReaderCloser(c) => closed[c] /\ ~sendClosed[c] /\ ~RunCloser(c)
    /\ RunCloser(c) => closed[c] /\ ~sendClosed[c]
    /\ \A b \in Broadcaster : WorkerCloser(b, c) =>
         /\ closed[c] /\ ~sendClosed[c] /\ ~ReaderCloser(c) /\ ~RunCloser(c)
         /\ \A d \in Broadcaster \ {b} : ~WorkerCloser(d, c)

(* The inductive invariant.                                                *)
IInv ==
  /\ TypeOK
  /\ BusyWithTarget
  /\ LeaversAreClosed
  /\ RegistryIsTaken
  /\ RunningIsKnown
  /\ ServedOrClosed
  /\ OneCloser
  /\ SendIsClosedOnce

LEMMA Capacities ==
  /\ SendBuffer \in Nat /\ AdminBuffer \in Nat /\ InboundBuffer \in Nat
  /\ SendBuffer > 0 /\ AdminBuffer > 0 /\ InboundBuffer > 0 /\ MaxMessages \in Nat
BY HubAssumption

(* The types of the variables, a few at a time.                            *)
LEMMA ChannelTypes ==
  IInv => /\ registerCh \in Seq(Client) /\ Len(registerCh) <= AdminBuffer
          /\ unregisterCh \in Seq(Client) /\ Len(unregisterCh) <= AdminBuffer
          /\ inbound \in Seq(Client) /\ Len(inbound) <= InboundBuffer
BY DEF IInv, TypeOK

LEMMA HubTypes ==
  IInv => registry \subseteq Client /\ run \in RunState /\ messages \in 0 .. MaxMessages
BY DEF IInv, TypeOK

LEMMA PumpTypes ==
  IInv => /\ reader \in [Client -> ReaderState]
          /\ writer \in [Client -> {"idle", "writing", "gone"}]
BY DEF IInv, TypeOK

LEMMA ClosedTypes ==
  IInv => closed \in [Client -> BOOLEAN] /\ sendClosed \in [Client -> BOOLEAN]
BY DEF IInv, TypeOK

LEMMA SendType == IInv => send \in [Client -> 0 .. SendBuffer]
BY DEF IInv, TypeOK

LEMMA BroadcastType == IInv => broadcast \in [Broadcaster -> {idle} \union Underway]
BY DEF IInv, TypeOK

LEMMA QueuedAreClients ==
  IInv => /\ Elements(unregisterCh) \subseteq Client
          /\ \A c \in Elements(unregisterCh) : closed[c]
BY ChannelTypes DEF IInv, LeaversAreClosed, Elements

(* A step after which nobody is about to close what he was not before.     *)
LEMMA NoNewCloser ==
  ASSUME OneCloser, UNCHANGED <<closed, sendClosed>>,
         \A c \in Client :
           /\ ReaderCloser(c)' => ReaderCloser(c)
           /\ RunCloser(c)' => RunCloser(c)
           /\ \A b \in Broadcaster : WorkerCloser(b, c)' => WorkerCloser(b, c)
  PROVE  OneCloser'
BY DEF OneCloser

(* A Swap that finds c.closed set makes nobody close c.send.               *)
LEMMA SwappedBefore ==
  ASSUME OneCloser, TypeOK, NEW c \in Client, Swap(c), closed[c], sendClosed' = sendClosed,
         \A d \in Client :
           /\ ReaderCloser(d)' => ReaderCloser(d)
           /\ RunCloser(d)' => RunCloser(d)
           /\ \A b \in Broadcaster : WorkerCloser(b, d)' => WorkerCloser(b, d)
  PROVE  OneCloser'
<1>1. closed' = closed
  BY DEF Swap, TypeOK
<1> QED
  BY <1>1, NoNewCloser

(* A Swap that finds it unset is the first: nobody else will close c.send. *)
LEMMA SwappedFirst ==
  ASSUME OneCloser, TypeOK, NEW c \in Client, Swap(c), ~closed[c], sendClosed' = sendClosed,
         \A d \in Client \ {c} :
           /\ ReaderCloser(d)' => ReaderCloser(d)
           /\ RunCloser(d)' => RunCloser(d)
           /\ \A b \in Broadcaster : WorkerCloser(b, d)' => WorkerCloser(b, d),
         ReaderCloser(c)' => ~RunCloser(c)',
         \A b \in Broadcaster : WorkerCloser(b, c)' =>
           /\ ~ReaderCloser(c)' /\ ~RunCloser(c)'
           /\ \A a \in Broadcaster \ {b} : ~WorkerCloser(a, c)'
  PROVE  OneCloser'
<1>1. closed'[c] /\ \A d \in Client \ {c} : closed'[d] = closed[d]
  BY DEF Swap, TypeOK
<1>2. ~sendClosed[c]
  BY DEF OneCloser
<1> QED
  BY <1>1, <1>2 DEF OneCloser

(* Who closes c.send was the only one to, and does not panic.              *)
LEMMA ClosedByCloser ==
  ASSUME OneCloser, SendIsClosedOnce, TypeOK, NEW c \in Client, CloseSend(c), closed' = closed,
         ~sendClosed[c], closed[c],
         ~ReaderCloser(c)', ~RunCloser(c)', \A b \in Broadcaster : ~WorkerCloser(b, c)',
         \A d \in Client \ {c} :
           /\ ReaderCloser(d)' => ReaderCloser(d)
           /\ RunCloser(d)' => RunCloser(d)
           /\ \A b \in Broadcaster : WorkerCloser(b, d)' => WorkerCloser(b, d)
  PROVE  /\ OneCloser' /\ SendIsClosedOnce' /\ crashed' = crashed
         /\ sendClosed' \in [Client -> BOOLEAN]
<1>1. /\ sendClosed'[c] /\ \A d \in Client \ {c} : sendClosed'[d] = sendClosed[d]
      /\ sendClosed' \in [Client -> BOOLEAN]
  BY DEF CloseSend, TypeOK
<1>2. crashed' = crashed
  BY DEF CloseSend
<1>3. SendIsClosedOnce'
  BY <1>2 DEF SendIsClosedOnce
<1>4. OneCloser'
  BY <1>1 DEF OneCloser
<1> QED
  BY <1>1, <1>2, <1>3, <1>4

LEMMA InitIInv == Init => IInv
<1> SUFFICES ASSUME Init PROVE IInv
  OBVIOUS
<1>1. TypeOK
  <2>1. run \in RunState /\ reader \in [Client -> ReaderState]
    BY DEF Init, ReaderState, RunState, idle
  <2>2. /\ registerCh \in Seq(Client) /\ Len(registerCh) <= AdminBuffer
        /\ unregisterCh \in Seq(Client) /\ Len(unregisterCh) <= AdminBuffer
        /\ inbound \in Seq(Client) /\ Len(inbound) <= InboundBuffer
    BY Capacities DEF Init
  <2>3. broadcast \in [Broadcaster -> {idle} \union Underway]
    BY DEF Init
  <2>4. send \in [Client -> 0 .. SendBuffer] /\ messages \in 0 .. MaxMessages
    BY Capacities DEF Init
  <2>5. /\ conn \in [Client -> {"none", "open", "broken"}]
        /\ writer \in [Client -> {"idle", "writing", "gone"}]
        /\ closed \in [Client -> BOOLEAN] /\ sendClosed \in [Client -> BOOLEAN]
        /\ cancelled \in BOOLEAN /\ crashed = "no" /\ registry \subseteq Client
    BY DEF Init
  <2> QED
    BY <2>1, <2>2, <2>3, <2>4, <2>5 DEF TypeOK
<1>2. Elements(unregisterCh) = {}
  BY DEF Init, Elements
<1> QED
  BY <1>1, <1>2 DEF Init, IInv, BusyWithTarget, LeaversAreClosed, Leaving, RegistryIsTaken,
     RunningIsKnown, ServedOrClosed, SendIsClosedOnce, OneCloser, ReaderCloser, RunCloser,
     WorkerCloser, idle

(* What Append and Tail do to the contents of a channel.                   *)
LEMMA AppendElements ==
  ASSUME NEW S, NEW q \in Seq(S), NEW e \in S
  PROVE  /\ Append(q, e) \in Seq(S)
         /\ Len(Append(q, e)) = Len(q) + 1
         /\ Elements(Append(q, e)) = Elements(q) \union {e}
<1>1. Len(Append(q, e)) = Len(q) + 1 /\ Len(q) \in Nat /\ Append(q, e) \in Seq(S)
  OBVIOUS
<1>2. \A i \in 1 .. Len(q) : Append(q, e)[i] = q[i]
  OBVIOUS
<1>3. Append(q, e)[Len(q) + 1] = e
  OBVIOUS
<1> QED
  BY <1>1, <1>2, <1>3 DEF Elements

LEMMA TailElements ==
  ASSUME NEW S, NEW q \in Seq(S), q # <<>>
  PROVE  /\ Head(q) \in S /\ Tail(q) \in Seq(S)
         /\ Len(Tail(q)) = Len(q) - 1
         /\ Elements(q) = {Head(q)} \union Elements(Tail(q))
<1>1. Len(q) \in Nat /\ Len(q) >= 1 /\ Len(Tail(q)) = Len(q) - 1
  OBVIOUS
<1>2. Head(q) = q[1] /\ \A i \in 1 .. Len(Tail(q)) : Tail(q)[i] = q[i + 1]
  OBVIOUS
<1>3. \A i \in 1 .. Len(q) : i = 1 \/ (i - 1 \in 1 .. Len(Tail(q)) /\ q[i] = Tail(q)[i - 1])
  BY <1>1, <1>2
<1>4. \A i \in 1 .. Len(Tail(q)) : i + 1 \in 1 .. Len(q)
  BY <1>1
<1>5. Head(q) \in S /\ Tail(q) \in Seq(S)
  OBVIOUS
<1>6. Elements(q) \subseteq {Head(q)} \union Elements(Tail(q))
  BY <1>2, <1>3 DEF Elements
<1>7. {Head(q)} \union Elements(Tail(q)) \subseteq Elements(q)
  BY <1>1, <1>2, <1>4 DEF Elements
<1> QED
  BY <1>1, <1>5, <1>6, <1>7

-----------------------------------------------------------------------------
(* The steps of a client.                                                  *)

LEMMA UpgradeIInv ==
  ASSUME IInv, Alive, NEW c \in Client, Upgrade(c)
  PROVE  IInv'
<1>1. TypeOK'
  BY DEF IInv, TypeOK, Upgrade, channels, ReaderGoes, ReaderState, admin
<1>2. \A d \in Client : Leaving(d)' => Leaving(d)
  BY PumpTypes DEF Leaving, Upgrade, ReaderGoes, admin
<1>3. OneCloser'
  <2>1. \A d \in Client : ReaderCloser(d)' => ReaderCloser(d)
    BY PumpTypes DEF Upgrade, ReaderGoes, ReaderCloser
  <2> QED
    BY <2>1, NoNewCloser DEF IInv, Upgrade, admin, channels, RunCloser, WorkerCloser
<1> QED
  BY <1>1, <1>2, <1>3 DEF Upgrade, admin, IInv, BusyWithTarget, LeaversAreClosed,
     RegistryIsTaken, RunningIsKnown, ServedOrClosed, SendIsClosedOnce

LEMMA RegisterIInv ==
  ASSUME IInv, Alive, NEW c \in Client, Register(c)
  PROVE  IInv'
<1>1. /\ registerCh' \in Seq(Client) /\ Len(registerCh') <= AdminBuffer
      /\ Elements(registerCh') = Elements(registerCh) \union {c}
  BY AppendElements, Capacities, ChannelTypes DEF Register
<1>2. TypeOK'
  BY <1>1 DEF IInv, TypeOK, Register, channels, ReaderGoes, ReaderState
<1>3. \A d \in Client : Leaving(d)' => Leaving(d)
  BY PumpTypes DEF Leaving, Register, ReaderGoes
<1>4. RunningIsKnown'
  BY <1>1, PumpTypes DEF IInv, Register, RunningIsKnown
<1>5. OneCloser'
  <2>1. \A d \in Client : ReaderCloser(d)' => ReaderCloser(d)
    BY PumpTypes DEF Register, ReaderGoes, ReaderCloser
  <2> QED
    BY <2>1, NoNewCloser DEF IInv, Register, channels, RunCloser, WorkerCloser
<1> QED
  BY <1>2, <1>3, <1>4, <1>5 DEF Register, IInv, BusyWithTarget, LeaversAreClosed,
     RegistryIsTaken, ServedOrClosed, SendIsClosedOnce

LEMMA DisconnectIInv ==
  ASSUME IInv, Alive, NEW c \in Client, Disconnect(c)
  PROVE  IInv'
<1>1. TypeOK'
  BY DEF IInv, TypeOK, Disconnect, channels, admin
<1>2. OneCloser'
  BY NoNewCloser DEF IInv, Disconnect, admin, channels, ReaderCloser, RunCloser, WorkerCloser
<1> QED
  BY <1>1, <1>2 DEF Disconnect, admin, IInv, BusyWithTarget, LeaversAreClosed, Leaving,
     RegistryIsTaken, RunningIsKnown, ServedOrClosed, SendIsClosedOnce

LEMMA ReadMessageIInv ==
  ASSUME IInv, Alive, NEW c \in Client, ReadMessage(c)
  PROVE  IInv'
<1>1. PICK r \in {[pc |-> "sending"], [pc |-> "dropping"]} : reader' = [reader EXCEPT ![c] = r]
  BY DEF ReadMessage, channels, ReaderGoes
<1>2. TypeOK'
  <2>1. messages' \in 0 .. MaxMessages
    BY HubTypes, Capacities DEF ReadMessage
  <2>2. reader' \in [Client -> ReaderState]
    BY <1>1, PumpTypes DEF ReaderState
  <2> QED
    BY <2>1, <2>2 DEF IInv, TypeOK, ReadMessage, channels, admin
<1>3. \A d \in Client : Leaving(d)' => Leaving(d)
  BY <1>1, PumpTypes DEF Leaving, ReadMessage
<1>4. OneCloser'
  <2>1. \A d \in Client : ReaderCloser(d)' => ReaderCloser(d)
    BY <1>1, PumpTypes DEF ReaderCloser
  <2> QED
    BY <2>1, NoNewCloser DEF IInv, ReadMessage, admin, channels, RunCloser, WorkerCloser
<1> QED
  BY <1>2, <1>3, <1>4 DEF ReadMessage, admin, IInv, BusyWithTarget, LeaversAreClosed,
     RegistryIsTaken, RunningIsKnown, ServedOrClosed, SendIsClosedOnce

LEMMA ToInboundIInv ==
  ASSUME IInv, Alive, NEW c \in Client, ToInbound(c)
  PROVE  IInv'
<1>1. inbound' \in Seq(Client) /\ Len(inbound') <= InboundBuffer
  BY AppendElements, Capacities, ChannelTypes DEF ToInbound
<1>2. TypeOK'
  BY <1>1 DEF IInv, TypeOK, ToInbound, channels, ReaderGoes, ReaderState, admin
<1>3. \A d \in Client : Leaving(d)' => Leaving(d)
  BY PumpTypes DEF Leaving, ToInbound, ReaderGoes
<1>4. OneCloser'
  <2>1. \A d \in Client : ReaderCloser(d)' => ReaderCloser(d)
    BY PumpTypes DEF ToInbound, ReaderGoes, ReaderCloser
  <2> QED
    BY <2>1, NoNewCloser DEF IInv, ToInbound, admin, channels, RunCloser, WorkerCloser
<1> QED
  BY <1>2, <1>3, <1>4 DEF ToInbound, admin, IInv, BusyWithTarget, LeaversAreClosed,
     RegistryIsTaken, RunningIsKnown, ServedOrClosed, SendIsClosedOnce

(* Whoever disconnects a client marks it closed first.                     *)
LEMMA ReaderDropsIInv ==
  ASSUME IInv, Alive, NEW c \in Client, ReaderDrops(c)
  PROVE  IInv'
<1>1. TypeOK'
  BY DEF IInv, TypeOK, ReaderDrops, Swap, ReaderGoes, ReaderState, admin, channels
<1>2. closed'[c] /\ \A d \in Client : closed[d] => closed'[d]
  BY DEF IInv, TypeOK, ReaderDrops, Swap
<1>3. \A d \in Client : Leaving(d)' => Leaving(d) \/ d = c
  BY DEF IInv, TypeOK, Leaving, ReaderDrops, ReaderGoes, ReaderState, admin
<1>4. LeaversAreClosed'
  <2>1. \A d \in Client : Leaving(d)' => closed'[d]
    BY <1>2, <1>3 DEF IInv, LeaversAreClosed
  <2>2. \A d \in Elements(unregisterCh) : closed'[d]
    BY <1>2, QueuedAreClients
  <2> QED
    BY <2>1, <2>2 DEF LeaversAreClosed, ReaderDrops, admin, Elements
<1>5. ServedOrClosed'
  BY <1>2 DEF IInv, TypeOK, ServedOrClosed, ReaderDrops, Underway, idle
<1>6. RunningIsKnown'
  BY <1>2 DEF IInv, RunningIsKnown, ReaderDrops, admin
<1>7. OneCloser'
  <2>1. /\ \A d \in Client \ {c} : ReaderCloser(d)' <=> ReaderCloser(d)
        /\ closed[c] => ~ReaderCloser(c)'
        /\ \A d \in Client : RunCloser(d)' <=> RunCloser(d)
        /\ \A d \in Client, b \in Broadcaster : WorkerCloser(b, d)' <=> WorkerCloser(b, d)
    BY DEF IInv, TypeOK, ReaderDrops, ReaderGoes, admin, ReaderCloser, RunCloser, WorkerCloser
  <2>2. CASE closed[c]
    BY <2>1, <2>2, SwappedBefore DEF IInv, ReaderDrops, channels
  <2>3. CASE ~closed[c]
    <3>1. ~RunCloser(c) /\ \A b \in Broadcaster : ~WorkerCloser(b, c)
      BY <2>3 DEF IInv, OneCloser
    <3> QED
      BY <2>1, <2>3, <3>1, SwappedFirst DEF IInv, ReaderDrops, channels
  <2> QED
    BY <2>2, <2>3
<1> QED
  BY <1>1, <1>4, <1>5, <1>6, <1>7 DEF ReaderDrops, admin, IInv, BusyWithTarget,
     RegistryIsTaken, SendIsClosedOnce

LEMMA ReaderClosesIInv ==
  ASSUME IInv, Alive, NEW c \in Client, ReaderCloses(c)
  PROVE  IInv'
<1>1. /\ ReaderCloser(c) /\ CloseSend(c) /\ closed' = closed /\ ~ReaderCloser(c)'
      /\ \A d \in Client \ {c} : ReaderCloser(d)' <=> ReaderCloser(d)
      /\ \A d \in Client : RunCloser(d)' <=> RunCloser(d)
      /\ \A d \in Client, b \in Broadcaster : WorkerCloser(b, d)' <=> WorkerCloser(b, d)
  BY DEF IInv, TypeOK, ReaderCloses, ReaderGoes, admin, ReaderCloser, RunCloser, WorkerCloser
<1>2. /\ closed[c] /\ ~sendClosed[c] /\ ~RunCloser(c)
      /\ \A b \in Broadcaster : ~WorkerCloser(b, c)
  BY <1>1 DEF IInv, OneCloser
<1>3. /\ OneCloser' /\ SendIsClosedOnce' /\ crashed' = crashed
      /\ sendClosed' \in [Client -> BOOLEAN]
  BY <1>1, <1>2, ClosedByCloser DEF IInv
<1>4. TypeOK'
  BY <1>3 DEF IInv, TypeOK, ReaderCloses, ReaderGoes, ReaderState, admin
<1>5. \A d \in Client : Leaving(d)' => Leaving(d)
  BY DEF IInv, TypeOK, Leaving, ReaderCloses, ReaderGoes, ReaderState, admin
<1> QED
  BY <1>3, <1>4, <1>5 DEF ReaderCloses, admin, IInv, BusyWithTarget, LeaversAreClosed,
     RegistryIsTaken, RunningIsKnown, ServedOrClosed

(* Whoever leaves has closed the client before.                            *)
LEMMA EnqueuedIsClosed ==
  ASSUME IInv, NEW c \in Client, EnqueueUnregister(c), closed[c]
  PROVE  /\ unregisterCh' \in Seq(Client) /\ Len(unregisterCh') <= AdminBuffer
         /\ \A d \in Elements(unregisterCh') : closed[d]
<1>1. CASE unregisterCh' = unregisterCh
  BY <1>1, ChannelTypes, QueuedAreClients
<1>2. CASE Len(unregisterCh) < AdminBuffer /\ unregisterCh' = Append(unregisterCh, c)
  BY <1>2, AppendElements, Capacities, ChannelTypes, QueuedAreClients
<1> QED
  BY <1>1, <1>2 DEF EnqueueUnregister

LEMMA ReaderLeavesIInv ==
  ASSUME IInv, Alive, NEW c \in Client, ReaderLeaves(c)
  PROVE  IInv'
<1>1. closed[c]
  BY DEF IInv, LeaversAreClosed, Leaving, ReaderLeaves
<1>2. /\ unregisterCh' \in Seq(Client) /\ Len(unregisterCh') <= AdminBuffer
      /\ \A d \in Elements(unregisterCh') : closed[d]
  BY <1>1, EnqueuedIsClosed DEF ReaderLeaves, channels
<1>3. TypeOK'
  BY <1>2 DEF IInv, TypeOK, ReaderLeaves, channels, ReaderGoes, ReaderState
<1>4. \A d \in Client : Leaving(d)' => Leaving(d)
  BY PumpTypes DEF Leaving, ReaderLeaves, ReaderGoes
<1>5. LeaversAreClosed'
  BY <1>2, <1>4 DEF IInv, LeaversAreClosed, ReaderLeaves, Elements
<1>6. OneCloser'
  <2>1. \A d \in Client : ReaderCloser(d)' => ReaderCloser(d)
    BY PumpTypes DEF ReaderLeaves, ReaderGoes, ReaderCloser
  <2> QED
    BY <2>1, NoNewCloser DEF IInv, ReaderLeaves, channels, RunCloser, WorkerCloser
<1> QED
  BY <1>3, <1>5, <1>6 DEF ReaderLeaves, IInv, BusyWithTarget, RegistryIsTaken, RunningIsKnown,
     ServedOrClosed, SendIsClosedOnce

LEMMA WriteMessageIInv ==
  ASSUME IInv, Alive, NEW c \in Client, WriteMessage(c)
  PROVE  IInv'
<1>1. send' \in [Client -> 0 .. SendBuffer]
  <2>1. CASE send' = send
    BY <2>1, SendType
  <2>2. CASE send[c] > 0 /\ send' = [send EXCEPT ![c] = @ - 1]
    BY <2>2, SendType, Capacities
  <2> QED
    BY <2>1, <2>2 DEF WriteMessage, channels
<1>2. TypeOK'
  BY <1>1 DEF IInv, TypeOK, WriteMessage, channels, admin
<1>3. \A d \in Client : writer'[d] = "writing" => writer[d] = "writing"
  BY PumpTypes DEF WriteMessage
<1>4. OneCloser'
  BY NoNewCloser DEF IInv, WriteMessage, admin, ReaderCloser, RunCloser, WorkerCloser
<1> QED
  BY <1>2, <1>3, <1>4 DEF WriteMessage, admin, IInv, BusyWithTarget, LeaversAreClosed, Leaving,
     RegistryIsTaken, RunningIsKnown, ServedOrClosed, SendIsClosedOnce

-----------------------------------------------------------------------------
(* The steps of Run and of Shutdown.                                       *)

LEMMA RunRegisterIInv ==
  ASSUME IInv, Alive, RunRegister
  PROVE  IInv'
<1>1. /\ Head(registerCh) \in Client /\ registerCh' \in Seq(Client)
      /\ Len(registerCh') <= AdminBuffer
      /\ Elements(registerCh) = {Head(registerCh)} \union Elements(registerCh')
  BY TailElements, Capacities, ChannelTypes DEF RunRegister
<1>2. TypeOK'
  BY <1>1 DEF IInv, TypeOK, RunRegister, channels, pumps
<1>3. RunningIsKnown'
  BY <1>1 DEF IInv, RunningIsKnown, RunRegister, pumps
<1>4. RegistryIsTaken'
  BY DEF RegistryIsTaken, RunRegister
<1>5. OneCloser'
  BY NoNewCloser DEF IInv, RunRegister, pumps, channels, ReaderCloser, RunCloser, WorkerCloser
<1> QED
  BY <1>2, <1>3, <1>4, <1>5 DEF RunRegister, pumps, IInv, BusyWithTarget, LeaversAreClosed,
     Leaving, ServedOrClosed, SendIsClosedOnce

(* A client that Run takes out of the registry has been closed.            *)
LEMMA RunUnregisterIInv ==
  ASSUME IInv, Alive, RunUnregister
  PROVE  IInv'
<1>1. /\ Head(unregisterCh) \in Client /\ unregisterCh' \in Seq(Client)
      /\ Len(unregisterCh') <= AdminBuffer
      /\ Elements(unregisterCh) = {Head(unregisterCh)} \union Elements(unregisterCh')
  BY TailElements, Capacities, ChannelTypes DEF RunUnregister
<1>2. TypeOK'
  BY <1>1 DEF IInv, TypeOK, RunUnregister, channels, pumps
<1>3. closed[Head(unregisterCh)]
  BY <1>1 DEF IInv, LeaversAreClosed
<1>4. RunningIsKnown'
  BY <1>3 DEF IInv, RunningIsKnown, RunUnregister, pumps
<1>5. LeaversAreClosed'
  BY <1>1 DEF IInv, LeaversAreClosed, Leaving, RunUnregister, pumps
<1>6. RegistryIsTaken'
  BY DEF RegistryIsTaken, RunUnregister
<1>7. OneCloser'
  BY NoNewCloser DEF IInv, RunUnregister, pumps, channels, ReaderCloser, RunCloser,
     WorkerCloser
<1> QED
  BY <1>2, <1>4, <1>5, <1>6, <1>7 DEF RunUnregister, pumps, IInv, BusyWithTarget,
     ServedOrClosed, SendIsClosedOnce

LEMMA ShutdownIInv ==
  ASSUME IInv, Alive, Shutdown
  PROVE  IInv'
<1>1. TypeOK'
  BY DEF IInv, TypeOK, Shutdown, channels, pumps
<1>2. OneCloser'
  BY NoNewCloser DEF IInv, Shutdown, pumps, channels, ReaderCloser, RunCloser, WorkerCloser
<1> QED
  BY <1>1, <1>2 DEF Shutdown, pumps, IInv, BusyWithTarget, LeaversAreClosed, Leaving,
     RegistryIsTaken, RunningIsKnown, ServedOrClosed, SendIsClosedOnce

LEMMA RunCancelledIInv ==
  ASSUME IInv, Alive, RunCancelled
  PROVE  IInv'
<1>1. /\ run' = [pc |-> "closing", left |-> registry, at |-> nobody]
      /\ registry' = {} /\ run.pc = "select"
  BY DEF RunCancelled
<1>2. run' \in RunState
  BY <1>1, HubTypes DEF RunState
<1>3. TypeOK'
  BY <1>2 DEF IInv, TypeOK, RunCancelled, channels, pumps
<1>4. RunningIsKnown'
  BY <1>1 DEF IInv, RunningIsKnown, RunCancelled, pumps
<1>5. RegistryIsTaken'
  BY <1>1 DEF RegistryIsTaken
<1>6. OneCloser'
  <2>1. \A d \in Client : ~RunCloser(d)'
    BY <1>1, HubAssumption DEF RunCloser
  <2> QED
    BY <2>1, NoNewCloser DEF IInv, RunCancelled, pumps, channels, ReaderCloser, WorkerCloser
<1> QED
  BY <1>3, <1>4, <1>5, <1>6 DEF RunCancelled, pumps, IInv, BusyWithTarget, LeaversAreClosed,
     Leaving, ServedOrClosed, SendIsClosedOnce

(* closeAll passes on to the next client only when this one is closed.     *)
LEMMA CloseNextIInv ==
  ASSUME IInv, Alive, NEW c \in Client, CloseNext(c)
  PROVE  IInv'
<1> DEFINE at == IF closed[c] THEN nobody ELSE c
<1>1. run \in [pc : {"closing"}, left : SUBSET Client, at : Client \union {nobody}]
  BY DEF IInv, TypeOK, RunState, CloseNext
<1>2. /\ run' \in [pc : {"closing"}, left : SUBSET Client, at : Client \union {nobody}]
      /\ run'.left = run.left \ {c} /\ run'.at = at
  BY <1>1 DEF CloseNext
<1>3. /\ closed' \in [Client -> BOOLEAN] /\ closed'[c]
      /\ \A d \in Client : closed[d] => closed'[d]
  BY DEF IInv, TypeOK, CloseNext, Swap
<1>4. TypeOK'
  BY <1>2, <1>3 DEF IInv, TypeOK, RunState, CloseNext, pumps, channels
<1>5. LeaversAreClosed'
  <2>1. \A d \in Client : Leaving(d)' => closed'[d]
    BY <1>3 DEF IInv, LeaversAreClosed, Leaving, CloseNext, pumps
  <2>2. \A d \in Elements(unregisterCh) : closed'[d]
    BY <1>3, QueuedAreClients
  <2> QED
    BY <2>1, <2>2 DEF LeaversAreClosed, CloseNext, Elements
<1>6. RegistryIsTaken'
  BY DEF IInv, RegistryIsTaken, CloseNext
<1>7. RunningIsKnown'
  BY <1>2, <1>3 DEF IInv, RunningIsKnown, CloseNext, pumps
<1>8. ServedOrClosed'
  BY <1>3 DEF IInv, TypeOK, ServedOrClosed, CloseNext, Underway, idle
<1>9. OneCloser'
  <2>1. /\ \A d \in Client : ReaderCloser(d)' <=> ReaderCloser(d)
        /\ \A d \in Client, b \in Broadcaster : WorkerCloser(b, d)' <=> WorkerCloser(b, d)
    BY DEF CloseNext, pumps, ReaderCloser, WorkerCloser
  <2>2. /\ \A d \in Client \ {c} : ~RunCloser(d)'
        /\ closed[c] => ~RunCloser(c)'
    BY <1>2, HubAssumption DEF RunCloser
  <2>3. CASE closed[c]
    BY <2>1, <2>2, <2>3, SwappedBefore DEF IInv, CloseNext, channels
  <2>4. CASE ~closed[c]
    <3>1. ~ReaderCloser(c) /\ \A b \in Broadcaster : ~WorkerCloser(b, c)
      BY <2>4 DEF IInv, OneCloser
    <3> QED
      BY <2>1, <2>2, <2>4, <3>1, SwappedFirst DEF IInv, CloseNext, channels
  <2> QED
    BY <2>3, <2>4
<1> QED
  BY <1>4, <1>5, <1>6, <1>7, <1>8, <1>9 DEF CloseNext, pumps, IInv, BusyWithTarget,
     SendIsClosedOnce

LEMMA CloseOneIInv ==
  ASSUME IInv, Alive, NEW c \in Client, CloseOne(c)
  PROVE  IInv'
<1>1. /\ run \in [pc : {"closing"}, left : SUBSET Client, at : Client \union {nobody}]
      /\ run.at = c
  BY DEF IInv, TypeOK, RunState, CloseOne
<1>2. /\ run' \in [pc : {"closing"}, left : SUBSET Client, at : Client \union {nobody}]
      /\ run'.left = run.left /\ run'.at = nobody /\ run'.pc = "closing" /\ run.pc = "closing"
  BY <1>1 DEF CloseOne
<1>3. /\ RunCloser(c) /\ CloseSend(c) /\ closed' = closed
      /\ \A d \in Client : ~RunCloser(d)'
      /\ \A d \in Client : ReaderCloser(d)' <=> ReaderCloser(d)
      /\ \A d \in Client, b \in Broadcaster : WorkerCloser(b, d)' <=> WorkerCloser(b, d)
  BY <1>1, <1>2, HubAssumption DEF CloseOne, pumps, ReaderCloser, RunCloser, WorkerCloser
<1>4. /\ closed[c] /\ ~sendClosed[c] /\ ~ReaderCloser(c)
      /\ \A b \in Broadcaster : ~WorkerCloser(b, c)
  BY <1>3 DEF IInv, OneCloser
<1>5. /\ OneCloser' /\ SendIsClosedOnce' /\ crashed' = crashed
      /\ sendClosed' \in [Client -> BOOLEAN]
  BY <1>3, <1>4, ClosedByCloser DEF IInv
<1>6. TypeOK'
  BY <1>2, <1>5 DEF IInv, TypeOK, RunState, CloseOne, pumps
<1>7. RegistryIsTaken' /\ RunningIsKnown'
  BY <1>2 DEF IInv, RegistryIsTaken, RunningIsKnown, CloseOne, pumps
<1> QED
  BY <1>5, <1>6, <1>7 DEF CloseOne, pumps, IInv, BusyWithTarget, LeaversAreClosed, Leaving,
     Elements, ServedOrClosed

LEMMA RunDoneIInv ==
  ASSUME IInv, Alive, RunDone
  PROVE  IInv'
<1>1. run.pc = "closing" /\ run.left = {} /\ run' = [pc |-> "done"]
  BY DEF RunDone, channels
<1>2. TypeOK'
  <2>1. run' \in RunState
    BY <1>1 DEF RunState
  <2> QED
    BY <2>1 DEF IInv, TypeOK, RunDone, channels, pumps
<1>3. RegistryIsTaken' /\ RunningIsKnown'
  BY <1>1 DEF IInv, RegistryIsTaken, RunningIsKnown, RunDone, pumps
<1>4. OneCloser'
  <2>1. \A d \in Client : ~RunCloser(d)'
    BY <1>1 DEF RunCloser
  <2> QED
    BY <2>1, NoNewCloser DEF IInv, RunDone, pumps, channels, ReaderCloser, WorkerCloser
<1> QED
  BY <1>2, <1>3, <1>4 DEF RunDone, pumps, IInv, BusyWithTarget, LeaversAreClosed,
     Leaving, ServedOrClosed, SendIsClosedOnce

-----------------------------------------------------------------------------
(* The steps of Broadcast.                                                 *)

LEMMA BusyIsUnderway ==
  ASSUME IInv, NEW b \in Broadcaster,
         broadcast[b].pc \in {"next", "sending", "dropping", "closing", "leaving"}
  PROVE  broadcast[b] \in Underway
BY BroadcastType DEF idle

(* A step of worker b after which it is not about to close anything.       *)
LEMMA WorkerNoCloser ==
  ASSUME IInv, NEW b \in Broadcaster, NEW state, BroadcastGoes(b, state), state.pc # "closing",
         UNCHANGED <<closed, sendClosed, reader, run>>
  PROVE  OneCloser'
<1>1. \A a \in Broadcaster : broadcast'[a] = IF a = b THEN state ELSE broadcast[a]
  BY DEF IInv, TypeOK, BroadcastGoes
<1> QED
  BY <1>1, NoNewCloser DEF IInv, ReaderCloser, RunCloser, WorkerCloser

(* A step of worker b that keeps what is true of a worker in a Broadcast   *)
(* (good), disturbing nothing else but closed, which only grows.           *)
LEMMA WorkerIInv ==
  ASSUME IInv, Alive, Alive', NEW b \in Broadcaster, NEW state \in {idle} \union Underway,
         BroadcastGoes(b, state),
         state.pc \in {"sending", "dropping", "closing", "leaving"} => state.to \in state.left,
         state.pc \in {"closing", "leaving"} => closed'[state.to],
         state # idle => \A c \in state.missed \ state.left : closed'[c],
         closed' \in [Client -> BOOLEAN], \A c \in Client : closed[c] => closed'[c],
         TypeOK',
         \A c \in Elements(unregisterCh') : closed'[c],
         OneCloser',
         UNCHANGED <<registry, registerCh, run, reader, writer>>
  PROVE  IInv'
<1>1. broadcast' = [broadcast EXCEPT ![b] = state]
  BY DEF BroadcastGoes
<1>2. broadcast \in [Broadcaster -> {idle} \union Underway]
  BY DEF IInv, TypeOK
<1>3. broadcast'[b] = state /\ \A a \in Broadcaster \ {b} : broadcast'[a] = broadcast[a]
  BY <1>1, <1>2
<1>4. BusyWithTarget'
  BY <1>3 DEF IInv, BusyWithTarget
<1>5. ServedOrClosed'
  <2> SUFFICES ASSUME NEW a \in Broadcaster, broadcast'[a] # idle,
                      NEW c \in broadcast'[a].missed \ broadcast'[a].left
               PROVE  closed'[c]
    BY DEF ServedOrClosed
  <2>1. CASE a = b
    BY <2>1, <1>3
  <2>2. CASE a # b
    <3>1. broadcast[a] \in Underway /\ c \in broadcast[a].missed \ broadcast[a].left
      BY <2>2, <1>2, <1>3
    <3>2. c \in Client /\ closed[c]
      BY <2>2, <1>3, <3>1 DEF IInv, ServedOrClosed, Underway
    <3> QED
      BY <3>2
  <2> QED
    BY <2>1, <2>2
<1>6. \A c \in Client : Leaving(c)' => closed'[c]
  <2> SUFFICES ASSUME NEW c \in Client, Leaving(c)'
               PROVE  closed'[c]
    OBVIOUS
  <2>1. CASE reader[c].pc \in {"closing", "leaving"}
    BY <2>1 DEF IInv, LeaversAreClosed, Leaving
  <2>2. ASSUME NEW a \in Broadcaster, broadcast'[a].pc \in {"closing", "leaving"},
               broadcast'[a].to = c
        PROVE  closed'[c]
    BY <2>2, <1>3 DEF IInv, LeaversAreClosed, Leaving
  <2> QED
    BY <2>1, <2>2 DEF Leaving
<1>7. LeaversAreClosed'
  BY <1>6 DEF LeaversAreClosed
<1>8. RegistryIsTaken' /\ RunningIsKnown' /\ SendIsClosedOnce'
  BY DEF IInv, RegistryIsTaken, RunningIsKnown, Elements, SendIsClosedOnce, Alive
<1> QED
  BY <1>4, <1>5, <1>7, <1>8 DEF IInv

(* The two ways to be through with target c.                               *)
LEMMA Ticked ==
  ASSUME NEW b \in Broadcaster, broadcast[b] \in Underway, NEW c
  PROVE  LET m == broadcast[b]
             served == [m EXCEPT !.pc = "next", !.to = nobody, !.left = @ \ {c}]
             delivered == [m EXCEPT !.pc = "next", !.to = nobody, !.left = @ \ {c},
                                    !.missed = @ \ {c}]
         IN  /\ served \in Underway /\ served.pc = "next"
             /\ served.missed \ served.left \subseteq (m.missed \ m.left) \union {c}
             /\ delivered \in Underway /\ delivered.pc = "next"
             /\ delivered.missed \ delivered.left \subseteq m.missed \ m.left
BY DEF Underway

LEMMA BroadcastIInv ==
  ASSUME IInv, Alive, NEW b \in Broadcaster, Broadcast(b)
  PROVE  IInv'
<1>1. PICK sender : Start(b, sender)
  BY DEF Broadcast
<1> DEFINE state == [pc |-> "next", to |-> nobody, left |-> registry \ {sender},
                     missed |-> registry \ {sender}]
<1>2. state \in Underway /\ BroadcastGoes(b, state) /\ broadcast' = [broadcast EXCEPT ![b] = state]
  BY <1>1 DEF IInv, TypeOK, Underway, Start, BroadcastGoes
<1>3. /\ inbound' \in Seq(Client) /\ Len(inbound') <= InboundBuffer
      /\ messages' \in 0 .. MaxMessages
  <2>1. CASE inbound # <<>> /\ inbound' = Tail(inbound) /\ messages' = messages
    BY <2>1, TailElements, Capacities, ChannelTypes, HubTypes
  <2>2. CASE messages < MaxMessages /\ messages' = messages + 1 /\ inbound' = inbound
    BY <2>2, Capacities, ChannelTypes, HubTypes
  <2> QED
    BY <2>1, <2>2 DEF Broadcast
<1>4. UNCHANGED <<admin, conn, reader, writer, closed, channels, crashed>>
  BY DEF Broadcast
<1>5. TypeOK'
  BY <1>2, <1>3, <1>4 DEF IInv, TypeOK, admin, channels
<1>6. state.pc = "next" /\ state.missed \ state.left = {}
  OBVIOUS
<1>7. closed' \in [Client -> BOOLEAN] /\ \A c \in Elements(unregisterCh') : closed'[c]
  BY <1>4 DEF IInv, TypeOK, LeaversAreClosed, admin
<1> HIDE DEF state
<1>8. OneCloser'
  BY <1>2, <1>4, <1>6, WorkerNoCloser DEF admin, channels
<1> QED
  BY <1>2, <1>4, <1>5, <1>6, <1>7, <1>8, WorkerIInv DEF admin, Alive

LEMMA TrySendIInv ==
  ASSUME IInv, Alive, NEW b \in Broadcaster, NEW c \in Client, TrySend(b, c)
  PROVE  IInv'
<1> DEFINE m == broadcast[b]
           served == [m EXCEPT !.pc = "next", !.to = nobody, !.left = @ \ {c}]
           sending == [m EXCEPT !.pc = "sending", !.to = c]
<1>1. m \in Underway /\ m.pc = "next" /\ c \in m.left
  BY BusyIsUnderway DEF TrySend
<1>2. \A d \in m.missed \ m.left : closed[d]
  BY <1>1 DEF IInv, ServedOrClosed, idle, Underway
<1>3. UNCHANGED <<admin, pumps, closed, channels, messages, crashed>>
  BY DEF TrySend
<1>4. closed' \in [Client -> BOOLEAN] /\ \A d \in Elements(unregisterCh') : closed'[d]
  BY <1>3 DEF IInv, TypeOK, LeaversAreClosed, admin
<1>5. ASSUME NEW state \in Underway, BroadcastGoes(b, state)
      PROVE  TypeOK'
  BY <1>3, <1>5 DEF IInv, TypeOK, BroadcastGoes, admin, pumps, channels
<1>6. CASE closed[c]
  <2>1. BroadcastGoes(b, served)
    BY <1>6 DEF TrySend, Served
  <2>2. /\ served \in Underway /\ served.pc = "next"
        /\ \A d \in served.missed \ served.left : closed[d]
    <3>1. /\ served \in Underway /\ served.pc = "next"
          /\ served.missed \ served.left \subseteq (m.missed \ m.left) \union {c}
      BY <1>1, Ticked
    <3> QED
      BY <1>1, <1>2, <1>6, <3>1
  <2> HIDE DEF served
  <2>3. OneCloser'
    BY <2>1, <2>2, <1>3, WorkerNoCloser DEF admin, pumps, channels
  <2> QED
    BY <2>1, <2>2, <2>3, <1>3, <1>4, <1>5, WorkerIInv DEF admin, pumps, Alive
<1>7. CASE ~closed[c]
  <2>1. BroadcastGoes(b, sending)
    BY <1>7 DEF TrySend
  <2>2. /\ sending \in Underway /\ sending.pc = "sending" /\ sending.to \in sending.left
        /\ sending.missed \ sending.left = m.missed \ m.left
    BY <1>1 DEF Underway
  <2> HIDE DEF sending
  <2>3. OneCloser'
    BY <2>1, <2>2, <1>3, WorkerNoCloser DEF admin, pumps, channels
  <2> QED
    BY <2>1, <2>2, <2>3, <1>2, <1>3, <1>4, <1>5, WorkerIInv DEF admin, pumps, Alive
<1> QED
  BY <1>6, <1>7

(* What trySend sends on a channel closed meanwhile is the other panic.    *)
LEMMA PushIInv ==
  ASSUME IInv, Alive, NEW b \in Broadcaster, Push(b)
  PROVE  IInv'
<1> DEFINE m == broadcast[b]
           c == m.to
           delivered == [m EXCEPT !.pc = "next", !.to = nobody, !.left = @ \ {c},
                                  !.missed = @ \ {c}]
           dropping == [m EXCEPT !.pc = "dropping"]
<1>1. m \in Underway /\ m.pc = "sending" /\ c \in m.left /\ c \in Client
  BY BusyIsUnderway DEF IInv, BusyWithTarget, Push, Underway
<1>2. \A d \in m.missed \ m.left : closed[d]
  BY <1>1 DEF IInv, ServedOrClosed, idle, Underway
<1>3. UNCHANGED <<admin, pumps, closed, sendClosed, messages>>
  BY DEF Push
<1>4. closed' \in [Client -> BOOLEAN] /\ \A d \in Elements(unregisterCh') : closed'[d]
  BY <1>3 DEF IInv, TypeOK, LeaversAreClosed, admin
<1>5. ASSUME NEW state \in Underway, BroadcastGoes(b, state), crashed' = crashed,
             send' \in [Client -> 0 .. SendBuffer]
      PROVE  TypeOK'
  BY <1>3, <1>5 DEF IInv, TypeOK, BroadcastGoes, admin, pumps
<1>6. CASE crashed' = "send on closed channel" /\ UNCHANGED <<send, broadcast>>
  <2>1. OneCloser' /\ SendIsClosedOnce'
    BY <1>3, <1>6 DEF IInv, OneCloser, ReaderCloser, RunCloser, WorkerCloser,
       SendIsClosedOnce, admin, pumps
  <2>2. TypeOK'
    BY <1>3, <1>6 DEF IInv, TypeOK, admin, pumps
  <2> QED
    BY <1>3, <1>6, <2>1, <2>2 DEF admin, pumps, IInv, BusyWithTarget, LeaversAreClosed, Leaving,
       RegistryIsTaken, RunningIsKnown, ServedOrClosed
<1>7. CASE /\ send[c] < SendBuffer /\ send' = [send EXCEPT ![c] = @ + 1]
           /\ Delivered(b, c) /\ crashed' = crashed
  <2>1. send' \in [Client -> 0 .. SendBuffer]
    BY <1>1, <1>7, Capacities, SendType
  <2>2. BroadcastGoes(b, delivered)
    BY <1>7 DEF Delivered
  <2>3. /\ delivered \in Underway /\ delivered.pc = "next"
        /\ \A d \in delivered.missed \ delivered.left : closed[d]
    BY <1>1, <1>2, Ticked
  <2> HIDE DEF delivered, c
  <2>4. OneCloser'
    BY <2>2, <2>3, <1>3, WorkerNoCloser DEF admin, pumps
  <2> QED
    BY <2>1, <2>2, <2>3, <2>4, <1>3, <1>4, <1>5, <1>7, WorkerIInv DEF admin, pumps, Alive
<1>8. CASE BroadcastGoes(b, dropping) /\ UNCHANGED <<send, crashed>>
  <2>1. /\ dropping \in Underway /\ dropping.pc = "dropping" /\ dropping.to \in dropping.left
        /\ dropping.missed \ dropping.left = m.missed \ m.left
    BY <1>1 DEF Underway
  <2>2. send' \in [Client -> 0 .. SendBuffer]
    BY <1>8 DEF IInv, TypeOK
  <2> HIDE DEF dropping, c
  <2>3. OneCloser'
    BY <2>1, <1>3, <1>8, WorkerNoCloser DEF admin, pumps
  <2> QED
    BY <2>1, <2>2, <2>3, <1>2, <1>3, <1>4, <1>5, <1>8, WorkerIInv DEF admin, pumps, Alive
<1> QED
  BY <1>6, <1>7, <1>8 DEF Push

LEMMA DropIInv ==
  ASSUME IInv, Alive, NEW b \in Broadcaster, Drop(b)
  PROVE  IInv'
<1> DEFINE m == broadcast[b]
<1>0. PICK c \in Client : c = m.to /\ m \in Underway /\ m.pc = "dropping" /\ c \in m.left
  BY BusyIsUnderway DEF IInv, BusyWithTarget, Drop, Underway
<1> DEFINE served == [m EXCEPT !.pc = "next", !.to = nobody, !.left = @ \ {c}]
           closing == [m EXCEPT !.pc = "closing"]
<1>1. m \in Underway /\ m.pc = "dropping" /\ c \in m.left /\ c \in Client
  BY <1>0
<1>2. \A d \in m.missed \ m.left : d \in Client /\ closed[d]
  BY <1>1 DEF IInv, ServedOrClosed, idle, Underway
<1>3. Swap(c) /\ UNCHANGED <<admin, pumps, channels, messages, crashed>>
  BY <1>0 DEF Drop
<1>4. /\ closed' \in [Client -> BOOLEAN] /\ closed'[c]
      /\ \A d \in Client : closed[d] => closed'[d]
  BY <1>1, <1>3 DEF IInv, TypeOK, Swap
<1>5. \A d \in Elements(unregisterCh') : closed'[d]
  BY <1>3, <1>4, QueuedAreClients DEF admin
<1>6. ASSUME NEW state \in Underway, BroadcastGoes(b, state)
      PROVE  TypeOK'
  BY <1>3, <1>4, <1>6 DEF IInv, TypeOK, BroadcastGoes, admin, pumps, channels
<1>7. CASE closed[c]
  <2>1. BroadcastGoes(b, served)
    BY <1>0, <1>7 DEF Drop, Served
  <2>2. /\ served \in Underway /\ served.pc = "next"
        /\ \A d \in served.missed \ served.left : closed'[d]
    <3>1. /\ served \in Underway /\ served.pc = "next"
          /\ served.missed \ served.left \subseteq (m.missed \ m.left) \union {c}
      BY <1>1, Ticked
    <3> QED
      BY <1>1, <1>2, <1>4, <3>1
  <2> HIDE DEF served
  <2>3. OneCloser'
    <3>1. closed' = closed
      BY <1>3, <1>7 DEF IInv, TypeOK, Swap
    <3> QED
      BY <2>1, <2>2, <3>1, <1>3, WorkerNoCloser DEF admin, pumps, channels
  <2> QED
    BY <2>1, <2>2, <2>3, <1>3, <1>4, <1>5, <1>6, WorkerIInv DEF admin, pumps, Alive
<1>8. CASE ~closed[c]
  <2>1. BroadcastGoes(b, closing)
    BY <1>0, <1>8 DEF Drop
  <2>2. /\ closing \in Underway /\ closing.pc = "closing" /\ closing.to = c
        /\ closing.to \in closing.left /\ closed'[closing.to]
        /\ closing.missed \ closing.left = m.missed \ m.left
    BY <1>0, <1>1, <1>4 DEF Underway
  <2> HIDE DEF closing
  <2>3. OneCloser'
    <3>1. \A a \in Broadcaster : broadcast'[a] = IF a = b THEN closing ELSE broadcast[a]
      BY <2>1 DEF IInv, TypeOK, BroadcastGoes
    <3>2. /\ \A d \in Client : ReaderCloser(d)' <=> ReaderCloser(d)
          /\ \A d \in Client : RunCloser(d)' <=> RunCloser(d)
      BY <1>3 DEF admin, pumps, ReaderCloser, RunCloser
    <3>4. /\ \A d \in Client \ {c}, a \in Broadcaster : WorkerCloser(a, d)' => WorkerCloser(a, d)
          /\ \A a \in Broadcaster \ {b} : WorkerCloser(a, c)' => WorkerCloser(a, c)
      <4>1. ASSUME NEW d \in Client, NEW a \in Broadcaster, a # b
            PROVE  WorkerCloser(a, d)' <=> WorkerCloser(a, d)
        BY <3>1, <4>1 DEF WorkerCloser
      <4>2. ASSUME NEW d \in Client \ {c}
            PROVE  ~WorkerCloser(b, d)'
        BY <2>2, <3>1, <4>2 DEF WorkerCloser
      <4> QED
        BY <4>1, <4>2
    <3>3. /\ ~ReaderCloser(c) /\ ~RunCloser(c)
          /\ \A a \in Broadcaster : ~WorkerCloser(a, c)
      BY <1>1, <1>8 DEF IInv, OneCloser
    <3>5. /\ ~ReaderCloser(c)' /\ ~RunCloser(c)'
          /\ \A a \in Broadcaster \ {b} : ~WorkerCloser(a, c)'
      BY <1>1, <3>2, <3>3, <3>4
    <3>6. \A a \in Broadcaster : WorkerCloser(a, c)' => a = b
      BY <3>5
    <3>7. \A a \in Broadcaster : WorkerCloser(a, c)' =>
            /\ ~ReaderCloser(c)' /\ ~RunCloser(c)'
            /\ \A e \in Broadcaster \ {a} : ~WorkerCloser(e, c)'
      BY <3>5, <3>6
    <3>8. OneCloser /\ TypeOK /\ sendClosed' = sendClosed
      BY <1>3 DEF IInv, channels
    <3> QED
      BY <1>1, <1>3, <1>8, <3>2, <3>4, <3>5, <3>7, <3>8, SwappedFirst
  <2> QED
    BY <2>1, <2>2, <2>3, <1>2, <1>3, <1>4, <1>5, <1>6, WorkerIInv DEF admin, pumps, Alive
<1> QED
  BY <1>7, <1>8

LEMMA CloseIInv ==
  ASSUME IInv, Alive, NEW b \in Broadcaster, Close(b)
  PROVE  IInv'
<1> DEFINE m == broadcast[b]
           leaving == [m EXCEPT !.pc = "leaving"]
<1>0. PICK c \in Client : c = m.to /\ m \in Underway /\ m.pc = "closing" /\ c \in m.left
  BY BusyIsUnderway DEF IInv, BusyWithTarget, Close, Underway
<1>1. m \in Underway /\ m.pc = "closing" /\ c \in m.left /\ c \in Client
  BY <1>0
<1>2. \A d \in m.missed \ m.left : d \in Client /\ closed[d]
  BY <1>1 DEF IInv, ServedOrClosed, idle, Underway
<1>3. /\ CloseSend(c) /\ BroadcastGoes(b, leaving)
      /\ UNCHANGED <<admin, pumps, closed, send, messages>>
  BY <1>0 DEF Close
<1>4. /\ leaving \in Underway /\ leaving.pc = "leaving" /\ leaving.to = c
      /\ leaving.to \in leaving.left
      /\ leaving.missed \ leaving.left = m.missed \ m.left
  BY <1>0, <1>1 DEF Underway
<1>5. WorkerCloser(b, c)
  BY <1>0 DEF WorkerCloser
<1> HIDE DEF leaving
<1>6. /\ closed[c] /\ ~sendClosed[c] /\ ~ReaderCloser(c) /\ ~RunCloser(c)
      /\ \A a \in Broadcaster \ {b} : ~WorkerCloser(a, c)
  BY <1>1, <1>5 DEF IInv, OneCloser
<1>7. \A a \in Broadcaster : broadcast'[a] = IF a = b THEN leaving ELSE broadcast[a]
  BY <1>3 DEF IInv, TypeOK, BroadcastGoes
<1>8. /\ \A d \in Client : ReaderCloser(d)' <=> ReaderCloser(d)
      /\ \A d \in Client : RunCloser(d)' <=> RunCloser(d)
      /\ \A d \in Client, a \in Broadcaster : WorkerCloser(a, d)' => WorkerCloser(a, d)
      /\ ~WorkerCloser(b, c)'
  BY <1>3, <1>4, <1>7 DEF admin, pumps, ReaderCloser, RunCloser, WorkerCloser
<1>9. /\ OneCloser' /\ SendIsClosedOnce' /\ crashed' = crashed
      /\ sendClosed' \in [Client -> BOOLEAN]
  <2>1. ~ReaderCloser(c)' /\ ~RunCloser(c)' /\ \A a \in Broadcaster : ~WorkerCloser(a, c)'
    BY <1>1, <1>6, <1>8
  <2>2. OneCloser /\ SendIsClosedOnce /\ TypeOK
    BY DEF IInv
  <2> QED
    BY <1>1, <1>3, <1>6, <1>8, <2>1, <2>2, ClosedByCloser
<1>10. TypeOK'
  BY <1>3, <1>4, <1>9 DEF IInv, TypeOK, BroadcastGoes, admin, pumps
<1>11. closed' \in [Client -> BOOLEAN] /\ \A d \in Elements(unregisterCh') : closed'[d]
  BY <1>3 DEF IInv, TypeOK, LeaversAreClosed, admin
<1> QED
  BY <1>2, <1>3, <1>4, <1>6, <1>9, <1>10, <1>11, WorkerIInv DEF admin, pumps, Alive

LEMMA LeaveIInv ==
  ASSUME IInv, Alive, NEW b \in Broadcaster, Leave(b)
  PROVE  IInv'
<1> DEFINE m == broadcast[b]
           c == m.to
           served == [m EXCEPT !.pc = "next", !.to = nobody, !.left = @ \ {c}]
<1>1. m \in Underway /\ m.pc = "leaving" /\ c \in m.left /\ c \in Client
  BY BusyIsUnderway DEF IInv, BusyWithTarget, Leave, Underway
<1>2. closed[c] /\ \A d \in m.missed \ m.left : closed[d]
  BY <1>1 DEF IInv, ServedOrClosed, LeaversAreClosed, Leaving, idle, Underway
<1>3. UNCHANGED <<registry, registerCh, run, cancelled, pumps, closed, channels, messages,
                  crashed>>
  BY DEF Leave
<1>4. /\ unregisterCh' \in Seq(Client) /\ Len(unregisterCh') <= AdminBuffer
      /\ \A d \in Elements(unregisterCh') : closed[d]
  BY <1>1, <1>2, EnqueuedIsClosed DEF Leave
<1>5. BroadcastGoes(b, served)
  BY DEF Leave, Served
<1>6. /\ served \in Underway /\ served.pc = "next"
      /\ \A d \in served.missed \ served.left : closed[d]
  <2>1. /\ served \in Underway /\ served.pc = "next"
        /\ served.missed \ served.left \subseteq (m.missed \ m.left) \union {c}
    BY <1>1, Ticked
  <2> QED
    BY <1>1, <1>2, <2>1
<1> HIDE DEF served, c
<1>7. TypeOK'
  BY <1>3, <1>4, <1>5, <1>6 DEF IInv, TypeOK, BroadcastGoes, pumps, channels
<1>8. closed' \in [Client -> BOOLEAN]
  BY <1>3 DEF IInv, TypeOK
<1>9. OneCloser'
  BY <1>3, <1>5, <1>6, WorkerNoCloser DEF pumps, channels
<1> QED
  BY <1>3, <1>4, <1>5, <1>6, <1>7, <1>8, <1>9, WorkerIInv DEF pumps, Alive

LEMMA EndIInv ==
  ASSUME IInv, Alive, NEW b \in Broadcaster, End(b)
  PROVE  IInv'
<1>1. BroadcastGoes(b, idle) /\ UNCHANGED <<admin, pumps, closed, channels, messages, crashed>>
  BY DEF End
<1>2. TypeOK'
  BY <1>1 DEF IInv, TypeOK, BroadcastGoes, admin, pumps, channels
<1>3. closed' \in [Client -> BOOLEAN] /\ \A d \in Elements(unregisterCh') : closed'[d]
  BY <1>1 DEF IInv, TypeOK, LeaversAreClosed, admin
<1>4. idle.pc = "idle"
  BY DEF idle
<1>5. OneCloser'
  BY <1>1, <1>4, WorkerNoCloser DEF admin, pumps, channels
<1> QED
  BY <1>1, <1>2, <1>3, <1>4, <1>5, WorkerIInv DEF admin, pumps, Alive

-----------------------------------------------------------------------------
LEMMA NextIInv == IInv /\ [Next]_vars => IInv'
<1> SUFFICES ASSUME IInv, [Next]_vars PROVE IInv'
  OBVIOUS
<1>1. CASE UNCHANGED vars
  <2>1. TypeOK'
    BY <1>1 DEF vars, admin, pumps, channels, IInv, TypeOK
  <2>2. OneCloser'
    BY <1>1, NoNewCloser DEF vars, admin, pumps, channels, IInv, ReaderCloser, RunCloser,
       WorkerCloser
  <2> QED
    BY <1>1, <2>1, <2>2 DEF vars, admin, pumps, IInv, BusyWithTarget, LeaversAreClosed, Leaving,
       RegistryIsTaken, RunningIsKnown, ServedOrClosed, SendIsClosedOnce
<1>2. CASE Next
  <2>1. Alive
    BY <1>2 DEF Next
  <2>2. ASSUME NEW c \in Client,
               Upgrade(c) \/ Register(c) \/ Disconnect(c) \/ Reading(c) \/ WriteMessage(c)
        PROVE  IInv'
    BY <2>1, <2>2, UpgradeIInv, RegisterIInv, DisconnectIInv, ReadMessageIInv, ToInboundIInv,
       ReaderDropsIInv, ReaderClosesIInv, ReaderLeavesIInv, WriteMessageIInv DEF Reading
  <2>3. ASSUME Running \/ Shutdown
        PROVE  IInv'
    BY <2>1, <2>3, RunRegisterIInv, RunUnregisterIInv, ShutdownIInv, RunCancelledIInv,
       CloseNextIInv, CloseOneIInv, RunDoneIInv DEF Running, Closing
  <2>4. ASSUME NEW b \in Broadcaster, Broadcast(b) \/ Broadcasting(b)
        PROVE  IInv'
    BY <2>1, <2>4, BroadcastIInv, TrySendIInv, PushIInv, DropIInv, CloseIInv, LeaveIInv, EndIInv
       DEF Broadcasting
  <2> QED
    BY <1>2, <2>2, <2>3, <2>4 DEF Next
<1> QED
  BY <1>1, <1>2

(* The state has its type, and no channel of the hub holds more than it    *)
(* was made for (NewHub, HandleUpgrade).                                   *)
THEOREM HubTypeCorrect == Spec => []TypeOK
<1>1. IInv => TypeOK
  BY DEF IInv
<1> QED
  BY <1>1, InitIInv, NextIInv, PTL DEF Spec

(* No order in which readPump, the handling of slow clients and Shutdown   *)
(* swap c.closed closes c.send twice (unregister, closeAll).               *)
THEOREM SendNeverClosedTwice == Spec => []SendIsClosedOnce
<1>1. IInv => SendIsClosedOnce
  BY DEF IInv
<1> QED
  BY <1>1, InitIInv, NextIInv, PTL DEF Spec

(* A target that Broadcast has dealt with has got the message or has been  *)
(* disconnected (Broadcast, trySend).                                      *)
THEOREM BroadcastIsNotSilent == Spec => []ServedOrClosed
<1>1. IInv => ServedOrClosed
  BY DEF IInv
<1> QED
  BY <1>1, InitIInv, NextIInv, PTL DEF Spec

(* When Shutdown returns, the registry is empty, and the only connections  *)
(* left open are those Run never registered (Shutdown, closeAll).          *)
THEOREM ShutdownClosesRegistered == Spec => []ShutdownMissesOnlyQueued
<1>1. IInv => ShutdownMissesOnlyQueued
  BY DEF IInv, RegistryIsTaken, RunningIsKnown, ShutdownMissesOnlyQueued, Elements
<1> QED
  BY <1>1, InitIInv, NextIInv, PTL DEF Spec
=============================================================================
