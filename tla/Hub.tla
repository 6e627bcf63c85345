-------------------------------- MODULE Hub --------------------------------
(***************************************************************************)
(* The WebSocket hub of internal/websocket: the registry of a document's   *)
(* clients, the goroutine that owns it (Run), each client's two pumps, and *)
(* the workers that call Broadcast.                                        *)
(*                                                                         *)
(* One document; clients of others share only the two channels to Run.     *)
(* Whoever disconnects a client, its readPump, a Broadcast that finds its  *)
(* buffer full, or closeAll, first swaps c.closed and then closes c.send:  *)
(* two steps, between which the others go on.                              *)
(***************************************************************************)
EXTENDS Integers, Sequences, FiniteSets

Seqs == INSTANCE SequencesExt

CONSTANTS
  Client,          \* the connections that will be made
  Broadcaster,     \* the workers that run Broadcast
  SendBuffer,      \* capacity of c.send
  AdminBuffer,     \* capacity of h.registerCh and of h.unregisterCh
  InboundBuffer,   \* capacity of h.inbound
  MaxMessages      \* bound: how many messages there are in all

nobody == "nobody"      \* the SenderID of a delta from another node

ASSUME HubAssumption ==
  /\ nobody \notin Client
  /\ {SendBuffer, AdminBuffer, InboundBuffer} \subseteq Nat \ {0}
  /\ MaxMessages \in Nat

VARIABLES
  registry,        \* h.clients of the document
  registerCh, unregisterCh,
  inbound,         \* h.inbound, each message told by its SenderID
  cancelled,       \* h.ctx
  run,             \* what Run is doing
  conn,            \* conn[c]: the socket of c, "none" before the upgrade
  reader,          \* reader[c]: c's HandleUpgrade and then its readPump
  writer,          \* writer[c]: c's writePump
  closed,          \* closed[c]: c.closed
  send,            \* send[c]: how many messages are in c.send
  sendClosed,      \* sendClosed[c]: c.send has been closed
  broadcast,       \* broadcast[b]: the Broadcast that b is executing
  messages,        \* how many messages there have been
  crashed          \* the panic of a goroutine, "no" before there is one

admin == <<registry, registerCh, unregisterCh, run, cancelled>>
pumps == <<conn, reader, writer, inbound>>
channels == <<send, sendClosed>>
vars == <<admin, pumps, closed, channels, broadcast, messages, crashed>>

idle == [pc |-> "idle"]

Init ==
  /\ registry = {} /\ registerCh = <<>> /\ unregisterCh = <<>>
  /\ run = [pc |-> "select"] /\ cancelled = FALSE
  /\ conn = [c \in Client |-> "none"]
  /\ reader = [c \in Client |-> idle]
  /\ writer = [c \in Client |-> "idle"]
  /\ inbound = <<>>
  /\ closed = [c \in Client |-> FALSE]
  /\ send = [c \in Client |-> 0]
  /\ sendClosed = [c \in Client |-> FALSE]
  /\ broadcast = [b \in Broadcaster |-> idle]
  /\ messages = 0
  /\ crashed = "no"

-----------------------------------------------------------------------------
(* Disconnecting a client.                                                 *)

(* c.closed.Swap(true): only who finds FALSE goes on to close c.send.      *)
Swap(c) == closed' = [closed EXCEPT ![c] = TRUE]

(* close(c.send), which panics if that has been done before.               *)
CloseSend(c) ==
  /\ sendClosed' = [sendClosed EXCEPT ![c] = TRUE]
  /\ crashed' = IF sendClosed[c] THEN "close of closed channel" ELSE crashed

-----------------------------------------------------------------------------
(* HandleUpgrade.                                                          *)

ReaderGoes(c, state) == reader' = [reader EXCEPT ![c] = state]

Upgrade(c) ==
  /\ conn[c] = "none"
  /\ conn' = [conn EXCEPT ![c] = "open"]
  /\ ReaderGoes(c, [pc |-> "registering"])
  /\ UNCHANGED <<admin, writer, inbound, closed, channels, broadcast, messages, crashed>>

(* register blocks while registerCh is full; then the pumps start.         *)
Register(c) ==
  /\ reader[c].pc = "registering" /\ Len(registerCh) < AdminBuffer
  /\ registerCh' = Append(registerCh, c)
  /\ ReaderGoes(c, [pc |-> "reading"])
  /\ writer' = [writer EXCEPT ![c] = "writing"]
  /\ UNCHANGED <<registry, unregisterCh, run, cancelled, conn, inbound,
                 closed, channels, broadcast, messages, crashed>>

-----------------------------------------------------------------------------
(* The socket and the pumps of a client.                                   *)

(* The peer goes away, or misses its pongs.                                *)
Disconnect(c) ==
  /\ conn[c] = "open"
  /\ conn' = [conn EXCEPT ![c] = "broken"]
  /\ UNCHANGED <<admin, reader, writer, inbound, closed, channels, broadcast, messages, crashed>>

(* readPump: a frame arrives, or an error ends the pump.                   *)
ReadMessage(c) ==
  /\ reader[c].pc = "reading"
  /\ \/ /\ conn[c] = "open" /\ messages < MaxMessages
        /\ messages' = messages + 1
        /\ ReaderGoes(c, [pc |-> "sending"])
     \/ /\ conn[c] = "broken"
        /\ ReaderGoes(c, [pc |-> "dropping"])
        /\ UNCHANGED messages
  /\ UNCHANGED <<admin, conn, writer, inbound, closed, channels, broadcast, crashed>>

(* readPump: c.hub.inbound <- msg.                                         *)
ToInbound(c) ==
  /\ reader[c].pc = "sending" /\ Len(inbound) < InboundBuffer
  /\ inbound' = Append(inbound, c)
  /\ ReaderGoes(c, [pc |-> "reading"])
  /\ UNCHANGED <<admin, conn, writer, closed, channels, broadcast, messages, crashed>>

(* readPump's deferred unregister: swap, close, and then the channel.      *)
ReaderDrops(c) ==
  /\ reader[c].pc = "dropping"
  /\ Swap(c)
  /\ ReaderGoes(c, [pc |-> IF closed[c] THEN "gone" ELSE "closing"])
  /\ UNCHANGED <<admin, conn, writer, inbound, channels, broadcast, messages, crashed>>

ReaderCloses(c) ==
  /\ reader[c].pc = "closing"
  /\ CloseSend(c)
  /\ ReaderGoes(c, [pc |-> "leaving"])
  /\ UNCHANGED <<admin, conn, writer, inbound, closed, send, broadcast, messages>>

(* Mutant: unregister does not wait for room in the channel.               *)
EnqueueUnregisterOrDrop(c) ==
  unregisterCh' =
    IF Len(unregisterCh) < AdminBuffer THEN Append(unregisterCh, c) ELSE unregisterCh

(* unregister: h.unregisterCh <- c, unless the hub has been shut down.     *)
EnqueueUnregister(c) ==
  \/ /\ Len(unregisterCh) < AdminBuffer
     /\ unregisterCh' = Append(unregisterCh, c)
  \/ /\ cancelled
     /\ UNCHANGED unregisterCh

ReaderLeaves(c) ==
  /\ reader[c].pc = "leaving"
  /\ EnqueueUnregister(c)
  /\ ReaderGoes(c, [pc |-> "gone"])
  /\ UNCHANGED <<registry, registerCh, run, cancelled, conn, writer, inbound,
                 closed, channels, broadcast, messages, crashed>>

(* writePump: write the next message, or a ping now and then; once c.send  *)
(* is closed and drained, or when a write fails, close the socket.         *)
WriteMessage(c) ==
  /\ writer[c] = "writing"
  /\ \/ /\ send[c] > 0 /\ conn[c] = "open"
        /\ send' = [send EXCEPT ![c] = @ - 1]
        /\ UNCHANGED <<conn, writer>>
     \/ /\ send[c] > 0 /\ conn[c] = "broken"
        /\ send' = [send EXCEPT ![c] = @ - 1]
        /\ writer' = [writer EXCEPT ![c] = "gone"]
        /\ UNCHANGED conn
     \/ /\ conn[c] = "broken"
        /\ writer' = [writer EXCEPT ![c] = "gone"]
        /\ UNCHANGED <<conn, send>>
     \/ /\ send[c] = 0 /\ sendClosed[c]
        /\ conn' = [conn EXCEPT ![c] = "broken"]
        /\ writer' = [writer EXCEPT ![c] = "gone"]
        /\ UNCHANGED send
  /\ UNCHANGED <<admin, reader, inbound, closed, sendClosed, broadcast, messages,
                 crashed>>

-----------------------------------------------------------------------------
(* Run and Shutdown.                                                       *)

RunRegister ==
  /\ run.pc = "select" /\ registerCh # <<>>
  /\ registry' = registry \union {Head(registerCh)}
  /\ registerCh' = Tail(registerCh)
  /\ UNCHANGED <<unregisterCh, run, cancelled, pumps, closed, channels, broadcast,
                 messages, crashed>>

RunUnregister ==
  /\ run.pc = "select" /\ unregisterCh # <<>>
  /\ registry' = registry \ {Head(unregisterCh)}
  /\ unregisterCh' = Tail(unregisterCh)
  /\ UNCHANGED <<registerCh, run, cancelled, pumps, closed, channels, broadcast,
                 messages, crashed>>

Shutdown ==
  /\ ~cancelled
  /\ cancelled' = TRUE
  /\ UNCHANGED <<registry, registerCh, unregisterCh, run, pumps, closed, channels,
                 broadcast, messages, crashed>>

(* Mutant: Run returns without closing the clients.                        *)
RunReturns ==
  /\ run.pc = "select" /\ cancelled
  /\ run' = [pc |-> "closing", left |-> {}, at |-> nobody]
  /\ UNCHANGED <<registry, registerCh, unregisterCh, cancelled, pumps,
                 closed, channels, broadcast, messages, crashed>>

(* closeAll empties the registry under the lock.                           *)
RunCancelled ==
  /\ run.pc = "select" /\ cancelled
  /\ run' = [pc |-> "closing", left |-> registry, at |-> nobody]
  /\ registry' = {}
  /\ UNCHANGED <<registerCh, unregisterCh, cancelled, pumps, closed, channels,
                 broadcast, messages, crashed>>

(* Mutant: closeAll closes c.send whatever the swap says.                  *)
SwapForNothing(c) ==
  /\ run.pc = "closing" /\ run.at = nobody /\ c \in run.left
  /\ Swap(c)
  /\ run' = [run EXCEPT !.left = @ \ {c}, !.at = c]
  /\ UNCHANGED <<registry, registerCh, unregisterCh, cancelled, pumps, channels,
                 broadcast, messages, crashed>>

(* closeAll goes through those it took from the registry, and closes c.send *)
(* of those that nobody else has begun to disconnect.                      *)
CloseNext(c) ==
  /\ run.pc = "closing" /\ run.at = nobody /\ c \in run.left
  /\ Swap(c)
  /\ run' = [run EXCEPT !.left = @ \ {c}, !.at = IF closed[c] THEN nobody ELSE c]
  /\ UNCHANGED <<registry, registerCh, unregisterCh, cancelled, pumps, channels,
                 broadcast, messages, crashed>>

(* Mutant: closeAll waits until the client has got what is buffered.       *)
CloseDrained(c) ==
  /\ run.pc = "closing" /\ run.at = c /\ send[c] = 0
  /\ CloseSend(c)
  /\ run' = [run EXCEPT !.at = nobody]
  /\ UNCHANGED <<registry, registerCh, unregisterCh, cancelled, pumps, closed,
                 send, broadcast, messages>>

CloseOne(c) ==
  /\ run.pc = "closing" /\ run.at = c
  /\ CloseSend(c)
  /\ run' = [run EXCEPT !.at = nobody]
  /\ UNCHANGED <<registry, registerCh, unregisterCh, cancelled, pumps, closed,
                 send, broadcast, messages>>

RunDone ==
  /\ run.pc = "closing" /\ run.left = {} /\ run.at = nobody
  /\ run' = [pc |-> "done"]
  /\ UNCHANGED <<registry, registerCh, unregisterCh, cancelled, pumps, closed,
                 channels, broadcast, messages, crashed>>

-----------------------------------------------------------------------------
(* Broadcast.                                                              *)

BroadcastGoes(b, state) == broadcast' = [broadcast EXCEPT ![b] = state]

(* left: the targets still to come; missed, a history: those that have not *)
(* got the message.                                                        *)
Start(b, sender) ==
  BroadcastGoes(b, [pc |-> "next", to |-> nobody, left |-> registry \ {sender},
                    missed |-> registry \ {sender}])

(* A worker broadcasts what a client has sent, or a delta of another node, *)
(* to the clients that are registered now.                                 *)
Broadcast(b) ==
  /\ broadcast[b] = idle
  /\ \/ /\ inbound # <<>>
        /\ inbound' = Tail(inbound)
        /\ Start(b, Head(inbound))
        /\ UNCHANGED messages
     \/ /\ messages < MaxMessages
        /\ messages' = messages + 1
        /\ Start(b, nobody)
        /\ UNCHANGED inbound
  /\ UNCHANGED <<admin, conn, reader, writer, closed, channels, crashed>>

(* The loop is through with target c.                                      *)
Served(b, c) ==
  BroadcastGoes(b, [broadcast[b] EXCEPT !.pc = "next", !.to = nobody,
                                        !.left = @ \ {c}])

Delivered(b, c) ==
  BroadcastGoes(b, [broadcast[b] EXCEPT !.pc = "next", !.to = nobody,
                                        !.left = @ \ {c},
                                        !.missed = @ \ {c}])

(* trySend reads c.closed.  A client that is closed is unregistered again, *)
(* which does nothing.                                                     *)
TrySend(b, c) ==
  /\ broadcast[b].pc = "next" /\ c \in broadcast[b].left
  /\ IF closed[c] THEN Served(b, c)
     ELSE BroadcastGoes(b, [broadcast[b] EXCEPT !.pc = "sending", !.to = c])
  /\ UNCHANGED <<admin, pumps, closed, channels, messages, crashed>>

(* Mutant: a message that does not fit is left out.                        *)
PushOrSkip(b) ==
  /\ broadcast[b].pc = "sending"
  /\ LET c == broadcast[b].to
     IN  \/ /\ sendClosed[c]
            /\ crashed' = "send on closed channel"
            /\ UNCHANGED <<send, broadcast>>
         \/ /\ ~sendClosed[c] /\ send[c] < SendBuffer
            /\ send' = [send EXCEPT ![c] = @ + 1]
            /\ Delivered(b, c)
            /\ UNCHANGED crashed
         \/ /\ ~sendClosed[c] /\ send[c] = SendBuffer
            /\ Served(b, c)
            /\ UNCHANGED <<send, crashed>>
  /\ UNCHANGED <<admin, pumps, closed, sendClosed, messages>>

(* trySend sends, having seen c open: on a channel that has been closed in *)
(* the meantime this panics, and a full buffer marks a slow client.        *)
Push(b) ==
  /\ broadcast[b].pc = "sending"
  /\ LET c == broadcast[b].to
     IN  \/ /\ sendClosed[c]
            /\ crashed' = "send on closed channel"
            /\ UNCHANGED <<send, broadcast>>
         \/ /\ ~sendClosed[c] /\ send[c] < SendBuffer
            /\ send' = [send EXCEPT ![c] = @ + 1]
            /\ Delivered(b, c)
            /\ UNCHANGED crashed
         \/ /\ ~sendClosed[c] /\ send[c] = SendBuffer
            /\ BroadcastGoes(b, [broadcast[b] EXCEPT !.pc = "dropping"])
            /\ UNCHANGED <<send, crashed>>
  /\ UNCHANGED <<admin, pumps, closed, sendClosed, messages>>

(* unregister of the slow client: swap, close, and then the channel.       *)
Drop(b) ==
  /\ broadcast[b].pc = "dropping"
  /\ LET c == broadcast[b].to
     IN  /\ Swap(c)
         /\ IF closed[c] THEN Served(b, c)
            ELSE BroadcastGoes(b, [broadcast[b] EXCEPT !.pc = "closing"])
  /\ UNCHANGED <<admin, pumps, channels, messages, crashed>>

Close(b) ==
  /\ broadcast[b].pc = "closing"
  /\ CloseSend(broadcast[b].to)
  /\ BroadcastGoes(b, [broadcast[b] EXCEPT !.pc = "leaving"])
  /\ UNCHANGED <<admin, pumps, closed, send, messages>>

Leave(b) ==
  /\ broadcast[b].pc = "leaving"
  /\ EnqueueUnregister(broadcast[b].to)
  /\ Served(b, broadcast[b].to)
  /\ UNCHANGED <<registry, registerCh, run, cancelled, pumps, closed, channels,
                 messages, crashed>>

End(b) ==
  /\ broadcast[b].pc = "next" /\ broadcast[b].left = {}
  /\ BroadcastGoes(b, idle)
  /\ UNCHANGED <<admin, pumps, closed, channels, messages, crashed>>

Broadcasting(b) ==
  \/ \E c \in Client : TrySend(b, c)
  \/ Push(b) \/ Drop(b) \/ Close(b) \/ Leave(b) \/ End(b)

-----------------------------------------------------------------------------
Reading(c) ==
  ReadMessage(c) \/ ToInbound(c) \/ ReaderDrops(c) \/ ReaderCloses(c) \/ ReaderLeaves(c)

Closing == RunCancelled \/ (\E c \in Client : CloseNext(c) \/ CloseOne(c)) \/ RunDone

Running == RunRegister \/ RunUnregister \/ Closing

Alive == crashed = "no"

Next ==
  /\ Alive
  /\ \/ \E c \in Client :
          Upgrade(c) \/ Register(c) \/ Disconnect(c) \/ Reading(c) \/ WriteMessage(c)
     \/ Running \/ Shutdown
     \/ \E b \in Broadcaster : Broadcast(b) \/ Broadcasting(b)

Spec == Init /\ [][Next]_vars

(* Run takes some step when it can; of the readPumps that disconnect their *)
(* clients some one goes on, and gets its turn when they are blocked on a  *)
(* channel, until none is left; and so does each Broadcast.  Sockets need  *)
(* not be fast: a WriteMessage may take for ever.  And nobody has to       *)
(* connect, to send or to shut down.                                       *)
FairSpec ==
  /\ Spec
  /\ WF_vars(Alive /\ Running)
  /\ SF_vars(Alive /\ \E c \in Client : ReaderCloses(c) \/ ReaderLeaves(c))
  /\ \A b \in Broadcaster : SF_vars(Alive /\ Broadcasting(b))

-----------------------------------------------------------------------------
(* Properties.                                                             *)

(* c.send is never closed twice, however the two ends of a client, the     *)
(* handling of slow clients and Shutdown come together: of all that swap   *)
(* c.closed one goes on to close (unregister, closeAll).  What can panic   *)
(* is trySend, when c.send is closed after it has read c.closed.           *)
SendIsClosedOnce == crashed # "close of closed channel"

(* Broadcast passes over no target in silence: one that has been dealt     *)
(* with has got the message or has been disconnected (Broadcast, trySend). *)
ServedOrClosed ==
  \A b \in Broadcaster : broadcast[b] # idle =>
    \A c \in broadcast[b].missed \ broadcast[b].left : closed[c]

(* When Shutdown returns, the hub holds on to no client, and the only       *)
(* connections it has not closed are those that Run never registered: their *)
(* pumps run on, for register does not wait for Run (register, closeAll).  *)
ShutdownMissesOnlyQueued ==
  run.pc = "done" =>
    /\ registry = {}
    /\ \A c \in Client : writer[c] = "writing" =>
         closed[c] \/ \E i \in 1 .. Len(registerCh) : registerCh[i] = c

Leaving(c) ==
  \/ reader[c].pc \in {"closing", "leaving"}
  \/ \E b \in Broadcaster :
       broadcast[b].pc \in {"closing", "leaving"} /\ broadcast[b].to = c

(* A registered client that is disconnected, by itself or for being slow,  *)
(* leaves the registry, however many leave at once (unregister, Run).      *)
LeaversAreRemoved ==
  \A c \in Client : c \in registry /\ Leaving(c) ~> c \notin registry \/ ~Alive

(* Nothing waits for a slow client: a Broadcast comes to its end although  *)
(* no client reads, and so does Shutdown.                                  *)
NobodyWaitsForClients ==
  /\ \A b \in Broadcaster : []<>(broadcast[b] = idle \/ ~Alive)
  /\ <>[](cancelled => run.pc = "done" \/ ~Alive)
=============================================================================
