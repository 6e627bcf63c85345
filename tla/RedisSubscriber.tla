-------------------------- MODULE RedisSubscriber --------------------------
(***************************************************************************)
(* internal/redis/subscriber.go: the subscriber that turns the messages of *)
(* Redis channels into deltas on a Go channel.                             *)
(*                                                                         *)
(* Subscribe and Unsubscribe call Redis while they hold s.mu, Close takes  *)
(* it in the middle, run at its start.  Redis and its client library are   *)
(* external: a call does its work at Redis or does not, and returns later, *)
(* with an error whenever the work was not done and possibly when it was;  *)
(* messages arrive for the channels that the connection is subscribed to;  *)
(* a connection that is closed takes its subscriptions with it, hands out  *)
(* what it has and then ends.                                              *)
(***************************************************************************)
EXTENDS Integers, Sequences

CONSTANTS
  Doc,          \* document ids, one Redis channel each
  Caller,       \* goroutines that call Subscribe and Unsubscribe
  Closer,       \* goroutines that call Close, once each
  BufSize       \* capacity of s.out, and of the channel that run reads

VARIABLES
  pubsub,       \* s.pubsub and its connection: "none", "open" or "closed"
  subs,         \* s.subs: the documents that count as subscribed
  closed,       \* s.closed
  stopping,     \* s.stop has been closed
  calling,      \* calling[g]: the Redis call g is in, and whether its work
                \* is done at Redis; g holds s.mu
  closing,      \* closing[g]: how far the Close of g has come
  runner,       \* what run is doing
  incoming,     \* the channel run reads: for each message, is it a delta?
  out,          \* how many deltas s.out holds
  outClosed,    \* s.out has been closed
  channels,     \* external: what the connection is subscribed to
  unsure        \* history: documents whose last Redis call has failed

vars == <<pubsub, subs, closed, stopping, calling, closing, runner, incoming,
          out, outClosed, channels, unsure>>

received == <<incoming, out, outClosed, runner>>

idle == [kind |-> "idle"]

Init ==
  /\ pubsub = "none" /\ subs = {} /\ closed = FALSE /\ stopping = FALSE
  /\ calling = [g \in Caller |-> idle]
  /\ closing = [g \in Closer |-> "uncalled"]
  /\ runner = "unborn"
  /\ incoming = <<>> /\ out = 0 /\ outClosed = FALSE
  /\ channels = {} /\ unsure = {}

(* Nobody holds s.mu from one step to the next but a call to Redis.        *)
Unlocked == \A g \in Caller : calling[g] = idle

-----------------------------------------------------------------------------
(* Subscribe and Unsubscribe.  Calls that return at once change nothing.   *)

(* Mutant: the lock is not held during the call.                           *)
CallRedisUnlocked(g, kind, d) ==
  /\ calling[g] = idle
  /\ calling' = [calling EXCEPT ![g] = [kind |-> kind, doc |-> d, done |-> FALSE]]
  /\ UNCHANGED <<pubsub, subs, closed, stopping, closing, channels, unsure, received>>

CallRedis(g, kind, d) ==
  /\ Unlocked
  /\ calling' = [calling EXCEPT ![g] = [kind |-> kind, doc |-> d, done |-> FALSE]]
  /\ UNCHANGED <<pubsub, subs, closed, stopping, closing, channels, unsure, received>>

Subscribe(g, d) ==
  /\ ~closed /\ d \notin subs
  /\ CallRedis(g, IF pubsub = "none" THEN "open" ELSE "subscribe", d)

Unsubscribe(g, d) ==
  /\ pubsub # "none" /\ d \in subs
  /\ CallRedis(g, "unsubscribe", d)

(* External: Redis does what it is asked, while there is a connection.     *)
RedisDoes(g) ==
  /\ calling[g] # idle /\ ~calling[g].done /\ pubsub # "closed"
  /\ channels' = IF calling[g].kind = "unsubscribe" THEN channels \ {calling[g].doc}
                 ELSE channels \union {calling[g].doc}
  /\ calling' = [calling EXCEPT ![g].done = TRUE]
  /\ UNCHANGED <<pubsub, subs, closed, stopping, closing, unsure, received>>

(* What the last call for a document is known to have done.                *)
Note(d, succeeded) == unsure' = IF succeeded THEN unsure \ {d} ELSE unsure \union {d}

(* The first subscription makes the PubSub and starts run.  The client     *)
(* library keeps its error to itself: a failure passes for a success.      *)
Opened(g) ==
  /\ calling[g].kind = "open"
  /\ pubsub' = "open" /\ runner' = "starting"
  /\ subs' = subs \union {calling[g].doc}
  /\ Note(calling[g].doc, calling[g].done)
  /\ calling' = [calling EXCEPT ![g] = idle]
  /\ UNCHANGED <<closed, stopping, closing, channels, incoming, out, outClosed>>

Subscribed(g) ==
  /\ calling[g].kind = "subscribe" /\ calling[g].done
  /\ subs' = subs \union {calling[g].doc}
  /\ Note(calling[g].doc, TRUE)
  /\ calling' = [calling EXCEPT ![g] = idle]
  /\ UNCHANGED <<pubsub, closed, stopping, closing, channels, received>>

Unsubscribed(g) ==
  /\ calling[g].kind = "unsubscribe" /\ calling[g].done
  /\ subs' = subs \ {calling[g].doc}
  /\ Note(calling[g].doc, TRUE)
  /\ calling' = [calling EXCEPT ![g] = idle]
  /\ UNCHANGED <<pubsub, closed, stopping, closing, channels, received>>

(* An error leaves s.subs as it is, whatever has been done at Redis.       *)
CallFails(g) ==
  /\ calling[g].kind \in {"subscribe", "unsubscribe"}
  /\ Note(calling[g].doc, FALSE)
  /\ calling' = [calling EXCEPT ![g] = idle]
  /\ UNCHANGED <<pubsub, subs, closed, stopping, closing, channels, received>>

CallReturns(g) == Opened(g) \/ Subscribed(g) \/ Unsubscribed(g) \/ CallFails(g)

-----------------------------------------------------------------------------
(* Close: s.once lets the first in, the others wait until it is through.   *)

CloseLocked(g) ==
  /\ closing[g] = "uncalled" /\ Unlocked
  /\ \A h \in Closer : closing[h] = "uncalled"
  /\ closed' = TRUE
  /\ closing' = [closing EXCEPT ![g] = IF pubsub = "none" THEN "stopOnly" ELSE "stop"]
  /\ UNCHANGED <<pubsub, subs, stopping, calling, channels, unsure, received>>

CloseStop(g) ==
  /\ closing[g] \in {"stop", "stopOnly"}
  /\ stopping' = TRUE
  /\ closing' = [closing EXCEPT ![g] = IF @ = "stop" THEN "pubsub" ELSE "returned"]
  /\ UNCHANGED <<pubsub, subs, closed, calling, channels, unsure, received>>

(* ps.Close() ends every subscription of the connection.                   *)
ClosePubsub(g) ==
  /\ closing[g] = "pubsub"
  /\ pubsub' = "closed" /\ channels' = {}
  /\ closing' = [closing EXCEPT ![g] = "returned"]
  /\ UNCHANGED <<subs, closed, stopping, calling, unsure, received>>

CloseAgain(g) ==
  /\ closing[g] = "uncalled"
  /\ \E h \in Closer : closing[h] = "returned"
  /\ closing' = [closing EXCEPT ![g] = "returned"]
  /\ UNCHANGED <<pubsub, subs, closed, stopping, calling, channels, unsure, received>>

Closing(g) == CloseStop(g) \/ ClosePubsub(g)

-----------------------------------------------------------------------------
(* run.                                                                    *)

callers == <<pubsub, subs, closed, stopping, calling, closing, channels, unsure>>

RunStart ==
  /\ runner = "starting" /\ Unlocked
  /\ runner' = "waiting"
  /\ UNCHANGED <<callers, incoming, out, outClosed>>

(* A payload that is no delta is passed over.                              *)
RunReceive ==
  /\ runner = "waiting" /\ incoming # <<>>
  /\ incoming' = Tail(incoming)
  /\ runner' = IF Head(incoming) THEN "holding" ELSE "waiting"
  /\ UNCHANGED <<callers, out, outClosed>>

RunForward ==
  /\ runner = "holding" /\ out < BufSize
  /\ out' = out + 1
  /\ runner' = "waiting"
  /\ UNCHANGED <<callers, incoming, outClosed>>

(* Mutant: run does not look at s.stop while it waits to hand over.        *)
RunEndForwarding ==
  /\ \/ runner = "waiting" /\ stopping
     \/ runner = "waiting" /\ pubsub = "closed" /\ incoming = <<>>
  /\ runner' = "exited" /\ outClosed' = TRUE
  /\ UNCHANGED <<callers, incoming, out>>

(* Both selects look at s.stop; the outer one also sees the connection end.*)
(* A delta that run holds is dropped.                                      *)
RunEnd ==
  /\ \/ runner \in {"waiting", "holding"} /\ stopping
     \/ runner = "waiting" /\ pubsub = "closed" /\ incoming = <<>>
  /\ runner' = "exited" /\ outClosed' = TRUE
  /\ UNCHANGED <<callers, incoming, out>>

Run == RunReceive \/ RunForward \/ RunEnd

-----------------------------------------------------------------------------
(* Redis delivers, as far as the channel has room; the consumer of         *)
(* Messages reads, or does not.                                            *)

Deliver(isDelta) ==
  /\ pubsub = "open" /\ channels # {}
  /\ Len(incoming) < BufSize
  /\ incoming' = Append(incoming, isDelta)
  /\ UNCHANGED <<callers, out, outClosed, runner>>

Consume ==
  /\ out > 0
  /\ out' = out - 1
  /\ UNCHANGED <<callers, incoming, outClosed, runner>>

Next ==
  \/ \E g \in Caller :
       \/ \E d \in Doc : Subscribe(g, d) \/ Unsubscribe(g, d)
       \/ RedisDoes(g) \/ CallReturns(g)
  \/ \E g \in Closer : CloseLocked(g) \/ Closing(g) \/ CloseAgain(g)
  \/ RunStart \/ Run
  \/ \E isDelta \in BOOLEAN : Deliver(isDelta)
  \/ Consume

Spec == Init /\ [][Next]_vars

(* Calls to Redis return and goroutines run; sync.Mutex serves those who   *)
(* wait in turn.  Nobody has to call anything, and nobody has to read.     *)
Fairness ==
  /\ \A g \in Caller : WF_vars(CallReturns(g))
  /\ \A g \in Closer : WF_vars(Closing(g))
  /\ SF_vars(RunStart)
  /\ WF_vars(Run)

FairSpec == Spec /\ Fairness

-----------------------------------------------------------------------------
(* Properties.                                                             *)

(* After Close, whoever ranges over Messages comes to an end, although run *)
(* may be holding a delta that nobody takes, may not have started, or may  *)
(* be waiting for a lock: provided somebody had subscribed.  Without that  *)
(* no run was started, and the channel is never closed (Close, run).       *)
MessagesEnd == <>[](stopping /\ pubsub # "none" => outClosed)

CalledAbout(d) == \E g \in Caller : calling[g] # idle /\ calling[g].doc = d

(* While the connection stands, s.subs holds just the documents that it is *)
(* subscribed to, but for one that a call is about and those whose last    *)
(* call has failed, whichever calls and closes run into each other.  The   *)
(* failure of the first Subscribe is the one that its caller never hears   *)
(* of, and that no later Subscribe repairs (Subscribe, Unsubscribe, Close).*)
SubscribedUnlessCallFailed ==
  pubsub = "open" =>
    \A d \in Doc \ unsure : CalledAbout(d) \/ (d \in subs <=> d \in channels)
=============================================================================
