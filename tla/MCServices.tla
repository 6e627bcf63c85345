----------------------------- MODULE MCServices -----------------------------
(***************************************************************************)
(* Small instances of the worker pool, the Redis subscriber and the        *)
(* document repository, for TLC.  They share no state: a behaviour         *)
(* exercises one of them and leaves the others as they begin, with nothing *)
(* to do.                                                                  *)
(***************************************************************************)
EXTENDS WorkerPool

CONSTANTS
  Doc,
  Caller, Closer, BufSize,                \* RedisSubscriber
  User, MaxTrees, MaxUpdates, MaxTurns    \* Repository

VARIABLES
  service,
  pubsub, subs, subscriberClosed, stopping, calling, closing, runner,
  incoming, out, outClosed, channels, unsure,
  docs, trees, held, turns, edits

Redis == INSTANCE RedisSubscriber WITH closed <- subscriberClosed
Documents == INSTANCE Repository

redisVars ==
  <<pubsub, subs, subscriberClosed, stopping, calling, closing, runner,
    incoming, out, outClosed, channels, unsure>>

documentVars == <<docs, trees, held, turns, edits>>

ServicesInit ==
  /\ service \in {"pool", "redis", "documents"}
  /\ New
  /\ Redis!Init
  /\ Documents!Init

ServicesNext ==
  /\ UNCHANGED service
  /\ IF service = "pool" THEN PoolNext ELSE UNCHANGED poolVars
  /\ IF service = "redis" THEN Redis!Next ELSE UNCHANGED redisVars
  /\ IF service = "documents" THEN Documents!Next ELSE UNCHANGED documentVars

servicesVars == <<service, poolVars, redisVars, documentVars>>

(* Fairness asks nothing of a service that has nothing to do.              *)
ServicesFairness == PoolFairness /\ Redis!Fairness

-----------------------------------------------------------------------------
(* The properties of the other two, as their modules state them.           *)

(* s.subs tells what is subscribed, but for failed calls (RedisSubscriber).*)
SubscribedUnlessCallFailed == Redis!SubscribedUnlessCallFailed

(* A range over Messages ends after Close (RedisSubscriber).               *)
MessagesEnd == Redis!MessagesEnd

(* An edit of a tree that is held is in the document (Repository).         *)
EditsReachTheDocument == Documents!EditsReachTheDocument
=============================================================================
