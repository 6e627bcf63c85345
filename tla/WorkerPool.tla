----------------------------- MODULE WorkerPool -----------------------------
(***************************************************************************)
(* The worker pool of internal/worker: a bounded queue of jobs, a fixed    *)
(* number of workers, and a graceful Stop.                                 *)
(*                                                                         *)
(* Submit, TrySubmit and Stop may be called by any goroutine at any time;  *)
(* in cmd/demo-app the submitters are the two dispatcher loops, which keep *)
(* running while main stops the pool.  A send on a closed channel panics   *)
(* and takes the process down: from then on nothing moves.                 *)
(***************************************************************************)
EXTENDS Integers, Sequences, FiniteSets

CONSTANTS
  Submitter,     \* goroutines that submit jobs, one at a time each
  Worker,        \* the pool's goroutines
  Stopper,       \* goroutines that call Stop, once each
  QueueSize,     \* capacity of p.jobs; 0 makes it synchronous
  MaxJobs        \* bound: how many jobs are submitted in all

ASSUME PoolAssumption ==
  /\ Worker # {}
  /\ QueueSize \in Nat
  /\ MaxJobs \in Nat

VARIABLES
  stopped,       \* p.stopped
  closed,        \* p.jobs has been closed
  cancelled,     \* p.ctx has been cancelled
  jobs,          \* what is in p.jobs
  calls,         \* how many jobs have been submitted; job k is the k-th
  call,          \* call[s]: the Submit or TrySubmit that s is executing
  worker,        \* worker[w]: what w is doing
  stop,          \* stop[t]: how far the Stop of t has come
  accepted,      \* history: the jobs whose Submit returned nil
  done,          \* history: the jobs that have been run
  crashed        \* a goroutine has panicked

poolVars == <<stopped, closed, cancelled, jobs, calls, call, worker, stop,
              accepted, done, crashed>>

Job == 1 .. MaxJobs

noSubmit == [kind |-> "none"]

New ==
  /\ stopped = FALSE /\ closed = FALSE /\ cancelled = FALSE
  /\ jobs = <<>>
  /\ calls = 0
  /\ call = [s \in Submitter |-> noSubmit]
  /\ worker = [w \in Worker |-> [pc |-> "waiting"]]
  /\ stop = [t \in Stopper |-> "uncalled"]
  /\ accepted = {} /\ done = {}
  /\ crashed = FALSE

-----------------------------------------------------------------------------
(* Submit and TrySubmit.                                                   *)

Return(s) == call' = [call EXCEPT ![s] = noSubmit]

(* The first line of both: a call that sees p.stopped returns at once with *)
(* ErrPoolStopped, any other goes on to the channel with what it saw.      *)
CheckStopped(s, kind) ==
  /\ call[s] = noSubmit
  /\ calls < MaxJobs
  /\ calls' = calls + 1
  /\ call' = IF stopped THEN call
             ELSE [call EXCEPT ![s] = [kind |-> kind, job |-> calls + 1]]
  /\ UNCHANGED <<stopped, closed, cancelled, jobs, worker, stop, accepted, done, crashed>>

Sending(s) == call[s] # noSubmit

(* The job goes into the buffer, or straight to a worker that waits for it.*)
Send(s) ==
  /\ Sending(s) /\ ~closed
  /\ \/ /\ Len(jobs) < QueueSize
        /\ jobs' = Append(jobs, call[s].job)
        /\ UNCHANGED worker
     \/ \E w \in Worker :
          /\ jobs = <<>> /\ worker[w].pc = "waiting"
          /\ worker' = [worker EXCEPT ![w] = [pc |-> "running", job |-> call[s].job]]
          /\ UNCHANGED jobs
  /\ accepted' = accepted \union {call[s].job}
  /\ Return(s)
  /\ UNCHANGED <<stopped, closed, cancelled, calls, stop, done, crashed>>

SendOnClosed(s) ==
  /\ Sending(s) /\ closed
  /\ crashed' = TRUE
  /\ UNCHANGED <<stopped, closed, cancelled, jobs, calls, call, worker, stop, accepted, done>>

(* TrySubmit gives up when the buffer is full; without one, it may miss a  *)
(* worker that has not come back to the channel yet.                       *)
QueueFull(s) ==
  /\ Sending(s) /\ call[s].kind = "TrySubmit" /\ ~closed
  /\ Len(jobs) >= QueueSize
  /\ Return(s)
  /\ UNCHANGED <<stopped, closed, cancelled, jobs, calls, worker, stop, accepted, done, crashed>>

(* Submit's other case, <-p.ctx.Done(): ErrPoolStopped.                    *)
SubmitCancelled(s) ==
  /\ Sending(s) /\ call[s].kind = "Submit" /\ cancelled
  /\ Return(s)
  /\ UNCHANGED <<stopped, closed, cancelled, jobs, calls, worker, stop, accepted, done, crashed>>

Submitting(s) == Send(s) \/ SendOnClosed(s) \/ QueueFull(s) \/ SubmitCancelled(s)

-----------------------------------------------------------------------------
(* The workers.                                                            *)

(* Mutant: a worker leaves as soon as the pool's context is cancelled.     *)
ExitWhenCancelled(w) ==
  /\ worker[w].pc = "waiting" /\ closed
  /\ jobs = <<>> \/ cancelled
  /\ worker' = [worker EXCEPT ![w] = [pc |-> "exited"]]
  /\ UNCHANGED <<stopped, closed, cancelled, jobs, calls, call, stop, accepted, done, crashed>>

TakeJob(w) ==
  /\ worker[w].pc = "waiting" /\ jobs # <<>>
  /\ worker' = [worker EXCEPT ![w] = [pc |-> "running", job |-> Head(jobs)]]
  /\ jobs' = Tail(jobs)
  /\ UNCHANGED <<stopped, closed, cancelled, calls, call, stop, accepted, done, crashed>>

FinishJob(w) ==
  /\ worker[w].pc = "running"
  /\ done' = done \union {worker[w].job}
  /\ worker' = [worker EXCEPT ![w] = [pc |-> "waiting"]]
  /\ UNCHANGED <<stopped, closed, cancelled, jobs, calls, call, stop, accepted, crashed>>

(* The range over p.jobs ends when it is closed and drained: wg.Done().    *)
Exit(w) ==
  /\ worker[w].pc = "waiting" /\ closed /\ jobs = <<>>
  /\ worker' = [worker EXCEPT ![w] = [pc |-> "exited"]]
  /\ UNCHANGED <<stopped, closed, cancelled, jobs, calls, call, stop, accepted, done, crashed>>

Working(w) == TakeJob(w) \/ FinishJob(w) \/ Exit(w)

-----------------------------------------------------------------------------
(* Stop.                                                                   *)

(* Mutant: without p.once every call closes the channel.                   *)
StopBeginAlways(t) ==
  /\ stop[t] = "uncalled"
  /\ stopped' = TRUE
  /\ stop' = [stop EXCEPT ![t] = "closing"]
  /\ UNCHANGED <<closed, cancelled, jobs, calls, call, worker, accepted, done, crashed>>

(* p.once.Do: the first caller sets p.stopped, later ones wait until it is *)
(* through and go on.                                                      *)
StopBegin(t) ==
  /\ stop[t] = "uncalled"
  /\ \/ /\ \A u \in Stopper : stop[u] = "uncalled"
        /\ stopped' = TRUE
        /\ stop' = [stop EXCEPT ![t] = "closing"]
     \/ /\ closed
        /\ stop' = [stop EXCEPT ![t] = "waiting"]
        /\ UNCHANGED stopped
  /\ UNCHANGED <<closed, cancelled, jobs, calls, call, worker, accepted, done, crashed>>

(* Mutant: the channel is never closed.                                    *)
StopCloseOmitted(t) ==
  /\ stop[t] = "closing"
  /\ stop' = [stop EXCEPT ![t] = "waiting"]
  /\ UNCHANGED <<stopped, closed, cancelled, jobs, calls, call, worker, accepted, done, crashed>>

(* close(p.jobs), which panics when it is closed already.                  *)
StopClose(t) ==
  /\ stop[t] = "closing"
  /\ closed' = TRUE
  /\ crashed' = closed
  /\ stop' = [stop EXCEPT ![t] = "waiting"]
  /\ UNCHANGED <<stopped, cancelled, jobs, calls, call, worker, accepted, done>>

AllExited == \A w \in Worker : worker[w].pc = "exited"

(* Mutant: when its ctx expires, Stop returns without waiting.             *)
StopExpireReturns(t) ==
  /\ stop[t] = "waiting"
  /\ stop' = [stop EXCEPT ![t] = "returned"]
  /\ cancelled' = TRUE
  /\ UNCHANGED <<stopped, closed, jobs, calls, call, worker, accepted, done, crashed>>

(* The caller's ctx expires first: the jobs are told, and still awaited.   *)
StopExpire(t) ==
  /\ stop[t] = "waiting"
  /\ stop' = [stop EXCEPT ![t] = "expired"]
  /\ cancelled' = TRUE
  /\ UNCHANGED <<stopped, closed, jobs, calls, call, worker, accepted, done, crashed>>

StopReturn(t) ==
  /\ stop[t] \in {"waiting", "expired"} /\ AllExited
  /\ stop' = [stop EXCEPT ![t] = "returned"]
  /\ cancelled' = TRUE
  /\ UNCHANGED <<stopped, closed, jobs, calls, call, worker, accepted, done, crashed>>

Stopping(t) == StopClose(t) \/ StopExpire(t) \/ StopReturn(t)

-----------------------------------------------------------------------------
PoolNext ==
  /\ ~crashed
  /\ \/ \E s \in Submitter :
          \/ \E kind \in {"Submit", "TrySubmit"} : CheckStopped(s, kind)
          \/ Submitting(s)
     \/ \E w \in Worker : Working(w)
     \/ \E t \in Stopper : StopBegin(t) \/ Stopping(t)

PoolSpec == New /\ [][PoolNext]_poolVars

(* Go runs what can run, and senders blocked on a channel are served in    *)
(* turn, so that none is passed over for ever.  Nobody has to call Stop,   *)
(* and its ctx need not expire.  A job need not end.                       *)
SchedulingFairness ==
  /\ \A s \in Submitter : SF_poolVars(~crashed /\ Submitting(s))
  /\ \A w \in Worker : WF_poolVars(~crashed /\ (TakeJob(w) \/ Exit(w)))
  /\ \A t \in Stopper : WF_poolVars(~crashed /\ (StopClose(t) \/ StopReturn(t)))

SlowPoolSpec == PoolSpec /\ SchedulingFairness

(* Jobs do end.                                                            *)
PoolFairness ==
  /\ SchedulingFairness
  /\ \A w \in Worker : WF_poolVars(~crashed /\ FinishJob(w))

-----------------------------------------------------------------------------
(* Properties.                                                             *)

WorkerState ==
  [pc : {"waiting", "exited"}] \union [pc : {"running"}, job : Job]

(* Every variable has its type; the queue never outgrows its capacity.     *)
PoolTypeOK ==
  /\ <<stopped, closed, cancelled, crashed>> \in BOOLEAN \X BOOLEAN \X BOOLEAN \X BOOLEAN
  /\ jobs \in Seq(Job) /\ Len(jobs) <= QueueSize
  /\ calls \in 0 .. MaxJobs
  /\ call \in [Submitter -> {noSubmit} \union [kind : {"Submit", "TrySubmit"}, job : Job]]
  /\ worker \in [Worker -> WorkerState]
  /\ stop \in [Stopper -> {"uncalled", "closing", "waiting", "expired", "returned"}]
  /\ accepted \subseteq Job /\ done \subseteq Job

(* When a Stop returns, with nil or with ctx.Err(), no job that was        *)
(* accepted is left behind and no worker is left running.  What it takes   *)
(* for that is to wait on after ctx has expired: see StopEndsWithContext.  *)
StopLeavesNothing ==
  (\E t \in Stopper : stop[t] = "returned") => AllExited /\ done = accepted

(* Nothing but a Submit or TrySubmit that overlaps with Stop can panic: it *)
(* passed the check of p.stopped before Stop set it.  In particular Stop   *)
(* is idempotent, also when it is called concurrently.                     *)
OnlyOverlapCrashes == crashed => \E s \in Submitter : Sending(s)

(* Every job that was accepted is run, even when Stop comes right after it *)
(* and its ctx expires at once, unless the process goes down.              *)
AcceptedJobsRun == <>[](accepted \subseteq done \/ crashed)

(* No call hangs as long as the jobs end: Submit returns although the      *)
(* queue was full, and Stop returns although workers were busy, unless the *)
(* process goes down.                                                      *)
CallsReturn ==
  /\ \A s \in Submitter : []<>(~Sending(s) \/ crashed)
  /\ \A t \in Stopper : []<>(stop[t] \in {"uncalled", "returned"} \/ crashed)

(* Stop waits for the jobs to end or for its ctx to expire, as the comment *)
(* on the package and the one on Stop say: an expired ctx ends the wait.   *)
StopEndsWithContext ==
  \A t \in Stopper : stop[t] = "expired" ~> stop[t] = "returned" \/ crashed
=============================================================================
