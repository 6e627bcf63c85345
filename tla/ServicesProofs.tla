--------------------------- MODULE ServicesProofs ---------------------------
(***************************************************************************)
(* The safety of the worker pool for every number of submitters, workers,  *)
(* Stop calls and jobs and every queue size; of the document repository    *)
(* for every set of documents and users; and of the Redis subscriber for   *)
(* every set of documents, callers and closers.                            *)
(***************************************************************************)
EXTENDS MCServices, FiniteSetTheorems, TLAPS

-----------------------------------------------------------------------------
(* The worker pool.                                                        *)

Queued == {jobs[i] : i \in 1 .. Len(jobs)}

Busy == {w \in Worker : worker[w].pc = "running"}

Running == {worker[w].job : w \in Busy}

(* A job that was accepted is in the queue, with a worker, or done.        *)
NothingLost == accepted = done \union Queued \union Running

(* Workers leave only a closed and drained channel, which stays drained.   *)
ExitedIsDrained == \A w \in Worker : worker[w].pc = "exited" => closed /\ jobs = <<>>

ReturnedIsOver == \A t \in Stopper : stop[t] = "returned" => AllExited

(* Only one caller ever closes the channel, and it is open until then.     *)
OneCloser ==
  /\ \A t \in Stopper : stop[t] = "closing" =>
       ~closed /\ \A u \in Stopper \ {t} : stop[u] = "uncalled"
  /\ closed => \E t \in Stopper : stop[t] \notin {"uncalled", "closing"}

(* The inductive invariant.                                                *)
IInv ==
  /\ PoolTypeOK
  /\ NothingLost
  /\ ExitedIsDrained
  /\ ReturnedIsOver
  /\ OneCloser
  /\ OnlyOverlapCrashes

LEMMA NewIInv == New => IInv
<1> SUFFICES ASSUME New PROVE IInv
  OBVIOUS
<1>1. PoolTypeOK
  <2>1. jobs \in Seq(Job) /\ Len(jobs) <= QueueSize /\ calls \in 0 .. MaxJobs
    BY PoolAssumption DEF New
  <2>2. worker \in [Worker -> WorkerState]
    BY DEF New, WorkerState
  <2>3. /\ call \in [Submitter -> {noSubmit} \union [kind : {"Submit", "TrySubmit"}, job : Job]]
        /\ stop \in [Stopper -> {"uncalled", "closing", "waiting", "expired", "returned"}]
    BY DEF New
  <2>4. /\ <<stopped, closed, cancelled, crashed>> \in BOOLEAN \X BOOLEAN \X BOOLEAN \X BOOLEAN
        /\ accepted \subseteq Job /\ done \subseteq Job
    BY DEF New
  <2> QED
    BY <2>1, <2>2, <2>3, <2>4 DEF PoolTypeOK
<1>2. NothingLost
  BY DEF New, NothingLost, Queued, Busy, Running
<1>3. ExitedIsDrained /\ ReturnedIsOver /\ OneCloser /\ OnlyOverlapCrashes
  BY DEF New, ExitedIsDrained, ReturnedIsOver, OneCloser, OnlyOverlapCrashes
<1> QED
  BY <1>1, <1>2, <1>3 DEF IInv

(* The buffer: what Append and Tail do to the set of queued jobs.          *)
LEMMA AppendQueued ==
  ASSUME NEW S, NEW q \in Seq(S), NEW e \in S
  PROVE  {Append(q, e)[i] : i \in 1 .. Len(Append(q, e))} =
           {q[i] : i \in 1 .. Len(q)} \union {e}
<1>1. Len(Append(q, e)) = Len(q) + 1 /\ Len(q) \in Nat
  OBVIOUS
<1>2. \A i \in 1 .. Len(q) : Append(q, e)[i] = q[i]
  OBVIOUS
<1>3. Append(q, e)[Len(q) + 1] = e
  OBVIOUS
<1> QED
  BY <1>1, <1>2, <1>3

LEMMA TailQueued ==
  ASSUME NEW S, NEW q \in Seq(S), q # <<>>
  PROVE  {q[i] : i \in 1 .. Len(q)} =
           {Head(q)} \union {Tail(q)[i] : i \in 1 .. Len(Tail(q))}
<1>1. Len(q) \in Nat /\ Len(q) >= 1 /\ Len(Tail(q)) = Len(q) - 1
  OBVIOUS
<1>2. Head(q) = q[1] /\ \A i \in 1 .. Len(Tail(q)) : Tail(q)[i] = q[i + 1]
  OBVIOUS
<1>3. \A i \in 1 .. Len(q) : i = 1 \/ (i - 1 \in 1 .. Len(Tail(q)) /\ q[i] = Tail(q)[i - 1])
  BY <1>1, <1>2
<1>4. \A i \in 1 .. Len(Tail(q)) : i + 1 \in 1 .. Len(q)
  BY <1>1
<1>5. 1 \in 1 .. Len(q)
  BY <1>1
<1> DEFINE n == Len(q)
           rest == Tail(q)
           m == Len(rest)
           first == Head(q)
<1>6. /\ first = q[1] /\ 1 \in 1 .. n
      /\ \A i \in 1 .. m : i + 1 \in 1 .. n /\ rest[i] = q[i + 1]
      /\ \A i \in 1 .. n : i = 1 \/ (i - 1 \in 1 .. m /\ q[i] = rest[i - 1])
  BY <1>2, <1>3, <1>4, <1>5
<1> HIDE DEF n, rest, m, first
<1>7. {q[i] : i \in 1 .. n} = {first} \union {rest[i] : i \in 1 .. m}
  BY <1>6
<1> QED
  BY <1>7 DEF n, rest, m, first

-----------------------------------------------------------------------------
(* The steps of the submitters.                                            *)

LEMMA CheckStoppedIInv ==
  ASSUME IInv, ~crashed, NEW s \in Submitter, NEW kind \in {"Submit", "TrySubmit"},
         CheckStopped(s, kind)
  PROVE  IInv'
<1>1. calls' \in 0 .. MaxJobs /\ calls + 1 \in Job
  BY PoolAssumption DEF IInv, PoolTypeOK, CheckStopped, Job
<1>2. PoolTypeOK'
  BY <1>1 DEF IInv, PoolTypeOK, CheckStopped, WorkerState
<1>3. NothingLost'
  BY DEF IInv, NothingLost, Queued, Busy, Running, CheckStopped
<1>4. ExitedIsDrained' /\ ReturnedIsOver' /\ OneCloser' /\ OnlyOverlapCrashes'
  BY DEF IInv, ExitedIsDrained, ReturnedIsOver, OneCloser, OnlyOverlapCrashes, AllExited,
         CheckStopped
<1> QED
  BY <1>2, <1>3, <1>4 DEF IInv

(* A job that goes into the buffer, and one that a worker takes at once.   *)
LEMMA SendIInv ==
  ASSUME IInv, ~crashed, NEW s \in Submitter, Send(s)
  PROVE  IInv'
<1> DEFINE j == call[s].job
<1>1. j \in Job
  BY DEF IInv, PoolTypeOK, Send, Sending, noSubmit
<1>2. accepted' = accepted \union {j} /\ done' = done
  BY DEF Send
<1>3. /\ stopped' = stopped /\ closed' = closed /\ cancelled' = cancelled
      /\ calls' = calls /\ stop' = stop /\ crashed' = crashed
      /\ ~closed
      /\ call' = [call EXCEPT ![s] = noSubmit]
  BY DEF Send, Return
<1>4. \A w \in Worker : worker[w].pc # "exited"
  BY <1>3 DEF IInv, ExitedIsDrained
<1>5. ASSUME Len(jobs) < QueueSize, jobs' = Append(jobs, j), worker' = worker
      PROVE  PoolTypeOK' /\ NothingLost' /\ ExitedIsDrained' /\ ReturnedIsOver'
  <2>1. jobs' \in Seq(Job) /\ Len(jobs') <= QueueSize
    BY <1>1, <1>5, PoolAssumption DEF IInv, PoolTypeOK
  <2>2. PoolTypeOK'
    BY <1>1, <1>2, <1>3, <1>5, <2>1 DEF IInv, PoolTypeOK, WorkerState
  <2>3. Queued' = Queued \union {j}
    BY <1>1, <1>5, AppendQueued DEF IInv, PoolTypeOK, Queued
  <2>4. NothingLost'
    BY <1>2, <1>5, <2>3 DEF IInv, NothingLost, Busy, Running
  <2>5. ExitedIsDrained' /\ ReturnedIsOver'
    BY <1>3, <1>4, <1>5 DEF IInv, ExitedIsDrained, ReturnedIsOver, AllExited
  <2> QED
    BY <2>2, <2>4, <2>5
<1>6. ASSUME NEW w \in Worker, worker[w].pc = "waiting", jobs' = jobs,
             worker' = [worker EXCEPT ![w] = [pc |-> "running", job |-> j]]
      PROVE  PoolTypeOK' /\ NothingLost' /\ ExitedIsDrained' /\ ReturnedIsOver'
  <2>1. PoolTypeOK'
    BY <1>1, <1>2, <1>3, <1>6 DEF IInv, PoolTypeOK, WorkerState
  <2>2. /\ worker'[w] = [pc |-> "running", job |-> j]
        /\ \A v \in Worker \ {w} : worker'[v] = worker[v]
    BY <1>6 DEF IInv, PoolTypeOK
  <2>3. Running' = Running \union {j}
    BY <1>6, <2>2 DEF Busy, Running
  <2>4. NothingLost'
    BY <1>2, <1>6, <2>3 DEF IInv, NothingLost, Queued
  <2>5. ExitedIsDrained' /\ ReturnedIsOver'
    BY <1>3, <1>4, <1>6, <2>2 DEF IInv, ExitedIsDrained, ReturnedIsOver, AllExited
  <2> QED
    BY <2>1, <2>4, <2>5
<1>7. OneCloser' /\ OnlyOverlapCrashes'
  BY <1>3 DEF IInv, OneCloser, OnlyOverlapCrashes
<1> QED
  BY <1>5, <1>6, <1>7 DEF IInv, Send

LEMMA SubmittingIInv ==
  ASSUME IInv, ~crashed, NEW s \in Submitter, Submitting(s)
  PROVE  IInv'
<1>1. CASE Send(s)
  BY <1>1, SendIInv
<1>2. CASE SendOnClosed(s)
  <2>1. PoolTypeOK'
    BY <1>2 DEF IInv, PoolTypeOK, SendOnClosed, WorkerState
  <2>2. NothingLost'
    BY <1>2 DEF IInv, NothingLost, Queued, Busy, Running, SendOnClosed
  <2>3. ExitedIsDrained' /\ ReturnedIsOver' /\ OneCloser' /\ OnlyOverlapCrashes'
    BY <1>2 DEF IInv, ExitedIsDrained, ReturnedIsOver, OneCloser, OnlyOverlapCrashes,
                AllExited, Sending, SendOnClosed
  <2> QED
    BY <2>1, <2>2, <2>3 DEF IInv
<1>3. CASE QueueFull(s) \/ SubmitCancelled(s)
  <2>1. /\ UNCHANGED <<stopped, closed, cancelled, jobs, calls, worker, stop, accepted,
                       done, crashed>>
        /\ call' = [call EXCEPT ![s] = noSubmit]
    BY <1>3 DEF QueueFull, SubmitCancelled, Return
  <2>2. PoolTypeOK'
    BY <2>1 DEF IInv, PoolTypeOK, WorkerState
  <2>3. NothingLost'
    BY <2>1 DEF IInv, NothingLost, Queued, Busy, Running
  <2>4. ExitedIsDrained' /\ ReturnedIsOver' /\ OneCloser' /\ OnlyOverlapCrashes'
    BY <2>1 DEF IInv, ExitedIsDrained, ReturnedIsOver, OneCloser, OnlyOverlapCrashes,
                AllExited
  <2> QED
    BY <2>2, <2>3, <2>4 DEF IInv
<1> QED
  BY <1>1, <1>2, <1>3 DEF Submitting

-----------------------------------------------------------------------------
(* The steps of the workers.                                               *)

LEMMA TakeJobIInv ==
  ASSUME IInv, ~crashed, NEW w \in Worker, TakeJob(w)
  PROVE  IInv'
<1> DEFINE j == Head(jobs)
<1>1. /\ jobs \in Seq(Job) /\ jobs # <<>> /\ jobs' = Tail(jobs)
      /\ worker' = [worker EXCEPT ![w] = [pc |-> "running", job |-> j]]
      /\ worker[w].pc = "waiting"
      /\ UNCHANGED <<stopped, closed, cancelled, calls, call, stop, accepted, done, crashed>>
  BY DEF IInv, PoolTypeOK, TakeJob
<1>2. j \in Job /\ jobs' \in Seq(Job) /\ Len(jobs') <= QueueSize
  BY <1>1, PoolAssumption DEF IInv, PoolTypeOK
<1>3. PoolTypeOK'
  BY <1>1, <1>2 DEF IInv, PoolTypeOK, WorkerState
<1>4. /\ worker'[w] = [pc |-> "running", job |-> j]
      /\ \A v \in Worker \ {w} : worker'[v] = worker[v]
  BY <1>1 DEF IInv, PoolTypeOK
<1>5. Running' = Running \union {j}
  BY <1>1, <1>4 DEF Busy, Running
<1>6. Queued = Queued' \union {j}
  BY <1>1, TailQueued DEF Queued
<1>7. NothingLost'
  BY <1>1, <1>5, <1>6 DEF IInv, NothingLost
<1>8. \A v \in Worker : worker[v].pc # "exited"
  BY <1>1 DEF IInv, ExitedIsDrained
<1>9. ExitedIsDrained' /\ ReturnedIsOver' /\ OneCloser' /\ OnlyOverlapCrashes'
  BY <1>1, <1>4, <1>8 DEF IInv, ExitedIsDrained, ReturnedIsOver, OneCloser,
                          OnlyOverlapCrashes, AllExited, Sending
<1> QED
  BY <1>3, <1>7, <1>9 DEF IInv

LEMMA FinishJobIInv ==
  ASSUME IInv, ~crashed, NEW w \in Worker, FinishJob(w)
  PROVE  IInv'
<1> DEFINE j == worker[w].job
<1>1. /\ worker[w].pc = "running"
      /\ done' = done \union {j}
      /\ worker' = [worker EXCEPT ![w] = [pc |-> "waiting"]]
      /\ UNCHANGED <<stopped, closed, cancelled, jobs, calls, call, stop, accepted, crashed>>
  BY DEF FinishJob
<1>2. j \in Job
  BY <1>1 DEF IInv, PoolTypeOK, WorkerState
<1>3. PoolTypeOK'
  BY <1>1, <1>2 DEF IInv, PoolTypeOK, WorkerState
<1>4. /\ worker'[w] = [pc |-> "waiting"]
      /\ \A v \in Worker \ {w} : worker'[v] = worker[v]
  BY <1>1 DEF IInv, PoolTypeOK
<1>5. Running \subseteq Running' \union {j} /\ Running' \subseteq Running /\ j \in Running
  BY <1>1, <1>4 DEF Busy, Running
<1>6. NothingLost'
  BY <1>1, <1>5 DEF IInv, NothingLost, Queued
<1>7. \A t \in Stopper : stop[t] # "returned"
  BY <1>1 DEF IInv, ReturnedIsOver, AllExited
<1>8. ExitedIsDrained' /\ ReturnedIsOver' /\ OneCloser' /\ OnlyOverlapCrashes'
  BY <1>1, <1>4, <1>7 DEF IInv, ExitedIsDrained, ReturnedIsOver, OneCloser,
                          OnlyOverlapCrashes, AllExited, Sending
<1> QED
  BY <1>3, <1>6, <1>8 DEF IInv

LEMMA ExitIInv ==
  ASSUME IInv, ~crashed, NEW w \in Worker, Exit(w)
  PROVE  IInv'
<1>1. /\ worker[w].pc = "waiting" /\ closed /\ jobs = <<>>
      /\ worker' = [worker EXCEPT ![w] = [pc |-> "exited"]]
      /\ UNCHANGED <<stopped, closed, cancelled, jobs, calls, call, stop, accepted, done,
                     crashed>>
  BY DEF Exit
<1>2. PoolTypeOK'
  BY <1>1 DEF IInv, PoolTypeOK, WorkerState
<1>3. /\ worker'[w] = [pc |-> "exited"]
      /\ \A v \in Worker \ {w} : worker'[v] = worker[v]
  BY <1>1 DEF IInv, PoolTypeOK
<1>4. Running' = Running
  BY <1>1, <1>3 DEF Busy, Running
<1>5. NothingLost'
  BY <1>1, <1>4 DEF IInv, NothingLost, Queued
<1>6. ExitedIsDrained' /\ ReturnedIsOver' /\ OneCloser' /\ OnlyOverlapCrashes'
  BY <1>1, <1>3 DEF IInv, ExitedIsDrained, ReturnedIsOver, OneCloser, OnlyOverlapCrashes,
                    AllExited, Sending
<1> QED
  BY <1>2, <1>5, <1>6 DEF IInv

-----------------------------------------------------------------------------
(* The steps of Stop touch neither the jobs nor the workers.               *)

LEMMA StopStepIInv ==
  ASSUME IInv, UNCHANGED <<jobs, calls, call, worker, accepted, done>>,
         <<stopped, closed, cancelled, crashed>>' \in
           BOOLEAN \X BOOLEAN \X BOOLEAN \X BOOLEAN,
         stop' \in [Stopper -> {"uncalled", "closing", "waiting", "expired", "returned"}],
         closed => closed',
         ReturnedIsOver', OneCloser', crashed' => crashed
  PROVE  IInv'
<1>1. PoolTypeOK'
  BY DEF IInv, PoolTypeOK, WorkerState
<1>2. NothingLost'
  BY DEF IInv, NothingLost, Queued, Busy, Running
<1>3. ExitedIsDrained' /\ OnlyOverlapCrashes'
  BY DEF IInv, ExitedIsDrained, OnlyOverlapCrashes, Sending
<1> QED
  BY <1>1, <1>2, <1>3 DEF IInv

LEMMA StopBeginIInv ==
  ASSUME IInv, ~crashed, NEW t \in Stopper, StopBegin(t)
  PROVE  IInv'
<1>1. UNCHANGED <<closed, cancelled, jobs, calls, call, worker, accepted, done, crashed>>
  BY DEF StopBegin
<1>2. stop' = [stop EXCEPT ![t] = "closing"] \/ stop' = [stop EXCEPT ![t] = "waiting"]
  BY DEF StopBegin
<1>3. stopped' \in BOOLEAN
      /\ stop' \in [Stopper -> {"uncalled", "closing", "waiting", "expired", "returned"}]
  BY <1>2 DEF IInv, PoolTypeOK, StopBegin
<1>4. ReturnedIsOver'
  BY <1>1, <1>2 DEF IInv, PoolTypeOK, ReturnedIsOver, AllExited
<1>5. OneCloser'
  <2>1. CASE \A u \in Stopper : stop[u] = "uncalled"
    <3>1. ~closed
      BY <2>1 DEF IInv, OneCloser
    <3>2. stop' = [stop EXCEPT ![t] = "closing"]
      BY <3>1 DEF StopBegin
    <3> QED
      BY <1>1, <2>1, <3>1, <3>2 DEF IInv, PoolTypeOK, OneCloser
  <2>2. CASE closed /\ stop' = [stop EXCEPT ![t] = "waiting"]
    BY <1>1, <2>2 DEF IInv, PoolTypeOK, OneCloser
  <2> QED
    BY <2>1, <2>2 DEF StopBegin
<1> QED
  BY <1>1, <1>3, <1>4, <1>5, StopStepIInv DEF IInv, PoolTypeOK

LEMMA StopCloseIInv ==
  ASSUME IInv, ~crashed, NEW t \in Stopper, StopClose(t)
  PROVE  IInv'
<1>1. ~closed /\ \A u \in Stopper \ {t} : stop[u] = "uncalled"
  BY DEF IInv, OneCloser, StopClose
<1>2. /\ UNCHANGED <<stopped, cancelled, jobs, calls, call, worker, accepted, done>>
      /\ closed' = TRUE /\ crashed' = FALSE
      /\ stop' = [stop EXCEPT ![t] = "waiting"]
  BY <1>1 DEF StopClose
<1>3. /\ stop' \in [Stopper -> {"uncalled", "closing", "waiting", "expired", "returned"}]
      /\ stop'[t] = "waiting" /\ \A u \in Stopper \ {t} : stop'[u] = "uncalled"
  BY <1>1, <1>2 DEF IInv, PoolTypeOK
<1>4. ReturnedIsOver' /\ OneCloser'
  BY <1>2, <1>3 DEF ReturnedIsOver, OneCloser
<1> QED
  BY <1>2, <1>3, <1>4, StopStepIInv DEF IInv, PoolTypeOK

LEMMA StopEndIInv ==
  ASSUME IInv, ~crashed, NEW t \in Stopper, StopExpire(t) \/ StopReturn(t)
  PROVE  IInv'
<1>1. /\ UNCHANGED <<stopped, closed, jobs, calls, call, worker, accepted, done, crashed>>
      /\ cancelled' = TRUE
      /\ stop[t] \in {"waiting", "expired"}
      /\ \/ stop' = [stop EXCEPT ![t] = "expired"]
         \/ stop' = [stop EXCEPT ![t] = "returned"] /\ \A w \in Worker : worker[w].pc = "exited"
  BY DEF StopExpire, StopReturn, AllExited
<1>2. /\ stop' \in [Stopper -> {"uncalled", "closing", "waiting", "expired", "returned"}]
      /\ stop'[t] \in {"expired", "returned"}
      /\ \A u \in Stopper \ {t} : stop'[u] = stop[u]
  BY <1>1 DEF IInv, PoolTypeOK
<1>3. ReturnedIsOver'
  BY <1>1, <1>2 DEF IInv, PoolTypeOK, ReturnedIsOver, AllExited
<1>4. OneCloser'
  BY <1>1, <1>2 DEF IInv, OneCloser
<1> QED
  BY <1>1, <1>2, <1>3, <1>4, StopStepIInv DEF IInv, PoolTypeOK

-----------------------------------------------------------------------------
LEMMA NextIInv == IInv /\ [PoolNext]_poolVars => IInv'
<1> SUFFICES ASSUME IInv, [PoolNext]_poolVars PROVE IInv'
  OBVIOUS
<1>1. ASSUME PoolNext PROVE IInv'
  <2>1. ~crashed
    BY <1>1 DEF PoolNext
  <2>2. ASSUME NEW s \in Submitter, NEW kind \in {"Submit", "TrySubmit"},
               CheckStopped(s, kind)
        PROVE  IInv'
    BY <2>1, <2>2, CheckStoppedIInv
  <2>3. ASSUME NEW s \in Submitter, Submitting(s) PROVE IInv'
    BY <2>1, <2>3, SubmittingIInv
  <2>4. ASSUME NEW w \in Worker, Working(w) PROVE IInv'
    BY <2>1, <2>4, TakeJobIInv, FinishJobIInv, ExitIInv DEF Working
  <2>5. ASSUME NEW t \in Stopper, StopBegin(t) \/ Stopping(t) PROVE IInv'
    BY <2>1, <2>5, StopBeginIInv, StopCloseIInv, StopEndIInv DEF Stopping
  <2> QED
    BY <1>1, <2>2, <2>3, <2>4, <2>5 DEF PoolNext
<1>2. CASE UNCHANGED poolVars
  BY <1>2 DEF poolVars, IInv, PoolTypeOK, WorkerState, NothingLost, Queued, Busy, Running,
              ExitedIsDrained, ReturnedIsOver, OneCloser, OnlyOverlapCrashes, AllExited, Sending
<1> QED
  BY <1>1, <1>2

LEMMA StopLeavesNothingFromIInv == IInv => StopLeavesNothing
<1> SUFFICES ASSUME IInv, NEW t \in Stopper, stop[t] = "returned"
             PROVE  AllExited /\ done = accepted
  BY DEF StopLeavesNothing
<1>1. AllExited
  BY DEF IInv, ReturnedIsOver
<1>2. jobs = <<>>
  BY <1>1, PoolAssumption DEF AllExited, IInv, ExitedIsDrained
<1>3. Queued = {}
  BY <1>2 DEF Queued
<1>4. Running = {}
  BY <1>1 DEF AllExited, Busy, Running
<1> QED
  BY <1>1, <1>3, <1>4 DEF IInv, NothingLost

-----------------------------------------------------------------------------
(* The theorems.                                                           *)

(* Every variable keeps its type, and the queue never outgrows p.jobs.     *)
THEOREM PoolKeepsTypes == PoolSpec => []PoolTypeOK
<1>1. IInv => PoolTypeOK
  BY DEF IInv
<1> QED
  BY <1>1, NewIInv, NextIInv, PTL DEF PoolSpec

(* Graceful shutdown: when a Stop returns, whether its ctx expired or not, *)
(* every accepted job has been run and every worker has left.              *)
THEOREM PoolStopLeavesNothing == PoolSpec => []StopLeavesNothing
BY StopLeavesNothingFromIInv, NewIInv, NextIInv, PTL DEF PoolSpec

(* Only a Submit that overlaps with Stop can panic; Stop itself never      *)
(* does, however many call it at once.                                     *)
THEOREM PoolOnlyOverlapCrashes == PoolSpec => []OnlyOverlapCrashes
<1>1. IInv => OnlyOverlapCrashes
  BY DEF IInv
<1> QED
  BY <1>1, NewIInv, NextIInv, PTL DEF PoolSpec

-----------------------------------------------------------------------------
(* The document repository.                                                *)

(* The trees are numbered from 1 in the order in which they were made, and *)
(* documents, holders and edits refer to trees and documents that exist.   *)
DocumentTypes ==
  /\ \E n \in Nat : DOMAIN trees = 1 .. n
  /\ docs \in [Doc -> {0} \union DOMAIN trees]
  /\ turns \in [Doc -> Nat]
  /\ DOMAIN held = User
  /\ \A u \in User : held[u] # Documents!nothing =>
       held[u].doc \in Doc /\ held[u].tree \in DOMAIN trees /\ held[u].turn \in Nat
  /\ \A edit \in edits : edit.doc \in Doc /\ edit.turn \in Nat

(* Whoever holds a tree that was not dropped since holds the tree that the *)
(* document has now.                                                       *)
HeldIsCurrent ==
  \A u \in User : held[u] # Documents!nothing =>
    /\ held[u].turn <= turns[held[u].doc]
    /\ held[u].turn = turns[held[u].doc] => docs[held[u].doc] = held[u].tree

EditsAreNoLater == \A edit \in edits : edit.turn <= turns[edit.doc]

(* The inductive invariant.                                                *)
DocumentsInv ==
  /\ DocumentTypes
  /\ HeldIsCurrent
  /\ EditsAreNoLater
  /\ EditsReachTheDocument

LEMMA SameCardinality == \A S : Documents!Cardinality(S) = Cardinality(S)
BY Zenon DEF Documents!Cardinality, Cardinality

LEMMA DocumentsStart == Documents!Init => DocumentsInv
<1> SUFFICES ASSUME Documents!Init PROVE DocumentsInv
  OBVIOUS
<1>1. DOMAIN trees = 1 .. 0
  BY DEF Documents!Init
<1>2. DocumentTypes
  BY <1>1 DEF Documents!Init, DocumentTypes
<1> QED
  BY <1>2 DEF Documents!Init, DocumentsInv, HeldIsCurrent, EditsAreNoLater,
              EditsReachTheDocument, Documents!EditsReachTheDocument

LEMMA GetKeeps ==
  ASSUME DocumentsInv, NEW u \in User, NEW d \in Doc, Documents!Get(u, d)
  PROVE  DocumentsInv'
<1>1. /\ docs' = docs /\ trees' = trees /\ turns' = turns /\ edits' = edits
      /\ docs[d] \in DOMAIN trees /\ turns[d] \in Nat
      /\ held' = [held EXCEPT ![u] = [doc |-> d, tree |-> docs[d], turn |-> turns[d]]]
  BY DEF Documents!Get, Documents!Hold, DocumentsInv, DocumentTypes
<1>2. /\ DOMAIN held' = User
      /\ held'[u].doc = d /\ held'[u].tree = docs[d] /\ held'[u].turn = turns[d]
      /\ \A v \in User \ {u} : held'[v] = held[v]
  BY <1>1 DEF DocumentsInv, DocumentTypes
<1>3. DocumentTypes'
  BY <1>1, <1>2 DEF DocumentsInv, DocumentTypes
<1>4. HeldIsCurrent'
  BY <1>1, <1>2 DEF DocumentsInv, HeldIsCurrent
<1>5. EditsAreNoLater' /\ EditsReachTheDocument'
  BY <1>1 DEF DocumentsInv, EditsAreNoLater, EditsReachTheDocument,
              Documents!EditsReachTheDocument
<1> QED
  BY <1>3, <1>4, <1>5 DEF DocumentsInv

(* A tree is made only for a document that has none: nobody can be holding *)
(* another one for it.                                                     *)
LEMMA CreateKeeps ==
  ASSUME DocumentsInv, NEW u \in User, NEW d \in Doc, Documents!Create(u, d)
  PROVE  DocumentsInv'
<1>1. PICK n \in Nat : DOMAIN trees = 1 .. n
  BY DEF DocumentsInv, DocumentTypes
<1>2. Documents!Cardinality(Documents!Tree) = n
  BY <1>1, FS_Interval, SameCardinality DEF Documents!Tree
<1> DEFINE new == [doc |-> d, tree |-> n + 1, turn |-> turns[d]]
<1>3. /\ docs[d] = 0 /\ docs' = [docs EXCEPT ![d] = n + 1]
      /\ trees' = [k \in 1 .. n + 1 |-> IF k = n + 1 THEN {} ELSE trees[k]]
      /\ held' = [held EXCEPT ![u] = new]
      /\ turns' = turns /\ edits' = edits
  BY <1>2 DEF Documents!Create, Documents!New, Documents!Hold
<1>4. new.doc = d /\ new.tree = n + 1 /\ new.turn = turns[d]
  OBVIOUS
<1> HIDE DEF new
<1>5. /\ DOMAIN trees' = 1 .. n + 1 /\ n + 1 \in Nat /\ n + 1 # 0
      /\ \A k \in DOMAIN trees : k \in DOMAIN trees' /\ trees'[k] = trees[k] /\ k # 0
  BY <1>1, <1>3
<1>6. /\ DOMAIN held' = User /\ held'[u] = new
      /\ \A v \in User \ {u} : held'[v] = held[v]
  BY <1>3 DEF DocumentsInv, DocumentTypes
<1>7. docs'[d] = n + 1 /\ \A e \in Doc \ {d} : docs'[e] = docs[e]
  BY <1>3 DEF DocumentsInv, DocumentTypes
<1>8. DocumentTypes'
  <2>1. docs' \in [Doc -> {0} \union DOMAIN trees']
    <3>1. docs \in [Doc -> {0} \union DOMAIN trees] /\ n + 1 \in DOMAIN trees'
      BY <1>5 DEF DocumentsInv, DocumentTypes
    <3>2. {0} \union DOMAIN trees \subseteq {0} \union DOMAIN trees'
      BY <1>5
    <3> QED
      BY <1>3, <3>1, <3>2
  <2>2. \A v \in User : held'[v] # Documents!nothing =>
          held'[v].doc \in Doc /\ held'[v].tree \in DOMAIN trees' /\ held'[v].turn \in Nat
    BY <1>4, <1>5, <1>6 DEF DocumentsInv, DocumentTypes
  <2> QED
    BY <1>3, <1>5, <1>6, <2>1, <2>2 DEF DocumentsInv, DocumentTypes
<1>9. HeldIsCurrent'
  <2> SUFFICES ASSUME NEW v \in User, held'[v] # Documents!nothing
               PROVE  /\ held'[v].turn <= turns[held'[v].doc]
                      /\ held'[v].turn = turns[held'[v].doc] =>
                           docs'[held'[v].doc] = held'[v].tree
    BY <1>3 DEF HeldIsCurrent
  <2>1. CASE v = u
    BY <1>4, <1>6, <1>7, <2>1 DEF DocumentsInv, DocumentTypes
  <2>2. CASE v # u
    <3>1. held'[v] = held[v] /\ held[v].doc \in Doc /\ held[v].tree # 0
      BY <1>5, <1>6, <2>2 DEF DocumentsInv, DocumentTypes
    <3> QED
      BY <1>3, <1>7, <3>1 DEF DocumentsInv, HeldIsCurrent
  <2> QED
    BY <2>1, <2>2
<1>10. EditsAreNoLater'
  BY <1>3 DEF DocumentsInv, EditsAreNoLater
<1>11. EditsReachTheDocument'
  <2> SUFFICES ASSUME NEW edit \in edits, edit.turn = turns[edit.doc]
               PROVE  docs'[edit.doc] # 0 /\ edit \in trees'[docs'[edit.doc]]
    BY <1>3 DEF EditsReachTheDocument, Documents!EditsReachTheDocument
  <2>1. /\ edit.doc \in Doc /\ docs[edit.doc] # 0 /\ edit \in trees[docs[edit.doc]]
        /\ docs[edit.doc] \in DOMAIN trees
    BY DEF DocumentsInv, DocumentTypes, EditsReachTheDocument, Documents!EditsReachTheDocument
  <2> QED
    BY <1>3, <1>5, <1>7, <2>1
<1> QED
  BY <1>8, <1>9, <1>10, <1>11 DEF DocumentsInv

(* The tree of d is replaced by another one, or by none, and its turn is   *)
(* counted; or d had none; or it keeps the one it has.                     *)
Replaces(d, t) ==
  /\ docs' = [docs EXCEPT ![d] = t]
  /\ UNCHANGED <<trees, held, edits>>
  /\ IF docs[d] \in {0, t} THEN turns' = turns
     ELSE turns' = [turns EXCEPT ![d] = @ + 1]

LEMMA ReplacesKeeps ==
  ASSUME DocumentsInv, NEW d \in Doc, NEW t \in {0} \union DOMAIN trees, Replaces(d, t)
  PROVE  DocumentsInv'
<1>1. /\ trees' = trees /\ held' = held /\ edits' = edits
      /\ docs'[d] = t /\ \A e \in Doc \ {d} : docs'[e] = docs[e]
      /\ turns \in [Doc -> Nat]
      /\ docs' \in [Doc -> {0} \union DOMAIN trees]
      /\ \A k \in DOMAIN trees : k # 0
  BY DEF DocumentsInv, DocumentTypes, Replaces
<1>2. /\ turns' \in [Doc -> Nat] /\ \A e \in Doc : turns[e] <= turns'[e]
      /\ \A e \in Doc \ {d} : turns'[e] = turns[e]
      /\ docs[d] \notin {0, t} => turns[d] < turns'[d]
      /\ docs[d] \in {0, t} => turns' = turns
  BY <1>1 DEF Replaces
<1>3. DocumentTypes'
  BY <1>1, <1>2 DEF DocumentsInv, DocumentTypes
<1>4. HeldIsCurrent'
  <2> SUFFICES ASSUME NEW v \in User, held[v] # Documents!nothing
               PROVE  /\ held[v].turn <= turns'[held[v].doc]
                      /\ held[v].turn = turns'[held[v].doc] =>
                           docs'[held[v].doc] = held[v].tree
    BY <1>1 DEF HeldIsCurrent
  <2>1. /\ held[v].doc \in Doc /\ held[v].turn \in Nat /\ held[v].tree # 0
        /\ held[v].turn <= turns[held[v].doc]
        /\ held[v].turn = turns[held[v].doc] => docs[held[v].doc] = held[v].tree
    BY <1>1 DEF DocumentsInv, DocumentTypes, HeldIsCurrent
  <2> QED
    BY <1>1, <1>2, <2>1
<1>5. EditsAreNoLater'
  <2> SUFFICES ASSUME NEW edit \in edits PROVE edit.turn <= turns'[edit.doc]
    BY <1>1 DEF EditsAreNoLater
  <2>1. edit.doc \in Doc /\ edit.turn \in Nat /\ edit.turn <= turns[edit.doc]
    BY DEF DocumentsInv, DocumentTypes, EditsAreNoLater
  <2> QED
    BY <1>1, <1>2, <2>1
<1>6. EditsReachTheDocument'
  <2> SUFFICES ASSUME NEW edit \in edits, edit.turn = turns'[edit.doc]
               PROVE  docs'[edit.doc] # 0 /\ edit \in trees[docs'[edit.doc]]
    BY <1>1 DEF EditsReachTheDocument, Documents!EditsReachTheDocument
  <2>1. /\ edit.doc \in Doc /\ edit.turn \in Nat /\ edit.turn <= turns[edit.doc]
        /\ edit.turn = turns[edit.doc] =>
             docs[edit.doc] # 0 /\ edit \in trees[docs[edit.doc]]
    BY DEF DocumentsInv, DocumentTypes, EditsAreNoLater, EditsReachTheDocument,
           Documents!EditsReachTheDocument
  <2> QED
    BY <1>1, <1>2, <2>1
<1> QED
  BY <1>3, <1>4, <1>5, <1>6 DEF DocumentsInv

LEMMA SaveReplaces ==
  ASSUME DocumentsInv, NEW u \in User, NEW d \in Doc, Documents!Save(u, d)
  PROVE  held[u].tree \in DOMAIN trees /\ Replaces(d, held[u].tree)
<1>1. held[u].tree \in DOMAIN trees
  BY DEF Documents!Save, DocumentsInv, DocumentTypes
<1> QED
  BY <1>1 DEF Documents!Save, Documents!Dropped, Replaces

LEMMA DeleteReplaces ==
  ASSUME NEW d \in Doc, Documents!Delete(d)
  PROVE  Replaces(d, 0)
BY DEF Documents!Delete, Documents!Dropped, Replaces

(* What is applied to a tree that was not dropped is applied to the tree   *)
(* that the document has.                                                  *)
LEMMA EditKeeps ==
  ASSUME DocumentsInv, NEW u \in User, Documents!Edit(u)
  PROVE  DocumentsInv'
<1> DEFINE new == [n |-> Documents!Cardinality(edits) + 1,
                   doc |-> held[u].doc, turn |-> held[u].turn]
<1>1. /\ held[u] # Documents!nothing
      /\ trees' = [trees EXCEPT ![held[u].tree] = @ \union {new}]
      /\ edits' = edits \union {new}
      /\ docs' = docs /\ held' = held /\ turns' = turns
  BY DEF Documents!Edit
<1>2. new.doc = held[u].doc /\ new.turn = held[u].turn
  OBVIOUS
<1> HIDE DEF new
<1>3. held[u].doc \in Doc /\ held[u].tree \in DOMAIN trees /\ held[u].turn \in Nat
  BY <1>1 DEF DocumentsInv, DocumentTypes
<1>4. /\ DOMAIN trees' = DOMAIN trees /\ new \in trees'[held[u].tree]
      /\ \A k \in DOMAIN trees : trees[k] \subseteq trees'[k] /\ k # 0
  BY <1>1, <1>3 DEF DocumentsInv, DocumentTypes
<1>5. DocumentTypes'
  BY <1>1, <1>2, <1>3, <1>4 DEF DocumentsInv, DocumentTypes
<1>6. HeldIsCurrent'
  BY <1>1 DEF DocumentsInv, HeldIsCurrent
<1>7. EditsAreNoLater'
  BY <1>1, <1>2 DEF DocumentsInv, EditsAreNoLater, HeldIsCurrent
<1>8. EditsReachTheDocument'
  <2> SUFFICES ASSUME NEW edit \in edits', edit.turn = turns[edit.doc]
               PROVE  docs[edit.doc] # 0 /\ edit \in trees'[docs[edit.doc]]
    BY <1>1 DEF EditsReachTheDocument, Documents!EditsReachTheDocument
  <2>1. CASE edit = new
    BY <1>1, <1>2, <1>3, <1>4, <2>1 DEF DocumentsInv, HeldIsCurrent
  <2>2. CASE edit \in edits
    <3>1. /\ edit.doc \in Doc /\ docs[edit.doc] # 0 /\ edit \in trees[docs[edit.doc]]
          /\ docs[edit.doc] \in DOMAIN trees
      BY <2>2 DEF DocumentsInv, DocumentTypes, EditsReachTheDocument,
                  Documents!EditsReachTheDocument
    <3> QED
      BY <1>4, <3>1
  <2> QED
    BY <1>1, <2>1, <2>2
<1> QED
  BY <1>5, <1>6, <1>7, <1>8 DEF DocumentsInv

LEMMA DocumentsKept ==
  DocumentsInv /\ [Documents!Next]_(Documents!vars) => DocumentsInv'
<1> SUFFICES ASSUME DocumentsInv, [Documents!Next]_(Documents!vars) PROVE DocumentsInv'
  OBVIOUS
<1>1. ASSUME NEW u \in User, NEW d \in Doc,
             \/ Documents!Get(u, d) \/ Documents!Create(u, d)
             \/ Documents!GetOrCreate(u, d) \/ Documents!Save(u, d)
      PROVE  DocumentsInv'
  BY <1>1, GetKeeps, CreateKeeps, SaveReplaces, ReplacesKeeps DEF Documents!GetOrCreate
<1>2. ASSUME NEW u \in User, Documents!Edit(u) PROVE DocumentsInv'
  BY <1>2, EditKeeps
<1>3. ASSUME NEW d \in Doc, Documents!Delete(d) PROVE DocumentsInv'
  BY <1>3, DeleteReplaces, ReplacesKeeps
<1>4. CASE UNCHANGED Documents!vars
  <2>1. docs' = docs /\ trees' = trees /\ held' = held /\ turns' = turns /\ edits' = edits
    BY <1>4 DEF Documents!vars
  <2>2. DocumentTypes'
    BY <2>1 DEF DocumentsInv, DocumentTypes
  <2> QED
    BY <2>1, <2>2 DEF DocumentsInv, HeldIsCurrent, EditsAreNoLater,
                      EditsReachTheDocument, Documents!EditsReachTheDocument
<1> QED
  BY <1>1, <1>2, <1>3, <1>4 DEF Documents!Next

(* Whatever goroutine holds a tree, its edits are in the document, unless  *)
(* the document was deleted or overwritten in between (GetOrCreate, Save). *)
THEOREM RepositoryLosesNoEdit == Documents!Spec => []EditsReachTheDocument
<1>1. DocumentsInv => EditsReachTheDocument
  BY DEF DocumentsInv
<1> QED
  BY <1>1, DocumentsStart, DocumentsKept, PTL DEF Documents!Spec

-----------------------------------------------------------------------------
(* The Redis subscriber.                                                   *)

Call == [kind : {"open", "subscribe", "unsubscribe"}, doc : Doc, done : BOOLEAN]

InCall(g) == calling[g] # Redis!idle

(* s.mu lets one call at a time through to Redis.                          *)
OneCall ==
  /\ calling \in [Caller -> {Redis!idle} \union Call]
  /\ \A g, h \in Caller : InCall(g) /\ InCall(h) => g = h

(* The call that opens the connection is the only one that finds none.     *)
OpensFirst ==
  /\ closing \in [Closer -> {"uncalled", "stopOnly", "stop", "pubsub", "returned"}]
  /\ \A g \in Caller : InCall(g) => (calling[g].kind = "open" <=> pubsub = "none")
  /\ \A g \in Closer : closing[g] \in {"stop", "pubsub"} => pubsub # "none"

(* Before that call returns, its document alone can be subscribed.         *)
NothingElseIsOpen ==
  pubsub = "none" =>
    /\ subs = {}
    /\ \A d \in channels : \E g \in Caller :
         InCall(g) /\ calling[g].done /\ calling[g].doc = d

(* What a call has done at Redis is still so when it returns.              *)
WorkStands ==
  pubsub # "closed" =>
    \A g \in Caller : InCall(g) /\ calling[g].done =>
      (calling[g].doc \in channels <=> calling[g].kind # "unsubscribe")

RedisInv ==
  OneCall /\ OpensFirst /\ NothingElseIsOpen /\ WorkStands /\ SubscribedUnlessCallFailed

LEMMA RedisStart == Redis!Init => RedisInv
BY DEF Redis!Init, Redis!idle, RedisInv, InCall, OneCall, OpensFirst, NothingElseIsOpen,
       WorkStands, SubscribedUnlessCallFailed, Redis!SubscribedUnlessCallFailed

(* A call begins when there is no other.                                   *)
LEMMA CallKeeps ==
  ASSUME RedisInv, NEW g \in Caller, NEW d \in Doc,
         NEW kind \in {"open", "subscribe", "unsubscribe"}, Redis!CallRedis(g, kind, d),
         kind = "open" <=> pubsub = "none"
  PROVE  RedisInv'
<1>1. /\ \A h \in Caller : ~InCall(h)
      /\ UNCHANGED <<pubsub, subs, closing, channels, unsure>>
  BY DEF Redis!CallRedis, Redis!Unlocked, InCall
<1>2. /\ calling' = [calling EXCEPT ![g] = [kind |-> kind, doc |-> d, done |-> FALSE]]
      /\ [kind |-> kind, doc |-> d, done |-> FALSE] \in Call
      /\ calling \in [Caller -> {Redis!idle} \union Call]
  BY DEF Redis!CallRedis, RedisInv, OneCall, Call
<1>3. /\ calling' \in [Caller -> {Redis!idle} \union Call]
      /\ calling'[g].kind = kind /\ ~calling'[g].done
      /\ \A h \in Caller \ {g} : calling'[h] = calling[h]
  BY <1>2
<1>4. OneCall'
  BY <1>1, <1>3 DEF OneCall, InCall
<1>5. OpensFirst'
  BY <1>1, <1>3 DEF RedisInv, OpensFirst, InCall
<1>6. NothingElseIsOpen'
  BY <1>1 DEF RedisInv, NothingElseIsOpen
<1>7. WorkStands'
  BY <1>1, <1>3 DEF WorkStands, InCall
<1>8. SubscribedUnlessCallFailed'
  BY <1>1 DEF RedisInv, SubscribedUnlessCallFailed, Redis!SubscribedUnlessCallFailed,
     Redis!CalledAbout, InCall
<1> QED
  BY <1>4, <1>5, <1>6, <1>7, <1>8 DEF RedisInv

LEMMA RedisDoesKeeps ==
  ASSUME RedisInv, NEW g \in Caller, Redis!RedisDoes(g)
  PROVE  RedisInv'
<1> DEFINE m == calling[g]
<1>1. /\ InCall(g) /\ m \in Call /\ ~m.done /\ pubsub # "closed"
      /\ UNCHANGED <<pubsub, subs, closing, unsure>>
      /\ calling' = [calling EXCEPT ![g].done = TRUE]
      /\ channels' = IF m.kind = "unsubscribe" THEN channels \ {m.doc}
                     ELSE channels \union {m.doc}
  BY DEF Redis!RedisDoes, RedisInv, OneCall, InCall
<1>2. \A h \in Caller : InCall(h) => h = g
  BY <1>1 DEF RedisInv, OneCall
<1>3. /\ calling' \in [Caller -> {Redis!idle} \union Call]
      /\ calling'[g] \in Call /\ calling'[g].done
      /\ calling'[g].kind = m.kind /\ calling'[g].doc = m.doc
      /\ \A h \in Caller \ {g} : calling'[h] = calling[h]
  BY <1>1 DEF RedisInv, OneCall, Call
<1>4. InCall(g)' /\ \A h \in Caller : InCall(h)' => h = g
  BY <1>1, <1>2, <1>3 DEF InCall, Call, Redis!idle
<1>5. OneCall'
  BY <1>3, <1>4 DEF OneCall
<1>6. OpensFirst'
  BY <1>1, <1>3, <1>4 DEF RedisInv, OpensFirst
<1>7. NothingElseIsOpen'
  <2> SUFFICES ASSUME pubsub = "none"
               PROVE  subs = {} /\ \A d \in channels' : d = m.doc
    BY <1>1, <1>3, <1>4 DEF NothingElseIsOpen
  <2>1. \A d \in channels : d = m.doc
    BY <1>1, <1>2 DEF RedisInv, NothingElseIsOpen
  <2> QED
    BY <1>1, <2>1 DEF RedisInv, NothingElseIsOpen
<1>8. WorkStands'
  BY <1>1, <1>3, <1>4 DEF WorkStands
<1>9. SubscribedUnlessCallFailed'
  <2> SUFFICES ASSUME pubsub = "open", NEW d \in Doc \ unsure, d # m.doc
               PROVE  d \in subs <=> d \in channels
    BY <1>1, <1>3, <1>4 DEF SubscribedUnlessCallFailed, Redis!SubscribedUnlessCallFailed,
       Redis!CalledAbout, InCall
  <2> QED
    BY <1>2 DEF RedisInv, SubscribedUnlessCallFailed, Redis!SubscribedUnlessCallFailed,
       Redis!CalledAbout, InCall
<1> QED
  BY <1>5, <1>6, <1>7, <1>8, <1>9 DEF RedisInv

(* A call that returns: nobody is in a call any more, and the document is  *)
(* in s.subs just when it is subscribed, or the call has failed.           *)
LEMMA ReturnKeeps ==
  ASSUME RedisInv, NEW g \in Caller, Redis!CallReturns(g)
  PROVE  RedisInv'
<1> DEFINE m == calling[g]
<1>1. /\ InCall(g) /\ m \in Call
      /\ calling' = [calling EXCEPT ![g] = Redis!idle]
      /\ UNCHANGED <<closing, channels>>
  <2>1. /\ m.kind \in {"open", "subscribe", "unsubscribe"}
        /\ calling' = [calling EXCEPT ![g] = Redis!idle]
        /\ UNCHANGED <<closing, channels>>
    BY DEF Redis!CallReturns, Redis!Opened, Redis!Subscribed, Redis!Unsubscribed,
           Redis!CallFails
  <2>2. m \in {Redis!idle} \union Call
    BY DEF RedisInv, OneCall
  <2> QED
    BY <2>1, <2>2 DEF InCall, Redis!idle
<1>2. \A h \in Caller : InCall(h) => h = g
  BY <1>1 DEF RedisInv, OneCall
<1>3. calling' \in [Caller -> {Redis!idle} \union Call] /\ \A h \in Caller : ~InCall(h)'
  BY <1>1, <1>2 DEF RedisInv, OneCall, InCall
<1>4. OneCall' /\ WorkStands'
  BY <1>3 DEF OneCall, WorkStands
<1>5. /\ pubsub' # "none"
      /\ pubsub # "none" => pubsub' = pubsub
      /\ m.kind = "open" => pubsub' = "open" /\ subs' = subs \union {m.doc}
      /\ m.kind # "open" => pubsub' = pubsub
  BY <1>1 DEF Redis!CallReturns, Redis!Opened, Redis!Subscribed, Redis!Unsubscribed,
     Redis!CallFails, RedisInv, OpensFirst
<1>6. OpensFirst' /\ NothingElseIsOpen'
  BY <1>1, <1>3, <1>5 DEF RedisInv, OpensFirst, NothingElseIsOpen
<1>7. \A d \in Doc \ unsure' : d # m.doc =>
        d \notin unsure /\ (d \in subs' <=> d \in subs)
  BY DEF Redis!CallReturns, Redis!Opened, Redis!Subscribed, Redis!Unsubscribed,
     Redis!CallFails, Redis!Note
<1>8. m.doc \notin unsure' =>
        m.done /\ (m.doc \in subs' <=> m.kind # "unsubscribe")
  BY DEF Redis!CallReturns, Redis!Opened, Redis!Subscribed, Redis!Unsubscribed,
     Redis!CallFails, Redis!Note
<1>9. SubscribedUnlessCallFailed'
  <2> SUFFICES ASSUME pubsub' = "open", NEW d \in Doc \ unsure'
               PROVE  d \in subs' <=> d \in channels
    BY <1>1 DEF SubscribedUnlessCallFailed, Redis!SubscribedUnlessCallFailed
  <2>1. pubsub # "closed"
    BY <1>5
  <2>2. CASE d = m.doc
    BY <1>1, <1>8, <2>1, <2>2 DEF RedisInv, WorkStands
  <2>3. CASE d # m.doc /\ pubsub = "none"
    <3>1. subs = {} /\ \A e \in channels : e = m.doc
      BY <1>2, <2>3 DEF RedisInv, NothingElseIsOpen
    <3> QED
      BY <1>7, <2>3, <3>1
  <2>4. CASE d # m.doc /\ pubsub # "none"
    <3>1. pubsub = "open" /\ d \notin unsure /\ (d \in subs' <=> d \in subs)
      BY <1>5, <1>7, <2>4
    <3>2. ~Redis!CalledAbout(d)
      BY <1>2, <2>4 DEF Redis!CalledAbout, InCall
    <3> QED
      BY <3>1, <3>2 DEF RedisInv, SubscribedUnlessCallFailed,
         Redis!SubscribedUnlessCallFailed
  <2> QED
    BY <2>2, <2>3, <2>4
<1> QED
  BY <1>4, <1>6, <1>9 DEF RedisInv

LEMMA CloserKeeps ==
  ASSUME RedisInv, NEW g \in Closer,
         Redis!CloseLocked(g) \/ Redis!Closing(g) \/ Redis!CloseAgain(g)
  PROVE  RedisInv'
<1>1. UNCHANGED <<subs, calling, unsure>>
  BY DEF Redis!CloseLocked, Redis!Closing, Redis!CloseStop, Redis!ClosePubsub,
         Redis!CloseAgain
<1>2. \/ UNCHANGED <<pubsub, channels>>
      \/ pubsub # "none" /\ pubsub' = "closed"
  BY DEF Redis!CloseLocked, Redis!Closing, Redis!CloseStop, Redis!ClosePubsub,
         Redis!CloseAgain, RedisInv, OpensFirst
<1>3. /\ closing' \in [Closer -> {"uncalled", "stopOnly", "stop", "pubsub", "returned"}]
      /\ \A h \in Closer : closing'[h] \in {"stop", "pubsub"} => pubsub # "none"
  <2>1. CASE Redis!CloseLocked(g)
    BY <2>1 DEF Redis!CloseLocked, RedisInv, OpensFirst
  <2>2. CASE Redis!Closing(g)
    BY <2>2 DEF Redis!Closing, Redis!CloseStop, Redis!ClosePubsub, RedisInv, OpensFirst
  <2>3. CASE Redis!CloseAgain(g)
    BY <2>3 DEF Redis!CloseAgain, RedisInv, OpensFirst
  <2> QED
    BY <2>1, <2>2, <2>3
<1>4. OneCall'
  BY <1>1 DEF RedisInv, OneCall, InCall
<1>5. OpensFirst'
  BY <1>1, <1>2, <1>3 DEF RedisInv, OpensFirst, InCall
<1>6. NothingElseIsOpen' /\ WorkStands'
  BY <1>1, <1>2 DEF RedisInv, NothingElseIsOpen, WorkStands, InCall
<1>7. SubscribedUnlessCallFailed'
  BY <1>1, <1>2 DEF RedisInv, SubscribedUnlessCallFailed, Redis!SubscribedUnlessCallFailed,
     Redis!CalledAbout
<1> QED
  BY <1>4, <1>5, <1>6, <1>7 DEF RedisInv

LEMMA RedisKept == RedisInv /\ [Redis!Next]_(Redis!vars) => RedisInv'
<1> SUFFICES ASSUME RedisInv, [Redis!Next]_(Redis!vars)
             PROVE  RedisInv'
  OBVIOUS
<1>1. ASSUME NEW g \in Caller, NEW d \in Doc,
             Redis!Subscribe(g, d) \/ Redis!Unsubscribe(g, d)
      PROVE  RedisInv'
  BY <1>1, CallKeeps DEF Redis!Subscribe, Redis!Unsubscribe
<1>2. CASE \/ UNCHANGED Redis!vars
           \/ Redis!RunStart \/ Redis!Run \/ Redis!Consume
           \/ \E isDelta \in BOOLEAN : Redis!Deliver(isDelta)
  <2>1. UNCHANGED <<pubsub, subs, calling, closing, channels, unsure>>
    BY <1>2 DEF Redis!vars, Redis!RunStart, Redis!Run, Redis!RunReceive, Redis!RunForward,
                Redis!RunEnd, Redis!Consume, Redis!Deliver, Redis!callers
  <2> QED
    BY <2>1 DEF RedisInv, OneCall, OpensFirst, NothingElseIsOpen, WorkStands, InCall,
       SubscribedUnlessCallFailed, Redis!SubscribedUnlessCallFailed, Redis!CalledAbout
<1> QED
  BY <1>1, <1>2, RedisDoesKeeps, ReturnKeeps, CloserKeeps DEF Redis!Next

(* While the connection stands, s.subs holds just the documents that it is *)
(* subscribed to, but for one that a call is about and those whose last    *)
(* call has failed: because a call holds s.mu until it returns, and Close  *)
(* ends the connection with its subscriptions (subscriber.go).             *)
THEOREM SubscriberIsSubscribed == Redis!Spec => []SubscribedUnlessCallFailed
<1>1. RedisInv => SubscribedUnlessCallFailed
  BY DEF RedisInv
<1> QED
  BY <1>1, RedisStart, RedisKept, PTL DEF Redis!Spec
=============================================================================
