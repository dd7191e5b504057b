---------------------------- MODULE WorkerProofs ------------------------------
(***************************************************************************)
(* Proofs about the worker threads behind a connection and the way their   *)
(* answers take: ThreadPool, and at the end NapiCompletionQueue.           *)
(*                                                                         *)
(* ThreadPool, for every set of clients and every bound.  Type correctness *)
(* holds for any number of workers.  Mutual exclusion, and that the pool   *)
(* implements SerialExecutor, are proved for one worker, which is how every*)
(* connection creates its pool: with more, the shared claimHandedOff_ flag *)
(* breaks both.                                                            *)
(*                                                                         *)
(* NapiCompletionQueue, for any number of dispatchers and of pieces of     *)
(* work.  Its three invariants are proved together: the type of `calls` (at*)
(* most one queued call) and NoneStranded rest on SignalInv.               *)
(***************************************************************************)
EXTENDS ThreadPool, NapiCompletionQueue, TLAPS

\* Notifying changes nothing but that a sleeping worker re-evaluates its
\* predicate.
WakesOnly(pcs, qcs) ==
  /\ qcs \in [Workers -> WorkerPC]
  /\ \A w \in Workers : qcs[w] = pcs[w] \/ (pcs[w] = "asleep" /\ qcs[w] = "slow")

\* cv_.notify_one() and cv_.notify_all() wake sleepers and do nothing else.
LEMMA NotifyWakesOnly ==
  ASSUME NEW pcs \in [Workers -> WorkerPC]
  PROVE  /\ \A qcs \in NotifyOne(pcs) : WakesOnly(pcs, qcs)
         /\ WakesOnly(pcs, NotifyAll(pcs))
<1>1. ASSUME NEW qcs \in NotifyOne(pcs) PROVE WakesOnly(pcs, qcs)
  <2>1. CASE qcs = pcs
    BY <2>1 DEF WakesOnly
  <2>2. CASE \E v \in Workers : pcs[v] = "asleep" /\ qcs = [pcs EXCEPT ![v] = "slow"]
    BY <2>2 DEF WakesOnly, WorkerPC
  <2>3. QED
    BY <1>1, <2>1, <2>2 DEF NotifyOne
<1>2. WakesOnly(pcs, NotifyAll(pcs))
  BY DEF WakesOnly, NotifyAll, WorkerPC
<1>3. QED
  BY <1>1, <1>2

\* The wakeups of the individual calls are notifies.
LEMMA CallsWakeOnly ==
  ASSUME TypeOK
  PROVE  /\ \A qcs \in EnqueueWakes : WakesOnly(wpc, qcs)
         /\ \A qcs \in WakeOnRelease : WakesOnly(wpc, qcs)
<1>1. wpc \in [Workers -> WorkerPC]
  BY DEF TypeOK
<1>2. WakesOnly(wpc, wpc)
  BY <1>1 DEF WakesOnly
<1>3. QED
  BY <1>1, <1>2, NotifyWakesOnly DEF EnqueueWakes, WakeOnRelease

-----------------------------------------------------------------------------
(* Type correctness.                                                       *)

\* A worker that takes a task keeps every type.
LEMMA TakeType ==
  ASSUME TypeOK, NEW w \in Workers, tasks # <<>>, Take(w)
  PROVE  TypeOK'
<1>1. Head(tasks) \in Job /\ Tail(tasks) \in Seq(Job)
  BY DEF TypeOK
<1>2. QED
  BY <1>1 DEF TypeOK, Take, WorkerPC, clientVars

\* Every step of a client keeps every type.
LEMMA ClientType ==
  ASSUME TypeOK, NEW c \in Clients, ClientStep(c)
  PROVE  TypeOK'
<1> USE ThreadPoolAssumption DEF poolVars, workerVars, clientVars, ClientPC
<1>1. CASE Enqueue(c)
  <2>1. [id |-> issued + 1, for |-> NoClient] \in Job
    BY <1>1 DEF Enqueue, TypeOK, Job
  <2>2. Append(tasks, [id |-> issued + 1, for |-> NoClient]) \in Seq(Job)
    BY <2>1 DEF TypeOK
  <2>3. QED
    BY <1>1, <2>2 DEF Enqueue, TypeOK
<1>2. CASE EnqueueNotify(c)
  BY <1>2, CallsWakeOnly DEF EnqueueNotify, TypeOK, WakesOnly
<1>3. CASE AcquireNested(c)
  BY <1>3 DEF AcquireNested, TypeOK
<1>4. CASE AcquireFast(c)
  BY <1>4 DEF AcquireFast, TypeOK
<1>5. CASE AcquireSlow(c)
  <2>1. [id |-> issued + 1, for |-> c] \in Job
    BY <1>5 DEF AcquireSlow, TypeOK, Job
  <2>2. Append(tasks, [id |-> issued + 1, for |-> c]) \in Seq(Job)
    BY <2>1 DEF TypeOK
  <2>3. wpc' \in [Workers -> WorkerPC]
    BY <1>5, NotifyWakesOnly DEF AcquireSlow, TypeOK, WakesOnly
  <2>4. QED
    BY <1>5, <2>2, <2>3 DEF AcquireSlow, TypeOK
<1>6. CASE AcquireReturn(c)
  BY <1>6 DEF AcquireReturn, TypeOK
<1>7. CASE ReleaseNested(c)
  BY <1>7 DEF ReleaseNested, TypeOK
<1>8. CASE ReleaseLast(c)
  <2>1. wpc' \in [Workers -> WorkerPC]
    BY <1>8, CallsWakeOnly DEF ReleaseLast, WakesOnly
  <2>2. busy' \in BOOLEAN
    BY <1>8 DEF ReleaseLast
  <2>3. owner' \in Clients \cup {NoClient} /\ depth' \in 0..MaxDepth
    BY <1>8 DEF ReleaseLast
  <2>4. cpc' \in [Clients -> ClientPC] /\ cjob' \in [Clients -> 0..MaxIssued]
    BY <1>8 DEF ReleaseLast, TypeOK
  <2>5. QED
    BY <1>8, <2>1, <2>2, <2>3, <2>4 DEF ReleaseLast, TypeOK
<1>9. CASE ShutdownBegin(c)
  <2>1. busy' \in BOOLEAN /\ owner' \in Clients \cup {NoClient}
    BY <1>9 DEF ShutdownBegin, TypeOK
  <2>2. depth' \in 0..MaxDepth
    BY <1>9 DEF ShutdownBegin, DepthAfterStop
  <2>3. cpc' \in [Clients -> ClientPC] /\ cjob' \in [Clients -> 0..MaxIssued]
        /\ cnotify' \in [Clients -> BOOLEAN]
    BY <1>9 DEF ShutdownBegin, TypeOK
  <2>4. QED
    BY <1>9, <2>1, <2>2, <2>3 DEF ShutdownBegin, TypeOK
<1>10. CASE ShutdownNotify(c)
  <2>1. wpc' \in [Workers -> WorkerPC]
    BY <1>10, NotifyWakesOnly DEF ShutdownNotify, TypeOK, WakesOnly
  <2>2. QED
    BY <1>10, <2>1 DEF ShutdownNotify, TypeOK
<1>11. CASE ShutdownReturn(c)
  BY <1>11 DEF ShutdownReturn, TypeOK
<1>12. QED
  BY <1>1, <1>2, <1>3, <1>4, <1>5, <1>6, <1>7, <1>8, <1>9, <1>10, <1>11 DEF ClientStep

\* Every step of a worker keeps every type.
LEMMA WorkerType ==
  ASSUME TypeOK, NEW w \in Workers, WorkerStep(w)
  PROVE  TypeOK'
<1> USE ThreadPoolAssumption DEF poolVars, clientVars, WorkerPC
<1>1. CASE SpinTake(w)
  BY <1>1, TakeType DEF SpinTake, Ready
<1>2. CASE SlowTake(w)
  BY <1>2, TakeType DEF SlowTake
<1>3. CASE SpinExit(w) \/ SpinGiveUp(w) \/ SlowSleep(w) \/ SlowExit(w) \/ SpuriousWake(w)
  BY <1>3 DEF SpinExit, SpinGiveUp, SlowSleep, SlowExit, SpuriousWake, TypeOK
<1>4. CASE RunWork(w)
  BY <1>4 DEF RunWork, TypeOK
<1>5. CASE RunGrant(w)
  <2>1. wtask[w].for \in Clients
    BY <1>5 DEF RunGrant, IsGrant, TypeOK, Job, NoJob
  <2>2. QED
    BY <1>5, <2>1 DEF RunGrant, TypeOK
<1>6. CASE PostTask(w)
  BY <1>6 DEF PostTask, BusyAfterTask, NotifyAfterTask, TypeOK
<1>7. CASE PostNotify(w)
  <2>1. [wpc EXCEPT ![w] = "spin"] \in [Workers -> WorkerPC]
    BY DEF TypeOK
  <2>2. wpc' \in NotifyOne([wpc EXCEPT ![w] = "spin"]) => wpc' \in [Workers -> WorkerPC]
    BY <2>1, NotifyWakesOnly DEF WakesOnly
  <2>3. NotifyAll([wpc EXCEPT ![w] = "spin"]) \in [Workers -> WorkerPC]
    BY <2>1, NotifyWakesOnly DEF WakesOnly
  <2>4. wpc' \in [Workers -> WorkerPC]
    BY <1>7, <2>2, <2>3 DEF PostNotify
  <2>5. UNCHANGED <<poolVars, wtask, clientVars>>
    BY <1>7 DEF PostNotify
  <2>6. QED
    BY <2>4, <2>5 DEF TypeOK
<1>8. QED
  BY <1>1, <1>2, <1>3, <1>4, <1>5, <1>6, <1>7 DEF WorkerStep

\* Every variable of the pool keeps its type, whatever the threads do.
THEOREM TypeCorrect == Spec => []TypeOK
<1>1. Init => TypeOK
  <2>1. ASSUME Init PROVE tasks \in Seq(Job) /\ wtask \in [Workers -> Job \cup {NoJob}]
    BY <2>1 DEF Init
  <2>2. ASSUME Init PROVE wpc \in [Workers -> WorkerPC] /\ cpc \in [Clients -> ClientPC]
    BY <2>2 DEF Init, WorkerPC, ClientPC
  <2>3. ASSUME Init PROVE busy \in BOOLEAN /\ handedOff \in BOOLEAN /\ stop \in BOOLEAN
    BY <2>3 DEF Init
  <2>4. ASSUME Init PROVE cnotify \in [Clients -> BOOLEAN] /\ granted \in [Clients -> BOOLEAN]
    BY <2>4 DEF Init
  <2>5. ASSUME Init PROVE /\ owner \in Clients \cup {NoClient} /\ depth \in 0..MaxDepth
                          /\ issued \in 0..MaxIssued /\ cjob \in [Clients -> 0..MaxIssued]
    BY <2>5, ThreadPoolAssumption DEF Init
  <2>6. QED
    BY <2>1, <2>2, <2>3, <2>4, <2>5 DEF TypeOK
<1>2. TypeOK /\ [Next]_vars => TypeOK'
  <2> SUFFICES ASSUME TypeOK, [Next]_vars
               PROVE  TypeOK'
    OBVIOUS
  <2>1. CASE Next
    BY <2>1, ClientType, WorkerType DEF Next
  <2>2. CASE UNCHANGED vars
    BY <2>2 DEF vars, poolVars, workerVars, clientVars, TypeOK
  <2>3. QED
    BY <2>1, <2>2
<1>3. QED
  BY <1>1, <1>2, PTL DEF Spec

-----------------------------------------------------------------------------
(* Mutual exclusion, with one worker.                                      *)

\* The pool of every connection has one worker.
SingleWorker == \E w \in Workers : Workers = {w}

\* What a step of one client does to ClaimInv.
LEMMA ClientKeepsClaim ==
  ASSUME TypeOK, ClaimInv, NEW c \in Clients, ClientStep(c)
  PROVE  ClaimInv'
<1> USE ThreadPoolAssumption DEF ClaimInv, Holds, TypeOK
<1>1. ASSUME WakesOnly(wpc, wpc'), UNCHANGED <<busy, handedOff, owner, depth, cpc, granted>>
      PROVE  ClaimInv'
  BY <1>1 DEF WakesOnly
<1>2. CASE Enqueue(c)
  BY <1>2 DEF Enqueue, workerVars
<1>3. CASE EnqueueNotify(c)
  BY <1>1, <1>3, CallsWakeOnly DEF EnqueueNotify, poolVars
<1>4. CASE AcquireNested(c)
  BY <1>4 DEF AcquireNested, workerVars, clientVars
<1>5. CASE AcquireFast(c)
  BY <1>5 DEF AcquireFast, Idle, workerVars
<1>6. CASE AcquireSlow(c)
  <2>1. WakesOnly(wpc, wpc')
    BY <1>6, NotifyWakesOnly DEF AcquireSlow
  <2>2. \A d \in Clients : Holds(d)' => Holds(d)
    BY <1>6 DEF AcquireSlow, MayCall
  <2>3. QED
    BY <1>6, <2>1, <2>2 DEF AcquireSlow, WakesOnly
<1>7. CASE AcquireReturn(c)
  BY <1>7 DEF AcquireReturn, poolVars, workerVars
<1>8. CASE ReleaseNested(c)
  BY <1>8 DEF ReleaseNested, workerVars, clientVars
<1>9. CASE ReleaseLast(c)
  <2>1. WakesOnly(wpc, wpc')
    BY <1>9, CallsWakeOnly DEF ReleaseLast
  <2>2. owner = c /\ \A d \in Clients : ~Holds(d)'
    BY <1>9 DEF ReleaseLast
  <2>3. QED
    BY <1>9, <2>1, <2>2 DEF ReleaseLast, WakesOnly
<1>10. CASE ShutdownBegin(c)
  <2>1. \A d \in Clients : Holds(d)' => FALSE
    BY <1>10 DEF ShutdownBegin, MayCall
  <2>2. QED
    BY <1>10, <2>1 DEF ShutdownBegin, DepthAfterStop, workerVars
<1>11. CASE ShutdownNotify(c)
  BY <1>1, <1>11, NotifyWakesOnly DEF ShutdownNotify, poolVars
<1>12. CASE ShutdownReturn(c)
  BY <1>12 DEF ShutdownReturn, poolVars, workerVars
<1>13. QED
  BY <1>2, <1>3, <1>4, <1>5, <1>6, <1>7, <1>8, <1>9, <1>10, <1>11, <1>12 DEF ClientStep

\* What a step of the one worker does to ClaimInv.
LEMMA WorkerKeepsClaim ==
  ASSUME TypeOK, ClaimInv, NEW w \in Workers, Workers = {w}, WorkerStep(w)
  PROVE  ClaimInv'
<1> USE ThreadPoolAssumption DEF ClaimInv, Holds, TypeOK, clientVars
<1>1. CASE SpinTake(w) \/ SlowTake(w)
  BY <1>1 DEF SpinTake, SlowTake, Ready, WaitOver, Take
<1>2. CASE SpinExit(w) \/ SpinGiveUp(w) \/ SlowSleep(w) \/ SlowExit(w) \/ SpuriousWake(w)
  BY <1>2 DEF SpinExit, SpinGiveUp, SlowSleep, SlowExit, SpuriousWake, poolVars
<1>3. CASE RunWork(w)
  BY <1>3 DEF RunWork, poolVars
<1>4. CASE RunGrant(w)
  <2>1. wtask[w].for \in Clients
    BY <1>4 DEF RunGrant, IsGrant, Job, NoJob
  <2>2. \A d \in Clients : ~Holds(d)
    BY <1>4 DEF RunGrant
  <2>3. QED
    BY <1>4, <2>1, <2>2 DEF RunGrant
<1>5. CASE PostTask(w)
  BY <1>5 DEF PostTask, BusyAfterTask, NotifyAfterTask
<1>6. CASE PostNotify(w)
  <2>1. [wpc EXCEPT ![w] = "spin"] \in [Workers -> WorkerPC]
    BY DEF WorkerPC
  <2>2. WakesOnly([wpc EXCEPT ![w] = "spin"], wpc')
    BY <1>6, <2>1, NotifyWakesOnly DEF PostNotify
  <2>3. wpc'[w] \notin {"run", "post"} /\ wpc[w] \notin {"run", "post"}
    BY <1>6, <2>2 DEF PostNotify, WakesOnly
  <2>4. QED
    BY <1>6, <2>3 DEF PostNotify, poolVars
<1>7. QED
  BY <1>1, <1>2, <1>3, <1>4, <1>5, <1>6 DEF WorkerStep

\* busy_ always stands for exactly one runner, who will clear it.
LEMMA ClaimCorrect ==
  ASSUME SingleWorker
  PROVE  Spec => []ClaimInv
<1>1. Init => ClaimInv
  BY ThreadPoolAssumption DEF Init, ClaimInv, Holds
<1>2. TypeOK /\ ClaimInv /\ [Next]_vars => ClaimInv'
  <2> SUFFICES ASSUME TypeOK, ClaimInv, [Next]_vars
               PROVE  ClaimInv'
    OBVIOUS
  <2>1. CASE Next
    BY <2>1, ClientKeepsClaim, WorkerKeepsClaim DEF Next, SingleWorker
  <2>2. CASE UNCHANGED vars
    BY <2>2 DEF vars, poolVars, workerVars, clientVars, ClaimInv, Holds
  <2>3. QED
    BY <2>1, <2>2
<1>3. QED
  BY <1>1, <1>2, TypeCorrect, PTL DEF Spec

\* With one worker, whatever the number of calling threads and the nesting of
\* their claims, the pool runs one job at a time (thread_pool.h:7-12).
THEOREM MutualExclusion ==
  ASSUME SingleWorker
  PROVE  Spec => []OneAtATime
<1>1. ClaimInv => OneAtATime
  BY ThreadPoolAssumption DEF SingleWorker, ClaimInv, OneAtATime, Holds
<1>2. QED
  BY <1>1, ClaimCorrect, PTL

-----------------------------------------------------------------------------
(* The serial executor, with one worker.                                   *)

\* How many jobs have started.
Started == issued - Len(tasks)

\* The client is, or will be, waiting for this job and no other.
Awaits(c, job) == cpc[c] = "wait" /\ ~granted[c] /\ cjob[c] = job.id

WillAwait(c, job) == cpc'[c] = "wait" /\ ~granted'[c] /\ cjob'[c] = job.id

\* The jobs queued are the last ones issued, in order; the job in the hands of a
\* worker, or behind a granted claim, is the last one started; and the client of a
\* grant waits for it.
JobsInv ==
  /\ Len(tasks) <= issued
  /\ \A i \in 1..Len(tasks) : tasks[i].id = Started + i
  /\ \A i \in 1..Len(tasks) : IsGrant(tasks[i]) => Awaits(tasks[i].for, tasks[i])
  /\ \A w \in Workers : wpc[w] = "run" =>
       /\ wtask[w].id = Started /\ Started > 0
       /\ IsGrant(wtask[w]) => Awaits(wtask[w].for, wtask[w])
  /\ \A c \in Clients : Holds(c) => cjob[c] = Started /\ Started > 0

\* What the refinement mapping calls the running job, and whether there is one.
Current == IF Executing = {} THEN 0 ELSE CHOOSE j \in Executing : TRUE

Running == (\E w \in Workers : wpc[w] = "run") \/ (\E c \in Clients : Holds(c))

\* Whoever runs, runs the last job started.
LEMMA CurrentIs == TypeOK /\ JobsInv => Current = (IF Running THEN Started ELSE 0)
<1> SUFFICES ASSUME TypeOK, JobsInv PROVE Current = (IF Running THEN Started ELSE 0)
  OBVIOUS
<1>1. \A j \in Executing : j = Started
  BY DEF Executing, JobsInv
<1>2. ASSUME Executing # {} PROVE Current = Started
  BY <1>1, <1>2 DEF Current
<1>3. Running <=> Executing # {}
  BY DEF Executing, Running
<1>4. QED
  BY <1>2, <1>3 DEF Current

\* A job that joins the queue.
LEMMA Joins ==
  ASSUME TypeOK, JobsInv, NEW job \in Job, job.id = issued + 1, tasks' = Append(tasks, job), issued' = issued + 1
  PROVE  /\ Started' = Started /\ Len(tasks') <= issued'
         /\ \A i \in 1..Len(tasks') :
              /\ tasks'[i].id = Started' + i
              /\ tasks'[i] = job \/ (i \in 1..Len(tasks) /\ tasks'[i] = tasks[i])
<1>1. Len(tasks) \in Nat /\ issued \in Nat /\ Len(tasks') = Len(tasks) + 1
  BY ThreadPoolAssumption DEF TypeOK
<1>2. \A i \in 1..Len(tasks') : IF i = Len(tasks) + 1 THEN tasks'[i] = job ELSE i \in 1..Len(tasks) /\ tasks'[i] = tasks[i]
  BY <1>1 DEF TypeOK
<1>3. QED
  BY <1>1, <1>2 DEF JobsInv, Started

\* What a step of the executor is, in the terms of the pool.
SerialStep ==
  \/ issued' = issued + 1 /\ Started' = Started /\ Current' = Current
  \/ Current = 0 /\ Started < issued /\ issued' = issued /\ Started' = Started + 1 /\ Current' = Started + 1
  \/ /\ Current = 0 /\ Started = issued /\ issued' = issued + 1
     /\ Started' = Started + 1 /\ Current' = Started + 1
  \/ Current # 0 /\ Current' = 0 /\ issued' = issued /\ Started' = Started
  \/ issued' = issued /\ Started' = Started /\ Current' = Current

\* And it is one, or a stutter, under the refinement mapping.
LEMMA SerialSteps == SerialStep => [Serial!AbsNext]_(Serial!absVars)
BY DEF SerialStep, Serial!AbsNext, Serial!absVars, Serial!Submit, Serial!Start, Serial!SubmitAndStart,
       Serial!Finish, Current, Started

\* The client of a grant.
LEMMA QueuedJobs ==
  ASSUME TypeOK
  PROVE  \A i \in 1..Len(tasks) : tasks[i] \in Job /\ (IsGrant(tasks[i]) => tasks[i].for \in Clients)
<1>1. tasks \in Seq(Job)
  BY DEF TypeOK
<1>2. \A job \in Job : IsGrant(job) => job.for \in Clients
  BY DEF Job, IsGrant
<1>3. QED
  BY <1>1, <1>2

\* And that of a grant in the hands of a worker.
LEMMA RunningJobs ==
  ASSUME TypeOK
  PROVE  \A w \in Workers : IsGrant(wtask[w]) => wtask[w] \in Job /\ wtask[w].for \in Clients
BY DEF TypeOK, Job, IsGrant, NoJob

\* Steps that leave the jobs where they are.
LEMMA JobsStay ==
  ASSUME TypeOK, JobsInv, UNCHANGED <<tasks, issued, granted, cjob>>,
         \A w \in Workers : wpc'[w] = "run" <=> wpc[w] = "run",
         \A w \in Workers : wtask'[w] = wtask[w],
         \A d \in Clients : cpc'[d] = cpc[d] \/ (cpc[d] = "wait" /\ granted[d] /\ cpc'[d] = "in")
                                         \/ (cpc[d] = "joining" /\ cpc'[d] = "gone")
  PROVE  JobsInv' /\ Started' = Started /\ Running' = Running
<1>1. \A d \in Clients : Holds(d)' <=> Holds(d)
  BY DEF Holds
<1>2. \A d \in Clients, job \in Job : Awaits(d, job) => WillAwait(d, job)
  BY DEF Awaits, WillAwait
<1>5. Started' = Started /\ Running' = Running
  BY <1>1 DEF Started, Running
<1>6. \A i \in 1..Len(tasks) : IsGrant(tasks[i]) => WillAwait(tasks[i].for, tasks[i])
  BY <1>2, QueuedJobs DEF JobsInv
<1>7. \A w \in Workers : wpc[w] = "run" /\ IsGrant(wtask[w]) => WillAwait(wtask[w].for, wtask[w])
  BY <1>2, RunningJobs DEF JobsInv
<1>8. QED
  BY <1>1, <1>5, <1>6, <1>7 DEF JobsInv, IsGrant, Awaits, WillAwait

\* What a step of one client does to the jobs, and what it is to the executor.
LEMMA ClientIsSerial ==
  ASSUME TypeOK, TypeOK', ClaimInv, ClaimInv', JobsInv, NEW c \in Clients, ClientStep(c)
  PROVE  JobsInv' /\ SerialStep
<1> USE ThreadPoolAssumption
<1>1. Current = (IF Running THEN Started ELSE 0)
  BY CurrentIs
<1>2. JobsInv' => (Current = (IF Running THEN Started ELSE 0))'
  BY CurrentIs, PTL
<1>3. ASSUME JobsInv', Started' = Started, Running' = Running, issued' \in {issued, issued + 1} PROVE SerialStep
  BY <1>1, <1>2, <1>3 DEF SerialStep
<1>4. ASSUME WakesOnly(wpc, wpc') PROVE \A w \in Workers : wpc'[w] = "run" <=> wpc[w] = "run"
  BY <1>4 DEF WakesOnly
<1>5. CASE EnqueueNotify(c)
  <2>1. JobsInv' /\ Started' = Started /\ Running' = Running
    BY <1>4, <1>5, CallsWakeOnly, JobsStay DEF EnqueueNotify, poolVars
  <2>2. QED
    BY <1>3, <1>5, <2>1 DEF EnqueueNotify, poolVars
<1>6. CASE AcquireNested(c) \/ ReleaseNested(c)
  <2>1. JobsInv' /\ Started' = Started /\ Running' = Running
    BY <1>6, JobsStay DEF AcquireNested, ReleaseNested, workerVars, clientVars
  <2>2. QED
    BY <1>3, <1>6, <2>1 DEF AcquireNested, ReleaseNested
<1>7. CASE AcquireReturn(c)
  <2>1. JobsInv' /\ Started' = Started /\ Running' = Running
    BY <1>7, JobsStay DEF AcquireReturn, poolVars, workerVars, TypeOK
  <2>2. QED
    BY <1>3, <1>7, <2>1 DEF AcquireReturn, poolVars
<1>8. CASE ShutdownNotify(c) \/ ShutdownReturn(c)
  <2>1. JobsInv' /\ Started' = Started /\ Running' = Running
    <3>1. wpc \in [Workers -> WorkerPC]
      BY DEF TypeOK
    <3>2. \A w \in Workers : wpc'[w] = "run" <=> wpc[w] = "run"
      BY <1>4, <1>8, <3>1, NotifyWakesOnly DEF ShutdownNotify, ShutdownReturn, workerVars
    <3>3. \A d \in Clients : cpc'[d] = cpc[d] \/ (cpc[d] = "joining" /\ cpc'[d] = "gone")
      BY <1>8 DEF ShutdownNotify, ShutdownReturn, TypeOK
    <3>4. QED
      BY <1>8, <3>2, <3>3, JobsStay DEF ShutdownNotify, ShutdownReturn, poolVars, workerVars
  <2>2. QED
    BY <1>3, <1>8, <2>1 DEF ShutdownNotify, ShutdownReturn, poolVars
<1>9. CASE Enqueue(c)
  <2> DEFINE job == [id |-> issued + 1, for |-> NoClient]
  <2>1. job \in Job /\ job.id = issued + 1 /\ ~IsGrant(job)
    BY <1>9 DEF Enqueue, TypeOK, Job, IsGrant
  <2>2. tasks' = Append(tasks, job) /\ issued' = issued + 1
    BY <1>9 DEF Enqueue
  <2> HIDE DEF job
  <2>3. /\ Started' = Started /\ Len(tasks') <= issued'
        /\ \A i \in 1..Len(tasks') : tasks'[i].id = Started' + i
        /\ \A i \in 1..Len(tasks') : tasks'[i] = job \/ (i \in 1..Len(tasks) /\ tasks'[i] = tasks[i])
    BY <2>1, <2>2, Joins
  <2>4. UNCHANGED <<wpc, wtask, cpc, granted, cjob>>
    BY <1>9 DEF Enqueue, workerVars
  <2>5. JobsInv'
    BY <2>1, <2>3, <2>4 DEF JobsInv, IsGrant, Awaits, Holds
  <2>6. Running' = Running
    BY <2>4 DEF Running, Holds
  <2>7. QED
    BY <1>3, <2>2, <2>3, <2>5, <2>6
<1>10. CASE AcquireSlow(c)
  <2> DEFINE job == [id |-> issued + 1, for |-> c]
  <2>1. job \in Job /\ job.id = issued + 1 /\ job.for = c
    BY <1>10 DEF AcquireSlow, TypeOK, Job
  <2>2. tasks' = Append(tasks, job) /\ issued' = issued + 1
    BY <1>10 DEF AcquireSlow
  <2> HIDE DEF job
  <2>3. /\ Started' = Started /\ Len(tasks') <= issued'
        /\ \A i \in 1..Len(tasks') : tasks'[i].id = Started' + i
        /\ \A i \in 1..Len(tasks') : tasks'[i] = job \/ (i \in 1..Len(tasks) /\ tasks'[i] = tasks[i])
    BY <2>1, <2>2, Joins
  <2>4. ~Holds(c) /\ ~Holds(c)' /\ cpc[c] # "wait" /\ WillAwait(c, job)
    BY <1>10, <2>1 DEF AcquireSlow, MayCall, Holds, ClaimInv, TypeOK, WillAwait
  <2>5. \A d \in Clients : d # c => cpc'[d] = cpc[d] /\ granted'[d] = granted[d] /\ cjob'[d] = cjob[d]
    BY <1>10 DEF AcquireSlow, TypeOK
  <2>6. \A w \in Workers : (wpc'[w] = "run" <=> wpc[w] = "run") /\ wtask'[w] = wtask[w]
    BY <1>4, <1>10, NotifyWakesOnly DEF AcquireSlow, TypeOK
  <2>7. \A d \in Clients : (Holds(d)' <=> Holds(d)) /\ (Holds(d) => cjob'[d] = cjob[d])
    BY <2>4, <2>5 DEF Holds
  <2>8. \A d \in Clients, j \in Job : Awaits(d, j) => WillAwait(d, j)
    BY <2>4, <2>5 DEF Awaits, WillAwait
  <2>9. \A i \in 1..Len(tasks') : IsGrant(tasks'[i]) => WillAwait(tasks'[i].for, tasks'[i])
    <3>1. \A i \in 1..Len(tasks) : tasks[i] \in Job /\ (IsGrant(tasks[i]) => tasks[i].for \in Clients)
      BY QueuedJobs
    <3>2. \A i \in 1..Len(tasks) : IsGrant(tasks[i]) => WillAwait(tasks[i].for, tasks[i])
      BY <2>8, <3>1 DEF JobsInv
    <3>3. QED
      BY <2>1, <2>3, <2>4, <3>2
  <2>10. \A w \in Workers : wpc[w] = "run" /\ IsGrant(wtask[w]) => WillAwait(wtask[w].for, wtask[w])
    BY <2>8, RunningJobs DEF JobsInv
  <2>11. JobsInv'
    BY <2>3, <2>6, <2>7, <2>9, <2>10 DEF JobsInv, Awaits, WillAwait, IsGrant
  <2>12. Running' = Running
    BY <2>6, <2>7 DEF Running
  <2>13. QED
    BY <1>3, <2>2, <2>3, <2>11, <2>12
<1>11. CASE AcquireFast(c)
  <2>1. (\A w \in Workers : wpc[w] # "run") /\ (\A d \in Clients : ~Holds(d))
    BY <1>11 DEF AcquireFast, Idle, ClaimInv
  <2>2. Started = issued /\ issued' = issued + 1 /\ Started' = Started + 1 /\ Started' > 0
    BY <1>11 DEF AcquireFast, Idle, Started, TypeOK
  <2>3. /\ tasks' = <<>> /\ wpc' = wpc /\ cpc'[c] = "in" /\ cjob'[c] = Started' /\ UNCHANGED granted
        /\ \A d \in Clients : d # c => cpc'[d] = cpc[d]
    BY <1>11, <2>2 DEF AcquireFast, Idle, TypeOK, workerVars
  <2>4. \A d \in Clients : Holds(d)' <=> d = c
    BY <2>1, <2>3 DEF Holds
  <2>5. JobsInv'
    BY <2>1, <2>2, <2>3, <2>4 DEF JobsInv, TypeOK
  <2>6. Running' /\ ~Running
    BY <2>1, <2>4 DEF Running
  <2>7. QED
    BY <1>1, <1>2, <2>2, <2>5, <2>6 DEF SerialStep
\* A client that gives its claim back, or leaks it to shutdown().
<1>12. ASSUME cpc[c] \in {"in", "out"}, cpc'[c] \in {"out", "joining"},
              \A d \in Clients : d # c => cpc'[d] = cpc[d] /\ cjob'[d] = cjob[d],
              \A w \in Workers : wpc'[w] = "run" <=> wpc[w] = "run",
              UNCHANGED <<tasks, issued, granted, wtask>>
       PROVE  JobsInv' /\ SerialStep
  <2>1. \A d \in Clients : Holds(d)' <=> Holds(d) /\ d # c
    BY <1>12 DEF Holds
  <2>2. \A d \in Clients, j \in Job : Awaits(d, j) => WillAwait(d, j)
    BY <1>12 DEF Awaits, WillAwait
  <2>3. \A i \in 1..Len(tasks) : IsGrant(tasks[i]) => WillAwait(tasks[i].for, tasks[i])
    BY <2>2, QueuedJobs DEF JobsInv
  <2>4. \A w \in Workers : wpc[w] = "run" /\ IsGrant(wtask[w]) => WillAwait(wtask[w].for, wtask[w])
    BY <2>2, RunningJobs DEF JobsInv
  <2>5. Started' = Started
    BY <1>12 DEF Started
  <2>6. JobsInv'
    BY <1>12, <2>1, <2>3, <2>4, <2>5 DEF JobsInv, WillAwait, Awaits, IsGrant
  <2>7. CASE Holds(c)
    <3>1. owner = c /\ c # NoClient
      BY <2>7 DEF ClaimInv
    <3>2. (\A d \in Clients : Holds(d) => d = c) /\ (\A w \in Workers : wpc[w] # "run")
      BY <3>1 DEF ClaimInv
    <3>3. Running /\ ~Running' /\ Started > 0
      BY <1>12, <2>1, <2>7, <3>2 DEF Running, JobsInv
    <3>4. QED
      BY <1>1, <1>2, <1>12, <2>5, <2>6, <3>3 DEF SerialStep
  <2>8. CASE ~Holds(c)
    <3>1. Running' = Running
      BY <1>12, <2>1, <2>8 DEF Running
    <3>2. QED
      BY <1>3, <1>12, <2>5, <2>6, <3>1
  <2>9. QED
    BY <2>7, <2>8
<1>13. CASE ReleaseLast(c)
  <2>1. \A w \in Workers : wpc'[w] = "run" <=> wpc[w] = "run"
    BY <1>4, <1>13, CallsWakeOnly DEF ReleaseLast
  <2>2. QED
    BY <1>12, <1>13, <2>1 DEF ReleaseLast, TypeOK
<1>14. CASE ShutdownBegin(c)
  BY <1>12, <1>14 DEF ShutdownBegin, MayCall, TypeOK, workerVars
<1>15. QED
  BY <1>5, <1>6, <1>7, <1>8, <1>9, <1>10, <1>11, <1>13, <1>14 DEF ClientStep

\* What a step of the one worker does to the jobs, and what it is to the executor.
LEMMA WorkerIsSerial ==
  ASSUME TypeOK, TypeOK', ClaimInv, ClaimInv', JobsInv, NEW w \in Workers, Workers = {w}, WorkerStep(w)
  PROVE  JobsInv' /\ SerialStep
<1> USE ThreadPoolAssumption
<1>1. Current = (IF Running THEN Started ELSE 0)
  BY CurrentIs
<1>2. JobsInv' => (Current = (IF Running THEN Started ELSE 0))'
  BY CurrentIs, PTL
<1>3. ASSUME wpc[w] # "run", wpc'[w] # "run", UNCHANGED <<tasks, issued, wtask, clientVars>>
      PROVE  JobsInv' /\ SerialStep
  <2>1. JobsInv' /\ Started' = Started /\ Running' = Running
    BY <1>3, JobsStay DEF clientVars
  <2>2. QED
    BY <1>1, <1>2, <1>3, <2>1 DEF SerialStep
<1>4. CASE SpinExit(w) \/ SpinGiveUp(w) \/ SlowSleep(w) \/ SlowExit(w) \/ SpuriousWake(w)
  BY <1>3, <1>4 DEF SpinExit, SpinGiveUp, SlowSleep, SlowExit, SpuriousWake, poolVars, TypeOK
<1>5. CASE PostTask(w)
  BY <1>3, <1>5 DEF PostTask, NotifyAfterTask, TypeOK
<1>6. CASE PostNotify(w)
  <2>1. [wpc EXCEPT ![w] = "spin"] \in [Workers -> WorkerPC]
    BY DEF TypeOK, WorkerPC
  <2>2. WakesOnly([wpc EXCEPT ![w] = "spin"], wpc')
    BY <1>6, <2>1, NotifyWakesOnly DEF PostNotify
  <2>3. wpc'[w] # "run" /\ wpc[w] # "run"
    BY <1>6, <2>2 DEF PostNotify, WakesOnly, TypeOK
  <2>4. QED
    BY <1>3, <1>6, <2>3 DEF PostNotify, poolVars
<1>7. CASE SpinTake(w) \/ SlowTake(w)
  <2>1. Take(w) /\ tasks # <<>> /\ ~busy
    BY <1>7 DEF SpinTake, SlowTake, Ready, WaitOver
  <2>2. wpc[w] # "run" /\ \A c \in Clients : ~Holds(c)
    BY <2>1 DEF ClaimInv
  <2>3. /\ Len(tasks') = Len(tasks) - 1 /\ Head(tasks) = tasks[1] /\ 1 \in 1..Len(tasks)
        /\ \A i \in 1..Len(tasks') : i + 1 \in 1..Len(tasks) /\ tasks'[i] = tasks[i + 1]
    BY <2>1 DEF Take, TypeOK
  <2>4. Started' = Started + 1 /\ issued' = issued /\ Started < issued /\ Started \in Nat
    BY <2>1, <2>3 DEF Take, Started, JobsInv, TypeOK
  <2>5. wtask'[w] = tasks[1] /\ wpc'[w] = "run" /\ UNCHANGED <<cpc, granted, cjob>>
    BY <2>1, <2>3 DEF Take, TypeOK, clientVars
  <2>6. \A c \in Clients : ~Holds(c)'
    BY <2>2, <2>5 DEF Holds
  <2>7. \A i \in 1..Len(tasks') : tasks'[i].id = Started' + i /\ (IsGrant(tasks'[i]) => WillAwait(tasks'[i].for, tasks'[i]))
    <3>1. \A i \in 1..Len(tasks) : tasks[i].id = Started + i /\ (IsGrant(tasks[i]) => WillAwait(tasks[i].for, tasks[i]))
      BY <2>5 DEF JobsInv, Awaits, WillAwait
    <3>2. \A i \in 1..Len(tasks') : i \in Nat /\ Started + (i + 1) = Started' + i
      BY <2>4
    <3>3. QED
      BY <2>3, <3>1, <3>2
  <2>8. wtask'[w].id = Started' /\ (IsGrant(wtask'[w]) => WillAwait(wtask'[w].for, wtask'[w]))
    <3>1. tasks[1].id = Started + 1 /\ (IsGrant(tasks[1]) => Awaits(tasks[1].for, tasks[1]))
      BY <2>3 DEF JobsInv
    <3>2. QED
      BY <2>4, <2>5, <3>1 DEF Awaits, WillAwait
  <2>9. Len(tasks') <= issued' /\ Started' > 0
    BY <2>3, <2>4 DEF JobsInv, TypeOK
  <2>10. JobsInv'
    BY <2>6, <2>7, <2>8, <2>9 DEF JobsInv, Awaits, WillAwait, IsGrant
  <2>11. Running' /\ ~Running
    BY <2>2, <2>5 DEF Running
  <2>12. QED
    BY <1>1, <1>2, <2>4, <2>10, <2>11 DEF SerialStep
<1>8. CASE RunWork(w) \/ RunGrant(w)
  <2>1. wpc[w] = "run" /\ owner = NoClient /\ Started > 0 /\ \A c \in Clients : ~Holds(c)
    BY <1>8 DEF RunWork, RunGrant, ClaimInv, JobsInv
  <2>2. wpc'[w] = "post" /\ UNCHANGED <<tasks, issued, cpc, cjob>> /\ Started' = Started
    BY <1>8 DEF RunWork, RunGrant, poolVars, clientVars, TypeOK, Started
  <2>3. CASE RunWork(w)
    <3>1. UNCHANGED granted
      BY <2>3 DEF RunWork, clientVars
    <3>2. \A c \in Clients : ~Holds(c)'
      BY <2>1, <2>2, <3>1 DEF Holds
    <3>3. JobsInv'
      BY <2>2, <3>1, <3>2 DEF JobsInv, Awaits, IsGrant
    <3>4. Running /\ ~Running'
      BY <2>1, <2>2, <3>2 DEF Running
    <3>5. QED
      BY <1>1, <1>2, <2>1, <2>2, <3>3, <3>4 DEF SerialStep
  <2>4. CASE RunGrant(w)
    <3> DEFINE c == wtask[w].for
    <3>1. c \in Clients /\ Awaits(c, wtask[w]) /\ wtask[w].id = Started
      BY <2>1, <2>4, RunningJobs DEF RunGrant, JobsInv
    <3>2. granted'[c] /\ \A d \in Clients : d # c => granted'[d] = granted[d]
      BY <2>4, <3>1 DEF RunGrant, TypeOK
    <3> HIDE DEF c
    <3>3. \A d \in Clients : Holds(d)' <=> d = c
      BY <2>1, <2>2, <3>1, <3>2 DEF Holds, Awaits
    <3>4. cjob'[c] = Started'
      BY <2>2, <3>1 DEF Awaits
    <3>5. \A i \in 1..Len(tasks) : IsGrant(tasks[i]) => tasks[i].for \in Clients /\ tasks[i].for # c
      <4>1. \A i \in 1..Len(tasks) : tasks[i].id = Started + i /\ (IsGrant(tasks[i]) => Awaits(tasks[i].for, tasks[i]))
        BY DEF JobsInv
      <4>2. Started \in Nat /\ cjob[c] = Started
        BY <2>2, <3>4 DEF Started, JobsInv, TypeOK
      <4>3. QED
        BY <4>1, <4>2, QueuedJobs DEF Awaits
    <3>6. \A i \in 1..Len(tasks) : IsGrant(tasks[i]) => WillAwait(tasks[i].for, tasks[i])
      BY <2>2, <3>2, <3>5 DEF JobsInv, Awaits, WillAwait
    <3>7. JobsInv'
      BY <2>1, <2>2, <3>3, <3>4, <3>6 DEF JobsInv, Awaits, WillAwait, IsGrant
    <3>8. Running /\ Running'
      BY <2>1, <3>1, <3>3 DEF Running
    <3>9. QED
      BY <1>1, <1>2, <2>2, <3>7, <3>8 DEF SerialStep
  <2>5. QED
    BY <1>8, <2>3, <2>4
<1>9. QED
  BY <1>4, <1>5, <1>6, <1>7, <1>8 DEF WorkerStep

\* The pool of one worker is the serial executor its callers take it for: jobs
\* start in the order in which enqueue() and acquireInline() submitted them, one at
\* a time, whichever thread runs them (thread_pool.h:7-12).
THEOREM PoolIsSerial ==
  ASSUME SingleWorker
  PROVE  Spec => ImplementsSerialExecutor
<1>1. Init => JobsInv /\ Serial!AbsInit
  <2> SUFFICES ASSUME Init PROVE JobsInv /\ Serial!AbsInit
    OBVIOUS
  <2>1. /\ Len(tasks) = 0 /\ issued = 0
        /\ (\A w \in Workers : wpc[w] # "run") /\ (\A c \in Clients : ~Holds(c))
    BY DEF Init, Holds
  <2>2. Executing = {}
    BY <2>1 DEF Executing
  <2>3. QED
    BY <2>1, <2>2 DEF JobsInv, Serial!AbsInit
<1>2. TypeOK /\ TypeOK' /\ ClaimInv /\ ClaimInv' /\ JobsInv /\ [Next]_vars => JobsInv' /\ [Serial!AbsNext]_(Serial!absVars)
  <2> SUFFICES ASSUME TypeOK, TypeOK', ClaimInv, ClaimInv', JobsInv, [Next]_vars
               PROVE  JobsInv' /\ SerialStep
    BY SerialSteps
  <2>1. CASE Next
    BY <2>1, ClientIsSerial, WorkerIsSerial DEF Next, SingleWorker
  <2>2. CASE UNCHANGED vars
    BY <2>2 DEF vars, poolVars, workerVars, clientVars, JobsInv, Awaits, Holds, SerialStep, Started, Current,
                Executing
  <2>3. QED
    BY <2>1, <2>2
<1>3. QED
  BY <1>1, <1>2, TypeCorrect, ClaimCorrect, PTL DEF Spec, ImplementsSerialExecutor, Serial!AbsSpec

-----------------------------------------------------------------------------
(* NapiCompletionQueue.                                                    *)

QueueInv == QueueTypeOK /\ SignalInv /\ NoneStranded

\* Nothing is dispatched, queued or due at the start.
LEMMA InitQueueInv == QueueInit => QueueInv
<1> SUFFICES ASSUME QueueInit  PROVE QueueInv
  OBVIOUS
<1>1. signalPending \in BOOLEAN /\ tsfn \in BOOLEAN /\ dispatched \in BOOLEAN
  BY Zenon DEF QueueInit
<1>2. /\ work \in [Dispatchers -> Seq(Completion)]
      /\ pending \in Seq(Completion) /\ batch \in Seq(Completion) /\ ran \in Seq(Completion)
      /\ lost \subseteq 1..MaxDispatch
  BY DEF QueueInit
<1>3. given \in 0..MaxDispatch /\ calls \in 0..1 /\ epc \in EnvPC
  BY CompletionQueueAssumption DEF QueueInit, EnvPC
<1>4. QueueTypeOK  BY <1>1, <1>2, <1>3 DEF QueueTypeOK
<1>5. SignalInv /\ NoneStranded  BY DEF QueueInit, SignalInv, NoneStranded, Draining
<1> QED  BY <1>4, <1>5 DEF QueueInv

\* dispatch() touches the queue of one worker only.
LEMMA DispatchInv ==
  ASSUME QueueInv, NEW d \in Dispatchers, Dispatch(d)  PROVE QueueInv'
<1> USE CompletionQueueAssumption DEF QueueInv, QueueTypeOK, Dispatch
<1>1. given + 1 \in 1..MaxDispatch  OBVIOUS
<1>2. [id |-> given + 1, by |-> d] \in Completion  BY <1>1 DEF Completion
<1>3. Append(work[d], [id |-> given + 1, by |-> d]) \in Seq(Completion)  BY <1>2
<1>4. work' \in [Dispatchers -> Seq(Completion)]  BY <1>3
<1>5. dispatched' \in BOOLEAN  BY Zenon DEF Draining
<1>6. QueueTypeOK'  BY <1>1, <1>4, <1>5 DEF queueVars
<1>7. SignalInv'  BY DEF SignalInv, Draining, queueVars
<1>8. NoneStranded'  BY DEF NoneStranded, Draining, queueVars
<1> QED  BY <1>6, <1>7, <1>8

\* post() signals exactly when no drain is due, and then one becomes due.
LEMMA PostInv ==
  ASSUME QueueInv, NEW d \in Dispatchers, Post(d)  PROVE QueueInv'
<1> USE CompletionQueueAssumption DEF QueueInv, QueueTypeOK, Post
<1>1. Head(work[d]) \in Completion /\ Tail(work[d]) \in Seq(Completion)  OBVIOUS
<1>2. work' \in [Dispatchers -> Seq(Completion)]  BY <1>1
<1>3. pending' \in Seq(Completion)  BY <1>1
<1>4. CASE MustSignal
  <2>1. ~signalPending /\ tsfn /\ calls' = calls + 1 /\ signalPending' = TRUE
    BY <1>4 DEF MustSignal
  <2>2. ~Draining /\ calls = 0  BY <2>1 DEF SignalInv
  <2>3. calls' = 1  BY <2>1, <2>2
  <2>4. QueueTypeOK'  BY <1>2, <1>3, <2>1, <2>3 DEF envVars
  <2>5. SignalInv'  BY <2>1, <2>2, <2>3 DEF SignalInv, Draining, envVars
  <2>6. NoneStranded'  BY <2>3 DEF NoneStranded
  <2> QED  BY <2>4, <2>5, <2>6
<1>5. CASE ~MustSignal
  <2>1. UNCHANGED <<calls, signalPending, tsfn, epc>>  BY <1>5 DEF envVars
  <2>2. QueueTypeOK'  BY <1>2, <1>3, <2>1 DEF envVars
  <2>3. SignalInv'  BY <2>1 DEF SignalInv, Draining
  <2>4. tsfn => signalPending  BY <1>5 DEF MustSignal
  <2>5. NoneStranded'  BY <2>1, <2>4 DEF NoneStranded, SignalInv, Draining
  <2> QED  BY <2>2, <2>3, <2>5
<1> QED  BY <1>4, <1>5

\* Every step of the env's thread keeps the flag in step with the queued calls.
LEMMA EnvInv ==
  ASSUME QueueInv, EnvStep  PROVE QueueInv'
<1> USE CompletionQueueAssumption
        DEF QueueInv, QueueTypeOK, SignalInv, NoneStranded, EnvPC, Draining
<1>1. CASE StartDrain
  <2>1. dispatched' \in BOOLEAN  BY <1>1, Zenon DEF StartDrain
  <2>2. calls' = 0 /\ signalPending /\ epc' = "loop"  BY <1>1 DEF StartDrain
  <2> QED  BY <1>1, <2>1, <2>2 DEF StartDrain
<1>2. CASE TakeBatch
  <2>1. dispatched' \in BOOLEAN  BY <1>2, Zenon DEF TakeBatch, QueueAfterTake
  <2>2. pending' \in Seq(Completion) /\ batch' \in Seq(Completion)  BY <1>2 DEF TakeBatch, QueueAfterTake
  <2> QED  BY <1>2, <2>1, <2>2 DEF TakeBatch, QueueAfterTake
<1>3. CASE TakeNothing  BY <1>3 DEF TakeNothing, queueVars
<1>4. CASE OpenScope  BY <1>4 DEF OpenScope, queueVars
<1>5. CASE OpenScopeFails
  <2>0. \A i \in DOMAIN batch : batch[i].id \in 1..MaxDispatch
    <3>1. \A i \in DOMAIN batch : batch[i] \in Completion  OBVIOUS
    <3> QED  BY <3>1 DEF Completion
  <2>1. lost' \subseteq 1..MaxDispatch
    <3>1. lost' = lost \cup {batch[i].id : i \in DOMAIN batch}  BY <1>5 DEF OpenScopeFails
    <3>2. lost \subseteq 1..MaxDispatch  OBVIOUS
    <3> QED  BY <3>1, <3>2, <2>0
  <2>2. batch' \in Seq(Completion)  BY <1>5 DEF OpenScopeFails
  <2> QED  BY <1>5, <2>1, <2>2 DEF OpenScopeFails, queueVars
<1>6. CASE RunCompletion  BY <1>6 DEF RunCompletion, queueVars
<1>7. CASE BatchDone  BY <1>7 DEF BatchDone, queueVars
<1>8. CASE Check  BY <1>8 DEF Check, queueVars
<1>9. CASE SpinAnswered  BY <1>9 DEF SpinAnswered, queueVars
<1>10. CASE SpinExpired  BY <1>10 DEF SpinExpired, queueVars
<1>11. CASE Finish
  <2>1. CASE MayFinish
    <3>1. signalPending' \in BOOLEAN /\ ~signalPending'  BY <1>11, <2>1, Zenon DEF Finish
    <3> QED  BY <1>11, <2>1, <3>1 DEF Finish, MayFinish
  <2>2. CASE ~MayFinish  BY <1>11, <2>2 DEF Finish, MayFinish
  <2> QED  BY <2>1, <2>2
<1>12. CASE Deadline  BY <1>12 DEF Deadline, queueVars
<1>13. CASE Requeue
  <2>1. CASE MustResignal
    <3>1. tsfn /\ calls = 0 /\ calls' = 1  BY <1>13, <2>1 DEF Requeue, MustResignal
    <3>2. signalPending' \in BOOLEAN /\ signalPending'  BY <1>13, <2>1, Zenon DEF Requeue
    <3> QED  BY <1>13, <3>1, <3>2 DEF Requeue
  <2>2. CASE ~MustResignal
    <3>1. signalPending' \in BOOLEAN /\ ~signalPending'
      BY <1>13, <2>2, Zenon DEF Requeue, MustResignal
    <3> QED  BY <1>13, <2>2, <3>1 DEF Requeue, MustResignal
  <2> QED  BY <2>1, <2>2
<1> QED
  BY <1>1, <1>2, <1>3, <1>4, <1>5, <1>6, <1>7, <1>8, <1>9, <1>10, <1>11, <1>12, <1>13
  DEF EnvStep

\* After shutdown() there is no flag and no drain any more.
LEMMA TeardownInv ==
  ASSUME QueueInv, Shutdown \/ CallWithoutEnv  PROVE QueueInv'
<1> USE DEF QueueInv, QueueTypeOK, SignalInv, NoneStranded, EnvPC, Draining
<1>1. CASE Shutdown
  <2>1. /\ signalPending' \in BOOLEAN /\ ~signalPending'
        /\ tsfn' \in BOOLEAN /\ ~tsfn'
    BY <1>1, Zenon DEF Shutdown
  <2>2. pending' \in Seq(Completion)  BY <1>1 DEF Shutdown
  <2> QED  BY <1>1, <2>1, <2>2 DEF Shutdown, envVars
<1>2. CASE CallWithoutEnv
  <2>1. signalPending' \in BOOLEAN /\ ~signalPending'  BY <1>2, Zenon DEF CallWithoutEnv
  <2>2. pending' \in Seq(Completion) /\ calls' = 0  BY <1>2 DEF CallWithoutEnv
  <2> QED  BY <1>2, <2>1, <2>2 DEF CallWithoutEnv, envVars
<1> QED  BY <1>1, <1>2

LEMMA NextQueueInv == QueueInv /\ [QueueNext]_napiVars => QueueInv'
<1> SUFFICES ASSUME QueueInv, [QueueNext]_napiVars  PROVE QueueInv'
  OBVIOUS
<1>1. CASE \E d \in Dispatchers : Dispatch(d) \/ Post(d)  BY <1>1, DispatchInv, PostInv
<1>2. CASE EnvStep  BY <1>2, EnvInv
<1>3. CASE Shutdown \/ CallWithoutEnv  BY <1>3, TeardownInv
<1>4. CASE UNCHANGED napiVars
  BY <1>4 DEF napiVars, queueVars, envVars, QueueInv, QueueTypeOK, SignalInv, NoneStranded, Draining
<1> QED  BY <1>1, <1>2, <1>3, <1>4 DEF QueueNext

\* For any dispatchers, the signal of the completion queue is coalesced
\* correctly: at most one call is queued, and the flag is set exactly while a
\* drain is due or running (post(), finish() and requeue()).
THEOREM SignalCoalesced == QueueSpec => []SignalInv
<1>1. QueueInv => SignalInv  BY DEF QueueInv
<1> QED  BY InitQueueInv, NextQueueInv, <1>1, PTL DEF QueueSpec

\* No completion is ever left in the queue without a drain to come for it.
THEOREM NoCompletionStranded == QueueSpec => []NoneStranded
<1>1. QueueInv => NoneStranded  BY DEF QueueInv
<1> QED  BY InitQueueInv, NextQueueInv, <1>1, PTL DEF QueueSpec

\* Type correctness of the completion queue; the bound on `calls` is the
\* promise of "about one queued call per drain" (napi_dispatcher.cpp:28-29).
THEOREM QueueTypeCorrect == QueueSpec => []QueueTypeOK
<1>1. QueueInv => QueueTypeOK  BY DEF QueueInv
<1> QED  BY InitQueueInv, NextQueueInv, <1>1, PTL DEF QueueSpec

-----------------------------------------------------------------------------
(***************************************************************************)
(* The order of the completions.  Along the way of a completion -- the     *)
(* worker's FIFO, the queue, the batch, and then it ran -- whatever is     *)
(* further ahead is older, among the completions of one dispatcher.        *)
(***************************************************************************)

\* All of s that e's dispatcher did is older than e.
OlderThan(s, e) == \A i \in DOMAIN s : s[i].by = e.by => s[i].id < e.id

\* s is in the order of dispatch, dispatcher by dispatcher.
InOrder(s) == \A i, j \in DOMAIN s : i < j /\ s[i].by = s[j].by => s[i].id < s[j].id

\* All of s is older than all of t, dispatcher by dispatcher.
Ahead(s, t) == \A j \in DOMAIN t : OlderThan(s, t[j])

\* All of s was dispatched.
Dispatched(s) == \A i \in DOMAIN s : s[i].id \in 1..given

\* A worker's FIFO: its own work, in order, newer than all that left it.
FifoInOrder(d) ==
  /\ InOrder(work[d]) /\ Dispatched(work[d])
  /\ \A i \in DOMAIN work[d] : work[d][i].by = d
  /\ Ahead(pending, work[d]) /\ Ahead(batch, work[d]) /\ Ahead(ran, work[d])

OrderInv ==
  /\ InOrder(ran) /\ InOrder(batch) /\ InOrder(pending)
  /\ Ahead(ran, batch) /\ Ahead(ran, pending) /\ Ahead(batch, pending)
  /\ Dispatched(ran) /\ Dispatched(batch) /\ Dispatched(pending)
  /\ \A d \in Dispatchers : FifoInOrder(d)

\* Taking the head off a sequence in order leaves it in order, behind the head.
LEMMA TailInOrder ==
  ASSUME NEW s \in Seq(Completion), s # <<>>, InOrder(s)
  PROVE  /\ InOrder(Tail(s))
         /\ \A j \in DOMAIN Tail(s) : Head(s).by = Tail(s)[j].by => Head(s).id < Tail(s)[j].id
<1>1. /\ Len(Tail(s)) = Len(s) - 1 /\ DOMAIN s = 1..Len(s) /\ Len(s) \in Nat
      /\ DOMAIN Tail(s) = 1..Len(Tail(s)) /\ Len(s) >= 1
  OBVIOUS
<1>2. \A i \in DOMAIN Tail(s) : Tail(s)[i] = s[i+1] /\ i + 1 \in DOMAIN s  BY <1>1
<1>3. Head(s) = s[1] /\ 1 \in DOMAIN s  BY <1>1
<1>4. InOrder(Tail(s))
  <2> SUFFICES ASSUME NEW i \in DOMAIN Tail(s), NEW j \in DOMAIN Tail(s), i < j,
                      Tail(s)[i].by = Tail(s)[j].by
               PROVE  Tail(s)[i].id < Tail(s)[j].id
    BY DEF InOrder
  <2>1. i + 1 < j + 1  BY <1>1
  <2> QED  BY <1>2, <2>1 DEF InOrder
<1>5. ASSUME NEW j \in DOMAIN Tail(s), Head(s).by = Tail(s)[j].by
      PROVE  Head(s).id < Tail(s)[j].id
  <2>1. 1 < j + 1  BY <1>1
  <2> QED  BY <1>2, <1>3, <1>5, <2>1 DEF InOrder
<1> QED  BY <1>4, <1>5

\* Appending what is newer than all of a sequence keeps its order.
LEMMA AppendInOrder ==
  ASSUME NEW s \in Seq(Completion), NEW e \in Completion, InOrder(s), OlderThan(s, e)
  PROVE  InOrder(Append(s, e))
<1> SUFFICES ASSUME NEW i \in DOMAIN Append(s, e), NEW j \in DOMAIN Append(s, e), i < j,
                    Append(s, e)[i].by = Append(s, e)[j].by
             PROVE  Append(s, e)[i].id < Append(s, e)[j].id
  BY DEF InOrder
<1>1. DOMAIN s = 1..Len(s) /\ DOMAIN Append(s, e) = 1..(Len(s) + 1) /\ Len(s) \in Nat
  OBVIOUS
<1>2. i \in DOMAIN s /\ Append(s, e)[i] = s[i]  BY <1>1
<1>3. CASE j \in DOMAIN s
  <2>1. Append(s, e)[j] = s[j]  BY <1>1, <1>3
  <2> QED  BY <1>2, <1>3, <2>1 DEF InOrder
<1>4. CASE j \notin DOMAIN s
  <2>1. j = Len(s) + 1  BY <1>1, <1>4
  <2>2. Append(s, e)[j] = e  BY <2>1
  <2> QED  BY <1>2, <2>2 DEF OlderThan
<1> QED  BY <1>3, <1>4

\* What is ahead of a sequence is ahead of its tail, and older than its head.
LEMMA AheadOfTail ==
  ASSUME NEW s \in Seq(Completion), NEW t \in Seq(Completion), t # <<>>, Ahead(s, t)
  PROVE  Ahead(s, Tail(t)) /\ OlderThan(s, Head(t))
<1>1. \A j \in DOMAIN Tail(t) : Tail(t)[j] = t[j+1] /\ j + 1 \in DOMAIN t  OBVIOUS
<1>2. Head(t) = t[1] /\ 1 \in DOMAIN t  OBVIOUS
<1> QED  BY <1>1, <1>2 DEF Ahead

\* A sequence stays ahead of what it was ahead of when it loses its head.
LEMMA TailAhead ==
  ASSUME NEW s \in Seq(Completion), NEW t \in Seq(Completion), s # <<>>, Ahead(s, t)
  PROVE  Ahead(Tail(s), t)
<1>1. \A i \in DOMAIN Tail(s) : Tail(s)[i] = s[i+1] /\ i + 1 \in DOMAIN s  OBVIOUS
<1> QED  BY <1>1 DEF Ahead, OlderThan

\* A sequence stays ahead of one that grows by a newer completion.
LEMMA AheadOfAppend ==
  ASSUME NEW s \in Seq(Completion), NEW t \in Seq(Completion), NEW e \in Completion,
         Ahead(s, t), OlderThan(s, e)
  PROVE  Ahead(s, Append(t, e))
<1>1. ASSUME NEW j \in DOMAIN Append(t, e)
      PROVE  \/ j \in DOMAIN t /\ Append(t, e)[j] = t[j]
             \/ Append(t, e)[j] = e
  OBVIOUS
<1> QED  BY <1>1 DEF Ahead

\* A sequence that grows by a completion older than all of t stays ahead of t.
LEMMA AppendAhead ==
  ASSUME NEW s \in Seq(Completion), NEW t \in Seq(Completion), NEW e \in Completion,
         Ahead(s, t), \A j \in DOMAIN t : e.by = t[j].by => e.id < t[j].id
  PROVE  Ahead(Append(s, e), t)
<1>1. ASSUME NEW i \in DOMAIN Append(s, e)
      PROVE  \/ i \in DOMAIN s /\ Append(s, e)[i] = s[i]
             \/ Append(s, e)[i] = e
  OBVIOUS
<1> QED  BY <1>1 DEF Ahead, OlderThan

\* Growing and shrinking keep a sequence among what was dispatched.
LEMMA DispatchedKept ==
  ASSUME NEW s \in Seq(Completion), Dispatched(s)
  PROVE  /\ s # <<>> => Dispatched(Tail(s)) /\ Head(s).id \in 1..given
         /\ \A e \in Completion : e.id \in 1..given => Dispatched(Append(s, e))
<1>1. CASE s # <<>>
  <2>1. \A i \in DOMAIN Tail(s) : Tail(s)[i] = s[i+1] /\ i + 1 \in DOMAIN s  BY <1>1
  <2>2. Head(s) = s[1] /\ 1 \in DOMAIN s  BY <1>1
  <2> QED  BY <2>1, <2>2 DEF Dispatched
<1>2. ASSUME NEW e \in Completion, e.id \in 1..given  PROVE Dispatched(Append(s, e))
  <2>1. ASSUME NEW i \in DOMAIN Append(s, e)
        PROVE  \/ i \in DOMAIN s /\ Append(s, e)[i] = s[i]
               \/ Append(s, e)[i] = e
    OBVIOUS
  <2> QED  BY <1>2, <2>1 DEF Dispatched
<1> QED  BY <1>1, <1>2

LEMMA EmptyInOrder ==
  /\ InOrder(<<>>) /\ Dispatched(<<>>)
  /\ \A s \in Seq(Completion) : Ahead(s, <<>>) /\ Ahead(<<>>, s)
BY DEF InOrder, Dispatched, Ahead, OlderThan

LEMMA InitOrderInv == QueueInit => OrderInv
<1> SUFFICES ASSUME QueueInit  PROVE OrderInv
  OBVIOUS
<1>1. <<>> \in Seq(Completion)  OBVIOUS
<1>2. ran = <<>> /\ batch = <<>> /\ pending = <<>> /\ \A d \in Dispatchers : work[d] = <<>>
  BY DEF QueueInit
<1>3. InOrder(<<>>) /\ Dispatched(<<>>) /\ Ahead(<<>>, <<>>)
  BY <1>1, EmptyInOrder
<1>4. ASSUME NEW d \in Dispatchers  PROVE FifoInOrder(d)
  <2>1. \A i \in DOMAIN work[d] : work[d][i].by = d  BY <1>2
  <2> QED  BY <1>2, <1>3, <2>1 DEF FifoInOrder
<1> QED  BY <1>2, <1>3, <1>4 DEF OrderInv

\* A new piece of work has a number above all others.
LEMMA DispatchOrder ==
  ASSUME QueueTypeOK, OrderInv, NEW d \in Dispatchers, Dispatch(d)  PROVE OrderInv'
<1> DEFINE e == [id |-> given + 1, by |-> d]
<1>1. given \in Nat /\ given' = given + 1 /\ given + 1 \in 1..MaxDispatch
  BY CompletionQueueAssumption DEF QueueTypeOK, Dispatch
<1>2. e \in Completion /\ e.id = given + 1 /\ e.by = d  BY <1>1 DEF Completion
<1>3. UNCHANGED <<pending, batch, ran>>  BY DEF Dispatch, queueVars
<1>4. /\ pending \in Seq(Completion) /\ batch \in Seq(Completion) /\ ran \in Seq(Completion)
      /\ \A c \in Dispatchers : work[c] \in Seq(Completion)
  BY DEF QueueTypeOK
<1>5. ASSUME NEW s \in Seq(Completion), Dispatched(s)
      PROVE  OlderThan(s, e) /\ \A i \in DOMAIN s : s[i].id \in 1..given'
  BY <1>1, <1>2, <1>5 DEF Dispatched, OlderThan
<1>6. Dispatched(ran)' /\ Dispatched(batch)' /\ Dispatched(pending)'
  BY <1>3, <1>4, <1>5 DEF Dispatched, OrderInv
<1>7. ASSUME NEW c \in Dispatchers  PROVE FifoInOrder(c)'
  <2>0. FifoInOrder(c)  BY DEF OrderInv
  <2>1. CASE c = d
    <3>1. work'[c] = Append(work[d], e)  BY <2>1, <1>4 DEF Dispatch, QueueTypeOK
    <3>2. OlderThan(work[d], e) /\ OlderThan(pending, e) /\ OlderThan(batch, e) /\ OlderThan(ran, e)
      BY <1>4, <1>5, <2>0, <2>1 DEF FifoInOrder, OrderInv
    <3>3. InOrder(Append(work[d], e))
      BY <1>2, <1>4, <2>0, <2>1, <3>2, AppendInOrder DEF FifoInOrder
    <3>4. /\ Ahead(pending, Append(work[d], e)) /\ Ahead(batch, Append(work[d], e))
          /\ Ahead(ran, Append(work[d], e))
      BY <1>2, <1>4, <2>0, <2>1, <3>2, AheadOfAppend DEF FifoInOrder
    <3>5. ASSUME NEW i \in DOMAIN Append(work[d], e)
          PROVE  /\ Append(work[d], e)[i].by = d
                 /\ Append(work[d], e)[i].id \in 1..given'
      <4>1. \/ i \in DOMAIN work[d] /\ Append(work[d], e)[i] = work[d][i]
            \/ Append(work[d], e)[i] = e
        BY <1>2, <1>4
      <4>2. e.id \in 1..given'  BY <1>1, <1>2
      <4> QED  BY <1>2, <1>4, <1>5, <2>0, <2>1, <4>1, <4>2 DEF FifoInOrder
    <3> QED
      BY <1>3, <2>1, <3>1, <3>3, <3>4, <3>5 DEF FifoInOrder, Dispatched, InOrder, Ahead, OlderThan
  <2>2. CASE c # d
    <3>1. work'[c] = work[c]  BY <2>2 DEF Dispatch, QueueTypeOK
    <3>2. \A i \in DOMAIN work[c] : work[c][i].id \in 1..given'
      BY <1>4, <1>5, <2>0 DEF FifoInOrder
    <3> QED
      BY <1>3, <2>0, <3>1, <3>2 DEF FifoInOrder, Dispatched, InOrder, Ahead, OlderThan
  <2> QED  BY <2>1, <2>2
<1> QED
  BY <1>3, <1>6, <1>7 DEF OrderInv, InOrder, Ahead, OlderThan

\* post() hands the oldest work of one worker to the queue: older than all the
\* worker still has, and newer than all of its that is already there.
LEMMA PostOrder ==
  ASSUME QueueTypeOK, OrderInv, NEW d \in Dispatchers, Post(d)  PROVE OrderInv'
<1> DEFINE e == Head(work[d])
<1>1. UNCHANGED <<given, batch, ran>>  BY DEF Post, envVars
<1>2. /\ pending \in Seq(Completion) /\ batch \in Seq(Completion) /\ ran \in Seq(Completion)
      /\ \A c \in Dispatchers : work[c] \in Seq(Completion)
  BY DEF QueueTypeOK
<1>3. work[d] # <<>> /\ pending' = Append(pending, e)  BY DEF Post
<1>4. e \in Completion /\ Tail(work[d]) \in Seq(Completion)  BY <1>2, <1>3
<1>5. FifoInOrder(d)  BY DEF OrderInv
<1>6. e.by = d
  <2>1. e = work[d][1] /\ 1 \in DOMAIN work[d]  BY <1>2, <1>3
  <2> QED  BY <1>5, <2>1 DEF FifoInOrder
<1>7. OlderThan(pending, e) /\ OlderThan(batch, e) /\ OlderThan(ran, e)
  BY <1>2, <1>3, <1>5, AheadOfTail DEF FifoInOrder
<1>8. e.id \in 1..given  BY <1>2, <1>3, <1>5, DispatchedKept DEF FifoInOrder
<1>9. /\ InOrder(Append(pending, e)) /\ Dispatched(Append(pending, e))
      /\ Ahead(ran, Append(pending, e)) /\ Ahead(batch, Append(pending, e))
  BY <1>2, <1>4, <1>7, <1>8, AppendInOrder, AheadOfAppend, DispatchedKept DEF OrderInv
<1>10. ASSUME NEW c \in Dispatchers  PROVE FifoInOrder(c)'
  <2>0. FifoInOrder(c)  BY DEF OrderInv
  <2>1. CASE c = d
    <3>1. work'[c] = Tail(work[d])  BY <2>1 DEF Post, QueueTypeOK
    <3>2. /\ InOrder(Tail(work[d]))
          /\ \A j \in DOMAIN Tail(work[d]) :
               e.by = Tail(work[d])[j].by => e.id < Tail(work[d])[j].id
      BY <1>2, <1>3, <1>5, TailInOrder DEF FifoInOrder
    <3>3. /\ Ahead(pending, Tail(work[d])) /\ Ahead(batch, Tail(work[d]))
          /\ Ahead(ran, Tail(work[d]))
      BY <1>2, <1>3, <1>5, AheadOfTail DEF FifoInOrder
    <3>4. Ahead(Append(pending, e), Tail(work[d]))
      BY <1>2, <1>4, <3>2, <3>3, AppendAhead
    <3>5. Dispatched(Tail(work[d]))  BY <1>2, <1>3, <1>5, DispatchedKept DEF FifoInOrder
    <3>6. ASSUME NEW i \in DOMAIN Tail(work[d])  PROVE Tail(work[d])[i].by = d
      <4>1. Tail(work[d])[i] = work[d][i + 1] /\ i + 1 \in DOMAIN work[d]  BY <1>2, <1>3
      <4> QED  BY <1>5, <4>1 DEF FifoInOrder
    <3>7. InOrder(work[c])' /\ Dispatched(work[c])'
      BY <1>1, <3>1, <3>2, <3>5 DEF Dispatched, InOrder
    <3>8. \A i \in DOMAIN work'[c] : work'[c][i].by = c  BY <2>1, <3>1, <3>6
    <3>9. Ahead(pending, work[c])' /\ Ahead(batch, work[c])' /\ Ahead(ran, work[c])'
      BY <1>1, <1>3, <3>1, <3>3, <3>4 DEF Ahead, OlderThan
    <3> QED  BY <3>7, <3>8, <3>9 DEF FifoInOrder
  <2>2. CASE c # d
    <3>1. work'[c] = work[c]  BY <2>2 DEF Post, QueueTypeOK
    <3>2. \A j \in DOMAIN work[c] : e.by # work[c][j].by
      BY <1>6, <2>0, <2>2 DEF FifoInOrder
    <3>3. Ahead(Append(pending, e), work[c])
      BY <1>2, <1>4, <2>0, <3>2, AppendAhead DEF FifoInOrder
    <3> QED
      BY <1>1, <1>3, <2>0, <3>1, <3>3 DEF FifoInOrder, Dispatched, InOrder, Ahead, OlderThan
  <2> QED  BY <2>1, <2>2
<1>11. /\ InOrder(pending)' /\ Dispatched(pending)' /\ Ahead(ran, pending)' /\ Ahead(batch, pending)'
  BY <1>1, <1>3, <1>9 DEF InOrder, Dispatched, Ahead, OlderThan
<1> QED
  BY <1>1, <1>10, <1>11 DEF OrderInv, InOrder, Dispatched, Ahead, OlderThan

\* takeBatch() moves the whole queue on.
LEMMA TakeBatchOrder ==
  ASSUME QueueTypeOK, OrderInv, TakeBatch  PROVE OrderInv'
<1>1. /\ UNCHANGED <<work, given, ran>>
      /\ batch' = pending /\ pending' = <<>>
  BY DEF TakeBatch, QueueAfterTake
<1>2. /\ pending \in Seq(Completion) /\ ran \in Seq(Completion)
      /\ \A d \in Dispatchers : work[d] \in Seq(Completion)
  BY DEF QueueTypeOK
<1>3. /\ InOrder(<<>>) /\ Dispatched(<<>>) /\ Ahead(ran, <<>>) /\ Ahead(pending, <<>>)
      /\ \A d \in Dispatchers : Ahead(<<>>, work[d])
  BY <1>2, EmptyInOrder
<1> QED
  BY <1>1, <1>3 DEF OrderInv, FifoInOrder, InOrder, Dispatched, Ahead, OlderThan

\* The oldest completion of the batch runs.
LEMMA RunOrder ==
  ASSUME QueueTypeOK, OrderInv, RunCompletion  PROVE OrderInv'
<1> DEFINE e == Head(batch)
<1>1. /\ UNCHANGED <<work, given, pending>>
      /\ batch # <<>> /\ ran' = Append(ran, e) /\ batch' = Tail(batch)
  BY DEF RunCompletion, queueVars
<1>2. /\ pending \in Seq(Completion) /\ batch \in Seq(Completion) /\ ran \in Seq(Completion)
      /\ \A d \in Dispatchers : work[d] \in Seq(Completion)
  BY DEF QueueTypeOK
<1>3. e \in Completion /\ Tail(batch) \in Seq(Completion)  BY <1>1, <1>2
<1>4. /\ InOrder(Tail(batch)) /\ Dispatched(Tail(batch)) /\ e.id \in 1..given
      /\ \A j \in DOMAIN Tail(batch) : e.by = Tail(batch)[j].by => e.id < Tail(batch)[j].id
  BY <1>1, <1>2, TailInOrder, DispatchedKept DEF OrderInv
<1>5. Ahead(ran, Tail(batch)) /\ OlderThan(ran, e)
  BY <1>1, <1>2, AheadOfTail DEF OrderInv
<1>6. InOrder(Append(ran, e)) /\ Dispatched(Append(ran, e))
  BY <1>2, <1>3, <1>4, <1>5, AppendInOrder, DispatchedKept DEF OrderInv
<1>7. Ahead(Append(ran, e), Tail(batch))  BY <1>2, <1>3, <1>4, <1>5, AppendAhead
<1>8. ASSUME NEW t \in Seq(Completion), Ahead(ran, t), Ahead(batch, t)
      PROVE  Ahead(Append(ran, e), t) /\ Ahead(Tail(batch), t)
  <2>1. Ahead(Tail(batch), t)  BY <1>1, <1>2, <1>8, TailAhead
  <2>2. \A j \in DOMAIN t : e.by = t[j].by => e.id < t[j].id
    <3>1. e = batch[1] /\ 1 \in DOMAIN batch  BY <1>1, <1>2
    <3> QED  BY <1>8, <3>1 DEF Ahead, OlderThan
  <2> QED  BY <1>2, <1>3, <1>8, <2>1, <2>2, AppendAhead
<1>9. Ahead(Append(ran, e), pending) /\ Ahead(Tail(batch), pending)
  BY <1>2, <1>8 DEF OrderInv
<1>10. ASSUME NEW d \in Dispatchers
       PROVE  Ahead(Append(ran, e), work[d]) /\ Ahead(Tail(batch), work[d])
  BY <1>2, <1>8 DEF OrderInv, FifoInOrder
<1>11. ASSUME NEW d \in Dispatchers  PROVE FifoInOrder(d)'
  BY <1>1, <1>10 DEF OrderInv, FifoInOrder, InOrder, Dispatched, Ahead, OlderThan
<1>12. /\ InOrder(ran)' /\ InOrder(batch)' /\ Ahead(ran, batch)' /\ Ahead(ran, pending)'
       /\ Ahead(batch, pending)' /\ Dispatched(ran)' /\ Dispatched(batch)'
  BY <1>1, <1>4, <1>6, <1>7, <1>9 DEF InOrder, Dispatched, Ahead, OlderThan
<1> QED  BY <1>1, <1>11, <1>12 DEF OrderInv, InOrder, Dispatched

\* A step that only drops completions, or moves none, keeps the order.
LEMMA DropOrder ==
  ASSUME QueueTypeOK, OrderInv, UNCHANGED <<work, given, ran>>,
         batch' = batch \/ batch' = <<>>, pending' = pending \/ pending' = <<>>
  PROVE  OrderInv'
<1>1. /\ pending \in Seq(Completion) /\ batch \in Seq(Completion) /\ ran \in Seq(Completion)
      /\ \A d \in Dispatchers : work[d] \in Seq(Completion)
  BY DEF QueueTypeOK
<1>2. InOrder(batch)' /\ Dispatched(batch)' /\ InOrder(pending)' /\ Dispatched(pending)'
  BY EmptyInOrder DEF OrderInv, InOrder, Dispatched
<1>3. Ahead(ran, batch)' /\ Ahead(ran, pending)'
  BY <1>1, EmptyInOrder DEF OrderInv, Ahead, OlderThan
<1>4. Ahead(batch, pending)'
  <2>1. pending' = <<>> \/ batch' = <<>> \/ (pending' = pending /\ batch' = batch)
    OBVIOUS
  <2> QED  BY <2>1 DEF OrderInv, Ahead, OlderThan
<1>5. ASSUME NEW d \in Dispatchers  PROVE FifoInOrder(d)'
  <2>1. FifoInOrder(d)  BY DEF OrderInv
  <2>2. Ahead(pending, work[d])' /\ Ahead(batch, work[d])'
    BY <1>1, <2>1, EmptyInOrder DEF FifoInOrder, Ahead, OlderThan
  <2> QED  BY <2>1, <2>2 DEF FifoInOrder, InOrder, Dispatched, Ahead, OlderThan
<1>6. InOrder(ran)' /\ Dispatched(ran)'  BY DEF OrderInv, InOrder, Dispatched
<1> QED  BY <1>2, <1>3, <1>4, <1>5, <1>6 DEF OrderInv

LEMMA NextOrderInv == QueueTypeOK /\ OrderInv /\ [QueueNext]_napiVars => OrderInv'
<1> SUFFICES ASSUME QueueTypeOK, OrderInv, [QueueNext]_napiVars  PROVE OrderInv'
  OBVIOUS
<1>1. CASE \E d \in Dispatchers : Dispatch(d) \/ Post(d)  BY <1>1, DispatchOrder, PostOrder
<1>2. CASE EnvStep
  <2>1. CASE TakeBatch  BY <2>1, TakeBatchOrder
  <2>2. CASE RunCompletion  BY <2>2, RunOrder
  <2>3. CASE EnvStep /\ ~TakeBatch /\ ~RunCompletion
    <3>1. /\ UNCHANGED <<work, given, ran>>
          /\ batch' = batch \/ batch' = <<>>
          /\ pending' = pending
      BY <2>3
      DEF EnvStep, StartDrain, TakeNothing, OpenScope, OpenScopeFails, BatchDone, Check,
          SpinAnswered, SpinExpired, Finish, Deadline, Requeue, queueVars
    <3> QED  BY <3>1, DropOrder
  <2> QED  BY <1>2, <2>1, <2>2, <2>3
<1>3. CASE Shutdown \/ CallWithoutEnv
  <2>1. UNCHANGED <<work, given, ran, batch>> /\ pending' = <<>>
    BY <1>3 DEF Shutdown, CallWithoutEnv, envVars
  <2> QED  BY <2>1, DropOrder
<1>4. CASE UNCHANGED napiVars
  <2>1. UNCHANGED <<work, given, ran, batch, pending>>
    BY <1>4 DEF napiVars, queueVars, envVars
  <2> QED  BY <2>1, DropOrder
<1> QED  BY <1>1, <1>2, <1>3, <1>4 DEF QueueNext

\* The completions of one dispatcher run in the order of their dispatch and
\* each once, whatever batches, deadlines, signals and continuations that
\* dispatch again lie between them: Teardown may free the instance in the last
\* completion of its writer (database_binding_napi.cpp, the comment on Teardown).
THEOREM CompletionsRunInOrder == QueueSpec => []CompletionsInOrder
<1>1. OrderInv => CompletionsInOrder  BY DEF OrderInv, InOrder, CompletionsInOrder
<1>2. QueueInv => QueueTypeOK  BY DEF QueueInv
<1> QED
  BY InitQueueInv, NextQueueInv, InitOrderInv, NextOrderInv, <1>1, <1>2, PTL DEF QueueSpec
===============================================================================
