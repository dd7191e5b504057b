----------------------------- MODULE ThreadPool -----------------------------
(***************************************************************************)
(* The pool of worker threads behind one SQLite connection                 *)
(* (native/src/async/thread_pool.{h,cpp}): a queue of tasks, a mutex, the  *)
(* condition variable cv_ the workers sleep on, and the inline claim that  *)
(* lets a caller's own thread run work in the workers' place.              *)
(*                                                                         *)
(* Every region the code runs under mutex_ is one action.  A notify made   *)
(* after the mutex is released is an action of its own, so that whatever   *)
(* may happen in between does.  The clients are the threads that call the  *)
(* pool; in the plugin there is one, the JS thread.                        *)
(*                                                                         *)
(* An operator commented "Fault:" is a wrong variant of the definition     *)
(* after it; the specification does not use it.  Each one breaks a property *)
(* below, which shows that the property depends on the code it is about.   *)
(***************************************************************************)
EXTENDS Naturals, Sequences, FiniteSets

CONSTANTS
  Workers,    \* the worker threads
  Clients,    \* the threads that call the pool
  NoClient,   \* a default-constructed std::thread::id
  MaxIssued,  \* bound: jobs submitted in a behaviour
  MaxDepth    \* bound: nesting of acquireInline

ASSUME ThreadPoolAssumption ==
  /\ IsFiniteSet(Workers) /\ Workers # {}
  /\ NoClient \notin Clients
  /\ MaxIssued \in Nat
  /\ MaxDepth \in Nat \ {0}

VARIABLES
  tasks,      \* tasks_: the jobs not yet taken
  busy,       \* busy_
  handedOff,  \* claimHandedOff_
  owner,      \* inlineOwner_
  depth,      \* inlineDepth_
  stop,       \* stop_
  wpc,        \* what each worker is about to do
  wtask,      \* the `task` local of each worker
  cpc,        \* where each client is in its call
  cnotify,    \* the client left the mutex and has its cv_.notify_one() to do
  granted,    \* the `granted` local of a client's acquireInline()
  cjob,       \* the job a client's claim is for (history)
  issued      \* how many jobs were submitted (history: it numbers them)

poolVars   == <<tasks, busy, handedOff, owner, depth, stop, issued>>
workerVars == <<wpc, wtask>>
clientVars == <<cpc, cnotify, granted, cjob>>
vars       == <<poolVars, workerVars, clientVars>>

\* A queued task: plain work, or the wrapper by which `for` waits for a claim.
Job    == [id : 1..MaxIssued, for : Clients \cup {NoClient}]
NoJob  == [id |-> 0, for |-> NoClient]
IsGrant(job) == job.for # NoClient

WorkerPC == {"spin", "slow", "asleep", "run", "post", "notifyOne", "notifyAll", "exit"}
ClientPC == {"out", "wait", "in", "joining", "gone"}

Init ==
  /\ tasks = <<>> /\ busy = FALSE /\ handedOff = FALSE /\ stop = FALSE
  /\ owner = NoClient /\ depth = 0 /\ issued = 0
  /\ wpc = [w \in Workers |-> "spin"]
  /\ wtask = [w \in Workers |-> NoJob]
  /\ cpc = [c \in Clients |-> "out"]
  /\ cnotify = [c \in Clients |-> FALSE]
  /\ granted = [c \in Clients |-> FALSE]
  /\ cjob = [c \in Clients |-> 0]

-----------------------------------------------------------------------------
(* cv_: the workers that sleep on it are those with wpc = "asleep".  A      *)
(* notified worker takes the mutex again and re-evaluates the predicate.    *)

\* The outcomes of cv_.notify_one() and cv_.notify_all() on the worker
\* states pcs.
NotifyOne(pcs) ==
  LET sleepers == {w \in Workers : pcs[w] = "asleep"}
  IN  IF sleepers = {} THEN {pcs}
      ELSE {[pcs EXCEPT ![w] = "slow"] : w \in sleepers}

NotifyAll(pcs) ==
  [w \in Workers |-> IF pcs[w] = "asleep" THEN "slow" ELSE pcs[w]]

-----------------------------------------------------------------------------
(* The decisions taken under the mutex.                                    *)

\* Fault: acquireInline() looks at busy_ only, and overtakes the queue.
Idle_IgnoresQueue == ~busy

\* The fast path of acquireInline(): nothing queued and nothing running.
Idle == tasks = <<>> /\ ~busy

\* A worker may take a task.
Ready == ~busy /\ tasks # <<>>

\* Fault: the claim is dropped even when the task gave it to a client.
BusyAfterTask_Dropped == FALSE

\* busy_ once a worker's task is done: the task may have given the claim away.
BusyAfterTask == IF handedOff THEN busy ELSE FALSE

\* What a worker that is done with its task has to notify.
NotifyAfterTask ==
  IF stop THEN "notifyAll"
  ELSE IF ~BusyAfterTask /\ tasks # <<>> THEN "notifyOne"
  ELSE "spin"

\* Fault: the release does not look at stop_.
WakeOnRelease_ForgetsStop == IF tasks # <<>> THEN NotifyOne(wpc) ELSE {wpc}

\* The worker states releaseInline() may leave.
WakeOnRelease ==
  IF stop THEN {NotifyAll(wpc)}
  ELSE IF tasks # <<>> THEN NotifyOne(wpc)
  ELSE {wpc}

\* A stopping worker has nothing left to run.
Drained == stop /\ tasks = <<>>

-----------------------------------------------------------------------------
(* The callers.                                                            *)

\* A client that is in no call, or that holds the claim, may call the pool;
\* shutdown() is the last call anyone makes.
MayCall(c) == cpc[c] \in {"out", "in"} /\ ~cnotify[c] /\ ~stop

\* Fault: enqueue() does not notify.
EnqueueWakes_Nobody == {wpc}

\* The worker states the notify of enqueue() may leave.
EnqueueWakes == NotifyOne(wpc)

\* enqueue(): push under the mutex, notify after it.
Enqueue(c) ==
  /\ MayCall(c)
  /\ issued < MaxIssued
  /\ issued' = issued + 1
  /\ tasks' = Append(tasks, [id |-> issued + 1, for |-> NoClient])
  /\ cnotify' = [cnotify EXCEPT ![c] = TRUE]
  /\ UNCHANGED <<busy, handedOff, owner, depth, stop, workerVars, cpc, granted, cjob>>

EnqueueNotify(c) ==
  /\ cnotify[c] /\ cpc[c] # "joining"
  /\ cnotify' = [cnotify EXCEPT ![c] = FALSE]
  /\ wpc' \in EnqueueWakes
  /\ UNCHANGED <<poolVars, wtask, cpc, granted, cjob>>

\* acquireInline() by the thread that already owns the claim.
AcquireNested(c) ==
  /\ MayCall(c)
  /\ depth > 0 /\ owner = c
  /\ depth < MaxDepth
  /\ depth' = depth + 1
  /\ UNCHANGED <<tasks, busy, handedOff, owner, stop, issued, workerVars, clientVars>>

\* acquireInline() on an idle pool.
AcquireFast(c) ==
  /\ MayCall(c)
  /\ ~(depth > 0 /\ owner = c)
  /\ Idle
  /\ issued < MaxIssued
  /\ issued' = issued + 1
  /\ busy' = TRUE
  /\ owner' = c
  /\ depth' = 1
  /\ cpc' = [cpc EXCEPT ![c] = "in"]
  /\ cjob' = [cjob EXCEPT ![c] = issued + 1]
  /\ UNCHANGED <<tasks, handedOff, stop, workerVars, cnotify, granted>>

\* acquireInline() behind queued or running work: push the wrapper, notify
\* (still under the mutex) and wait for `granted`.
AcquireSlow(c) ==
  /\ MayCall(c)
  /\ ~(depth > 0 /\ owner = c)
  /\ ~Idle
  /\ issued < MaxIssued
  /\ issued' = issued + 1
  /\ tasks' = Append(tasks, [id |-> issued + 1, for |-> c])
  /\ granted' = [granted EXCEPT ![c] = FALSE]
  /\ cpc' = [cpc EXCEPT ![c] = "wait"]
  /\ cjob' = [cjob EXCEPT ![c] = issued + 1]
  /\ wpc' \in NotifyOne(wpc)
  /\ UNCHANGED <<busy, handedOff, owner, depth, stop, wtask, cnotify>>

\* The waiter sees its claim granted and returns from acquireInline().
AcquireReturn(c) ==
  /\ cpc[c] = "wait" /\ granted[c]
  /\ cpc' = [cpc EXCEPT ![c] = "in"]
  /\ UNCHANGED <<poolVars, workerVars, cnotify, granted, cjob>>

\* releaseInline() by a client that holds the claim.
ReleaseNested(c) ==
  /\ cpc[c] = "in" /\ ~cnotify[c]
  /\ depth > 1
  /\ depth' = depth - 1
  /\ UNCHANGED <<tasks, busy, handedOff, owner, stop, issued, workerVars, clientVars>>

ReleaseLast(c) ==
  /\ cpc[c] = "in" /\ ~cnotify[c]
  /\ depth = 1
  /\ depth' = 0
  /\ owner' = NoClient
  /\ busy' = FALSE
  /\ cpc' = [cpc EXCEPT ![c] = "out"]
  /\ cjob' = [cjob EXCEPT ![c] = 0]
  /\ wpc' \in WakeOnRelease
  /\ UNCHANGED <<tasks, handedOff, stop, issued, wtask, cnotify, granted>>

\* shutdown() drops every level of a leaked claim.
DepthAfterStop == 0

\* The locked part of shutdown().  A claim held at this point is one the caller
\* itself leaked ("only the thread running this can hold one"), and is dropped;
\* a claim another client still waits for is served while the queue drains.
ShutdownBegin(c) ==
  /\ MayCall(c)
  /\ depth > 0 => owner = c
  /\ stop' = TRUE
  /\ IF depth > 0
       THEN busy' = FALSE /\ owner' = NoClient
       ELSE UNCHANGED <<busy, owner>>
  /\ depth' = DepthAfterStop
  /\ cpc' = [cpc EXCEPT ![c] = "joining"]
  /\ cjob' = [cjob EXCEPT ![c] = 0]
  /\ cnotify' = [cnotify EXCEPT ![c] = TRUE]
  /\ UNCHANGED <<tasks, handedOff, issued, workerVars, granted>>

\* Its cv_.notify_all(), after the mutex.
ShutdownNotify(c) ==
  /\ cpc[c] = "joining" /\ cnotify[c]
  /\ cnotify' = [cnotify EXCEPT ![c] = FALSE]
  /\ wpc' = NotifyAll(wpc)
  /\ UNCHANGED <<poolVars, wtask, cpc, granted, cjob>>

\* Every join() has returned.
ShutdownReturn(c) ==
  /\ cpc[c] = "joining" /\ ~cnotify[c]
  /\ \A w \in Workers : wpc[w] = "exit"
  /\ cpc' = [cpc EXCEPT ![c] = "gone"]
  /\ UNCHANGED <<poolVars, workerVars, cnotify, granted, cjob>>

-----------------------------------------------------------------------------
(* The workers.                                                            *)

\* Take the front of the queue and claim the pool, under the mutex.
Take(w) ==
  /\ wtask' = [wtask EXCEPT ![w] = Head(tasks)]
  /\ tasks' = Tail(tasks)
  /\ busy' = TRUE
  /\ wpc' = [wpc EXCEPT ![w] = "run"]
  /\ UNCHANGED <<handedOff, owner, depth, stop, issued, clientVars>>

\* One iteration of the spin loop that got the mutex and found work.
SpinTake(w) ==
  /\ wpc[w] = "spin"
  /\ Ready
  /\ Take(w)

\* One that found the pool stopping and drained: it looks at the queue only.
SpinExit(w) ==
  /\ wpc[w] = "spin"
  /\ Drained
  /\ wpc' = [wpc EXCEPT ![w] = "exit"]
  /\ UNCHANGED <<poolVars, wtask, clientVars>>

\* kSpinCount iterations went by.
SpinGiveUp(w) ==
  /\ wpc[w] = "spin"
  /\ wpc' = [wpc EXCEPT ![w] = "slow"]
  /\ UNCHANGED <<poolVars, wtask, clientVars>>

\* The predicate of the wait on cv_.
WaitOver == ~busy /\ (tasks # <<>> \/ stop)

SlowSleep(w) ==
  /\ wpc[w] = "slow"
  /\ ~WaitOver
  /\ wpc' = [wpc EXCEPT ![w] = "asleep"]
  /\ UNCHANGED <<poolVars, wtask, clientVars>>

SlowTake(w) ==
  /\ wpc[w] = "slow"
  /\ WaitOver /\ tasks # <<>>
  /\ Take(w)

SlowExit(w) ==
  /\ wpc[w] = "slow"
  /\ WaitOver /\ tasks = <<>>
  /\ wpc' = [wpc EXCEPT ![w] = "exit"]
  /\ UNCHANGED <<poolVars, wtask, clientVars>>

\* A wait on a condition variable may end by itself.
SpuriousWake(w) ==
  /\ wpc[w] = "asleep"
  /\ wpc' = [wpc EXCEPT ![w] = "slow"]
  /\ UNCHANGED <<poolVars, wtask, clientVars>>

\* task() returns: plain work is over.
RunWork(w) ==
  /\ wpc[w] = "run" /\ ~IsGrant(wtask[w])
  /\ wpc' = [wpc EXCEPT ![w] = "post"]
  /\ wtask' = [wtask EXCEPT ![w] = NoJob]
  /\ UNCHANGED <<poolVars, clientVars>>

\* task() is an acquireInline() wrapper: it gives this worker's claim away.
RunGrant(w) ==
  /\ wpc[w] = "run" /\ IsGrant(wtask[w])
  /\ owner' = wtask[w].for
  /\ depth' = 1
  /\ handedOff' = TRUE
  /\ granted' = [granted EXCEPT ![wtask[w].for] = TRUE]
  /\ wpc' = [wpc EXCEPT ![w] = "post"]
  /\ wtask' = [wtask EXCEPT ![w] = NoJob]
  /\ UNCHANGED <<tasks, busy, stop, issued, cpc, cnotify, cjob>>

\* The locked region after the task; what it leaves to notify after unlocking
\* is in wpc.
PostTask(w) ==
  /\ wpc[w] = "post"
  /\ handedOff' = FALSE
  /\ busy' = BusyAfterTask
  /\ wpc' = [wpc EXCEPT ![w] = NotifyAfterTask]
  /\ UNCHANGED <<tasks, owner, depth, stop, issued, wtask, clientVars>>

PostNotify(w) ==
  /\ \/ wpc[w] = "notifyOne" /\ wpc' \in NotifyOne([wpc EXCEPT ![w] = "spin"])
     \/ wpc[w] = "notifyAll" /\ wpc' = NotifyAll([wpc EXCEPT ![w] = "spin"])
  /\ UNCHANGED <<poolVars, wtask, clientVars>>

-----------------------------------------------------------------------------
ClientStep(c) ==
  \/ Enqueue(c) \/ EnqueueNotify(c)
  \/ AcquireNested(c) \/ AcquireFast(c) \/ AcquireSlow(c) \/ AcquireReturn(c)
  \/ ReleaseNested(c) \/ ReleaseLast(c)
  \/ ShutdownBegin(c) \/ ShutdownNotify(c) \/ ShutdownReturn(c)

WorkerStep(w) ==
  \/ SpinTake(w) \/ SpinExit(w) \/ SpinGiveUp(w)
  \/ SlowSleep(w) \/ SlowTake(w) \/ SlowExit(w) \/ SpuriousWake(w)
  \/ RunWork(w) \/ RunGrant(w) \/ PostTask(w) \/ PostNotify(w)

Next == (\E c \in Clients : ClientStep(c)) \/ (\E w \in Workers : WorkerStep(w))

Spec == Init /\ [][Next]_vars

\* The threads run: a worker or a client inside a call never stops between two
\* steps of its code.  SpuriousWake is left out, so no wakeup is owed to luck,
\* and so are new calls.  The releases state the contract of acquireInline():
\* "exactly one releaseInline()", unless the claim is leaked to shutdown().
WorkerRuns(w) ==
  \/ SpinTake(w) \/ SpinExit(w) \/ SpinGiveUp(w)
  \/ SlowSleep(w) \/ SlowTake(w) \/ SlowExit(w)
  \/ RunWork(w) \/ RunGrant(w) \/ PostTask(w) \/ PostNotify(w)

ClientRuns(c) ==
  EnqueueNotify(c) \/ AcquireReturn(c) \/ ShutdownNotify(c) \/ ShutdownReturn(c)

Fairness ==
  /\ \A w \in Workers : WF_vars(WorkerRuns(w))
  /\ \A c \in Clients : WF_vars(ClientRuns(c))
  /\ \A c \in Clients : SF_vars(ReleaseNested(c)) /\ SF_vars(ReleaseLast(c))

FairSpec == Spec /\ Fairness

-----------------------------------------------------------------------------
(* Properties.                                                             *)

\* Every variable holds a value of its type.
TypeOK ==
  /\ tasks \in Seq(Job)
  /\ busy \in BOOLEAN /\ handedOff \in BOOLEAN /\ stop \in BOOLEAN
  /\ owner \in Clients \cup {NoClient}
  /\ depth \in 0..MaxDepth
  /\ wpc \in [Workers -> WorkerPC]
  /\ wtask \in [Workers -> Job \cup {NoJob}]
  /\ cpc \in [Clients -> ClientPC]
  /\ cnotify \in [Clients -> BOOLEAN]
  /\ granted \in [Clients -> BOOLEAN]
  /\ cjob \in [Clients -> 0..MaxIssued]
  /\ issued \in 0..MaxIssued

\* A client owns the pool from the moment its claim is granted, whether or not
\* it has woken up to it.
Holds(c) == cpc[c] = "in" \/ (cpc[c] = "wait" /\ granted[c])

\* The jobs being executed: tasks in the hands of a worker and spans of inline
\* work.
Executing ==
  {wtask[w].id : w \in {v \in Workers : wpc[v] = "run"}}
    \cup {cjob[c] : c \in {d \in Clients : Holds(d)}}

\* Exactly one task runs at a time, counting inline work (thread_pool.h:7-12):
\* two workers, a worker and an inline caller, or two inline callers never use
\* the connection behind the pool together.
OneAtATime ==
  /\ \A v, w \in Workers : wpc[v] = "run" /\ wpc[w] = "run" => v = w
  /\ \A c, d \in Clients : Holds(c) /\ Holds(d) => c = d
  /\ \A w \in Workers, c \in Clients : ~(wpc[w] = "run" /\ Holds(c))

\* busy_ stands for exactly one runner, and one that will clear it: the inline
\* owner, or the worker that took a task and has not given its claim away.  The
\* pool is never left claimed by nobody, nor free with somebody running.
ClaimInv ==
  /\ depth = 0 <=> owner = NoClient
  /\ owner # NoClient => busy
  /\ \A c \in Clients : Holds(c) => owner = c
  /\ \A w \in Workers :
       wpc[w] = "run" \/ (wpc[w] = "post" /\ ~handedOff) => busy /\ owner = NoClient
  /\ handedOff => \E w \in Workers : wpc[w] = "post"
  /\ busy /\ owner = NoClient =>
       \E w \in Workers : wpc[w] = "run" \/ (wpc[w] = "post" /\ ~handedOff)

\* No wakeup is lost: while a job waits and the pool is free, some worker is
\* awake to find it or a notify is on its way to one that sleeps.
WorkIsNoticed ==
  ~busy /\ tasks # <<>> =>
    \/ \E w \in Workers : wpc[w] \in {"spin", "slow", "post", "notifyOne", "notifyAll"}
    \/ \E c \in Clients : cnotify[c]

\* shutdown() drains the queue before it returns (thread_pool.h:56): what was
\* submitted before it has run, inline claims still waited for included.
ShutdownDrains ==
  (\E c \in Clients : cpc[c] = "gone") =>
    /\ tasks = <<>>
    /\ \A d \in Clients : cpc[d] = "wait" => granted[d]

\* The pool is the serial executor its header promises: jobs start in the order
\* of submission, one at a time.
Serial == INSTANCE SerialExecutor WITH
  started <- issued - Len(tasks),
  current <- IF Executing = {} THEN 0 ELSE CHOOSE j \in Executing : TRUE

ImplementsSerialExecutor == Serial!AbsSpec

\* Every job submitted starts in the end, no wakeup being lost between the
\* workers, the inline callers and shutdown(); and shutdown() returns, a leaked
\* claim or a waiting client notwithstanding.
EveryCallEnds ==
  /\ \A j \in 1..MaxIssued : (issued >= j) ~> (issued - Len(tasks) >= j)
  /\ \A c \in Clients : (cpc[c] = "joining") ~> (cpc[c] = "gone")
=============================================================================
