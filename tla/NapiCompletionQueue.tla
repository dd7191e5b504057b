------------------------- MODULE NapiCompletionQueue -------------------------
(***************************************************************************)
(* How the answers of the worker threads reach JavaScript in the Node-API  *)
(* build (native/src/async/napi_dispatcher.{h,cpp}).  Every dispatcher is  *)
(* one worker thread with a FIFO of work (ThreadPool shows that it is one);*)
(* all of them post their completions to the one queue of the environment, *)
(* and one signal of a threadsafe function stands for all the completions  *)
(* queued until a drain sees the queue empty.                              *)
(*                                                                         *)
(* Every region under mtx_ is one action.  pendingCount_ is written in the *)
(* same regions as pending_ and always holds its length.                   *)
(*                                                                         *)
(* An operator commented "Fault:" is a wrong variant of the definition     *)
(* after it; the specification does not use it.                            *)
(***************************************************************************)
EXTENDS Naturals, Sequences

CONSTANTS
  Dispatchers,   \* the connections' dispatchers, one worker thread each
  MaxDispatch    \* bound: pieces of work dispatched in a behaviour

ASSUME CompletionQueueAssumption == MaxDispatch \in Nat

VARIABLES
  work,          \* per dispatcher, the work not finished yet, oldest first
  given,         \* how many pieces of work were dispatched (history: numbers them)
  pending,       \* pending_
  signalPending, \* signalPending_
  tsfn,          \* tsfn_ is not null
  calls,         \* calls of the threadsafe function its event loop has queued
  epc,           \* where the env's thread is
  dispatched,    \* dispatchedWhileDraining_
  batch,         \* the batch being run
  ran,           \* the completions that ran, in order (history)
  lost           \* the completions whose handle scope failed (history)

queueVars == <<pending, signalPending, tsfn, calls>>
envVars   == <<epc, dispatched, batch, ran, lost>>
napiVars  == <<work, given, queueVars, envVars>>

Completion == [id : 1..MaxDispatch, by : Dispatchers]
EnvPC == {"idle", "loop", "scope", "batch", "check", "spin", "finish", "requeue"}

\* draining_
Draining == epc # "idle"

QueueInit ==
  /\ work = [d \in Dispatchers |-> <<>>]
  /\ given = 0
  /\ pending = <<>> /\ signalPending = FALSE /\ tsfn = TRUE /\ calls = 0
  /\ epc = "idle" /\ dispatched = FALSE /\ batch = <<>> /\ ran = <<>> /\ lost = {}

-----------------------------------------------------------------------------
\* post() signals only when no drain is due yet.
MustSignal == ~signalPending /\ tsfn

\* NapiDispatcher::dispatch() from JS: at top level, or in a continuation that a
\* completion of the running batch resumed (noteDispatch).
Dispatch(d) ==
  /\ epc \in {"idle", "batch"} /\ tsfn
  /\ given < MaxDispatch
  /\ given' = given + 1
  /\ work' = [work EXCEPT ![d] = Append(@, [id |-> given + 1, by |-> d])]
  /\ dispatched' = (dispatched \/ Draining)
  /\ UNCHANGED <<queueVars, epc, batch, ran, lost>>

\* The worker finished its oldest work and posts the completion.
Post(d) ==
  /\ work[d] # <<>>
  /\ work' = [work EXCEPT ![d] = Tail(@)]
  /\ pending' = Append(pending, Head(work[d]))
  /\ IF MustSignal
       THEN calls' = calls + 1 /\ signalPending' = TRUE
       ELSE UNCHANGED <<calls, signalPending>>
  /\ UNCHANGED <<given, tsfn, envVars>>

\* call_js: the event loop delivers one queued call and a drain begins.
StartDrain ==
  /\ epc = "idle" /\ calls > 0 /\ tsfn
  /\ calls' = calls - 1
  /\ epc' = "loop"
  /\ dispatched' = FALSE
  /\ UNCHANGED <<work, given, pending, signalPending, tsfn, batch, ran, lost>>

\* Fault: the batch is copied and the queue keeps it.
QueueAfterTake_Copied == pending

\* takeBatch() swaps the queue with the empty batch.
QueueAfterTake == <<>>

\* takeBatch() finds completions ...
TakeBatch ==
  /\ epc = "loop" /\ pending # <<>>
  /\ batch' = pending
  /\ pending' = QueueAfterTake
  /\ dispatched' = FALSE
  /\ epc' = "scope"
  /\ UNCHANGED <<work, given, signalPending, tsfn, calls, ran, lost>>

\* ... or none.
TakeNothing ==
  /\ epc = "loop" /\ pending = <<>>
  /\ epc' = "check"
  /\ UNCHANGED <<work, given, queueVars, dispatched, batch, ran, lost>>

OpenScope ==
  /\ epc = "scope"
  /\ epc' = "batch"
  /\ UNCHANGED <<work, given, queueVars, dispatched, batch, ran, lost>>

\* The handle scope cannot be opened: the drain ends, and the batch it took goes
\* with it.
OpenScopeFails ==
  /\ epc = "scope"
  /\ lost' = lost \cup {batch[i].id : i \in DOMAIN batch}
  /\ batch' = <<>>
  /\ epc' = "requeue"
  /\ UNCHANGED <<work, given, queueVars, dispatched, ran>>

\* fn(): one completion of the batch; its continuations dispatch (above) before
\* the next one runs.
RunCompletion ==
  /\ epc = "batch" /\ batch # <<>>
  /\ ran' = Append(ran, Head(batch))
  /\ batch' = Tail(batch)
  /\ UNCHANGED <<work, given, queueVars, epc, dispatched, lost>>

BatchDone ==
  /\ epc = "batch" /\ batch = <<>>
  /\ epc' = "loop"
  /\ UNCHANGED <<work, given, queueVars, dispatched, batch, ran, lost>>

\* Wait for the answer of work dispatched in the last batch, or finish.
Check ==
  /\ epc = "check"
  /\ epc' = IF dispatched THEN "spin" ELSE "finish"
  /\ UNCHANGED <<work, given, queueVars, dispatched, batch, ran, lost>>

\* The spin ends because an answer came, or because its time is over.
SpinAnswered ==
  /\ epc = "spin" /\ pending # <<>>
  /\ epc' = "loop"
  /\ UNCHANGED <<work, given, queueVars, dispatched, batch, ran, lost>>

SpinExpired ==
  /\ epc = "spin" /\ pending = <<>>
  /\ epc' = "finish"
  /\ UNCHANGED <<work, given, queueVars, dispatched, batch, ran, lost>>

\* Fault: finish() does not look at the queue again.
MayFinish_Unchecked == TRUE

\* The drain may end: no completion was posted since it last looked.
MayFinish == pending = <<>>

\* finish(), and the next turn of the loop when it fails.
Finish ==
  /\ epc = "finish"
  /\ IF MayFinish
       THEN signalPending' = FALSE /\ epc' = "idle"
       ELSE epc' = "loop" /\ UNCHANGED signalPending
  /\ UNCHANGED <<work, given, pending, tsfn, calls, dispatched, batch, ran, lost>>

\* kMaxDrain went by.
Deadline ==
  /\ epc = "loop"
  /\ epc' = "requeue"
  /\ UNCHANGED <<work, given, queueVars, dispatched, batch, ran, lost>>

\* Fault: the signal the drain consumed is not replaced.
MustResignal_Never == FALSE

\* requeue() leaves completions behind.
MustResignal == pending # <<>> /\ tsfn

\* requeue(): replace the signal this drain consumed.
Requeue ==
  /\ epc = "requeue"
  /\ signalPending' = MustResignal
  /\ calls' = IF MustResignal THEN calls + 1 ELSE calls
  /\ epc' = "idle"
  /\ UNCHANGED <<work, given, pending, tsfn, dispatched, batch, ran, lost>>

\* shutdown(), from the environment's cleanup hook.
Shutdown ==
  /\ epc = "idle" /\ tsfn
  /\ tsfn' = FALSE
  /\ pending' = <<>>
  /\ signalPending' = FALSE
  /\ UNCHANGED <<work, given, calls, envVars>>

\* A call that was queued when the function was aborted is delivered without an
\* environment.
CallWithoutEnv ==
  /\ ~tsfn /\ calls > 0
  /\ calls' = calls - 1
  /\ pending' = <<>>
  /\ signalPending' = FALSE
  /\ UNCHANGED <<work, given, tsfn, envVars>>

EnvStep ==
  \/ StartDrain \/ TakeBatch \/ TakeNothing \/ OpenScope \/ OpenScopeFails
  \/ RunCompletion \/ BatchDone \/ Check \/ SpinAnswered \/ SpinExpired
  \/ Finish \/ Deadline \/ Requeue

QueueNext ==
  \/ \E d \in Dispatchers : Dispatch(d) \/ Post(d)
  \/ EnvStep
  \/ Shutdown \/ CallWithoutEnv

QueueSpec == QueueInit /\ [][QueueNext]_napiVars

\* The threads run, and the event loop delivers what it queued.  A drain that
\* finds completions takes them sooner or later: the deadline is 4 ms away when
\* it starts.  Nothing makes JS dispatch or shut down.
QueueFairness ==
  /\ \A d \in Dispatchers : WF_napiVars(Post(d))
  /\ WF_napiVars(EnvStep)
  /\ SF_napiVars(TakeBatch)

FairQueueSpec == QueueSpec /\ QueueFairness

-----------------------------------------------------------------------------
(* Properties.                                                             *)

\* Every variable holds a value of its type.
QueueTypeOK ==
  /\ work \in [Dispatchers -> Seq(Completion)]
  /\ given \in 0..MaxDispatch
  /\ pending \in Seq(Completion)
  /\ signalPending \in BOOLEAN /\ tsfn \in BOOLEAN
  /\ calls \in 0..1
  /\ epc \in EnvPC
  /\ dispatched \in BOOLEAN
  /\ batch \in Seq(Completion)
  /\ ran \in Seq(Completion)
  /\ lost \subseteq 1..MaxDispatch

\* The flag says exactly that a drain is due or running: one call of the
\* function is queued, or the drain that consumed it has not ended.  There is
\* never a second call in the queue, and never a flag without a drain to clear
\* it (napi_dispatcher.cpp:66-69).
SignalInv ==
  /\ tsfn => calls = IF signalPending /\ ~Draining THEN 1 ELSE 0
  /\ tsfn /\ Draining => signalPending
  /\ ~tsfn => ~Draining /\ ~signalPending

\* No completion is stranded: while any waits in the queue, a drain is queued or
\* is running, which looks at the queue again before it ends.
NoneStranded ==
  tsfn /\ pending # <<>> => calls > 0 \/ Draining

\* The completions of one dispatcher run in the order of their dispatch, each
\* once, even those that continuations of a running batch dispatch.  Teardown
\* frees the instance in the last completion of its writer on this ground
\* (database_binding_napi.cpp, the comment on Teardown).
CompletionsInOrder ==
  \A i, j \in DOMAIN ran :
    i < j /\ ran[i].by = ran[j].by => ran[i].id < ran[j].id

\* Every completion that JS is owed runs, unless the environment goes away or
\* the handle scope of its own batch failed: the drain then ends without running
\* a batch it has already taken, while what was posted meanwhile is requeued.
EveryCompletionRuns ==
  \A n \in 1..MaxDispatch :
    given >= n ~> (~tsfn \/ n \in lost \/ \E i \in DOMAIN ran : ran[i].id = n)
=============================================================================
