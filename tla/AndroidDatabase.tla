--------------------------- MODULE AndroidDatabase ---------------------------
(***************************************************************************)
(* The life of a database on Android: its connections and their            *)
(* dispatchers, from openDatabase() to the moment the native instance is   *)
(* freed (native/src/bindings/database_binding.cpp, the V8 build, with     *)
(* native/src/async/android_dispatcher.cpp and the open and close of       *)
(* native/src/common/sqlite_connection.cpp).                               *)
(*                                                                         *)
(* Connection 0 is the writer and 1..poolSize are the readers; poolSize is *)
(* 0 in serialized mode.  A dispatcher is one worker thread with a FIFO of *)
(* tasks (ThreadPool), a queue of completions and an eventfd; the JS       *)
(* thread's looper calls the dispatcher back when the eventfd is readable. *)
(* Transactions and synchronous calls are in AndroidTransactions.          *)
(*                                                                         *)
(* An operator commented "Fault:" is a wrong variant of the definition     *)
(* after it; the specification does not use it.                            *)
(***************************************************************************)
EXTENDS Integers, Sequences

CONSTANTS
  PoolSizes,     \* how many readers a database may have
  OpenMayFail,   \* whether the open of a connection may fail
  MaxWork,       \* bound: readers and calls (execute, select) of a behaviour
  MayPump,       \* whether a JS continuation may run the looper itself
  LateCallbacks  \* whether the looper may call back for a file descriptor that
                 \* was removed after its event was collected

ASSUME DatabaseAssumption ==
  /\ MaxWork \in Nat /\ PoolSizes \subseteq 0..MaxWork
  /\ {OpenMayFail, MayPump, LateCallbacks} \subseteq BOOLEAN

VARIABLES
  poolSize,    \* how many readers this one has
  inst,        \* the DBInstance: "none", "live", "freed", or "threw" out of Open
  handle,      \* the JS object: "none", "valid", "closed" by close(), "lost" to GC
  closing,     \* closing
  conn,        \* per connection: "new", "open", "failed" (openFailed_), "closed"
  ready,       \* readersReady
  parked,      \* pendingReads, per reader
  openPending, \* openPending
  failedOrder, \* openFailedOrder
  latch,       \* readers whose close has not ticked (Teardown)
  nextReader,  \* readerIndex
  work,        \* per dispatcher, the tasks not run yet
  signalling,  \* per dispatcher, the worker pushed a completion and has not
               \* written the eventfd yet
  done,        \* per dispatcher, CompletionQueue::pending
  efd,         \* per dispatcher, whether the eventfd is readable
  responses,   \* the dispatchers whose event the looper collected and has not
               \* called back for
  frames,      \* the running drains, innermost first
  fed,         \* DrainContext::fed of the outermost drain
  outcome,     \* per call, what became of its promise
  target,      \* per call, the connection it was routed to (history)
  init,        \* the promise of initialized(): what became of it
  closed       \* the promise of close(): "none", "pending", "resolved"

Writer  == 0
Readers == 1..poolSize
Conns   == 0..poolSize
NoOrder == -1

bindingVars == <<inst, handle, closing, ready, parked, openPending, failedOrder, latch, nextReader, poolSize>>
threadVars  == <<conn, work, signalling, done, efd>>
looperVars  == <<responses, frames, fed>>
promiseVars == <<outcome, target, init, closed>>
vars        == <<bindingVars, threadVars, looperVars, promiseVars>>

Calls == 1..(MaxWork - poolSize)
Kinds == {"open", "call", "close"}
\* A completion also carries what its task found.
Results    == {"ok", "openError", "closed"}
Completion == [kind : Kinds, conn : Conns, id : {0} \cup Calls, res : Results]
Frame      == [pc : {"gather", "run", "after"}, polled : SUBSET Conns, batch : Seq(Completion)]
Outcome    == {"none", "parked", "pending", "dropped"} \cup Results

Open_    == [kind |-> "open", id |-> 0]
Close_   == [kind |-> "close", id |-> 0]
Call_(k) == [kind |-> "call", id |-> k]
Task     == {Open_, Close_} \cup {Call_(k) : k \in Calls}

Init ==
  /\ poolSize \in PoolSizes
  /\ inst = "none" /\ handle = "none" /\ closing = FALSE
  /\ conn = [c \in Conns |-> "new"]
  /\ ready = FALSE /\ parked = [r \in Readers |-> <<>>]
  /\ openPending = 0 /\ failedOrder = NoOrder
  /\ latch = poolSize /\ nextReader = 0
  /\ work = [c \in Conns |-> <<>>] /\ done = [c \in Conns |-> <<>>]
  /\ signalling = [c \in Conns |-> FALSE] /\ efd = [c \in Conns |-> FALSE]
  /\ responses = {} /\ frames = <<>> /\ fed = {}
  /\ outcome = [k \in Calls |-> "none"] /\ target = [k \in Calls |-> Writer]
  /\ init = "none" /\ closed = "none"

-----------------------------------------------------------------------------
(* Helpers.                                                                *)

Draining == frames # <<>>
Top      == Head(frames)

\* JS runs between the looper's callbacks, or in the continuations of a running
\* batch.
JsRuns ==
  \/ ~Draining /\ responses = {}
  \/ Draining /\ Top.pc = "run"

\* dispatch() of tasks to their connections, and what a running drain was fed.
Queued(tasks) == [c \in Conns |-> work[c] \o tasks[c]]

FedBy(tasks) == IF Draining THEN fed \cup {c \in Conns : tasks[c] # <<>>} ELSE fed

Dispatch(tasks) == work' = Queued(tasks) /\ fed' = FedBy(tasks)

\* One task for one connection; the tasks of DispatchReaderOpens() and Teardown().
Only(c, t)   == [d \in Conns |-> IF d = c THEN <<t>> ELSE <<>>]
ReaderOpens  == [d \in Conns |-> IF d \in Readers THEN <<Open_>> ELSE <<>>]
ReaderCloses == [d \in Conns |-> IF d \in Readers THEN <<Close_>> ELSE <<>>]

NoneParked == [r \in Readers |-> <<>>]
Parked(k)  == \E r \in Readers : \E i \in DOMAIN parked[r] : parked[r][i] = k

\* Fault: the parked calls are taken from the back.
ParkedTasks_Backwards(r) ==
  LET n == Len(parked[r]) IN [i \in 1..n |-> Call_(parked[r][n + 1 - i])]

\* The calls parked for a reader as tasks (FlushPendingReads with Dispatch).
ParkedTasks(r) == [i \in 1..Len(parked[r]) |-> Call_(parked[r][i])]

\* The outcomes after every parked call was settled with o.
SettleParked(o) ==
  [k \in Calls |-> IF Parked(k) THEN o ELSE outcome[k]]

-----------------------------------------------------------------------------
(* The constructor (Open).                                                 *)

\* With the asyncOpen option the constructor dispatches the writer's; its completion starts the
\* readers.
OpenAsync ==
  /\ inst = "none"
  /\ inst' = "live" /\ handle' = "valid"
  /\ Dispatch(Only(Writer, Open_))
  /\ openPending' = 1
  /\ UNCHANGED <<closing, conn, ready, parked, failedOrder, latch, nextReader, poolSize,
                 signalling, done, efd, responses, frames, promiseVars>>

\* Without it, it opens the writer on the JS thread, and the readers at
\* once behind it ...
OpenSync ==
  /\ inst = "none"
  /\ inst' = "live" /\ handle' = "valid"
  /\ conn' = [conn EXCEPT ![Writer] = "open"]
  /\ ready' = TRUE
  /\ Dispatch(ReaderOpens)
  /\ openPending' = poolSize
  /\ UNCHANGED <<closing, parked, failedOrder, latch, nextReader, poolSize,
                 signalling, done, efd, responses, frames, promiseVars>>

\* ... or throws, and leaves nothing behind.
OpenThrows ==
  /\ inst = "none" /\ OpenMayFail
  /\ inst' = "threw"
  /\ UNCHANGED <<handle, closing, ready, parked, openPending, failedOrder, latch,
                 nextReader, poolSize, threadVars, looperVars, promiseVars>>

-----------------------------------------------------------------------------
(* Calls from JS.                                                          *)

\* The next call to number.
Fresh(k) == outcome[k] = "none" /\ \A m \in Calls : m < k => outcome[m] # "none"

\* execute(): always on the writer.
Execute(k) ==
  /\ JsRuns /\ handle = "valid" /\ Fresh(k)
  /\ Dispatch(Only(Writer, Call_(k)))
  /\ outcome' = [outcome EXCEPT ![k] = "pending"]
  /\ target' = [target EXCEPT ![k] = Writer]
  /\ UNCHANGED <<bindingVars, conn, signalling, done, efd, responses, frames, init, closed>>

\* NextReader(): round robin, the writer when there are no readers.
ReadTarget == IF poolSize = 0 THEN Writer ELSE 1 + nextReader

\* Whether a read can be dispatched or has to be parked (DispatchRead).
MayRead == ready \/ poolSize = 0

\* select().
Select(k) ==
  /\ JsRuns /\ handle = "valid" /\ Fresh(k)
  /\ nextReader' = IF poolSize = 0 THEN 0 ELSE (nextReader + 1) % poolSize
  /\ IF MayRead
       THEN /\ Dispatch(Only(ReadTarget, Call_(k)))
            /\ outcome' = [outcome EXCEPT ![k] = "pending"]
            /\ UNCHANGED parked
       ELSE /\ parked' = [parked EXCEPT ![ReadTarget] = Append(@, k)]
            /\ outcome' = [outcome EXCEPT ![k] = "parked"]
            /\ UNCHANGED <<work, fed>>
  /\ target' = [target EXCEPT ![k] = ReadTarget]
  /\ UNCHANGED <<inst, handle, closing, ready, openPending, failedOrder, latch, poolSize,
                 conn, signalling, done, efd, responses, frames, init, closed>>

\* SettleInitialized().
Settled == IF failedOrder = NoOrder THEN "resolved" ELSE "rejected"

\* initialized(), called at most once in a behaviour.
Initialized ==
  /\ JsRuns /\ handle = "valid" /\ init = "none"
  /\ init' = IF openPending = 0 THEN Settled ELSE "waiting"
  /\ UNCHANGED <<bindingVars, threadVars, looperVars, outcome, target, closed>>

\* Fault: the writer is closed along with the readers.
CloseTasks_Together == [d \in Conns |-> <<Close_>>]

\* What Teardown() dispatches: the closes of the readers, or the writer's when
\* there are none.
CloseTasks == IF poolSize = 0 THEN Only(Writer, Close_) ELSE ReaderCloses

\* Fault: the calls parked for the readers are forgotten by close().
ParkedAtClose_Kept == outcome

\* close() fails what is parked.
ParkedAtClose == SettleParked("closed")

\* close() and Teardown(), with a promise to settle.
Close ==
  /\ JsRuns /\ handle = "valid"
  /\ handle' = "closed" /\ closing' = TRUE
  /\ outcome' = ParkedAtClose
  /\ parked' = NoneParked
  /\ Dispatch(CloseTasks)
  /\ closed' = "pending"
  /\ UNCHANGED <<inst, ready, openPending, failedOrder, latch, nextReader, poolSize, conn,
                 signalling, done, efd, responses, frames, target, init>>

\* OnGarbageCollected(): the same Teardown() for a database nobody can reach;
\* nothing parked is settled.
Collect ==
  /\ JsRuns /\ handle = "valid"
  /\ handle' = "lost" /\ closing' = TRUE
  /\ Dispatch(CloseTasks)
  /\ UNCHANGED <<inst, ready, parked, openPending, failedOrder, latch, nextReader, poolSize,
                 conn, signalling, done, efd, responses, frames, promiseVars>>

-----------------------------------------------------------------------------
(* The workers.                                                            *)

\* What a task does to its connection and finds: SQLiteConnection::open() and
\* close(), and the check of isOpen() before every call.
Opened(c) == [conn EXCEPT ![c] = "open"]

Failed(c) == [conn EXCEPT ![c] = "failed"]

ClosedC(c) == IF conn[c] = "open" THEN [conn EXCEPT ![c] = "closed"] ELSE conn

CallResult(c) ==
  IF conn[c] = "open" THEN "ok" ELSE IF conn[c] = "failed" THEN "openError" ELSE "closed"

\* A worker runs its next task and pushes the completion.
RunTask(c) ==
  /\ work[c] # <<>> /\ ~signalling[c]
  /\ LET t == Head(work[c])
         post(res) == done' = [done EXCEPT ![c] =
           Append(@, [kind |-> t.kind, conn |-> c, id |-> t.id, res |-> res])]
     IN  \/ t.kind = "open" /\ conn' = Opened(c) /\ post("ok")
         \/ t.kind = "open" /\ OpenMayFail /\ conn' = Failed(c) /\ post("openError")
         \/ t.kind = "call" /\ post(CallResult(c)) /\ UNCHANGED conn
         \/ t.kind = "close" /\ conn' = ClosedC(c) /\ post("ok")
  /\ work' = [work EXCEPT ![c] = Tail(@)]
  /\ signalling' = [signalling EXCEPT ![c] = TRUE]
  /\ UNCHANGED <<bindingVars, efd, looperVars, promiseVars>>

\* It then writes the eventfd.
Signal(c) ==
  /\ signalling[c]
  /\ signalling' = [signalling EXCEPT ![c] = FALSE]
  /\ efd' = [efd EXCEPT ![c] = TRUE]
  /\ UNCHANGED <<bindingVars, conn, work, done, looperVars, promiseVars>>

-----------------------------------------------------------------------------
(* The looper and the drains of the JS thread.                             *)

Readable == {c \in Conns : efd[c]}

\* The looper collects the readable descriptors; a continuation that pumps it starts
\* over with what is readable then.
Poll ==
  /\ \/ ~Draining /\ responses = {}
     \/ MayPump /\ Len(frames) = 1 /\ Top.pc = "run"
  /\ Readable # {}
  /\ responses' = Readable
  /\ UNCHANGED <<bindingVars, threadVars, frames, fed, promiseVars>>

\* looperCallback(), for the collected events in any order: read the eventfd and
\* begin drainCompletions().
Callback(c) ==
  /\ c \in responses /\ inst = "live"
  /\ ~Draining \/ (MayPump /\ Len(frames) = 1 /\ Top.pc = "run")
  /\ responses' = responses \ {c}
  /\ efd' = [efd EXCEPT ![c] = FALSE]
  /\ frames' = <<[pc |-> "gather", polled |-> {c}, batch |-> <<>>]>> \o frames
  /\ UNCHANGED <<bindingVars, conn, work, signalling, done, fed, promiseVars>>

SetTop(f) == frames' = <<f>> \o Tail(frames)
EndDrain  == frames' = Tail(frames) /\ fed' = IF Len(frames) = 1 THEN {} ELSE fed

\* Take everything a polled queue holds, under its mutex.
Gather(c) ==
  /\ Draining /\ Top.pc = "gather"
  /\ c \in Top.polled /\ done[c] # <<>>
  /\ SetTop([Top EXCEPT !.polled = @ \ {c}, !.batch = @ \o done[c]])
  /\ done' = [done EXCEPT ![c] = <<>>]
  /\ UNCHANGED <<bindingVars, conn, work, signalling, efd, responses, fed, promiseVars>>

\* Something was taken; a queue that was looked at before it was filled is left so.
\* `fed` is cleared for the batch.
RunBatch ==
  /\ Draining /\ Top.pc = "gather" /\ Top.batch # <<>>
  /\ SetTop([Top EXCEPT !.pc = "run", !.polled = {}])
  /\ fed' = IF Len(frames) = 1 THEN {} ELSE fed
  /\ UNCHANGED <<bindingVars, threadVars, responses, promiseVars>>

\* Nothing there, and no longer worth polling for.
GatherNothing ==
  /\ Draining /\ Top.pc = "gather" /\ Top.batch = <<>>
  /\ \A c \in Top.polled : done[c] = <<>>
  /\ EndDrain
  /\ UNCHANGED <<bindingVars, threadVars, responses, promiseVars>>

BatchDone ==
  /\ Draining /\ Top.pc = "run" /\ Top.batch = <<>>
  /\ SetTop([Top EXCEPT !.pc = "after"])
  /\ UNCHANGED <<bindingVars, threadVars, responses, fed, promiseVars>>

\* The outermost drain goes on with the queues it fed, unless it ran for too
\* long; an inner one returns.
KeepPolling ==
  /\ Draining /\ Top.pc = "after"
  /\ Len(frames) = 1 /\ fed # {}
  /\ SetTop([pc |-> "gather", polled |-> fed, batch |-> <<>>])
  /\ UNCHANGED <<bindingVars, threadVars, responses, fed, promiseVars>>

Return ==
  /\ Draining /\ Top.pc = "after"
  /\ EndDrain
  /\ UNCHANGED <<bindingVars, threadVars, responses, promiseVars>>

-----------------------------------------------------------------------------
(* The completions, run by a drain on the JS thread.                       *)

Message == Head(Top.batch)

\* A completion of this kind is the next one of the running batch.
Runs(kind) ==
  /\ Draining /\ Top.pc = "run" /\ Top.batch # <<>>
  /\ Message.kind = kind
  /\ inst = "live"

Consume == SetTop([Top EXCEPT !.batch = Tail(@)])

\* A call settles its promise (DispatchResolved).
CallDone ==
  /\ Runs("call")
  /\ outcome' = [outcome EXCEPT ![Message.id] = Message.res]
  /\ Consume
  /\ UNCHANGED <<bindingVars, threadVars, responses, fed, target, init, closed>>

\* The first failure in writer-then-reader order.
FirstFailure(order, res) ==
  IF res # "ok" /\ (failedOrder = NoOrder \/ order < failedOrder) THEN order ELSE failedOrder

\* Fault: initialized() settles with the writer, before the readers are counted.
Waiters_TooEarly(pending) == openPending = 1

\* The promises of initialized() are settled.
Waiters(pending) == pending = 0

\* The end of NoteOpenFinished(): `pending` opens are left.
NoteOpen(pending) ==
  /\ failedOrder' = FirstFailure(Message.conn, Message.res)
  /\ openPending' = pending
  /\ init' = IF init = "waiting" /\ Waiters(pending)
               THEN IF failedOrder' = NoOrder THEN "resolved" ELSE "rejected"
               ELSE init

\* The readers are stamped with the writer's failure, and what waited for them
\* fails with it.
WriterOpenFailed ==
  /\ Runs("open") /\ Message.conn = Writer /\ Message.res # "ok"
  /\ conn' = [c \in Conns |-> IF c \in Readers THEN "failed" ELSE conn[c]]
  /\ ready' = TRUE
  /\ outcome' = SettleParked("openError") /\ parked' = NoneParked
  /\ NoteOpen(openPending - 1)
  /\ Consume
  /\ UNCHANGED <<inst, handle, closing, latch, nextReader, poolSize, work, signalling, done,
                 efd, responses, fed, target, closed>>

\* Fault: the readers' opens are dispatched behind a close that came first.
StartsReaders_Always == TRUE

\* A writer that opened starts the readers, unless close() came first.
StartsReaders == ~closing

\* The opens that have not reported back once the readers' are dispatched.
OpensLeft == openPending + poolSize - 1

\* The readers open, and what was parked is dispatched behind their opens.
WriterOpened ==
  /\ Runs("open") /\ Message.conn = Writer /\ Message.res = "ok"
  /\ StartsReaders
  /\ ready' = TRUE
  /\ Dispatch([d \in Conns |-> ReaderOpens[d] \o (IF d \in Readers THEN ParkedTasks(d) ELSE <<>>)])
  /\ outcome' = SettleParked("pending") /\ parked' = NoneParked
  /\ NoteOpen(OpensLeft)
  /\ Consume
  /\ UNCHANGED <<inst, handle, closing, latch, nextReader, poolSize, conn, signalling, done,
                 efd, responses, target, closed>>

\* The open of a reader is over, or that of a writer being closed.
OpenDone ==
  /\ Runs("open")
  /\ Message.conn = Writer => Message.res = "ok" /\ ~StartsReaders
  /\ NoteOpen(openPending - 1)
  /\ Consume
  /\ UNCHANGED <<inst, handle, closing, ready, parked, latch, nextReader, poolSize, threadVars,
                 responses, fed, outcome, target, closed>>

\* The latch is at its last reader.
LastReader == latch = 1

\* A reader is closed: the last one lets the writer close.
ReaderClosed ==
  /\ Runs("close") /\ Message.conn # Writer
  /\ latch' = latch - 1
  /\ IF LastReader THEN Dispatch(Only(Writer, Close_)) ELSE UNCHANGED <<work, fed>>
  /\ Consume
  /\ UNCHANGED <<inst, handle, closing, ready, parked, openPending, failedOrder,
                 nextReader, poolSize, conn, signalling, done, efd, responses, promiseVars>>

\* pool_.shutdown() has joined the workers.
Joined == \A c \in Conns : ~signalling[c]

\* The writer is closed: the promise of close() resolves and the instance is
\* deleted, which joins the workers, removes the descriptors from the looper
\* and closes them.
WriterClosed ==
  /\ Runs("close") /\ Message.conn = Writer
  /\ Joined
  /\ inst' = "freed"
  /\ closed' = IF closed = "pending" THEN "resolved" ELSE closed
  /\ outcome' = SettleParked("dropped") /\ parked' = NoneParked
  /\ init' = IF init = "waiting" THEN "dropped" ELSE init
  /\ efd' = [c \in Conns |-> FALSE]
  /\ responses' = IF LateCallbacks THEN responses ELSE {}
  /\ Consume
  /\ UNCHANGED <<handle, closing, ready, openPending, failedOrder, latch, nextReader, poolSize,
                 conn, work, signalling, done, fed, target>>

-----------------------------------------------------------------------------
JsStep ==
  \/ OpenAsync \/ OpenSync \/ OpenThrows
  \/ \E k \in Calls : Execute(k) \/ Select(k)
  \/ Initialized \/ Close \/ Collect

WorkerStep(c) == RunTask(c) \/ Signal(c)

DrainStep ==
  \/ (\E c \in Conns : Gather(c)) \/ RunBatch \/ GatherNothing \/ BatchDone \/ KeepPolling \/ Return
  \/ CallDone \/ WriterOpenFailed \/ WriterOpened \/ OpenDone
  \/ ReaderClosed \/ WriterClosed

Next ==
  \/ JsStep
  \/ \E c \in Conns : WorkerStep(c)
  \/ Poll \/ (\E c \in Conns : Callback(c)) \/ DrainStep

Spec == Init /\ [][Next]_vars

\* Some worker runs while one can, and so does the JS thread's looper; nothing makes
\* JS call.
Fairness ==
  /\ WF_vars(\E c \in Conns : WorkerStep(c))
  /\ WF_vars(Poll \/ (\E c \in Conns : Callback(c)) \/ DrainStep)

FairSpec == Spec /\ Fairness

-----------------------------------------------------------------------------
(* Properties.                                                             *)

\* Every variable holds a value of its type.
TypeOK ==
  /\ inst \in {"none", "live", "freed", "threw"}
  /\ handle \in {"none", "valid", "closed", "lost"}
  /\ closing \in BOOLEAN /\ ready \in BOOLEAN
  /\ conn \in [Conns -> {"new", "open", "failed", "closed"}]
  /\ parked \in [Readers -> Seq(Calls)]
  /\ openPending \in 0..(poolSize + 1) /\ failedOrder \in Conns \cup {NoOrder}
  /\ latch \in 0..poolSize /\ nextReader \in 0..poolSize
  /\ work \in [Conns -> Seq(Task)] /\ done \in [Conns -> Seq(Completion)]
  /\ signalling \in [Conns -> BOOLEAN] /\ efd \in [Conns -> BOOLEAN]
  /\ responses \subseteq Conns /\ frames \in Seq(Frame) /\ fed \subseteq Conns
  /\ outcome \in [Calls -> Outcome] /\ target \in [Calls -> Conns]
  /\ init \in {"none", "waiting", "resolved", "rejected", "dropped"}
  /\ closed \in {"none", "pending", "resolved"}

\* The instance is freed from its last completion: when it is gone no task, no
\* completion, no batch under way and no event of the looper still refers to it
\* (database_binding.cpp:156-159 and 617-619).
NothingOutlivesInstance ==
  inst = "freed" =>
    /\ \A c \in Conns : work[c] = <<>> /\ done[c] = <<>>
    /\ \A i \in DOMAIN frames : frames[i].batch = <<>>
    /\ responses = {}

\* A reader is open only while the writer is: it opens after the writer's open
\* sequence, since it must not meet a file whose page size and journal mode are
\* not settled, and it is gone before the writer closes, which could not
\* checkpoint otherwise (database_binding.cpp:161-165 and 428-431).
ReadersInsideWriter ==
  \A r \in Readers : conn[r] = "open" => conn[Writer] = "open"

\* No call is turned away with "database is closed" by a database nobody has
\* closed, however early it was made: a read waits for its reader, and a reader
\* that was never opened answers with the failure of the writer.  And the calls of
\* one connection are answered in the order they were made, the parked ones
\* included.
AnswersAreRight ==
  /\ \A k \in Calls : outcome[k] = "closed" => handle = "closed"
  /\ \A j, k \in Calls :
       j < k /\ target[j] = target[k] /\ outcome[k] \in {"ok", "openError"}
         => outcome[j] \in {"ok", "openError", "closed", "dropped"}

\* "Resolves once every connection is open, or rejects with the error that
\* failed the open" (common.ts:424-425).  The code keeps this promise only while
\* the database is not closed: a close() before the writer has opened leaves the
\* readers unopened, and initialized() still resolves.  The failure it reports is
\* the first in writer-then-reader order, whichever open finished first.
InitializedMeansOpen ==
  /\ init = "resolved" => closing \/ \A c \in Conns : conn[c] = "open"
  /\ init = "rejected" => failedOrder = CHOOSE c \in Conns :
       conn[c] = "failed" /\ \A d \in Conns : conn[d] = "failed" => c <= d

AllSettled ==
  /\ \A k \in Calls : outcome[k] \in {"none"} \cup Results \/ (outcome[k] = "dropped" /\ handle = "lost")
  /\ init \in {"none", "resolved", "rejected"}
  /\ handle \in {"closed", "lost"} => inst = "freed"
  /\ closed \in {"none", "resolved"}

\* Every call is answered, also those parked or queued when the writer fails to
\* open or when close() overtakes them (only a database that was collected may
\* drop one); initialized() settles, closed or not; a database that is closed or
\* lost is freed in the end, and close() resolves.  (What has settled stays so and
\* calls are bounded, so this says it of each.)
EverythingSettles == []<>AllSettled
=============================================================================
