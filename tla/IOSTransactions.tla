--------------------------- MODULE IOSTransactions ---------------------------
(***************************************************************************)
(* Transactions on iOS: transaction() and transactionSync() of             *)
(* index.ios.ts over platforms/ios/src/NSSQLiteDatabase.mm.                *)
(*                                                                         *)
(* The JS thread and the writer's serial dispatch queue share a gate under *)
(* _txMutex: beginTransaction() takes it or waits in a list, and the block *)
(* that ends a transaction opens it and starts the first that waits.  That *)
(* block runs its SQL, opens the gate and flushes the list in three steps  *)
(* the JS thread can get between.  A synchronous call looks at the gate    *)
(* first and then sends a block after those already queued; a synchronous  *)
(* transaction ("span") suspends the queue from such a block.  Answers     *)
(* reach the JS thread in order, through the main queue.  SQLite is        *)
(* external: one transaction at a time, a statement outside one commits by *)
(* itself, any statement may fail.                                         *)
(*                                                                         *)
(* An operator commented "Fault:" is a wrong variant of the definition     *)
(* after it; the specification does not use it.                            *)
(***************************************************************************)
EXTENDS Naturals, Sequences, FiniteSets

CONSTANTS
  Txs,            \* the calls of transaction()
  CommitMayFail,  \* whether SQLite may refuse a COMMIT
  MayOutlive,     \* whether transaction objects are used after their callback
  MaxStmts,       \* bound: statements issued outside spans
  MaxSpans        \* bound: calls of beginTransactionSync

\* Who a statement belongs to or who began a transaction, as in
\* AndroidTransactions.
CONSTANTS Span, Plain, Sync, Alone, None

ASSUME TransactionsAssumption ==
  /\ IsFiniteSet(Txs) /\ MaxStmts \in Nat /\ MaxSpans \in Nat
  /\ CommitMayFail \in BOOLEAN /\ MayOutlive \in BOOLEAN
  /\ Span \notin {Plain, Sync, Alone, None} /\ Plain \notin {Sync, Alone, None}
  /\ Sync \notin {Alone, None} /\ Alone # None
  /\ Txs \cap {Span, Plain, Sync, Alone, None} = {}

VARIABLES
  queue,      \* _writerQueue: its blocks, the running one first
  block,      \* how far that block is: "start", "release", "flush"
  worked,     \* whether its SQL succeeded
  suspended,  \* _writerQueueSuspended
  gate,       \* _hasActiveWriteTx
  active,     \* _activeWriteTxId
  waiting,    \* _pendingTxStarts
  answers,    \* the main queue: what JS has not heard yet
  open,       \* SQLite: whether the writer is open
  owner,      \* SQLite: who began the open transaction, None in autocommit
  unit,       \* SQLite: whose statements the open transaction holds
  log,        \* the committed units (history)
  undone,     \* whether a transaction() lost its transaction: a COMMIT failed, or
              \* the failed BEGIN of a span rolled it back (history)
  js,         \* the JS thread
  isOpen,     \* _isOpen
  pc,         \* where each transaction() is
  stmts,      \* statements issued so far (bound)
  spans       \* spans begun so far (bound)

queueVars == <<queue, block, worked, suspended>>
gateVars  == <<gate, active, waiting>>
dbVars    == <<open, owner, unit, log, undone>>
jsVars    == <<js, isOpen, pc, stmts, spans>>
vars      == <<queueVars, gateVars, answers, dbVars, jsVars>>

Who     == Txs \cup {Span, Plain, Sync}
TxOps   == {"begin", "exec", "await", "commit", "rollback"}
Task    == [op : TxOps \cup {"sync"}, by : Txs] \cup [op : {"exec", "close"}, by : {Plain}]
             \cup [op : {"sync"}, by : {Sync}] \cup [op : {"suspend"}, by : {Span}]
Answer  == [op : TxOps, by : Txs, ok : BOOLEAN] \cup [op : {"exec", "close"}, by : {Plain}, ok : BOOLEAN]
PC      == {"idle", "begin", "body", "stmt", "commit", "rollback", "done", "failed", "refused"}
JsState == {"free", "execSync", "beginSync", "blocked", "span"}

Init ==
  /\ queue = <<>> /\ block = "start" /\ worked = FALSE /\ suspended = FALSE
  /\ gate = FALSE /\ active = None /\ waiting = <<>> /\ answers = <<>>
  /\ open = TRUE /\ owner = None /\ unit = {} /\ log = {} /\ undone = FALSE
  /\ js = "free" /\ isOpen = TRUE
  /\ pc = [t \in Txs |-> "idle"] /\ stmts = 0 /\ spans = 0

-----------------------------------------------------------------------------
(* SQLite.                                                                 *)

\* A statement of w that succeeds.
Ran(w) ==
  /\ open
  /\ IF owner # None
       THEN unit' = unit \cup {w} /\ UNCHANGED log
       ELSE log' = log \cup {[by |-> Alone, stmts |-> {w}]} /\ UNCHANGED unit

Failed == UNCHANGED <<unit, log>>

Committed == log' = log \cup {[by |-> owner, stmts |-> unit]} /\ owner' = None /\ unit' = {}

RolledBack == owner' = None /\ unit' = {} /\ UNCHANGED log

-----------------------------------------------------------------------------
(* The writer's queue.                                                     *)

\* Fault: the suspension does not hold the queue.
Running_Always == queue # <<>>

Running == queue # <<>> /\ ~suspended

Works(op) == Running /\ block = "start" /\ Head(queue).op = op

Me == Head(queue).by

Reply(ok) == answers' = Append(answers, [op |-> Head(queue).op, by |-> Me, ok |-> ok])

Done == queue' = Tail(queue) /\ UNCHANGED <<block, worked, suspended>>

\* The SQL of a block that will open the gate has run.
ThenReleases(ok) == block' = "release" /\ worked' = ok /\ UNCHANGED <<queue, suspended>>

\* The BEGIN of _startTransaction.
WorkBegin ==
  /\ Works("begin")
  /\ IF open /\ owner = None
       THEN owner' = Me /\ Reply(TRUE) /\ Done
       ELSE ThenReleases(FALSE) /\ UNCHANGED <<owner, answers>>
  /\ UNCHANGED <<gateVars, open, unit, log, undone, jsVars>>

\* A statement, in a transaction or not: the id was checked when it was made.
WorkExec ==
  /\ Works("exec") \/ Works("await")
  /\ \/ Ran(Me) /\ Reply(TRUE)
     \/ Failed /\ Reply(FALSE)
  /\ Done
  /\ UNCHANGED <<gateVars, open, owner, undone, jsVars>>

\* COMMIT ends whatever is open; one that fails rolls back.
WorkCommit ==
  /\ Works("commit")
  /\ \/ owner # None /\ Committed /\ ThenReleases(TRUE) /\ UNCHANGED undone
     \/ (owner = None \/ CommitMayFail) /\ RolledBack /\ ThenReleases(FALSE) /\ undone' = TRUE
  /\ UNCHANGED <<gateVars, answers, open, jsVars>>

WorkRollback ==
  /\ Works("rollback")
  /\ RolledBack /\ ThenReleases(owner # None)
  /\ UNCHANGED <<gateVars, answers, open, undone, jsVars>>

\* _activeWriteTxId is forgotten by its own transaction, or by a BEGIN that failed.
ActiveAfter == IF Head(queue).op = "begin" \/ active = Me THEN None ELSE active

\* Under _txMutex; then the answer is sent.
Release ==
  /\ Running /\ block = "release"
  /\ gate' = FALSE /\ active' = ActiveAfter
  /\ Reply(worked)
  /\ block' = "flush"
  /\ UNCHANGED <<queue, worked, suspended, waiting, dbVars, jsVars>>

\* Fault: a ROLLBACK does not flush the list.
MayFlush_NotRollback == waiting # <<>> /\ ~gate /\ Head(queue).op # "rollback"

MayFlush == waiting # <<>> /\ ~gate

\* _flushPendingTransactions, under _txMutex again.
Flush ==
  /\ Running /\ block = "flush"
  /\ block' = "start"
  /\ IF MayFlush
       THEN /\ gate' = TRUE /\ active' = Head(waiting) /\ waiting' = Tail(waiting)
            /\ queue' = Append(Tail(queue), [op |-> "begin", by |-> Head(waiting)])
       ELSE queue' = Tail(queue) /\ UNCHANGED gateVars
  /\ UNCHANGED <<worked, suspended, answers, dbVars, jsVars>>

\* A block the JS thread waits for: executeSync, or executeSync of a transaction.
WorkSync ==
  /\ Works("sync")
  /\ Ran(Me) \/ Failed
  /\ js' = "free"
  /\ Done
  /\ UNCHANGED <<gateVars, answers, open, owner, undone, isOpen, pc, stmts, spans>>

\* A BEGIN that fails ends the span at once, with a ROLLBACK.
SuspendedAfterBegin(began) == began

\* The block that suspends the queue, and the BEGIN of the span that the JS
\* thread runs then, with the queue at rest.
WorkSuspend ==
  /\ Works("suspend")
  /\ queue' = Tail(queue) /\ UNCHANGED <<block, worked>>
  /\ LET began == open /\ owner = None IN
     /\ suspended' = SuspendedAfterBegin(began)
     /\ IF began
          THEN js' = "span" /\ owner' = Span /\ UNCHANGED <<unit, log, undone>>
          ELSE /\ js' = "free" /\ RolledBack
               /\ undone' = IF owner \in Txs THEN TRUE ELSE undone
  /\ UNCHANGED <<gateVars, answers, open, isOpen, pc, stmts, spans>>

\* An open transaction is rolled back, and the connection closed.
WorkClose ==
  /\ Works("close")
  /\ RolledBack /\ open' = FALSE
  /\ Reply(TRUE) /\ Done
  /\ UNCHANGED <<gateVars, undone, jsVars>>

QueueStep ==
  \/ WorkBegin \/ WorkExec \/ WorkCommit \/ WorkRollback \/ Release \/ Flush
  \/ WorkSync \/ WorkSuspend \/ WorkClose

-----------------------------------------------------------------------------
(* transaction() in JS, and the native calls it makes.                     *)

Put(op, w) == queue' = Append(queue, [op |-> op, by |-> w])
Goes(t, state) == pc' = [pc EXCEPT ![t] = state]
JsFree == js \in {"free", "span"}

\* What a native call does before its block runs.
Sends(op, w) == Put(op, w) /\ UNCHANGED <<block, worked, suspended, answers>>
Refuses(op, w) ==
  answers' = Append(answers, [op |-> op, by |-> w, ok |-> FALSE]) /\ UNCHANGED queueVars

\* Fault: beginTransaction does not look at the gate.
GateTaken_Never == FALSE

GateTaken == gate

\* beginTransaction: through the gate, or into the list.
Begin(t) ==
  /\ JsFree /\ pc[t] = "idle"
  /\ Goes(t, "begin")
  /\ IF GateTaken
       THEN waiting' = Append(waiting, t) /\ UNCHANGED <<gate, active, queueVars, answers>>
       ELSE gate' = TRUE /\ active' = t /\ Sends("begin", t) /\ UNCHANGED waiting
  /\ UNCHANGED <<dbVars, js, isOpen, stmts, spans>>

\* executeInTransaction: the id is checked now, the statement runs later.
Executes(op, t) ==
  IF active = t THEN Sends(op, t) ELSE Refuses(op, t)

\* The callback awaits a statement.
Statement(t) ==
  /\ js = "free" /\ pc[t] = "body" /\ stmts < MaxStmts
  /\ Executes("await", t)
  /\ Goes(t, "stmt")
  /\ stmts' = stmts + 1
  /\ UNCHANGED <<gateVars, dbVars, js, isOpen, spans>>

\* Where a transaction object is in the hands of the application.
Reachable(t) ==
  \/ pc[t] \in {"body", "stmt"}
  \/ MayOutlive /\ pc[t] \in {"commit", "rollback", "done", "failed"}

\* A statement nobody awaits.
LooseStatement(t) ==
  /\ JsFree /\ Reachable(t) /\ stmts < MaxStmts
  /\ Executes("exec", t)
  /\ stmts' = stmts + 1
  /\ UNCHANGED <<gateVars, dbVars, js, isOpen, pc, spans>>

\* tx.executeSync(): the JS thread waits for its block; in a span, on a queue it
\* has suspended itself.
SyncStatement(t) ==
  /\ JsFree /\ Reachable(t) /\ active = t /\ stmts < MaxStmts
  /\ Sends("sync", t)
  /\ js' = "blocked"
  /\ stmts' = stmts + 1
  /\ UNCHANGED <<gateVars, dbVars, isOpen, pc, spans>>

\* db.execute(), which joins whatever is open.
PlainStatement ==
  /\ JsFree /\ stmts < MaxStmts
  /\ Sends("exec", Plain)
  /\ stmts' = stmts + 1
  /\ UNCHANGED <<gateVars, dbVars, js, isOpen, pc, spans>>

\* The callback resolves, or throws.
BodyEnds(t) ==
  /\ js = "free" /\ pc[t] = "body"
  /\ \E op \in {"commit", "rollback"} : Sends(op, t) /\ Goes(t, op)
  /\ UNCHANGED <<gateVars, dbVars, js, isOpen, stmts, spans>>

-----------------------------------------------------------------------------
(* Answers resume the async functions, one at a time.                      *)

Hears(op) ==
  /\ js = "free" /\ answers # <<>> /\ Head(answers).op = op
  /\ answers' = Tail(answers)

It == Head(answers).by

\* The rest of what hearing an answer leaves alone.
Heard == UNCHANGED <<block, worked, suspended, gateVars, dbVars, js, isOpen, stmts, spans>>

HearBegin ==
  /\ Hears("begin") /\ Heard
  /\ Goes(It, IF Head(answers).ok THEN "body" ELSE "refused")
  /\ UNCHANGED queue

\* An awaited statement that fails makes the callback throw, or is caught there.
HearStatement ==
  /\ Hears("await") /\ Heard
  /\ \/ Goes(It, "body") /\ UNCHANGED queue
     \/ ~Head(answers).ok /\ Goes(It, "rollback") /\ Put("rollback", It)

Resolves(answer) == answer.ok

\* A failed COMMIT lands in the catch that sends a ROLLBACK.
HearCommit ==
  /\ Hears("commit") /\ Heard
  /\ IF Resolves(Head(answers)) THEN Goes(It, "done") /\ UNCHANGED queue
     ELSE Goes(It, "rollback") /\ Put("rollback", It)

HearRollback ==
  Hears("rollback") /\ Heard /\ Goes(It, "failed") /\ UNCHANGED queue

\* A statement nobody awaits, or close().
HearOther ==
  (Hears("exec") \/ Hears("close")) /\ Heard /\ UNCHANGED <<queue, pc>>

HearStep == HearBegin \/ HearStatement \/ HearCommit \/ HearRollback \/ HearOther

-----------------------------------------------------------------------------
(* The synchronous calls and close().                                      *)

\* executeSync without joinTransaction looks at the gate ...
ExecuteSync ==
  /\ js = "free" /\ ~gate /\ stmts < MaxStmts
  /\ js' = "execSync"
  /\ stmts' = stmts + 1
  /\ UNCHANGED <<queueVars, gateVars, answers, dbVars, isOpen, pc, spans>>

\* ... and sends its block, by then perhaps behind a BEGIN.
ExecuteSyncSends ==
  /\ js = "execSync"
  /\ Sends("sync", Sync)
  /\ js' = "blocked"
  /\ UNCHANGED <<gateVars, dbVars, isOpen, pc, stmts, spans>>

\* In a span the thread runs the statement itself.
ExecuteSyncInSpan ==
  /\ js = "span" /\ stmts < MaxStmts
  /\ Ran(Sync)
  /\ stmts' = stmts + 1
  /\ UNCHANGED <<queueVars, gateVars, answers, open, owner, undone, js, isOpen, pc, spans>>

\* beginTransactionSync, likewise.
BeginSync ==
  /\ js = "free" /\ ~gate /\ spans < MaxSpans
  /\ js' = "beginSync"
  /\ spans' = spans + 1
  /\ UNCHANGED <<queueVars, gateVars, answers, dbVars, isOpen, pc, stmts>>

BeginSyncSends ==
  /\ js = "beginSync"
  /\ Sends("suspend", Span)
  /\ js' = "blocked"
  /\ UNCHANGED <<gateVars, dbVars, isOpen, pc, stmts, spans>>

SpanStatement ==
  /\ js = "span"
  /\ Ran(Span)
  /\ UNCHANGED <<queueVars, gateVars, answers, open, owner, undone, jsVars>>

\* endTransactionSync: the SQL first, then the queue is resumed.
EndSpan ==
  /\ js = "span"
  /\ Committed \/ RolledBack
  /\ js' = "free" /\ suspended' = FALSE
  /\ UNCHANGED <<queue, block, worked, gateVars, answers, open, undone, isOpen, pc, stmts, spans>>

\* What close() tells those in the list.
Rejections == [i \in DOMAIN waiting |-> [op |-> "begin", by |-> waiting[i], ok |-> FALSE]]

\* Fault: close() forgets the transactions that wait.
ToldAtClose_Nobody == answers

ToldAtClose == answers \o Rejections

\* closeWithCompletion: ends the span, rejects those who wait, opens the gate, and
\* queues the close of the writer.
Close ==
  /\ JsFree /\ isOpen
  /\ isOpen' = FALSE
  /\ IF js = "span" THEN RolledBack ELSE UNCHANGED <<owner, unit, log>>
  /\ js' = "free" /\ suspended' = FALSE
  /\ answers' = ToldAtClose /\ waiting' = <<>>
  /\ gate' = FALSE /\ active' = None
  /\ Put("close", Plain)
  /\ UNCHANGED <<block, worked, open, undone, pc, stmts, spans>>

JsStep ==
  \/ \E t \in Txs :
       Begin(t) \/ Statement(t) \/ LooseStatement(t) \/ SyncStatement(t) \/ BodyEnds(t)
  \/ PlainStatement \/ ExecuteSync \/ ExecuteSyncInSpan \/ BeginSync \/ SpanStatement \/ Close

Next ==
  \/ QueueStep \/ HearStep \/ JsStep
  \/ ExecuteSyncSends \/ BeginSyncSends \/ EndSpan

Spec == Init /\ [][Next]_vars

\* The queue and the main queue are served, the JS thread runs, and the callbacks
\* of transaction() and of transactionSync() end.
Fairness ==
  /\ WF_vars(QueueStep) /\ SF_vars(HearStep)
  /\ WF_vars(ExecuteSyncSends) /\ WF_vars(BeginSyncSends) /\ WF_vars(EndSpan)
  /\ \A t \in Txs : SF_vars(BodyEnds(t))

FairSpec == Spec /\ Fairness

-----------------------------------------------------------------------------
(* Properties.                                                             *)

\* Every variable holds a value of its type.
TypeOK ==
  /\ queue \in Seq(Task) /\ block \in {"start", "release", "flush"}
  /\ worked \in BOOLEAN /\ suspended \in BOOLEAN /\ gate \in BOOLEAN
  /\ active \in Txs \cup {None} /\ waiting \in Seq(Txs)
  /\ answers \in Seq(Answer) /\ open \in BOOLEAN
  /\ owner \in Txs \cup {Span, None} /\ unit \subseteq Who
  /\ log \subseteq [by : Txs \cup {Span, Alone}, stmts : SUBSET Who] /\ undone \in BOOLEAN
  /\ js \in JsState /\ isOpen \in BOOLEAN /\ pc \in [Txs -> PC]
  /\ stmts \in 0..MaxStmts /\ spans \in 0..MaxSpans

Units == log \cup {[by |-> owner, stmts |-> unit]}

\* The queue is suspended exactly while a span is open, and its transaction with
\* it: resumed any earlier, queued work would run inside a transaction nobody
\* commits; any later, never (NSSQLiteDatabase.mm:1757).
SuspendedForSpan == suspended = (owner = Span)

\* transactionSync() is airtight: nothing but its callback's synchronous
\* statements is in its transaction, and they are in no other (README.md:507).
SpanIsAirtight ==
  \A u \in Units :
    /\ u.by = Span => u.stmts \subseteq {Span, Sync}
    /\ Span \in u.stmts => u.by = Span

\* transaction() tells the truth about its outcome.
OutcomeIsHonest ==
  \A t \in Txs :
    /\ pc[t] = "done" => \E u \in log : u.by = t
    /\ pc[t] \in {"failed", "refused"} => \A u \in log : u.by # t

\* "Concurrent calls to transaction() are safe and will wait their turn
\* automatically" (README.md:426): only a closed database turns one away, or
\* what follows when a transaction() has lost its transaction, because the
\* ROLLBACK it then sends opens the gate whoever holds it.
WaitsItsTurn == \A t \in Txs : pc[t] = "refused" => ~isOpen \/ undone

\* A transaction that waits has somebody to start it: whoever holds the gate, or
\* the block that is about to flush the list.
WaitersAreServed == waiting # <<>> => gate \/ block = "flush"

\* A statement made through a transaction object runs in that transaction or not
\* at all (README.md:360).
StatementsStayHome ==
  \A u \in Units, t \in Txs : t \in u.stmts => u.by = t

\* executeSync() never joins a transaction() silently (common.ts:398-404).
SafeguardHolds ==
  \A u \in Units : Sync \in u.stmts => u.by \in {Alone, Span}

\* Every transaction() settles.
EveryTransactionSettles ==
  \A t \in Txs : pc[t] = "begin" ~> pc[t] \in {"done", "failed", "refused"}

\* A blocking call returns: the block it waits for is reached.
SyncCallsReturn == js \in {"execSync", "beginSync", "blocked"} ~> js \in {"free", "span"}
=============================================================================
