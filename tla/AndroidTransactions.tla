------------------------- MODULE AndroidTransactions -------------------------
(***************************************************************************)
(* Transactions on Android: transaction() and transactionSync() of         *)
(* index.android.ts over the writer connection's registry                  *)
(* (native/src/common/sqlite_connection.cpp) and the entry points of       *)
(* native/src/bindings/database_binding.cpp.                               *)
(*                                                                         *)
(* One JS thread, whose async functions interleave at every await, and the *)
(* writer's worker, a FIFO (ThreadPool) whose answers come back in order   *)
(* (AndroidDatabase).  A synchronous call blocks the JS thread until the   *)
(* queue has run and then runs in the worker's place; transactionSync()    *)
(* keeps that claim until its callback has returned.  SQLite is external:  *)
(* one transaction at a time per connection, a statement outside one       *)
(* commits by itself, and COMMIT or a statement may fail.                  *)
(*                                                                         *)
(* An operator commented "Fault:" is a wrong variant of the definition     *)
(* after it; the specification does not use it.                            *)
(***************************************************************************)
EXTENDS Naturals, Sequences, FiniteSets

CONSTANTS
  Txs,       \* the calls of transaction() (or readTransaction())
  MaxStmts,  \* bound: statements issued outside synchronous transactions
  MaxSpans   \* bound: calls of beginTransactionSync()

\* Who a statement belongs to, or who began a transaction: a call of
\* transaction(), a synchronous transaction ("span"), a plain execute() ("plain"),
\* an executeSync() that does not join ("sync").  "alone" owns what commits by
\* itself, "none" what is not there.
CONSTANTS Span, Plain, Sync, Alone, None

ASSUME TransactionsAssumption ==
  /\ IsFiniteSet(Txs) /\ MaxStmts \in Nat /\ MaxSpans \in Nat
  /\ Span \notin {Plain, Sync, Alone, None} /\ Plain \notin {Sync, Alone, None}
  /\ Sync \notin {Alone, None} /\ Alone # None
  /\ Txs \cap {Span, Plain, Sync, Alone, None} = {}

VARIABLES
  queue,      \* the writer's tasks
  answers,    \* the completions JS has not seen
  registry,   \* txRegistry_: the ids it knows
  asyncCount, \* asyncTxCount_
  owner,      \* SQLite: who began the open transaction, None in autocommit
  unit,       \* SQLite: whose statements the open transaction holds
  log,        \* the committed units: who committed, whose statements (history)
  js,         \* the JS thread: "free", in a blocking call, or in a span
  handle,     \* the native handle: "open", "closing", "closed"
  pc,         \* where each transaction() is
  stmts,      \* statements issued so far (bound)
  spans       \* spans begun so far (bound)

dbVars == <<registry, asyncCount, owner, unit, log>>
jsVars == <<js, handle, pc, stmts, spans>>
vars   == <<queue, answers, dbVars, jsVars>>

Who     == Txs \cup {Span, Plain, Sync}
TxOps   == {"begin", "exec", "await", "commit", "rollback"}
Task    == [op : TxOps, by : Txs] \cup [op : {"exec", "close"}, by : {Plain}]
Answer  == [op : TxOps, by : Txs, ok : BOOLEAN] \cup [op : {"exec", "close"}, by : {Plain}, ok : BOOLEAN]
PC      == {"idle", "begin", "body", "stmt", "commit", "rollback", "done", "failed", "refused"}
JsState == {"free", "execSync", "beginSync", "span"}

Init ==
  /\ queue = <<>> /\ answers = <<>>
  /\ registry = {} /\ asyncCount = 0
  /\ owner = None /\ unit = {} /\ log = {}
  /\ js = "free" /\ handle = "open"
  /\ pc = [t \in Txs |-> "idle"]
  /\ stmts = 0 /\ spans = 0

-----------------------------------------------------------------------------
(* SQLite and the registry of the writer connection.                       *)

\* A statement of w that succeeds: part of the open transaction, or committed
\* on the spot.
Ran(w) ==
  IF owner # None
    THEN unit' = unit \cup {w} /\ UNCHANGED log
    ELSE log' = log \cup {[by |-> Alone, stmts |-> {w}]} /\ UNCHANGED unit

\* Fault: the ids of transactions are not checked.
Known_Any(w) == TRUE

\* txRegistry_.contains()
Known(w) == w \in registry

\* Fault: a failed COMMIT forgets the id and leaves the transaction open.
CommitFailed_LeftOpen(w) ==
  registry' = registry \ {w} /\ UNCHANGED <<owner, unit, log>>

\* A failed COMMIT rolls back, and forgets the id all the same.
CommitFailed(w) ==
  registry' = registry \ {w} /\ owner' = None /\ unit' = {} /\ UNCHANGED log

Committed(w) ==
  /\ log' = log \cup {[by |-> owner, stmts |-> unit]}
  /\ registry' = registry \ {w} /\ owner' = None /\ unit' = {}

RolledBack(w) ==
  /\ registry' = registry \ {w} /\ owner' = None /\ unit' = {}
  /\ UNCHANGED log

\* forgetTransaction(): a span was never counted.
CountAfterEnd(w) == IF w = Span THEN asyncCount ELSE asyncCount - 1

-----------------------------------------------------------------------------
(* The writer's worker.  It runs nothing while the JS thread holds the     *)
(* claim.                                                                  *)

\* Fault: the worker does not honour the claim of a span.
MayWork_Always == queue # <<>>

\* Fault: a thread that waits for the claim already keeps the worker away.
MayWork_WhileFree == queue # <<>> /\ js = "free"

\* The worker runs unless the JS thread holds its claim.
MayWork == queue # <<>> /\ js # "span"

Works(op) == MayWork /\ Head(queue).op = op

Answers(ok) ==
  /\ queue' = Tail(queue)
  /\ answers' = Append(answers, [op |-> Head(queue).op, by |-> Head(queue).by, ok |-> ok])

Me == Head(queue).by

\* beginTransaction(): SQLite refuses a BEGIN inside a transaction.
WorkBegin ==
  /\ Works("begin")
  /\ IF owner = None
       THEN /\ owner' = Me /\ registry' = registry \cup {Me}
            /\ asyncCount' = asyncCount + 1
            /\ Answers(TRUE)
       ELSE Answers(FALSE) /\ UNCHANGED <<owner, registry, asyncCount>>
  /\ UNCHANGED <<unit, log, jsVars>>

\* executeInTransaction(), and execute() for a plain statement.
WorkExec ==
  /\ Works("exec") \/ Works("await")
  /\ \/ (Me \in Txs => Known(Me)) /\ Ran(Me) /\ Answers(TRUE)
     \/ Answers(FALSE) /\ UNCHANGED <<unit, log>>
  /\ UNCHANGED <<registry, asyncCount, owner, jsVars>>

\* commitTransaction()
WorkCommit ==
  /\ Works("commit") /\ Known(Me)
  /\ \/ Committed(Me) /\ Answers(TRUE)
     \/ CommitFailed(Me) /\ Answers(FALSE)
  /\ asyncCount' = CountAfterEnd(Me)
  /\ UNCHANGED jsVars

\* rollbackTransaction()
WorkRollback ==
  /\ Works("rollback") /\ Known(Me)
  /\ RolledBack(Me) /\ Answers(TRUE)
  /\ asyncCount' = CountAfterEnd(Me)
  /\ UNCHANGED jsVars

\* Either of them with an id that is not registered.
WorkUnknown ==
  /\ Works("commit") \/ Works("rollback")
  /\ ~Known(Me)
  /\ Answers(FALSE)
  /\ UNCHANGED <<dbVars, jsVars>>

\* SQLiteConnection::close(): an open transaction dies with its connection.
WorkClose ==
  /\ Works("close")
  /\ registry' = {} /\ asyncCount' = 0 /\ owner' = None /\ unit' = {}
  /\ Answers(TRUE)
  /\ UNCHANGED <<log, jsVars>>

WorkerStep ==
  WorkBegin \/ WorkExec \/ WorkCommit \/ WorkRollback \/ WorkUnknown \/ WorkClose

-----------------------------------------------------------------------------
(* transaction() in JS.                                                    *)

Put(op, w) == queue' = Append(queue, [op |-> op, by |-> w])
Goes(t, state) == pc' = [pc EXCEPT ![t] = state]

\* JS code runs between answers, and inside the callback of a span.
JsFree == js \in {"free", "span"}

\* transaction() is called.
Begin(t) ==
  /\ JsFree /\ handle = "open" /\ pc[t] = "idle"
  /\ Put("begin", t)
  /\ Goes(t, "begin")
  /\ UNCHANGED <<answers, dbVars, js, handle, stmts, spans>>

\* The callback awaits a statement.
Statement(t) ==
  /\ js = "free" /\ handle = "open" /\ pc[t] = "body" /\ stmts < MaxStmts
  /\ Put("await", t)
  /\ Goes(t, "stmt")
  /\ stmts' = stmts + 1
  /\ UNCHANGED <<answers, dbVars, js, handle, spans>>

\* A statement nobody awaits, possibly after the transaction has ended: the
\* object outlives the callback.
LooseStatement(t) ==
  /\ JsFree /\ handle = "open" /\ stmts < MaxStmts
  /\ pc[t] \in {"body", "stmt", "commit", "rollback", "done", "failed"}
  /\ Put("exec", t)
  /\ stmts' = stmts + 1
  /\ UNCHANGED <<answers, dbVars, js, handle, pc, spans>>

\* tx.executeSync(): the JS thread waits for the queue and runs it.  The id is
\* looked up under the claim, so the call can be taken to be made then.  (Inside
\* a span no other id is registered, and nothing runs.)
SyncStatement(t) ==
  /\ js = "free" /\ handle = "open" /\ stmts < MaxStmts
  /\ pc[t] \in {"body", "stmt", "commit", "rollback", "done", "failed"}
  /\ queue = <<>>
  /\ Known(t) /\ Ran(t)
  /\ stmts' = stmts + 1
  /\ UNCHANGED <<queue, answers, registry, asyncCount, owner, js, handle, pc, spans>>

\* db.execute(), which joins whatever is open.
PlainStatement ==
  /\ JsFree /\ handle = "open" /\ stmts < MaxStmts
  /\ Put("exec", Plain)
  /\ stmts' = stmts + 1
  /\ UNCHANGED <<answers, dbVars, js, handle, pc, spans>>

\* Ends the callback of t: what it sends next, unless the handle is gone.
Sends(t, op) ==
  IF handle = "open" THEN Put(op, t) /\ Goes(t, op)
  ELSE UNCHANGED queue /\ Goes(t, "failed")

\* The callback resolves, or throws.
BodyEnds(t) ==
  /\ js = "free" /\ pc[t] = "body"
  /\ Sends(t, "commit") \/ Sends(t, "rollback")
  /\ UNCHANGED <<answers, dbVars, js, handle, stmts, spans>>

-----------------------------------------------------------------------------
(* Answers resume the async functions, one at a time.                      *)

Hears(op) == js = "free" /\ answers # <<>> /\ Head(answers).op = op

It     == Head(answers).by
Heard  == answers' = Tail(answers)

HearBegin ==
  /\ Hears("begin") /\ Heard
  /\ Goes(It, IF Head(answers).ok THEN "body" ELSE "refused")
  /\ UNCHANGED <<queue, dbVars, js, handle, stmts, spans>>

\* An awaited statement that fails makes the callback throw, or is caught there.
HearStatement ==
  /\ Hears("await") /\ Heard
  /\ \/ Goes(It, "body") /\ UNCHANGED queue
     \/ ~Head(answers).ok /\ Sends(It, "rollback")
  /\ UNCHANGED <<dbVars, js, handle, stmts, spans>>

HearLoose ==
  /\ Hears("exec") /\ Heard
  /\ UNCHANGED <<queue, dbVars, jsVars>>

\* Fault: transaction() resolves whatever became of its COMMIT.
Resolves_Regardless(answer) == TRUE

\* Whether the COMMIT went through.
Resolves(answer) == answer.ok

\* A COMMIT that failed is followed by _rollbackQuietly().
HearCommit ==
  /\ Hears("commit") /\ Heard
  /\ IF Resolves(Head(answers)) THEN Goes(It, "done") /\ UNCHANGED queue ELSE Sends(It, "rollback")
  /\ UNCHANGED <<dbVars, js, handle, stmts, spans>>

HearRollback ==
  /\ Hears("rollback") /\ Heard
  /\ Goes(It, "failed")
  /\ UNCHANGED <<queue, dbVars, js, handle, stmts, spans>>

HearClose ==
  /\ Hears("close") /\ Heard
  /\ handle' = "closed"
  /\ UNCHANGED <<queue, dbVars, js, pc, stmts, spans>>

-----------------------------------------------------------------------------
(* The synchronous calls.                                                  *)

\* executeSync() without joinTransaction: the JS thread blocks for the writer.
ExecuteSync ==
  /\ js = "free" /\ handle = "open" /\ stmts < MaxStmts
  /\ js' = "execSync"
  /\ stmts' = stmts + 1
  /\ UNCHANGED <<queue, answers, dbVars, handle, pc, spans>>

\* Fault: the safeguard is not there.
Blocked_Never == FALSE

\* hasActiveAsyncTransaction(), read under the claim.
Blocked == asyncCount > 0

ExecuteSyncRuns ==
  /\ js = "execSync" /\ queue = <<>>
  /\ IF Blocked THEN UNCHANGED <<unit, log>>
     ELSE Ran(Sync) \/ UNCHANGED <<unit, log>>
  /\ js' = "free"
  /\ UNCHANGED <<queue, answers, registry, asyncCount, owner, handle, pc, stmts, spans>>

\* The same inside a span: the claim is re-entrant.
ExecuteSyncInSpan ==
  /\ js = "span" /\ handle = "open" /\ stmts < MaxStmts
  /\ ~Blocked /\ Ran(Sync)
  /\ stmts' = stmts + 1
  /\ UNCHANGED <<queue, answers, registry, asyncCount, owner, js, handle, pc, spans>>

\* beginTransactionSync(): a first look at the count, then the claim.
BeginSync ==
  /\ js = "free" /\ handle = "open" /\ spans < MaxSpans
  /\ ~Blocked
  /\ js' = "beginSync"
  /\ spans' = spans + 1
  /\ UNCHANGED <<queue, answers, dbVars, handle, pc, stmts>>

\* The second look at the count, and the BEGIN of the span, under the claim.
SpanRefused == Blocked \/ owner # None

BeginSyncRuns ==
  /\ js = "beginSync" /\ queue = <<>>
  /\ IF SpanRefused
       THEN js' = "free" /\ UNCHANGED <<registry, owner>>
       ELSE /\ js' = "span"
            /\ owner' = Span /\ registry' = registry \cup {Span}
  /\ UNCHANGED <<queue, answers, asyncCount, unit, log, handle, pc, stmts, spans>>

SpanStatement ==
  /\ js = "span" /\ handle = "open"
  /\ Known(Span) /\ Ran(Span)
  /\ UNCHANGED <<queue, answers, registry, asyncCount, owner, jsVars>>

\* endTransactionSync(): the transaction first, then the claim; COMMIT may fail.
EndSpan ==
  /\ js = "span"
  /\ Committed(Span) \/ CommitFailed(Span) \/ RolledBack(Span)
  /\ asyncCount' = CountAfterEnd(Span)
  /\ js' = "free"
  /\ UNCHANGED <<queue, answers, handle, pc, stmts, spans>>

\* close(): Teardown() ends an open span, which leaves its callback without a
\* handle, and queues the close of the writer.
Close ==
  /\ JsFree /\ handle = "open"
  /\ handle' = "closing"
  /\ Put("close", Plain)
  /\ IF js = "span"
       THEN RolledBack(Span) /\ asyncCount' = CountAfterEnd(Span)
       ELSE UNCHANGED dbVars
  /\ js' = "free"
  /\ UNCHANGED <<answers, pc, stmts, spans>>

JsStep ==
  \/ \E t \in Txs :
       Begin(t) \/ Statement(t) \/ LooseStatement(t) \/ SyncStatement(t) \/ BodyEnds(t)
  \/ PlainStatement
  \/ ExecuteSync \/ ExecuteSyncInSpan \/ BeginSync \/ SpanStatement \/ Close

HearStep ==
  \/ HearBegin \/ HearStatement \/ HearLoose \/ HearCommit \/ HearRollback \/ HearClose

Next ==
  \/ WorkerStep \/ HearStep \/ JsStep
  \/ ExecuteSyncRuns \/ BeginSyncRuns \/ EndSpan

Spec == Init /\ [][Next]_vars

\* The worker and the JS thread run, and the callbacks of transaction() and of
\* transactionSync() end.
Fairness ==
  /\ WF_vars(WorkerStep) /\ SF_vars(HearStep)
  /\ WF_vars(ExecuteSyncRuns) /\ WF_vars(BeginSyncRuns) /\ WF_vars(EndSpan)
  /\ \A t \in Txs : SF_vars(BodyEnds(t))

FairSpec == Spec /\ Fairness

-----------------------------------------------------------------------------
(* Properties.                                                             *)

\* Every variable holds a value of its type.
TypeOK ==
  /\ queue \in Seq(Task) /\ answers \in Seq(Answer)
  /\ registry \subseteq Txs \cup {Span} /\ asyncCount \in Nat
  /\ owner \in Txs \cup {Span, None} /\ unit \subseteq Who
  /\ log \subseteq [by : Txs \cup {Span, Alone}, stmts : SUBSET Who]
  /\ js \in JsState /\ handle \in {"open", "closing", "closed"}
  /\ pc \in [Txs -> PC]
  /\ stmts \in 0..MaxStmts /\ spans \in 0..MaxSpans

\* The registry and the count the safeguard reads describe the connection: an
\* id is known exactly while the transaction it began is open.  A transaction
\* left open without an id would take in every later statement
\* (sqlite_connection.cpp:536-537).
RegistryMatchesEngine ==
  /\ registry = IF owner = None THEN {} ELSE {owner}
  /\ asyncCount = Cardinality(registry \ {Span})
  /\ owner = None => unit = {}

\* What was committed together, and what is open now.
Units == log \cup {[by |-> owner, stmts |-> unit]}

\* A statement made through a transaction object runs in that transaction or
\* not at all, also when nobody awaits it or the object is used after the end
\* (README.md:360).
StatementsStayHome ==
  \A u \in Units, t \in Txs : t \in u.stmts => u.by = t

\* executeSync() never joins a transaction() silently, even one whose BEGIN was
\* still queued when the call was made (common.ts:398-404).
SafeguardHolds ==
  \A u \in Units : Sync \in u.stmts => u.by \in {Alone, Span}

\* transactionSync() is airtight: nothing but its own callback's synchronous
\* statements is in its transaction, and they are in no other (README.md:507).
SpanIsAirtight ==
  \A u \in Units :
    /\ u.by = Span => u.stmts \subseteq {Span, Sync}
    /\ Span \in u.stmts => u.by = Span

\* transaction() tells the truth about its outcome: when it resolves its
\* transaction was committed, and when it rejects nothing of it was.
OutcomeIsHonest ==
  \A t \in Txs :
    /\ pc[t] = "done" => \E u \in log : u.by = t
    /\ pc[t] \in {"failed", "refused"} => \A u \in log : u.by # t

\* "Concurrent transactions are safe - the second transaction waits for the
\* first to finish before starting" (README.md:443): no transaction() is turned
\* away because another one is open.
WaitsItsTurn == \A t \in Txs : pc[t] # "refused"

\* Every transaction() settles.
EveryTransactionSettles ==
  \A t \in Txs : pc[t] = "begin" ~> pc[t] \in {"done", "failed", "refused"}

\* A blocking call gets its turn: no synchronous call waits for work that waits
\* for the JS thread.
SyncCallsReturn == js \in {"execSync", "beginSync"} ~> js \in {"free", "span"}
=============================================================================
