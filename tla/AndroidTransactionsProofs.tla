---------------------- MODULE AndroidTransactionsProofs ----------------------
(***************************************************************************)
(* What holds of the writer's transactions on Android for any number of    *)
(* transaction() calls, statements and spans.                              *)
(*                                                                         *)
(* The safety properties rest on each other: a COMMIT ends the transaction *)
(* whose id it carries because the registry knows the open one and no      *)
(* other; the safeguard is right because the count is that of the          *)
(* registry; a span is exclusive because it is open exactly while the JS   *)
(* thread holds the worker.  TxInv is their conjunction, made inductive.   *)
(***************************************************************************)
EXTENDS AndroidTransactions, FiniteSetTheorems, TLAPS

\* RegistryMatchesEngine without cardinalities.
Matches ==
  /\ registry = IF owner = None THEN {} ELSE {owner}
  /\ asyncCount = IF owner \in Txs THEN 1 ELSE 0
  /\ owner = None => unit = {}

\* A span is open exactly while the JS thread is in it.
SpanHeld == owner = Span <=> js = "span"

\* What StatementsStayHome, SpanIsAirtight and SafeguardHolds say of one unit.
Pure(u) ==
  /\ \A t \in Txs : t \in u.stmts => u.by = t
  /\ u.by = Span => u.stmts \subseteq {Span, Sync}
  /\ Span \in u.stmts => u.by = Span
  /\ Sync \in u.stmts => u.by \in {Alone, Span}

AllPure == \A u \in Units : Pure(u)

TxInv == TypeOK /\ Matches /\ SpanHeld /\ AllPure

\* The connection's part of the invariant: all that the worker and the
\* synchronous calls can disturb beside the queues.
DbType ==
  /\ registry \subseteq Txs \cup {Span} /\ asyncCount \in Nat
  /\ owner \in Txs \cup {Span, None} /\ unit \subseteq Who
  /\ log \subseteq [by : Txs \cup {Span, Alone}, stmts : SUBSET Who]

DbInv == DbType /\ Matches /\ SpanHeld /\ AllPure

\* The rest of TypeOK.
JsType ==
  /\ js \in JsState /\ handle \in {"open", "closing", "closed"}
  /\ pc \in [Txs -> PC]
  /\ stmts \in 0..MaxStmts /\ spans \in 0..MaxSpans

QueueType == queue \in Seq(Task) /\ answers \in Seq(Answer)

LEMMA Parts == TxInv <=> DbInv /\ JsType /\ QueueType
BY DEF TxInv, DbInv, JsType, QueueType, TypeOK, DbType

LEMMA PartsNext == DbInv' /\ JsType' /\ QueueType' => TxInv'
BY DEF TxInv, DbInv, JsType, QueueType, TypeOK, DbType

\* The count is the cardinality the safeguard's property speaks of.
LEMMA MatchesMeans == DbType => (Matches <=> RegistryMatchesEngine)
<1> SUFFICES ASSUME DbType
    PROVE  Matches <=> RegistryMatchesEngine
  OBVIOUS
<1> USE TransactionsAssumption DEF DbType
<1>1. SUFFICES ASSUME registry = IF owner = None THEN {} ELSE {owner}
      PROVE  Cardinality(registry \ {Span}) = IF owner \in Txs THEN 1 ELSE 0
  BY <1>1 DEF Matches, RegistryMatchesEngine
<1>2. CASE owner \in Txs
  <2>1. registry \ {Span} = {owner}  BY <1>1, <1>2
  <2> QED  BY <1>2, <2>1, FS_Singleton
<1>3. CASE owner \notin Txs
  <2>1. registry \ {Span} = {}  BY <1>1, <1>3
  <2> QED  BY <1>3, <2>1, FS_EmptySet
<1> QED  BY <1>2, <1>3

\* The open unit and the committed ones.
LEMMA UnitsPure ==
  AllPure <=> Pure([by |-> owner, stmts |-> unit]) /\ \A u \in log : Pure(u)
BY DEF AllPure, Units

-----------------------------------------------------------------------------
(* The steps of the connection.                                            *)

\* Who may run a statement: its own transaction, or what joins or stands alone.
Welcome(w) ==
  /\ w \in Who
  /\ w \in Txs => owner = w
  /\ w = Span => owner = Span
  /\ w = Sync => owner \notin Txs
  /\ w = Plain => owner # Span

\* A statement that is welcome keeps every unit pure.
LEMMA RanInv ==
  ASSUME DbInv, NEW w, Welcome(w), Ran(w), UNCHANGED <<registry, asyncCount, owner, js>>
  PROVE  DbInv'
<1> USE TransactionsAssumption DEF DbInv, DbType, Who
<1>1. SpanHeld'  BY DEF SpanHeld
<1>2. CASE owner # None
  <2>1. unit' = unit \cup {w} /\ log' = log  BY <1>2 DEF Ran
  <2>2. DbType'  BY <2>1 DEF Welcome
  <2>3. Matches'  BY <1>2, <2>1 DEF Matches
  <2>4. Pure([by |-> owner, stmts |-> unit])  BY UnitsPure
  <2>5. Pure([by |-> owner, stmts |-> unit \cup {w}])
    BY <1>2, <2>4 DEF Pure, Welcome
  <2>6. AllPure'  BY <2>1, <2>5, UnitsPure DEF AllPure, Units
  <2> QED  BY <1>1, <2>2, <2>3, <2>6
<1>3. CASE owner = None
  <2> DEFINE alone == [by |-> Alone, stmts |-> {w}]
  <2>1. log' = log \cup {alone} /\ unit' = unit  BY <1>3 DEF Ran
  <2>2. alone \in [by : Txs \cup {Span, Alone}, stmts : SUBSET Who]  BY DEF Welcome
  <2>3. DbType'  BY <2>1, <2>2
  <2>4. Matches'  BY <2>1 DEF Matches
  <2>5. Pure(alone)  BY <1>3 DEF Pure, Welcome
  <2>6. AllPure'  BY <2>1, <2>5 DEF AllPure, Units
  <2> QED  BY <1>1, <2>3, <2>4, <2>6
<1> QED  BY <1>2, <1>3

\* Nothing is open, and nothing is impure about it.
LEMMA NothingOpen == Pure([by |-> None, stmts |-> {}])
BY TransactionsAssumption DEF Pure

\* A transaction that ends by its own id leaves nothing open and nothing known.
LEMMA EndInv ==
  ASSUME DbInv, NEW w \in Txs \cup {Span}, Known(w),
         Committed(w) \/ CommitFailed(w) \/ RolledBack(w),
         asyncCount' = CountAfterEnd(w), js' # "span"
  PROVE  DbInv'
<1> USE TransactionsAssumption DEF DbInv
<1>1. owner = w /\ registry = {w}  BY DEF Matches, Known
<1>2. registry' = {} /\ owner' = None /\ unit' = {}
  BY <1>1 DEF Committed, CommitFailed, RolledBack
<1>3. asyncCount' = 0  BY <1>1 DEF CountAfterEnd, Matches
<1>4. \A u \in log' : u \in log \/ u = [by |-> owner, stmts |-> unit]
  BY DEF Committed, CommitFailed, RolledBack
<1>5. [by |-> owner, stmts |-> unit] \in [by : Txs \cup {Span, Alone}, stmts : SUBSET Who]
  BY <1>1 DEF DbType
<1>6. DbType'
  <2>1. log' \subseteq [by : Txs \cup {Span, Alone}, stmts : SUBSET Who]
    BY <1>4, <1>5 DEF DbType
  <2> QED  BY <1>2, <1>3, <2>1 DEF DbType
<1>7. Matches'  BY <1>2, <1>3 DEF Matches
<1>8. SpanHeld'  BY <1>2 DEF SpanHeld
<1>9. AllPure'
  <2>1. \A u \in log' : Pure(u)  BY <1>4, UnitsPure
  <2> QED  BY <1>2, <2>1, NothingOpen DEF AllPure, Units
<1> QED  BY <1>6, <1>7, <1>8, <1>9

\* A transaction that begins.
LEMMA BeginInv ==
  ASSUME DbInv, NEW w \in Txs \cup {Span}, owner = None,
         owner' = w, registry' = registry \cup {w},
         asyncCount' = (IF w = Span THEN asyncCount ELSE asyncCount + 1),
         UNCHANGED <<unit, log>>, js' = "span" <=> w = Span
  PROVE  DbInv'
<1> USE TransactionsAssumption DEF DbInv
<1>1. registry = {} /\ asyncCount = 0 /\ unit = {}  BY DEF Matches
<1>2. DbType'  BY <1>1 DEF DbType
<1>3. Matches'  BY <1>1 DEF Matches
<1>4. SpanHeld'  BY DEF SpanHeld
<1>5. Pure([by |-> w, stmts |-> {}])  BY DEF Pure
<1>6. AllPure'  BY <1>1, <1>5 DEF AllPure, Units
<1> QED  BY <1>2, <1>3, <1>4, <1>6

\* Steps that leave the connection alone.
LEMMA SameDb ==
  ASSUME DbInv, UNCHANGED dbVars, js = "span" <=> js' = "span"
  PROVE  DbInv'
BY DEF DbInv, DbType, Matches, SpanHeld, AllPure, Units, Pure, dbVars
-----------------------------------------------------------------------------
(* The two queues.                                                         *)

LEMMA HeadOfQueue ==
  ASSUME QueueType, queue # <<>>
  PROVE  /\ Head(queue) \in Task /\ Tail(queue) \in Seq(Task)
         /\ Head(queue).op \in {"begin", "await", "commit", "rollback"} => Me \in Txs
         /\ Head(queue).op = "exec" => Me \in Txs \cup {Plain}
<1>1. Head(queue) \in Task /\ Tail(queue) \in Seq(Task)  BY DEF QueueType
<1> QED  BY <1>1 DEF Task, TxOps, Me

LEMMA HeadOfAnswers ==
  ASSUME QueueType, answers # <<>>
  PROVE  /\ Tail(answers) \in Seq(Answer)
         /\ Head(answers).op \in {"begin", "await", "commit", "rollback"} => It \in Txs
<1>1. Head(answers) \in Answer /\ Tail(answers) \in Seq(Answer)  BY DEF QueueType
<1> QED  BY <1>1 DEF Answer, TxOps, It

\* The worker answers what it took.
LEMMA AnswersType ==
  ASSUME QueueType, queue # <<>>, NEW ok \in BOOLEAN, Answers(ok)
  PROVE  QueueType'
<1> DEFINE a == [op |-> Head(queue).op, by |-> Head(queue).by, ok |-> ok]
<1>1. a \in Answer  BY HeadOfQueue DEF Task, Answer
<1>2. answers' = Append(answers, a)  BY DEF Answers
<1>3. answers' \in Seq(Answer)
  <2> HIDE DEF a
  <2> QED  BY <1>1, <1>2 DEF QueueType
<1>4. queue' \in Seq(Task)  BY HeadOfQueue DEF Answers
<1> QED  BY <1>3, <1>4 DEF QueueType

\* JS sends a task of a transaction, or one of its own.
LEMMA PutType ==
  ASSUME queue \in Seq(Task), NEW op, NEW w, Put(op, w),
         \/ op \in TxOps /\ w \in Txs
         \/ op \in {"exec", "close"} /\ w = Plain
  PROVE  queue' \in Seq(Task)
<1> DEFINE t == [op |-> op, by |-> w]
<1>1. t \in Task  BY DEF Task
<1>2. queue' = Append(queue, t)  BY DEF Put
<1> HIDE DEF t
<1> QED  BY <1>1, <1>2

\* Where a transaction() goes next.
LEMMA GoesType ==
  ASSUME pc \in [Txs -> PC], NEW t, NEW state \in PC, Goes(t, state)
  PROVE  pc' \in [Txs -> PC]
BY DEF Goes

-----------------------------------------------------------------------------
(* The worker.                                                             *)

LEMMA WorkerInv ==
  ASSUME TxInv, WorkerStep
  PROVE  TxInv'
<1> USE TransactionsAssumption
<1>1. DbInv /\ JsType /\ QueueType  BY Parts
<1>2. queue # <<>> /\ js # "span" /\ owner # Span
  <2>1. queue # <<>> /\ js # "span"
    BY DEF WorkerStep, WorkBegin, WorkExec, WorkCommit, WorkRollback, WorkUnknown, WorkClose, Works, MayWork
  <2> QED  BY <1>1, <2>1 DEF DbInv, SpanHeld
<1>3. UNCHANGED jsVars
  BY DEF WorkerStep, WorkBegin, WorkExec, WorkCommit, WorkRollback, WorkUnknown, WorkClose
<1>4. JsType'  BY <1>1, <1>3 DEF JsType, jsVars
<1>5. js' = js  BY <1>3 DEF jsVars
<1>6. QueueType'
  <2>1. Answers(TRUE) \/ Answers(FALSE)
    BY DEF WorkerStep, WorkBegin, WorkExec, WorkCommit, WorkRollback, WorkUnknown, WorkClose
  <2> QED  BY <1>1, <1>2, <2>1, AnswersType
<1>7. DbInv'
  <2>1. CASE WorkBegin
    <3>1. Me \in Txs  BY <1>1, <1>2, <2>1, HeadOfQueue DEF WorkBegin, Works
    <3>2. CASE owner = None
      BY <1>1, <1>2, <1>5, <2>1, <3>1, <3>2, BeginInv DEF WorkBegin
    <3>3. CASE owner # None
      BY <1>1, <1>5, <2>1, <3>3, SameDb DEF WorkBegin, dbVars
    <3> QED  BY <3>2, <3>3
  <2>2. CASE WorkExec
    <3>1. Me \in Txs \cup {Plain}  BY <1>1, <1>2, <2>2, HeadOfQueue DEF WorkExec, Works
    <3>2. CASE (Me \in Txs => Known(Me)) /\ Ran(Me)
      <4>1. Me \in Txs => owner = Me  BY <1>1, <3>2 DEF Known, DbInv, Matches
      <4>2. Welcome(Me)  BY <1>2, <3>1, <4>1 DEF Welcome, Who
      <4> QED  BY <1>1, <1>5, <2>2, <3>2, <4>2, RanInv DEF WorkExec
    <3>3. CASE UNCHANGED <<unit, log>>
      BY <1>1, <1>5, <2>2, <3>3, SameDb DEF WorkExec, dbVars
    <3> QED  BY <2>2, <3>2, <3>3 DEF WorkExec
  <2>3. CASE WorkCommit \/ WorkRollback
    <3>1. Me \in Txs
      BY <1>1, <1>2, <2>3, HeadOfQueue DEF WorkCommit, WorkRollback, Works
    <3> QED  BY <1>1, <1>2, <1>5, <2>3, <3>1, EndInv DEF WorkCommit, WorkRollback
  <2>4. CASE WorkUnknown  BY <1>1, <1>5, <2>4, SameDb DEF WorkUnknown
  <2>5. CASE WorkClose
    <3>1. DbType' /\ Matches'  BY <1>1, <2>5 DEF WorkClose, DbInv, DbType, Matches
    <3>2. SpanHeld'  BY <1>2, <1>5, <2>5 DEF WorkClose, SpanHeld
    <3>3. \A u \in log : Pure(u)  BY <1>1, UnitsPure DEF DbInv
    <3>4. AllPure'  BY <2>5, <3>3, NothingOpen DEF WorkClose, AllPure, Units
    <3> QED  BY <3>1, <3>2, <3>4 DEF DbInv
  <2> QED  BY <2>1, <2>2, <2>3, <2>4, <2>5 DEF WorkerStep
<1> QED  BY <1>4, <1>6, <1>7, PartsNext

-----------------------------------------------------------------------------
(* The JS thread: answers, calls, and synchronous calls.                   *)

\* Hearing an answer sends at most one task of its transaction.
LEMMA HearInv ==
  ASSUME TxInv, HearStep
  PROVE  TxInv'
<1>1. DbInv /\ JsType /\ QueueType  BY Parts
<1>2. answers # <<>> /\ answers' = Tail(answers)
  BY DEF HearStep, HearBegin, HearStatement, HearLoose, HearCommit, HearRollback, HearClose, Hears, Heard
<1>3. UNCHANGED dbVars /\ js' = js /\ stmts' = stmts /\ spans' = spans
  BY DEF HearStep, HearBegin, HearStatement, HearLoose, HearCommit, HearRollback, HearClose, jsVars
<1>4. DbInv'  BY <1>1, <1>3, SameDb
<1>5. handle' \in {"open", "closing", "closed"}
  BY <1>1 DEF HearStep, HearBegin, HearStatement, HearLoose, HearCommit, HearRollback, HearClose, jsVars, JsType
<1>6. pc' \in [Txs -> PC]
  <2>1. UNCHANGED pc \/ \E state \in PC : Goes(It, state)
    BY DEF HearStep, HearBegin, HearStatement, HearLoose, HearCommit, HearRollback, HearClose, jsVars, Sends, PC
  <2> QED  BY <1>1, <2>1, GoesType DEF JsType
<1>7. JsType'  BY <1>1, <1>3, <1>5, <1>6 DEF JsType
<1>8. UNCHANGED queue \/ (It \in Txs /\ Put("rollback", It))
  <2>1. CASE HearStatement \/ HearCommit
    <3>1. It \in Txs  BY <1>1, <1>2, <2>1, HeadOfAnswers DEF HearStatement, HearCommit, Hears
    <3> QED  BY <2>1, <3>1 DEF HearStatement, HearCommit, Sends
  <2>2. CASE HearBegin \/ HearLoose \/ HearRollback \/ HearClose
    BY <2>2 DEF HearBegin, HearLoose, HearRollback, HearClose
  <2> QED  BY <2>1, <2>2 DEF HearStep
<1>9. queue' \in Seq(Task)
  <2>1. CASE UNCHANGED queue  BY <1>1, <2>1 DEF QueueType
  <2>2. CASE It \in Txs /\ Put("rollback", It)
    BY <1>1, <2>2, PutType DEF QueueType, TxOps
  <2> QED  BY <1>8, <2>1, <2>2
<1>10. QueueType'  BY <1>1, <1>2, <1>9, HeadOfAnswers DEF QueueType
<1> QED  BY <1>4, <1>7, <1>10, PartsNext

\* What the code of a transaction() does on its own.
LEMMA CallInv ==
  ASSUME TxInv, NEW t \in Txs,
         Begin(t) \/ Statement(t) \/ LooseStatement(t) \/ BodyEnds(t)
  PROVE  TxInv'
<1> USE TransactionsAssumption
<1>1. DbInv /\ JsType /\ QueueType  BY Parts
<1>2. UNCHANGED <<answers, dbVars, js, handle, spans>>
  BY DEF Begin, Statement, LooseStatement, BodyEnds
<1>3. DbInv'  BY <1>1, <1>2, SameDb
<1>4. stmts' \in 0..MaxStmts
  BY <1>1 DEF Begin, Statement, LooseStatement, BodyEnds, JsType
<1>5. UNCHANGED pc \/ \E state \in PC : Goes(t, state)
  BY DEF Begin, Statement, LooseStatement, BodyEnds, Sends, PC
<1>6. JsType'  BY <1>1, <1>2, <1>4, <1>5, GoesType DEF JsType
<1>7. UNCHANGED queue \/ \E op \in TxOps : Put(op, t)
  BY DEF Begin, Statement, LooseStatement, BodyEnds, Sends, TxOps
<1>8. queue' \in Seq(Task)
  <2>1. CASE UNCHANGED queue  BY <1>1, <2>1 DEF QueueType
  <2>2. ASSUME NEW op \in TxOps, Put(op, t)
        PROVE  queue' \in Seq(Task)
    BY <1>1, <2>2, PutType DEF QueueType
  <2> QED  BY <1>7, <2>1, <2>2
<1>9. QueueType'  BY <1>1, <1>2, <1>8 DEF QueueType
<1> QED  BY <1>3, <1>6, <1>9, PartsNext

\* Statements that run while the JS thread waits, and the BEGIN of a span.
LEMMA SyncInv ==
  ASSUME TxInv,
         \/ \E t \in Txs : SyncStatement(t)
         \/ ExecuteSync \/ ExecuteSyncRuns \/ ExecuteSyncInSpan
         \/ BeginSync \/ BeginSyncRuns \/ SpanStatement
  PROVE  TxInv'
<1> USE TransactionsAssumption
<1>1. DbInv /\ JsType /\ QueueType  BY Parts
<1>2. UNCHANGED <<queue, answers, handle, pc>>
  BY DEF SyncStatement, ExecuteSync, ExecuteSyncRuns, ExecuteSyncInSpan, BeginSync, BeginSyncRuns, SpanStatement, jsVars
<1>3. stmts' \in 0..MaxStmts /\ spans' \in 0..MaxSpans
  BY <1>1 DEF JsType, SyncStatement, ExecuteSync, ExecuteSyncRuns, ExecuteSyncInSpan, BeginSync, BeginSyncRuns, SpanStatement, jsVars
<1>4. js' \in JsState
  BY <1>1 DEF JsType, JsState, SyncStatement, ExecuteSync, ExecuteSyncRuns, ExecuteSyncInSpan, BeginSync, BeginSyncRuns, SpanStatement, jsVars
<1>5. JsType' /\ QueueType'  BY <1>1, <1>2, <1>3, <1>4 DEF JsType, QueueType
<1>6. Blocked <=> owner \in Txs  BY <1>1 DEF DbInv, Matches, Blocked
<1>7. DbInv'
  <2>1. ASSUME NEW t \in Txs, SyncStatement(t)  PROVE DbInv'
    <3>1. owner = t  BY <1>1, <2>1 DEF SyncStatement, Known, DbInv, Matches
    <3>2. Welcome(t)  BY <3>1 DEF Welcome, Who
    <3> QED  BY <1>1, <2>1, <3>2, RanInv DEF SyncStatement
  <2>2. CASE ExecuteSync  BY <1>1, <2>2, SameDb DEF ExecuteSync
  <2>3. CASE ExecuteSyncRuns
    <3>1. js # "span" /\ js' # "span" /\ owner # Span
      BY <1>1, <2>3 DEF ExecuteSyncRuns, DbInv, SpanHeld
    <3>2. CASE UNCHANGED <<unit, log>>
      BY <1>1, <2>3, <3>1, <3>2, SameDb DEF ExecuteSyncRuns, dbVars
    <3>3. CASE ~Blocked /\ Ran(Sync)
      <4>1. owner = None  BY <1>1, <1>6, <3>1, <3>3 DEF DbInv, DbType
      <4>2. UNCHANGED <<registry, asyncCount, owner>>  BY <2>3 DEF ExecuteSyncRuns
      <4>3. Pure([by |-> Alone, stmts |-> {Sync}])  BY DEF Pure
      <4>4. log' = log \cup {[by |-> Alone, stmts |-> {Sync}]} /\ unit' = unit
        BY <3>3, <4>1 DEF Ran
      <4>5. DbType' /\ Matches'  BY <1>1, <4>2, <4>4 DEF DbInv, DbType, Matches, Who
      <4>6. AllPure'  BY <1>1, <4>2, <4>3, <4>4 DEF DbInv, AllPure, Units
      <4>7. SpanHeld'  BY <3>1, <4>2 DEF SpanHeld
      <4> QED  BY <4>5, <4>6, <4>7 DEF DbInv
    <3> QED  BY <2>3, <3>2, <3>3 DEF ExecuteSyncRuns
  <2>4. CASE ExecuteSyncInSpan
    <3>1. Welcome(Sync)  BY <1>6, <2>4 DEF ExecuteSyncInSpan, Welcome, Who
    <3> QED  BY <1>1, <2>4, <3>1, RanInv DEF ExecuteSyncInSpan
  <2>5. CASE BeginSync  BY <1>1, <2>5, SameDb DEF BeginSync
  <2>6. CASE BeginSyncRuns
    <3>1. CASE SpanRefused
      BY <1>1, <2>6, <3>1, SameDb DEF BeginSyncRuns, dbVars
    <3>2. CASE ~SpanRefused
      BY <1>1, <2>6, <3>2, BeginInv DEF BeginSyncRuns, SpanRefused
    <3> QED  BY <3>1, <3>2
  <2>7. CASE SpanStatement
    <3>1. Welcome(Span)  BY <1>1, <2>7 DEF SpanStatement, Welcome, Who, DbInv, SpanHeld
    <3> QED  BY <1>1, <2>7, <3>1, RanInv DEF SpanStatement, jsVars
  <2> QED  BY <2>1, <2>2, <2>3, <2>4, <2>5, <2>6, <2>7
<1> QED  BY <1>5, <1>7, PartsNext

\* A plain statement, the end of a span, and close().
LEMMA OtherInv ==
  ASSUME TxInv, PlainStatement \/ EndSpan \/ Close
  PROVE  TxInv'
<1> USE TransactionsAssumption
<1>1. DbInv /\ JsType /\ QueueType  BY Parts
<1>2. js = "span" => Known(Span)  BY <1>1 DEF DbInv, SpanHeld, Matches, Known
<1>3. DbInv'
  <2>1. CASE PlainStatement  BY <1>1, <2>1, SameDb DEF PlainStatement
  <2>2. CASE EndSpan  BY <1>1, <1>2, <2>2, EndInv DEF EndSpan
  <2>3. CASE Close
    <3>1. CASE js = "span"  BY <1>1, <1>2, <2>3, <3>1, EndInv DEF Close
    <3>2. CASE js # "span"  BY <1>1, <2>3, <3>2, SameDb DEF Close
    <3> QED  BY <3>1, <3>2
  <2> QED  BY <2>1, <2>2, <2>3
<1>4. JsType'
  BY <1>1 DEF JsType, JsState, PlainStatement, EndSpan, Close
<1>5. QueueType'
  <2>1. UNCHANGED answers  BY DEF PlainStatement, EndSpan, Close
  <2>2. UNCHANGED queue \/ \E op \in {"exec", "close"} : Put(op, Plain)
    BY DEF PlainStatement, EndSpan, Close
  <2>3. ASSUME NEW op \in {"exec", "close"}, Put(op, Plain)
        PROVE  queue' \in Seq(Task)
    BY <1>1, <2>3, PutType DEF QueueType
  <2>4. queue' \in Seq(Task)  BY <1>1, <2>2, <2>3 DEF QueueType
  <2> QED  BY <1>1, <2>1, <2>4 DEF QueueType
<1> QED  BY <1>3, <1>4, <1>5, PartsNext

-----------------------------------------------------------------------------
(* The theorems.                                                           *)

LEMMA InitTxInv == Init => TxInv
<1> SUFFICES ASSUME Init  PROVE TxInv
  OBVIOUS
<1> USE TransactionsAssumption DEF Init
<1>1. DbType /\ Matches /\ SpanHeld  BY DEF DbType, Matches, SpanHeld
<1>2. AllPure  BY NothingOpen DEF AllPure, Units
<1>3. JsType  BY DEF JsType, JsState, PC
<1>4. QueueType  BY DEF QueueType
<1> QED  BY <1>1, <1>2, <1>3, <1>4, Parts DEF DbInv

LEMMA NextTxInv == TxInv /\ [Next]_vars => TxInv'
<1> SUFFICES ASSUME TxInv, [Next]_vars  PROVE TxInv'
  OBVIOUS
<1>1. CASE WorkerStep  BY <1>1, WorkerInv
<1>2. CASE HearStep  BY <1>2, HearInv
<1>3. CASE JsStep  BY <1>3, CallInv, SyncInv, OtherInv DEF JsStep
<1>4. CASE ExecuteSyncRuns \/ BeginSyncRuns  BY <1>4, SyncInv
<1>5. CASE EndSpan  BY <1>5, OtherInv
<1>6. CASE UNCHANGED vars
  <2>1. DbInv /\ JsType /\ QueueType  BY Parts
  <2>2. DbInv'  BY <1>6, <2>1, SameDb DEF vars, jsVars
  <2>3. JsType' /\ QueueType'  BY <1>6, <2>1 DEF vars, jsVars, JsType, QueueType
  <2> QED  BY <2>2, <2>3, PartsNext
<1> QED  BY <1>1, <1>2, <1>3, <1>4, <1>5, <1>6 DEF Next

\* Type correctness, for any transactions and bounds.
THEOREM TxTypeCorrect == Spec => []TypeOK
<1>1. TxInv => TypeOK  BY DEF TxInv
<1> QED  BY InitTxInv, NextTxInv, <1>1, PTL DEF Spec

\* For any number of transactions, the registry knows exactly the transaction
\* that is open, and the count the safeguard reads is that of the registry, also
\* after a COMMIT that failed (commitTransaction, forgetTransaction).
THEOREM RegistryCorrect == Spec => []RegistryMatchesEngine
<1>1. TxInv => RegistryMatchesEngine
  BY Parts, MatchesMeans DEF DbInv
<1> QED  BY InitTxInv, NextTxInv, <1>1, PTL DEF Spec

\* Whatever is queued, awaited or not, a statement of a transaction object is
\* committed with its own transaction or not at all (executeInTransaction).
THEOREM StatementIsolation == Spec => []StatementsStayHome
<1>1. TxInv => StatementsStayHome  BY DEF TxInv, AllPure, Pure, StatementsStayHome
<1> QED  BY InitTxInv, NextTxInv, <1>1, PTL DEF Spec

\* The check of the count under the claim keeps executeSync() out of every
\* transaction() (SyncExecute).
THEOREM SafeguardCorrect == Spec => []SafeguardHolds
<1>1. TxInv => SafeguardHolds  BY DEF TxInv, AllPure, Pure, SafeguardHolds
<1> QED  BY InitTxInv, NextTxInv, <1>1, PTL DEF Spec

\* Nothing but the callback of transactionSync() is in its transaction
\* (SyncBeginTransaction, ReleaseSyncSpan).
THEOREM SpanIsolation == Spec => []SpanIsAirtight
<1>1. TxInv => SpanIsAirtight  BY DEF TxInv, AllPure, Pure, SpanIsAirtight
<1> QED  BY InitTxInv, NextTxInv, <1>1, PTL DEF Spec
-----------------------------------------------------------------------------
(***************************************************************************)
(* The outcome.  transaction() awaits one answer at a time, so what is on  *)
(* its way for it, as a task or as an answer, is what it waits for, and is *)
(* one thing only.  Hence it knows what became of its COMMIT: the answer   *)
(* that says so is the answer to the only COMMIT it ever sent.             *)
(***************************************************************************)

\* What transaction() awaits an answer to, and where it is meanwhile.
Awaited == {"begin", "await", "commit", "rollback"}
Waiting(op) == IF op = "await" THEN "stmt" ELSE op

\* Nothing in s is awaited by t.
Quiet(s, t) == \A i \in DOMAIN s : s[i].op \in Awaited => s[i].by # t

\* What is awaited in s is awaited by a transaction() that waits for it ...
Expected(s) == \A i \in DOMAIN s : s[i].op \in Awaited => pc[s[i].by] = Waiting(s[i].op)

\* ... and for nothing else: not in s, nor in r.
OneEach(s) ==
  \A i, j \in DOMAIN s :
    s[i].op \in Awaited /\ s[j].op \in Awaited /\ s[i].by = s[j].by => i = j
Apart(s, r) == \A i \in DOMAIN s : s[i].op \in Awaited => Quiet(r, s[i].by)

\* A transaction() that is elsewhere than waiting has nothing on its way.
OneAwaited ==
  /\ Expected(queue) /\ OneEach(queue)
  /\ Expected(answers) /\ OneEach(answers)
  /\ Apart(queue, answers)

InLog(t)    == \E u \in log : u.by = t
Success(a, t) == a.op = "commit" /\ a.by = t /\ a.ok

\* The transaction of t is committed exactly when t has resolved, or is about to.
Told(t)  == pc[t] = "done" \/ \E i \in DOMAIN answers : Success(answers[i], t)
LogKnown == \A t \in Txs : InLog(t) <=> Told(t)

\* Losing the head: nothing of what was expected is there twice.
LEMMA TailAwaited ==
  ASSUME NEW S, NEW s \in Seq(S), s # <<>>
  PROVE  /\ Expected(s) => Expected(Tail(s))
         /\ OneEach(s) => OneEach(Tail(s))
         /\ OneEach(s) /\ Head(s).op \in Awaited => Quiet(Tail(s), Head(s).by)
         /\ \A t : Quiet(s, t) => Quiet(Tail(s), t)
<1>1. /\ Len(Tail(s)) = Len(s) - 1 /\ DOMAIN s = 1..Len(s) /\ Len(s) \in Nat
      /\ DOMAIN Tail(s) = 1..Len(Tail(s)) /\ Len(s) >= 1
  OBVIOUS
<1>2. \A i \in DOMAIN Tail(s) : Tail(s)[i] = s[i+1] /\ i + 1 \in DOMAIN s /\ i + 1 # 1  BY <1>1
<1>3. Head(s) = s[1] /\ 1 \in DOMAIN s  BY <1>1
<1>4. Expected(s) => Expected(Tail(s))  BY <1>2 DEF Expected
<1>5. ASSUME OneEach(s)  PROVE OneEach(Tail(s))
  <2> SUFFICES ASSUME NEW i \in DOMAIN Tail(s), NEW j \in DOMAIN Tail(s),
                      Tail(s)[i].op \in Awaited, Tail(s)[j].op \in Awaited,
                      Tail(s)[i].by = Tail(s)[j].by
               PROVE  i = j
    BY DEF OneEach
  <2>1. i + 1 = j + 1  BY <1>2, <1>5 DEF OneEach
  <2> QED  BY <1>1, <2>1
<1>6. OneEach(s) /\ Head(s).op \in Awaited => Quiet(Tail(s), Head(s).by)
  BY <1>2, <1>3 DEF OneEach, Quiet
<1>7. \A t : Quiet(s, t) => Quiet(Tail(s), t)  BY <1>2 DEF Quiet
<1> QED  BY <1>4, <1>5, <1>6, <1>7

\* Gaining an entry at the end.
LEMMA AppendAwaited ==
  ASSUME NEW S, NEW s \in Seq(S), NEW e \in S
  PROVE  /\ OneEach(s) /\ (e.op \in Awaited => Quiet(s, e.by)) => OneEach(Append(s, e))
         /\ Expected(s) /\ (e.op \in Awaited => pc[e.by] = Waiting(e.op))
              => Expected(Append(s, e))
         /\ \A t : Quiet(s, t) /\ (e.op \in Awaited => e.by # t) => Quiet(Append(s, e), t)
<1>1. /\ DOMAIN s = 1..Len(s) /\ DOMAIN Append(s, e) = 1..(Len(s) + 1) /\ Len(s) \in Nat
  OBVIOUS
<1>2. ASSUME NEW i \in DOMAIN Append(s, e)
      PROVE  \/ i \in DOMAIN s /\ Append(s, e)[i] = s[i]
             \/ i = Len(s) + 1 /\ Append(s, e)[i] = e
  BY <1>1
<1>3. ASSUME OneEach(s), e.op \in Awaited => Quiet(s, e.by)  PROVE OneEach(Append(s, e))
  <2> SUFFICES ASSUME NEW i \in DOMAIN Append(s, e), NEW j \in DOMAIN Append(s, e),
                      Append(s, e)[i].op \in Awaited, Append(s, e)[j].op \in Awaited,
                      Append(s, e)[i].by = Append(s, e)[j].by
               PROVE  i = j
    BY DEF OneEach
  <2> QED  BY <1>2, <1>3 DEF OneEach, Quiet
<1>4. Expected(s) /\ (e.op \in Awaited => pc[e.by] = Waiting(e.op)) => Expected(Append(s, e))
  BY <1>2 DEF Expected
<1>5. \A t : Quiet(s, t) /\ (e.op \in Awaited => e.by # t) => Quiet(Append(s, e), t)
  BY <1>2 DEF Quiet
<1> QED  BY <1>3, <1>4, <1>5

\* A transaction() that waits for nothing has nothing on its way.
LEMMA NothingOnTheWay ==
  ASSUME OneAwaited, NEW t, \A op \in Awaited : pc[t] # Waiting(op)
  PROVE  Quiet(queue, t) /\ Quiet(answers, t)
BY DEF OneAwaited, Expected, Quiet

\* The worker's answer takes the place of the task.
LEMMA AnswersAwaited ==
  ASSUME QueueType, OneAwaited, queue # <<>>, NEW ok \in BOOLEAN, Answers(ok), UNCHANGED pc
  PROVE  OneAwaited'
<1> DEFINE h == Head(queue)
           a == [op |-> h.op, by |-> h.by, ok |-> ok]
<1>1. queue' = Tail(queue) /\ answers' = Append(answers, a)  BY DEF Answers
<1>2. queue \in Seq(Task) /\ answers \in Seq(Answer) /\ Tail(queue) \in Seq(Task)  BY DEF QueueType
<1>3. a \in Answer  BY HeadOfQueue DEF Task, Answer
<1>4. a.op = h.op /\ a.by = h.by  OBVIOUS
<1>5. h = queue[1] /\ 1 \in DOMAIN queue  BY <1>2
<1>6. h.op \in Awaited => pc[h.by] = Waiting(h.op) /\ Quiet(answers, h.by)
  BY <1>5 DEF OneAwaited, Expected, Apart
<1> HIDE DEF a
<1>7. /\ Expected(Tail(queue)) /\ OneEach(Tail(queue))
      /\ h.op \in Awaited => Quiet(Tail(queue), h.by)
  BY <1>2, TailAwaited DEF OneAwaited
<1>8. Expected(Append(answers, a)) /\ OneEach(Append(answers, a))
  BY <1>2, <1>3, <1>4, <1>6, AppendAwaited DEF OneAwaited
<1>9. Apart(Tail(queue), Append(answers, a))
  <2> SUFFICES ASSUME NEW i \in DOMAIN Tail(queue), Tail(queue)[i].op \in Awaited
               PROVE  Quiet(Append(answers, a), Tail(queue)[i].by)
    BY DEF Apart
  <2>1. Tail(queue)[i] = queue[i + 1] /\ i + 1 \in DOMAIN queue  BY <1>2
  <2>2. Quiet(answers, Tail(queue)[i].by)  BY <2>1 DEF OneAwaited, Apart
  <2>3. a.op \in Awaited => a.by # Tail(queue)[i].by  BY <1>4, <1>7 DEF Quiet
  <2> QED  BY <1>2, <1>3, <2>2, <2>3, AppendAwaited
<1> QED  BY <1>1, <1>7, <1>8, <1>9 DEF OneAwaited, Expected, OneEach, Apart, Quiet

\* A task of one transaction(), while the others stay where they are: an
\* awaited one if nothing of it was on its way, or one that nobody awaits.
LEMMA PutAwaited ==
  ASSUME QueueType, OneAwaited, pc \in [Txs -> PC],
         NEW op, NEW w, [op |-> op, by |-> w] \in Task, Put(op, w), UNCHANGED answers,
         \A t \in Txs : t # w => pc'[t] = pc[t],
         IF op \in Awaited THEN Quiet(queue, w) /\ Quiet(answers, w) /\ pc'[w] = Waiting(op)
         ELSE UNCHANGED pc
  PROVE  OneAwaited'
<1> DEFINE e == [op |-> op, by |-> w]
<1>1. queue' = Append(queue, e)  BY DEF Put
<1>2. queue \in Seq(Task) /\ answers \in Seq(Answer)  BY DEF QueueType
<1>3. e \in Task /\ e.op = op /\ e.by = w  OBVIOUS
<1> HIDE DEF e
<1>4. OneEach(Append(queue, e))
  BY <1>2, <1>3, AppendAwaited DEF OneAwaited
<1>5. Apart(Append(queue, e), answers)
  <2> SUFFICES ASSUME NEW i \in DOMAIN Append(queue, e), Append(queue, e)[i].op \in Awaited
               PROVE  Quiet(answers, Append(queue, e)[i].by)
    BY DEF Apart
  <2>1. \/ i \in DOMAIN queue /\ Append(queue, e)[i] = queue[i]
        \/ Append(queue, e)[i] = e
    BY <1>2, <1>3
  <2> QED  BY <1>3, <2>1 DEF OneAwaited, Apart
<1>6. ASSUME NEW S, NEW s \in Seq(S), Expected(s),
             op \in Awaited => Quiet(s, w),
             \A i \in DOMAIN s : s[i].op \in Awaited => s[i].by \in Txs
      PROVE  \A i \in DOMAIN s : s[i].op \in Awaited => pc'[s[i].by] = Waiting(s[i].op)
  BY <1>6 DEF Expected, Quiet
<1>7. /\ \A i \in DOMAIN queue : queue[i].op \in Awaited => queue[i].by \in Txs
      /\ \A i \in DOMAIN answers : answers[i].op \in Awaited => answers[i].by \in Txs
  BY <1>2 DEF Task, Answer, Awaited
<1>8. /\ \A i \in DOMAIN queue : queue[i].op \in Awaited => pc'[queue[i].by] = Waiting(queue[i].op)
      /\ \A i \in DOMAIN answers :
           answers[i].op \in Awaited => pc'[answers[i].by] = Waiting(answers[i].op)
  BY <1>2, <1>6, <1>7 DEF OneAwaited
<1>9. Expected(queue)'
  <2> SUFFICES ASSUME NEW i \in DOMAIN Append(queue, e), Append(queue, e)[i].op \in Awaited
               PROVE  pc'[Append(queue, e)[i].by] = Waiting(Append(queue, e)[i].op)
    BY <1>1 DEF Expected
  <2>1. \/ i \in DOMAIN queue /\ Append(queue, e)[i] = queue[i]
        \/ Append(queue, e)[i] = e
    BY <1>2, <1>3
  <2> QED  BY <1>3, <1>8, <2>1
<1>10. Expected(answers)'  BY <1>8 DEF Expected
<1> QED  BY <1>1, <1>4, <1>5, <1>9, <1>10 DEF OneAwaited, OneEach, Apart, Quiet

\* An answer is heard, and nothing of its transaction() is on its way any more.
LEMMA HeardAwaited ==
  ASSUME QueueType, OneAwaited, answers # <<>>
  PROVE  /\ Expected(Tail(answers)) /\ OneEach(Tail(answers)) /\ Apart(queue, Tail(answers))
         /\ Head(answers).op \in Awaited =>
              /\ pc[It] = Waiting(Head(answers).op)
              /\ Quiet(queue, It) /\ Quiet(Tail(answers), It)
<1>1. queue \in Seq(Task) /\ answers \in Seq(Answer)  BY DEF QueueType
<1>2. Head(answers) = answers[1] /\ 1 \in DOMAIN answers  BY <1>1
<1>3. /\ Expected(Tail(answers)) /\ OneEach(Tail(answers))
      /\ Head(answers).op \in Awaited => Quiet(Tail(answers), It)
  BY <1>1, TailAwaited DEF OneAwaited, It
<1>4. Apart(queue, Tail(answers))  BY <1>1, TailAwaited DEF OneAwaited, Apart
<1>5. Head(answers).op \in Awaited => pc[It] = Waiting(Head(answers).op)
  BY <1>2 DEF OneAwaited, Expected, It
<1>6. Head(answers).op \in Awaited => Quiet(queue, It)
  BY <1>2 DEF OneAwaited, Apart, Quiet, It
<1> QED  BY <1>3, <1>4, <1>5, <1>6

\* The log gains at most what is no transaction()'s.
LogOfOthers == log \subseteq log' /\ \A u \in log' : u \in log \/ u.by \notin Txs

LEMMA RanOfOthers == \A w : Ran(w) => LogOfOthers
<1> SUFFICES ASSUME NEW w, Ran(w)  PROVE LogOfOthers
  OBVIOUS
<1> DEFINE alone == [by |-> Alone, stmts |-> {w}]
<1>1. alone.by \notin Txs  BY TransactionsAssumption
<1>2. log' = log \/ log' = log \cup {alone}  BY DEF Ran
<1> HIDE DEF alone
<1> QED  BY <1>1, <1>2 DEF LogOfOthers

LEMMA LogKept ==
  ASSUME LogKnown, LogOfOthers, \A t \in Txs : Told(t)' <=> Told(t)
  PROVE  LogKnown'
BY DEF LogKnown, LogOfOthers, InLog

\* What JS is told by one more answer.
LEMMA ToldMore ==
  ASSUME QueueType, queue # <<>>, NEW ok \in BOOLEAN, Answers(ok), UNCHANGED pc, NEW t \in Txs
  PROVE  Told(t)' <=> Told(t) \/ (Head(queue).op = "commit" /\ Me = t /\ ok)
<1> DEFINE a == [op |-> Head(queue).op, by |-> Head(queue).by, ok |-> ok]
<1>1. answers' = Append(answers, a)  BY DEF Answers
<1>2. a \in Answer /\ answers \in Seq(Answer)  BY HeadOfQueue DEF Task, Answer, QueueType
<1>3. Success(a, t) <=> Head(queue).op = "commit" /\ Me = t /\ ok  BY DEF Success, Me
<1> HIDE DEF a
<1>4. /\ \A i \in DOMAIN answers :
           i \in DOMAIN Append(answers, a) /\ Append(answers, a)[i] = answers[i]
      /\ Len(answers) + 1 \in DOMAIN Append(answers, a)
      /\ Append(answers, a)[Len(answers) + 1] = a
      /\ \A i \in DOMAIN Append(answers, a) :
           i \in DOMAIN answers \/ Append(answers, a)[i] = a
  BY <1>2
<1>5. (\E i \in DOMAIN Append(answers, a) : Success(Append(answers, a)[i], t))
      <=> (\E i \in DOMAIN answers : Success(answers[i], t)) \/ Success(a, t)
  BY <1>4
<1>6. Told(t)' <=> pc'[t] = "done" \/ \E i \in DOMAIN answers' : Success(answers'[i], t)
  BY DEF Told, Success
<1> QED  BY <1>1, <1>3, <1>5, <1>6 DEF Told

\* What JS is still told when it has heard an answer.
LEMMA ToldLess ==
  ASSUME QueueType, answers # <<>>, NEW t
  PROVE  (\E i \in DOMAIN answers : Success(answers[i], t))
         <=> \/ Success(Head(answers), t)
             \/ \E i \in DOMAIN Tail(answers) : Success(Tail(answers)[i], t)
<1>1. answers \in Seq(Answer)  BY DEF QueueType
<1>2. /\ \A i \in DOMAIN Tail(answers) :
           i + 1 \in DOMAIN answers /\ Tail(answers)[i] = answers[i + 1]
      /\ 1 \in DOMAIN answers /\ Head(answers) = answers[1]
      /\ \A i \in DOMAIN answers :
           i = 1 \/ (i - 1 \in DOMAIN Tail(answers) /\ Tail(answers)[i - 1] = answers[i])
  BY <1>1
<1> QED  BY <1>2

OutcomeInv == OneAwaited /\ LogKnown

\* The worker: only a COMMIT that goes through tells of success.
LEMMA WorkerOutcome ==
  ASSUME TxInv, OutcomeInv, WorkerStep  PROVE OutcomeInv'
<1> USE TransactionsAssumption
<1>1. DbInv /\ JsType /\ QueueType  BY Parts
<1>2. queue # <<>>
  BY DEF WorkerStep, WorkBegin, WorkExec, WorkCommit, WorkRollback, WorkUnknown, WorkClose, Works, MayWork
<1>3. UNCHANGED pc
  BY DEF WorkerStep, WorkBegin, WorkExec, WorkCommit, WorkRollback, WorkUnknown, WorkClose, jsVars
<1>4. OneAwaited'
  <2>1. Answers(TRUE) \/ Answers(FALSE)
    BY DEF WorkerStep, WorkBegin, WorkExec, WorkCommit, WorkRollback, WorkUnknown, WorkClose
  <2> QED  BY <1>1, <1>2, <1>3, <2>1, AnswersAwaited DEF OutcomeInv
<1>5. LogKnown'
  <2>1. CASE WorkCommit /\ Committed(Me) /\ Answers(TRUE)
    <3>1. Head(queue).op = "commit" /\ Known(Me)  BY <2>1 DEF WorkCommit, Works
    <3>2. Me \in Txs  BY <1>1, <1>2, <3>1, HeadOfQueue
    <3>3. owner = Me  BY <1>1, <3>1 DEF Known, DbInv, Matches
    <3> DEFINE mine == [by |-> Me, stmts |-> unit]
    <3>4. log' = log \cup {mine} /\ mine.by = Me  BY <2>1, <3>3 DEF Committed
    <3> HIDE DEF mine
    <3>5. ASSUME NEW t \in Txs  PROVE InLog(t)' <=> InLog(t) \/ Me = t
      <4>1. InLog(t)' <=> \E u \in log' : u.by = t  BY DEF InLog
      <4> QED  BY <3>4, <4>1 DEF InLog
    <3>6. ASSUME NEW t \in Txs  PROVE Told(t)' <=> Told(t) \/ Me = t
      BY <1>1, <1>2, <1>3, <2>1, <3>1, ToldMore
    <3> QED  BY <3>5, <3>6 DEF OutcomeInv, LogKnown
  <2>2. CASE ~(WorkCommit /\ Committed(Me) /\ Answers(TRUE))
    <3>1. UNCHANGED log \/ Ran(Me)
      BY <2>2
      DEF WorkerStep, WorkBegin, WorkExec, WorkCommit, WorkRollback, WorkUnknown, WorkClose,
          CommitFailed, RolledBack, dbVars
    <3>4. LogOfOthers  BY <3>1, RanOfOthers DEF LogOfOthers
    <3>2. PICK ok \in BOOLEAN : Answers(ok) /\ (Head(queue).op = "commit" => ~ok)
      BY <2>2
      DEF WorkerStep, WorkBegin, WorkExec, WorkCommit, WorkRollback, WorkUnknown, WorkClose, Works
    <3>3. \A t \in Txs : Told(t)' <=> Told(t)
      BY <1>1, <1>2, <1>3, <3>2, ToldMore
    <3> QED  BY <3>3, <3>4, LogKept DEF OutcomeInv
  <2> QED  BY <2>1, <2>2
<1> QED  BY <1>4, <1>5 DEF OutcomeInv

\* What a heard answer makes of its transaction().
Turns(state) ==
  \/ Goes(It, state) /\ UNCHANGED queue
  \/ state = "rollback" /\ Goes(It, state) /\ Put("rollback", It)

LEMMA HearTurns ==
  ASSUME HearStep
  PROVE  /\ UNCHANGED log /\ answers # <<>> /\ answers' = Tail(answers)
         /\ \/ /\ Head(answers).op \notin Awaited
               /\ UNCHANGED <<queue, pc>>
            \/ /\ Head(answers).op \in Awaited
               /\ \E state \in PC :
                    /\ Turns(state)
                    /\ state = "done" <=> Head(answers).op = "commit" /\ Head(answers).ok
<1>1. UNCHANGED log /\ answers # <<>> /\ answers' = Tail(answers)
  BY DEF HearStep, HearBegin, HearStatement, HearLoose, HearCommit, HearRollback, HearClose,
         Hears, Heard, dbVars
<1>2. CASE HearBegin
  BY <1>1, <1>2 DEF HearBegin, Hears, Awaited, Turns, PC
<1>3. CASE HearStatement
  BY <1>1, <1>3 DEF HearStatement, Hears, Awaited, Turns, PC, Sends
<1>4. CASE HearLoose  BY <1>1, <1>4 DEF HearLoose, Hears, Awaited, jsVars
<1>5. CASE HearCommit
  <2>1. CASE Head(answers).ok
    BY <1>1, <1>5, <2>1 DEF HearCommit, Hears, Awaited, Turns, PC, Resolves
  <2>2. CASE ~Head(answers).ok
    BY <1>1, <1>5, <2>2 DEF HearCommit, Hears, Awaited, Turns, PC, Resolves, Sends
  <2> QED  BY <2>1, <2>2
<1>6. CASE HearRollback  BY <1>1, <1>6 DEF HearRollback, Hears, Awaited, Turns, PC
<1>7. CASE HearClose  BY <1>1, <1>7 DEF HearClose, Hears, Awaited
<1> QED  BY <1>2, <1>3, <1>4, <1>5, <1>6, <1>7 DEF HearStep

\* An answer is heard: transaction() resolves exactly when it tells of success.
LEMMA HearOutcome ==
  ASSUME TxInv, OutcomeInv, HearStep  PROVE OutcomeInv'
<1>1. DbInv /\ JsType /\ QueueType  BY Parts
<1>2. UNCHANGED log /\ answers # <<>> /\ answers' = Tail(answers)  BY HearTurns
<1>3. LogOfOthers  BY <1>2 DEF LogOfOthers
<1>4. CASE Head(answers).op \notin Awaited
  <2>1. UNCHANGED <<queue, pc>>  BY <1>4, HearTurns
  <2>2. OneAwaited'
    BY <1>1, <1>2, <2>1, HeardAwaited DEF OutcomeInv, OneAwaited, Expected, OneEach, Apart, Quiet
  <2>3. \A t : ~Success(Head(answers), t)  BY <1>4 DEF Success, Awaited
  <2>4. ASSUME NEW t \in Txs  PROVE Told(t)' <=> Told(t)
    BY <1>1, <1>2, <2>1, <2>3, ToldLess DEF Told, Success
  <2> QED  BY <1>3, <2>2, <2>4, LogKept DEF OutcomeInv
<1>5. CASE Head(answers).op \in Awaited
  <2>1. PICK state \in PC :
          /\ Turns(state)
          /\ state = "done" <=> Head(answers).op = "commit" /\ Head(answers).ok
    BY <1>5, HearTurns
  <2>2. It \in Txs /\ Tail(answers) \in Seq(Answer)
    BY <1>1, <1>2, <1>5, HeadOfAnswers DEF Awaited
  <2>3. pc' = [pc EXCEPT ![It] = state]  BY <2>1 DEF Turns, Goes
  <2>4. pc'[It] = state /\ \A t \in Txs : t # It => pc'[t] = pc[t]
    BY <1>1, <2>2, <2>3 DEF JsType
  <2>5. /\ Expected(Tail(answers)) /\ OneEach(Tail(answers)) /\ Apart(queue, Tail(answers))
        /\ pc[It] = Waiting(Head(answers).op)
        /\ Quiet(queue, It) /\ Quiet(Tail(answers), It)
    BY <1>1, <1>2, <1>5, HeardAwaited DEF OutcomeInv
  <2>6. /\ \A i \in DOMAIN queue : queue[i].op \in Awaited => queue[i].by \in Txs
        /\ \A i \in DOMAIN Tail(answers) :
             Tail(answers)[i].op \in Awaited => Tail(answers)[i].by \in Txs
    BY <1>1, <2>2 DEF QueueType, Task, Answer, Awaited
  <2>7. OneAwaited'
    <3>1. Expected(answers)' /\ OneEach(answers)'
      BY <1>2, <2>4, <2>5, <2>6 DEF Expected, OneEach, Quiet
    <3>2. \A i \in DOMAIN queue : queue[i].op \in Awaited => pc'[queue[i].by] = Waiting(queue[i].op)
      BY <2>4, <2>5, <2>6 DEF OutcomeInv, OneAwaited, Expected, Quiet
    <3>3. CASE UNCHANGED queue
      <4>1. Expected(queue)' /\ OneEach(queue)'
        BY <3>2, <3>3 DEF OutcomeInv, OneAwaited, Expected, OneEach
      <4>2. Apart(queue, answers)'  BY <1>2, <2>5, <3>3 DEF Apart, Quiet
      <4> QED  BY <3>1, <4>1, <4>2 DEF OneAwaited
    <3>4. CASE state = "rollback" /\ Put("rollback", It)
      <4> DEFINE e == [op |-> "rollback", by |-> It]
      <4>1. queue' = Append(queue, e) /\ queue \in Seq(Task)  BY <1>1, <3>4 DEF Put, QueueType
      <4>2. e \in Task /\ e.op = "rollback" /\ e.by = It  BY <2>2 DEF Task, TxOps
      <4> HIDE DEF e
      <4>3. ASSUME NEW i \in DOMAIN Append(queue, e)
            PROVE  \/ i \in DOMAIN queue /\ Append(queue, e)[i] = queue[i]
                   \/ Append(queue, e)[i] = e
        BY <4>1, <4>2
      <4>4. OneEach(Append(queue, e))
        BY <2>5, <4>1, <4>2, AppendAwaited DEF OutcomeInv, OneAwaited
      <4>5. pc'[It] = Waiting("rollback")  BY <2>4, <3>4 DEF Waiting
      <4>6. ASSUME NEW i \in DOMAIN Append(queue, e), Append(queue, e)[i].op \in Awaited
            PROVE  pc'[Append(queue, e)[i].by] = Waiting(Append(queue, e)[i].op)
        BY <3>2, <4>2, <4>3, <4>5, <4>6
      <4>7. Expected(queue)' /\ OneEach(queue)'  BY <4>1, <4>4, <4>6 DEF Expected, OneEach
      <4>8. ASSUME NEW i \in DOMAIN Append(queue, e), Append(queue, e)[i].op \in Awaited
            PROVE  Quiet(Tail(answers), Append(queue, e)[i].by)
        BY <2>5, <4>2, <4>3, <4>8 DEF Apart
      <4>9. Apart(queue, answers)'  BY <1>2, <4>1, <4>8 DEF Apart, Quiet
      <4> QED  BY <3>1, <4>7, <4>9 DEF OneAwaited
    <3> QED  BY <2>1, <3>3, <3>4 DEF Turns
  <2>8. \A t \in Txs : t # It => ~Success(Head(answers), t)  BY DEF Success, It
  <2>9. ASSUME NEW t \in Txs, t # It  PROVE Told(t)' <=> Told(t)
    BY <1>1, <1>2, <2>4, <2>8, <2>9, ToldLess DEF Told, Success
  <2>10. ASSUME NEW t \in Txs, t = It  PROVE Told(t)' <=> Told(t)
    <3>0. \A i \in DOMAIN Tail(answers) : ~Success(Tail(answers)[i], t)
      BY <2>5, <2>10 DEF Quiet, Success, Awaited
    <3>1. pc[t] # "done"  BY <1>5, <2>5, <2>10 DEF Waiting, Awaited
    <3>2. Told(t) <=> Success(Head(answers), t)
      BY <1>1, <1>2, <3>0, <3>1, ToldLess DEF Told
    <3>3. Success(Head(answers), t) <=> state = "done"  BY <2>1, <2>10 DEF Success, It
    <3>4. Told(t)' <=> state = "done"
      BY <1>2, <2>4, <2>10, <3>0 DEF Told, Success
    <3> QED  BY <3>2, <3>3, <3>4
  <2>11. \A t \in Txs : Told(t)' <=> Told(t)  BY <2>9, <2>10
  <2> QED  BY <1>3, <2>7, <2>11, LogKept DEF OutcomeInv
<1> QED  BY <1>4, <1>5

\* The code of a transaction(): what it sends is the one thing it waits for.
LEMMA CallOutcome ==
  ASSUME TxInv, OutcomeInv, NEW t \in Txs,
         Begin(t) \/ Statement(t) \/ LooseStatement(t) \/ BodyEnds(t)
  PROVE  OutcomeInv'
<1>1. DbInv /\ JsType /\ QueueType  BY Parts
<1>2. UNCHANGED <<answers, log>>
  BY DEF Begin, Statement, LooseStatement, BodyEnds, dbVars
<1>3. CASE LooseStatement(t)
  <2>1. Put("exec", t) /\ UNCHANGED pc  BY <1>3 DEF LooseStatement
  <2>2. [op |-> "exec", by |-> t] \in Task  BY DEF Task, TxOps
  <2>3. OneAwaited'
    BY <1>1, <1>2, <2>1, <2>2, PutAwaited DEF OutcomeInv, JsType, Awaited
  <2>4. LogKnown'  BY <1>2, <2>1 DEF OutcomeInv, LogKnown, InLog, Told, Success
  <2> QED  BY <2>3, <2>4 DEF OutcomeInv
<1>4. CASE ~LooseStatement(t)
  <2>1. pc[t] \in {"idle", "body"}  BY <1>4 DEF Begin, Statement, BodyEnds
  <2>2. Quiet(queue, t) /\ Quiet(answers, t)
    BY <2>1, NothingOnTheWay DEF OutcomeInv, Waiting, Awaited
  <2>3. \/ UNCHANGED queue /\ Goes(t, "failed")
        \/ \E op \in Awaited : Put(op, t) /\ Goes(t, Waiting(op))
    BY <1>4 DEF Begin, Statement, BodyEnds, Sends, Awaited, Waiting
  <2>4. PICK state \in PC : Goes(t, state) /\ state # "done"
    BY <2>3 DEF PC, Awaited, Waiting
  <2>5. pc'[t] = state /\ \A w \in Txs : w # t => pc'[w] = pc[w]
    BY <1>1, <2>4 DEF JsType, Goes
  <2>6. LogKnown'
    <3>1. \A w \in Txs : Told(w)' <=> Told(w)
      BY <1>2, <2>1, <2>4, <2>5 DEF Told, Success
    <3> QED  BY <1>2, <3>1, LogKept DEF OutcomeInv, LogOfOthers
  <2>7. CASE UNCHANGED queue /\ Goes(t, "failed")
    <3>1. /\ \A i \in DOMAIN queue : queue[i].op \in Awaited => queue[i].by \in Txs \ {t}
          /\ \A i \in DOMAIN answers : answers[i].op \in Awaited => answers[i].by \in Txs \ {t}
      BY <1>1, <2>2 DEF QueueType, Task, Answer, Awaited, Quiet
    <3>2. OneAwaited'
      BY <1>2, <2>5, <2>7, <3>1 DEF OutcomeInv, OneAwaited, Expected, OneEach, Apart, Quiet
    <3> QED  BY <2>6, <3>2 DEF OutcomeInv
  <2>8. ASSUME NEW op \in Awaited, Put(op, t), Goes(t, Waiting(op))  PROVE OneAwaited'
    <3>1. [op |-> op, by |-> t] \in Task  BY DEF Task, TxOps, Awaited
    <3>2. pc'[t] = Waiting(op)  BY <1>1, <2>8 DEF JsType, Goes
    <3> QED  BY <1>1, <1>2, <2>2, <2>5, <2>8, <3>1, <3>2, PutAwaited DEF OutcomeInv, JsType
  <2> QED  BY <2>3, <2>6, <2>7, <2>8 DEF OutcomeInv
<1> QED  BY <1>3, <1>4

\* Nothing else tells a transaction() anything, or commits for one.
LEMMA OtherOutcome ==
  ASSUME TxInv, OutcomeInv,
         \/ \E t \in Txs : SyncStatement(t)
         \/ ExecuteSync \/ ExecuteSyncRuns \/ ExecuteSyncInSpan
         \/ BeginSync \/ BeginSyncRuns \/ SpanStatement
         \/ PlainStatement \/ EndSpan \/ Close
  PROVE  OutcomeInv'
<1> USE TransactionsAssumption
<1>1. DbInv /\ JsType /\ QueueType  BY Parts
<1>2. UNCHANGED <<answers, pc>>
  BY DEF SyncStatement, ExecuteSync, ExecuteSyncRuns, ExecuteSyncInSpan, BeginSync,
         BeginSyncRuns, SpanStatement, PlainStatement, EndSpan, Close, jsVars
<1>3. UNCHANGED queue \/ \E op \in {"exec", "close"} : Put(op, Plain)
  BY DEF SyncStatement, ExecuteSync, ExecuteSyncRuns, ExecuteSyncInSpan, BeginSync,
         BeginSyncRuns, SpanStatement, PlainStatement, EndSpan, Close
<1>4. OneAwaited'
  <2>1. CASE UNCHANGED queue
    BY <1>2, <2>1 DEF OutcomeInv, OneAwaited, Expected, OneEach, Apart, Quiet
  <2>2. ASSUME NEW op \in {"exec", "close"}, Put(op, Plain)  PROVE OneAwaited'
    <3>1. [op |-> op, by |-> Plain] \in Task /\ op \notin Awaited  BY DEF Task, Awaited
    <3> QED  BY <1>1, <1>2, <2>2, <3>1, PutAwaited DEF OutcomeInv, JsType
  <2> QED  BY <1>3, <2>1, <2>2
<1>5. LogOfOthers
  <2>1. CASE EndSpan /\ Committed(Span)
    <3>1. owner = Span  BY <1>1, <2>1 DEF EndSpan, DbInv, SpanHeld
    <3> DEFINE span == [by |-> Span, stmts |-> unit]
    <3>2. log' = log \cup {span} /\ span.by \notin Txs  BY <2>1, <3>1 DEF Committed
    <3> HIDE DEF span
    <3> QED  BY <3>2 DEF LogOfOthers
  <2>2. CASE ~(EndSpan /\ Committed(Span))
    <3>1. UNCHANGED log \/ \E w : Ran(w)
      BY <2>2
      DEF SyncStatement, ExecuteSync, ExecuteSyncRuns, ExecuteSyncInSpan, BeginSync,
          BeginSyncRuns, SpanStatement, PlainStatement, EndSpan, Close, CommitFailed, RolledBack, dbVars
    <3> QED  BY <3>1, RanOfOthers DEF LogOfOthers
  <2> QED  BY <2>1, <2>2
<1>6. LogKnown'
  <2>1. \A t \in Txs : Told(t)' <=> Told(t)  BY <1>2 DEF Told, Success
  <2> QED  BY <1>5, <2>1, LogKept DEF OutcomeInv
<1> QED  BY <1>4, <1>6 DEF OutcomeInv

LEMMA InitOutcome == Init => OutcomeInv
BY DEF Init, OutcomeInv, OneAwaited, Expected, OneEach, Apart, LogKnown, InLog, Told

LEMMA NextOutcome == TxInv /\ OutcomeInv /\ [Next]_vars => OutcomeInv'
<1> SUFFICES ASSUME TxInv, OutcomeInv, [Next]_vars  PROVE OutcomeInv'
  OBVIOUS
<1>1. CASE WorkerStep  BY <1>1, WorkerOutcome
<1>2. CASE HearStep  BY <1>2, HearOutcome
<1>3. CASE JsStep  BY <1>3, CallOutcome, OtherOutcome DEF JsStep
<1>4. CASE ExecuteSyncRuns \/ BeginSyncRuns \/ EndSpan  BY <1>4, OtherOutcome
<1>5. CASE UNCHANGED vars
  <2>1. UNCHANGED <<queue, answers, pc, log>>  BY <1>5 DEF vars, jsVars, dbVars
  <2> QED
    BY <2>1 DEF OutcomeInv, OneAwaited, Expected, OneEach, Apart, Quiet, LogKnown, InLog, Told, Success
<1> QED  BY <1>1, <1>2, <1>3, <1>4, <1>5 DEF Next

\* For any number of transactions, transaction() resolves only when its COMMIT
\* went through and rejects only when nothing of it was committed, also when the
\* COMMIT failed, a loose statement came after the end, or close() overtook it
\* (transaction() of index.android.ts, commitTransaction).
THEOREM OutcomeCorrect == Spec => []OutcomeIsHonest
<1>1. OutcomeInv => OutcomeIsHonest
  <2> SUFFICES ASSUME OutcomeInv, NEW t \in Txs
               PROVE  /\ pc[t] = "done" => InLog(t)
                      /\ pc[t] \in {"failed", "refused"} => ~InLog(t)
    BY DEF OutcomeIsHonest, InLog
  <2>1. pc[t] = "done" => InLog(t)  BY DEF OutcomeInv, LogKnown, Told
  <2>2. ASSUME pc[t] \in {"failed", "refused"}  PROVE ~InLog(t)
    <3>1. Quiet(answers, t)  BY <2>2, NothingOnTheWay DEF OutcomeInv, Waiting, Awaited
    <3>2. ~Told(t)  BY <2>2, <3>1 DEF Told, Quiet, Success, Awaited
    <3> QED  BY <3>2 DEF OutcomeInv, LogKnown
  <2> QED  BY <2>1, <2>2
<1> QED  BY InitTxInv, NextTxInv, InitOutcome, NextOutcome, <1>1, PTL DEF Spec
=============================================================================
