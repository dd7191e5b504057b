------------------------- MODULE IOSTransactionsProofs -------------------------
(***************************************************************************)
(* What holds of the writer's transactions on iOS for any number of        *)
(* transaction() calls, statements and spans.                              *)
(*                                                                         *)
(* A span is airtight because the queue is suspended exactly while its     *)
(* transaction is open, and because a suspended queue means a JS thread    *)
(* that is in the span or waits for a block.  The list of those who wait   *)
(* is never forgotten because a block that opens the gate goes on to flush *)
(* it.  IOSInv is the conjunction, made inductive.                         *)
(***************************************************************************)
EXTENDS IOSTransactions, TLAPS

\* What SpanIsAirtight says of one unit.
Airtight(u) ==
  /\ u.by = Span => u.stmts \subseteq {Span, Sync}
  /\ Span \in u.stmts => u.by = Span

\* The connection and the suspension of its queue.
DbType ==
  /\ open \in BOOLEAN /\ suspended \in BOOLEAN
  /\ owner \in Txs \cup {Span, None} /\ unit \subseteq Who
  /\ log \subseteq [by : Txs \cup {Span, Alone}, stmts : SUBSET Who]

\* What the JS thread does while the queue is suspended, and no transaction holds
\* nothing.
Held ==
  /\ js = "span" => suspended
  /\ suspended => js \in {"span", "blocked"}
  /\ owner = None => unit = {}

DbInv == DbType /\ SuspendedForSpan /\ Held /\ SpanIsAirtight

\* The two queues; a block halfway is one that opens the gate.
Ending == {"begin", "commit", "rollback"}

QueueInv ==
  /\ queue \in Seq(Task) /\ block \in {"start", "release", "flush"} /\ worked \in BOOLEAN
  /\ block # "start" => queue # <<>> /\ Head(queue).op \in Ending
  /\ answers \in Seq(Answer)

GateInv ==
  /\ gate \in BOOLEAN /\ active \in Txs \cup {None} /\ waiting \in Seq(Txs)
  /\ WaitersAreServed

JsType ==
  /\ js \in JsState /\ isOpen \in BOOLEAN /\ pc \in [Txs -> PC]
  /\ stmts \in 0..MaxStmts /\ spans \in 0..MaxSpans

IOSInv == DbInv /\ QueueInv /\ GateInv /\ JsType

-----------------------------------------------------------------------------
(* The connection.                                                         *)

LEMMA AirtightUnits ==
  SpanIsAirtight <=> Airtight([by |-> owner, stmts |-> unit]) /\ \A u \in log : Airtight(u)
BY DEF SpanIsAirtight, Units, Airtight

\* A statement keeps every unit airtight when the span's run in the span only, and
\* nobody else's do there but those of executeSync().
LEMMA RanInv ==
  ASSUME DbInv, NEW w \in Who, Ran(w), w = Span => owner = Span,
         owner = Span => w \in {Span, Sync},
         UNCHANGED <<open, owner, suspended>>, Held'
  PROVE  DbInv'
<1> USE TransactionsAssumption DEF DbInv
<1>1. SuspendedForSpan'  BY DEF SuspendedForSpan
<1>2. CASE owner # None
  <2>1. unit' = unit \cup {w} /\ log' = log  BY <1>2 DEF Ran
  <2>2. DbType'  BY <2>1 DEF DbType
  <2>3. Airtight([by |-> owner, stmts |-> unit \cup {w}])  BY <1>2, AirtightUnits DEF Airtight
  <2>4. SpanIsAirtight'  BY <2>1, <2>3, AirtightUnits DEF SpanIsAirtight, Units, Airtight
  <2> QED  BY <1>1, <2>2, <2>4
<1>3. CASE owner = None
  <2> DEFINE alone == [by |-> Alone, stmts |-> {w}]
  <2>1. log' = log \cup {alone} /\ unit' = unit  BY <1>3 DEF Ran
  <2>2. alone \in [by : Txs \cup {Span, Alone}, stmts : SUBSET Who]  BY DEF Who
  <2>3. DbType'  BY <2>1, <2>2 DEF DbType
  <2>4. Airtight(alone)  BY <1>3 DEF Airtight
  <2>5. SpanIsAirtight'  BY <2>1, <2>4, AirtightUnits DEF SpanIsAirtight, Units, Airtight
  <2> QED  BY <1>1, <2>3, <2>5
<1> QED  BY <1>2, <1>3

\* A transaction that ends leaves nothing open, and the queue is not suspended.
LEMMA EndInv ==
  ASSUME DbInv, (owner # None /\ Committed) \/ RolledBack,
         open' \in BOOLEAN, suspended' = FALSE, js' # "span"
  PROVE  DbInv'
<1> USE TransactionsAssumption DEF DbInv
<1>1. owner' = None /\ unit' = {}  BY DEF Committed, RolledBack
<1>2. \A u \in log' : u \in log \/ (u = [by |-> owner, stmts |-> unit] /\ owner # None)
  BY DEF Committed, RolledBack
<1>3. DbType'
  <2>1. owner # None => [by |-> owner, stmts |-> unit] \in [by : Txs \cup {Span, Alone}, stmts : SUBSET Who]
    BY DEF DbType
  <2> QED  BY <1>1, <1>2, <2>1 DEF DbType
<1>4. SuspendedForSpan' /\ Held'  BY <1>1 DEF SuspendedForSpan, Held
<1>5. Airtight([by |-> None, stmts |-> {}])  BY DEF Airtight
<1>6. \A u \in log' : Airtight(u)  BY <1>2, AirtightUnits
<1>7. SpanIsAirtight'  BY <1>1, <1>5, <1>6 DEF SpanIsAirtight, Units, Airtight
<1> QED  BY <1>3, <1>4, <1>7

\* A transaction that begins; the queue is suspended if it is a span's.
LEMMA BeginInv ==
  ASSUME DbInv, NEW w \in Txs \cup {Span}, owner = None, owner' = w,
         UNCHANGED <<open, unit, log>>, suspended' = (w = Span),
         IF w = Span THEN js' = "span" ELSE js' # "span"
  PROVE  DbInv'
<1> USE TransactionsAssumption DEF DbInv
<1>1. unit = {}  BY DEF Held
<1>2. DbType'  BY DEF DbType
<1>3. SuspendedForSpan' /\ Held'  BY DEF SuspendedForSpan, Held
<1>4. Airtight([by |-> w, stmts |-> {}])  BY DEF Airtight
<1>5. SpanIsAirtight'  BY <1>1, <1>4, AirtightUnits DEF SpanIsAirtight, Units, Airtight
<1> QED  BY <1>2, <1>3, <1>5

LEMMA SameDb ==
  ASSUME DbInv, UNCHANGED <<dbVars, suspended>>, Held'
  PROVE  DbInv'
BY DEF DbInv, DbType, SuspendedForSpan, SpanIsAirtight, Units, dbVars

\* Held speaks of js through these two only.
LEMMA SameHeld ==
  ASSUME Held, UNCHANGED suspended, owner' = owner, unit' = unit \/ owner # None,
         js' = js \/ (js' # "span" /\ ~suspended) \/ (js' = "blocked")
  PROVE  Held'
BY DEF Held

-----------------------------------------------------------------------------
(* The queues.                                                             *)

LEMMA HeadOfQueue ==
  ASSUME QueueInv, queue # <<>>
  PROVE  /\ Head(queue) \in Task /\ Tail(queue) \in Seq(Task)
         /\ Head(queue).op \in TxOps \ {"exec"} => Me \in Txs
         /\ Head(queue).op = "exec" => Me \in Txs \cup {Plain}
         /\ Head(queue).op = "sync" => Me \in Txs \cup {Sync}
         /\ Head(queue).op = "close" => Me = Plain
<1>1. Head(queue) \in Task /\ Tail(queue) \in Seq(Task)  BY DEF QueueInv
<1> QED  BY <1>1 DEF Task, TxOps, Me

LEMMA HeadOfAnswers ==
  ASSUME QueueInv, answers # <<>>
  PROVE  /\ Tail(answers) \in Seq(Answer)
         /\ Head(answers).op \in {"begin", "await", "commit", "rollback"} => It \in Txs
<1>1. Head(answers) \in Answer /\ Tail(answers) \in Seq(Answer)  BY DEF QueueInv
<1> QED  BY <1>1 DEF Answer, TxOps, It

LEMMA ReplyType ==
  ASSUME QueueInv, queue # <<>>, NEW ok \in BOOLEAN, Reply(ok),
         Head(queue).op \in TxOps \cup {"close"}
  PROVE  answers' \in Seq(Answer)
<1> DEFINE a == [op |-> Head(queue).op, by |-> Me, ok |-> ok]
<1>1. a \in Answer  BY HeadOfQueue DEF Answer, TxOps
<1>2. answers' = Append(answers, a)  BY DEF Reply
<1> HIDE DEF a
<1> QED  BY <1>1, <1>2 DEF QueueInv

\* Sending a block leaves the one that runs where it is.
LEMMA PutInv ==
  ASSUME QueueInv, NEW op, NEW w, Put(op, w), [op |-> op, by |-> w] \in Task,
         UNCHANGED <<block, worked>>, answers' \in Seq(Answer)
  PROVE  QueueInv'
<1> DEFINE t == [op |-> op, by |-> w]
<1>1. queue' = Append(queue, t) /\ t \in Task  BY DEF Put
<1> HIDE DEF t
<1>2. queue' \in Seq(Task)  BY <1>1 DEF QueueInv
<1>3. ASSUME queue # <<>> PROVE queue' # <<>> /\ Head(queue') = Head(queue)
  <2>1. queue \in Seq(Task) /\ Len(queue) \in Nat /\ Len(queue) > 0
    BY <1>3 DEF QueueInv
  <2>2. Len(queue') = Len(queue) + 1 /\ queue'[1] = queue[1]  BY <1>1, <2>1
  <2>3. queue' # <<>>  BY <1>2, <2>1, <2>2
  <2> QED  BY <1>2, <1>3, <2>1, <2>2, <2>3
<1> QED  BY <1>2, <1>3 DEF QueueInv

LEMMA SameQueue ==
  ASSUME QueueInv, UNCHANGED <<queue, block, worked>>, answers' \in Seq(Answer)
  PROVE  QueueInv'
BY DEF QueueInv

\* A block that is over.
LEMMA DoneInv ==
  ASSUME QueueInv, queue # <<>>, block = "start", queue' = Tail(queue),
         UNCHANGED <<block, worked>>, answers' \in Seq(Answer)
  PROVE  QueueInv'
BY HeadOfQueue DEF QueueInv

LEMMA ReleasesInv ==
  ASSUME QueueInv, queue # <<>>, Head(queue).op \in Ending, NEW ok \in BOOLEAN,
         ThenReleases(ok), UNCHANGED answers
  PROVE  QueueInv'
BY DEF QueueInv, ThenReleases

LEMMA SameGate ==
  ASSUME GateInv, UNCHANGED gateVars, block' = block \/ block = "start"
  PROVE  GateInv'
BY DEF GateInv, WaitersAreServed, gateVars

LEMMA GoesType ==
  ASSUME pc \in [Txs -> PC], NEW t, NEW state \in PC, Goes(t, state)
  PROVE  pc' \in [Txs -> PC]
BY DEF Goes

-----------------------------------------------------------------------------
(* The writer's queue.                                                     *)

\* While a block runs, no span is open.
LEMMA RunningMeans ==
  ASSUME IOSInv, Running
  PROVE  queue # <<>> /\ ~suspended /\ owner # Span /\ js # "span"
BY DEF IOSInv, DbInv, Running, SuspendedForSpan, Held

\* The SQL of the blocks that answer.
LEMMA WorkInv ==
  ASSUME IOSInv, WorkBegin \/ WorkExec \/ WorkCommit \/ WorkRollback \/ WorkClose
  PROVE  IOSInv'
<1> USE TransactionsAssumption
<1>1. DbInv /\ QueueInv /\ GateInv /\ JsType  BY DEF IOSInv
<1>2. queue # <<>> /\ ~suspended /\ owner # Span /\ js # "span" /\ block = "start"
  BY RunningMeans DEF WorkBegin, WorkExec, WorkCommit, WorkRollback, WorkClose, Works
<1>3. UNCHANGED <<gateVars, jsVars, suspended>>
  BY DEF WorkBegin, WorkExec, WorkCommit, WorkRollback, WorkClose, Done, ThenReleases
<1>4. js' = js /\ Held  BY <1>1, <1>3 DEF jsVars, DbInv
<1>8. suspended' = FALSE  BY <1>1, <1>2, <1>3 DEF DbInv, DbType
<1>5. JsType'  BY <1>1, <1>3 DEF JsType, jsVars
<1>6. GateInv'
  <2>1. block' = block \/ block = "start"  BY <1>2
  <2> QED  BY <1>1, <1>3, <2>1, SameGate
<1>7. DbInv' /\ QueueInv'
  <2>1. CASE WorkBegin
    <3>1. Me \in Txs /\ Head(queue).op = "begin"
      BY <1>1, <1>2, <2>1, HeadOfQueue DEF WorkBegin, Works, TxOps
    <3>2. CASE open /\ owner = None
      <4>1. answers' \in Seq(Answer)
        BY <1>1, <1>2, <2>1, <3>1, <3>2, ReplyType DEF WorkBegin, TxOps
      <4>2. QueueInv'  BY <1>1, <1>2, <2>1, <3>2, <4>1, DoneInv DEF WorkBegin, Done
      <4>3. DbInv'
        <5>1. owner' = Me /\ Me # Span /\ UNCHANGED <<open, unit, log>>
          BY <2>1, <3>1, <3>2 DEF WorkBegin
        <5> QED  BY <1>1, <1>2, <1>4, <1>8, <3>1, <3>2, <5>1, BeginInv
      <4> QED  BY <4>2, <4>3
    <3>3. CASE ~(open /\ owner = None)
      <4>1. QueueInv'
        BY <1>1, <1>2, <2>1, <3>1, <3>3, ReleasesInv DEF WorkBegin, Ending
      <4>2. UNCHANGED dbVars  BY <2>1, <3>3 DEF WorkBegin, dbVars
      <4>3. Held'  BY <1>3, <1>4, <4>2, SameHeld DEF dbVars
      <4> QED  BY <1>1, <1>3, <4>1, <4>2, <4>3, SameDb
    <3> QED  BY <3>2, <3>3
  <2>2. CASE WorkExec
    <3>1. Me \in Txs \cup {Plain} /\ Head(queue).op \in {"exec", "await"}
      BY <1>1, <1>2, <2>2, HeadOfQueue DEF WorkExec, Works, TxOps
    <3>2. answers' \in Seq(Answer)
      BY <1>1, <1>2, <2>2, <3>1, ReplyType DEF WorkExec, TxOps
    <3>3. QueueInv'  BY <1>1, <1>2, <2>2, <3>2, DoneInv DEF WorkExec, Done
    <3>4. CASE Ran(Me)
      <4>1. Held'  BY <1>1, <1>3, <1>4, <2>2, <3>4, SameHeld DEF WorkExec, Ran
      <4>2. Me \in Who /\ Me # Span  BY <3>1 DEF Who
      <4>3. UNCHANGED <<open, owner, suspended>>  BY <1>3, <2>2 DEF WorkExec
      <4>4. DbInv'  BY <1>1, <1>2, <3>4, <4>1, <4>2, <4>3, RanInv
      <4> QED  BY <3>3, <4>4
    <3>5. CASE Failed
      <4>1. UNCHANGED dbVars  BY <2>2, <3>5 DEF WorkExec, Failed, dbVars
      <4>2. Held'  BY <1>3, <1>4, <4>1, SameHeld DEF dbVars
      <4> QED  BY <1>1, <1>3, <3>3, <4>1, <4>2, SameDb
    <3> QED  BY <2>2, <3>4, <3>5 DEF WorkExec
  <2>3. CASE WorkCommit \/ WorkRollback
    <3>1. Head(queue).op \in Ending
      BY <2>3 DEF WorkCommit, WorkRollback, Works, Ending
    <3>2. \E ok \in BOOLEAN : ThenReleases(ok)  BY <2>3 DEF WorkCommit, WorkRollback
    <3>3. UNCHANGED answers  BY <2>3 DEF WorkCommit, WorkRollback
    <3>4. QueueInv'  BY <1>1, <1>2, <3>1, <3>2, <3>3, ReleasesInv
    <3>5. (owner # None /\ Committed) \/ RolledBack  BY <2>3 DEF WorkCommit, WorkRollback
    <3>6. open' \in BOOLEAN  BY <1>1, <2>3 DEF WorkCommit, WorkRollback, DbInv, DbType
    <3>7. DbInv'  BY <1>1, <1>2, <1>4, <1>8, <3>5, <3>6, EndInv
    <3> QED  BY <3>4, <3>7
  <2>4. CASE WorkClose
    <3>1. Head(queue).op = "close"  BY <2>4 DEF WorkClose, Works
    <3>2. answers' \in Seq(Answer)
      BY <1>1, <1>2, <2>4, <3>1, ReplyType DEF WorkClose
    <3>3. QueueInv'  BY <1>1, <1>2, <2>4, <3>2, DoneInv DEF WorkClose, Done
    <3>4. RolledBack /\ open' \in BOOLEAN  BY <2>4 DEF WorkClose
    <3>5. DbInv'  BY <1>1, <1>2, <1>4, <1>8, <3>4, EndInv
    <3> QED  BY <3>3, <3>5
  <2> QED  BY <2>1, <2>2, <2>3, <2>4
<1> QED  BY <1>5, <1>6, <1>7 DEF IOSInv

\* A block that opens the gate and starts the next transaction.
LEMMA GateStepInv ==
  ASSUME IOSInv, Release \/ Flush
  PROVE  IOSInv'
<1> USE TransactionsAssumption
<1>1. DbInv /\ QueueInv /\ GateInv /\ JsType  BY DEF IOSInv
<1>2. queue # <<>> /\ block # "start"  BY RunningMeans DEF Release, Flush
<1>3. Head(queue).op \in Ending /\ Me \in Txs
  BY <1>1, <1>2, HeadOfQueue DEF QueueInv, Ending, TxOps
<1>4. UNCHANGED <<dbVars, jsVars, worked, suspended>>  BY DEF Release, Flush
<1>5. JsType'  BY <1>1, <1>4 DEF JsType, jsVars
<1>6. Held'  BY <1>1, <1>4, SameHeld DEF dbVars, jsVars, DbInv
<1>7. DbInv'  BY <1>1, <1>4, <1>6, SameDb
<1>8. CASE Release
  <2>1. answers' \in Seq(Answer)
    BY <1>1, <1>2, <1>3, <1>8, ReplyType DEF Release, Ending, TxOps, QueueInv
  <2>2. QueueInv'  BY <1>1, <1>2, <1>3, <1>8, <2>1 DEF QueueInv, Release
  <2>3. GateInv'
    BY <1>1, <1>8 DEF GateInv, Release, ActiveAfter, WaitersAreServed
  <2> QED  BY <1>5, <1>7, <2>2, <2>3 DEF IOSInv
<1>9. CASE Flush
  <2>1. Tail(queue) \in Seq(Task)  BY <1>1, <1>2, HeadOfQueue
  <2>2. CASE MayFlush
    <3> DEFINE t == [op |-> "begin", by |-> Head(waiting)]
    <3>1. Head(waiting) \in Txs /\ Tail(waiting) \in Seq(Txs)
      BY <1>1, <2>2 DEF GateInv, MayFlush
    <3>2. t \in Task  BY <3>1 DEF Task, TxOps
    <3>3. queue' = Append(Tail(queue), t)  BY <1>9, <2>2 DEF Flush
    <3>4. queue' \in Seq(Task)
      <4> HIDE DEF t
      <4> QED  BY <2>1, <3>2, <3>3
    <3>5. QueueInv'  BY <1>1, <1>4, <1>9, <3>4 DEF QueueInv, Flush
    <3>6. GateInv'  BY <1>9, <2>2, <3>1 DEF GateInv, Flush, WaitersAreServed
    <3> QED  BY <1>5, <1>7, <3>5, <3>6 DEF IOSInv
  <2>3. CASE ~MayFlush
    <3>1. QueueInv'  BY <1>1, <1>9, <2>1, <2>3 DEF QueueInv, Flush
    <3>2. GateInv'
      BY <1>1, <1>9, <2>3 DEF GateInv, Flush, MayFlush, WaitersAreServed, gateVars
    <3> QED  BY <1>5, <1>7, <3>1, <3>2 DEF IOSInv
  <2> QED  BY <2>2, <2>3
<1> QED  BY <1>8, <1>9

\* The blocks the JS thread waits for.
LEMMA WorkSyncInv ==
  ASSUME IOSInv, WorkSync \/ WorkSuspend
  PROVE  IOSInv'
<1> USE TransactionsAssumption
<1>1. DbInv /\ QueueInv /\ GateInv /\ JsType  BY DEF IOSInv
<1>2. queue # <<>> /\ ~suspended /\ owner # Span /\ block = "start"
  BY RunningMeans DEF WorkSync, WorkSuspend, Works
<1>3. UNCHANGED <<gateVars, answers, isOpen, pc, stmts, spans, block, worked>>
  BY DEF WorkSync, WorkSuspend, Done
<1>4. GateInv'  BY <1>1, <1>3, SameGate
<1>5. js' \in {"free", "span"}  BY DEF WorkSync, WorkSuspend
<1>6. JsType'  BY <1>1, <1>3, <1>5 DEF JsType, JsState
<1>7. answers' \in Seq(Answer)  BY <1>1, <1>3 DEF QueueInv
<1>8. queue' = Tail(queue)  BY DEF WorkSync, WorkSuspend, Done
<1>9. QueueInv'  BY <1>1, <1>2, <1>3, <1>7, <1>8, DoneInv
<1>10. DbInv'
  <2>1. CASE WorkSync
    <3>1. Me \in Txs \cup {Sync}
      BY <1>1, <1>2, <2>1, HeadOfQueue DEF WorkSync, Works
    <3>2. UNCHANGED <<open, owner, suspended>> /\ js' = "free"  BY <2>1 DEF WorkSync, Done
    <3>3. CASE Ran(Me)
      <4>1. Held'  BY <1>1, <1>2, <3>2, <3>3, SameHeld DEF DbInv, Ran
      <4> QED  BY <1>1, <1>2, <3>1, <3>2, <3>3, <4>1, RanInv DEF Who
    <3>4. CASE Failed
      <4>1. UNCHANGED dbVars  BY <2>1, <3>2, <3>4 DEF WorkSync, Failed, dbVars
      <4>2. Held'  BY <1>1, <1>2, <3>2, <4>1, SameHeld DEF dbVars, DbInv
      <4> QED  BY <1>1, <3>2, <4>1, <4>2, SameDb
    <3> QED  BY <2>1, <3>3, <3>4 DEF WorkSync
  <2>2. CASE WorkSuspend
    <3>1. CASE open /\ owner = None
      <4>1. /\ owner' = Span /\ suspended' = TRUE /\ js' = "span"
            /\ UNCHANGED <<open, unit, log>>
        BY <2>2, <3>1 DEF WorkSuspend, SuspendedAfterBegin
      <4> QED  BY <1>1, <3>1, <4>1, BeginInv
    <3>2. CASE ~(open /\ owner = None)
      <4>1. RolledBack /\ suspended' = FALSE /\ js' = "free" /\ open' = open
        BY <1>1, <2>2, <3>2 DEF WorkSuspend, SuspendedAfterBegin, DbInv, DbType
      <4>2. open' \in BOOLEAN  BY <1>1, <4>1 DEF DbInv, DbType
      <4> QED  BY <1>1, <4>1, <4>2, EndInv
    <3> QED  BY <3>1, <3>2
  <2> QED  BY <2>1, <2>2
<1> QED  BY <1>4, <1>6, <1>9, <1>10 DEF IOSInv

-----------------------------------------------------------------------------
(* The JS thread.                                                          *)

\* Hearing an answer sends at most the ROLLBACK of its transaction.
LEMMA HearInv ==
  ASSUME IOSInv, HearStep
  PROVE  IOSInv'
<1> USE DEF HearStep, HearBegin, HearStatement, HearCommit, HearRollback, HearOther
<1>1. DbInv /\ QueueInv /\ GateInv /\ JsType  BY DEF IOSInv
<1>2. answers # <<>> /\ answers' = Tail(answers)  BY DEF Hears
<1>3. UNCHANGED <<block, worked, suspended, gateVars, dbVars, js, isOpen, stmts, spans>>
  BY DEF Heard
<1>4. Held'  BY <1>1, <1>3, SameHeld DEF dbVars, DbInv
<1>5. DbInv'  BY <1>1, <1>3, <1>4, SameDb
<1>6. GateInv'  BY <1>1, <1>3, SameGate
<1>7. UNCHANGED pc \/ \E state \in PC : Goes(It, state)  BY DEF PC
<1>8. JsType'  BY <1>1, <1>3, <1>7, GoesType DEF JsType
<1>9. answers' \in Seq(Answer)  BY <1>1, <1>2, HeadOfAnswers
<1>10. UNCHANGED queue \/ (It \in Txs /\ Put("rollback", It))
  BY <1>1, <1>2, HeadOfAnswers DEF Hears
<1>11. QueueInv'
  <2>1. CASE UNCHANGED queue  BY <1>1, <1>3, <1>9, <2>1, SameQueue
  <2>2. CASE It \in Txs /\ Put("rollback", It)
    <3>1. [op |-> "rollback", by |-> It] \in Task  BY <2>2 DEF Task, TxOps
    <3> QED  BY <1>1, <1>3, <1>9, <2>2, <3>1, PutInv
  <2> QED  BY <1>10, <2>1, <2>2
<1> QED  BY <1>5, <1>6, <1>8, <1>11 DEF IOSInv

\* A call made by the code of a transaction: it sends one block of its own, or is
\* refused, or joins the list.
LEMMA CallInv ==
  ASSUME IOSInv, NEW t \in Txs,
         Begin(t) \/ Statement(t) \/ LooseStatement(t) \/ SyncStatement(t) \/ BodyEnds(t)
  PROVE  IOSInv'
<1> USE TransactionsAssumption
<1> USE DEF Begin, Statement, LooseStatement, SyncStatement, BodyEnds
<1>1. DbInv /\ QueueInv /\ GateInv /\ JsType  BY DEF IOSInv
<1>2. UNCHANGED <<block, worked, suspended, dbVars, isOpen, spans>>
  BY DEF Sends, Executes, Refuses, queueVars
<1>3. js' = js \/ js' = "blocked"  OBVIOUS
<1>4. Held'  BY <1>1, <1>2, <1>3, SameHeld DEF dbVars, DbInv
<1>5. DbInv'  BY <1>1, <1>2, <1>4, SameDb
<1>6. UNCHANGED pc \/ \E state \in PC : Goes(t, state)  BY DEF PC
<1>7. stmts' \in 0..MaxStmts  BY <1>1 DEF JsType
<1>8. JsType'  BY <1>1, <1>2, <1>3, <1>6, <1>7, GoesType DEF JsType, JsState
<1>9. GateInv'
  <2>1. CASE Begin(t) /\ GateTaken
    <3>1. waiting' \in Seq(Txs) /\ gate' = TRUE /\ active' = active
      BY <1>1, <2>1 DEF GateInv, GateTaken
    <3> QED  BY <1>1, <3>1 DEF GateInv, WaitersAreServed
  <2>2. CASE Begin(t) /\ ~GateTaken
    <3>1. waiting' = waiting /\ gate' = TRUE /\ active' = t  BY <2>2
    <3> QED  BY <1>1, <3>1 DEF GateInv, WaitersAreServed
  <2>3. CASE UNCHANGED gateVars  BY <1>1, <1>2, <2>3, SameGate
  <2> QED  BY <2>1, <2>2, <2>3
<1>10. \/ UNCHANGED <<queue, answers>>
       \/ \E op \in TxOps : UNCHANGED queue /\ answers' = Append(answers, [op |-> op, by |-> t, ok |-> FALSE])
       \/ \E op \in TxOps \cup {"sync"} : Put(op, t) /\ UNCHANGED answers
  BY DEF Sends, Executes, Refuses, TxOps, queueVars
<1>11. QueueInv'
  <2>1. CASE UNCHANGED <<queue, answers>>
    BY <1>1, <1>2, <2>1, SameQueue DEF QueueInv
  <2>2. ASSUME NEW op \in TxOps, UNCHANGED queue,
               answers' = Append(answers, [op |-> op, by |-> t, ok |-> FALSE])
        PROVE  QueueInv'
    <3> DEFINE a == [op |-> op, by |-> t, ok |-> FALSE]
    <3>1. a \in Answer  BY DEF Answer
    <3>2. answers' \in Seq(Answer)
      <4> HIDE DEF a
      <4> QED  BY <1>1, <2>2, <3>1 DEF QueueInv, a
    <3> QED  BY <1>1, <1>2, <2>2, <3>2, SameQueue
  <2>3. ASSUME NEW op \in TxOps \cup {"sync"}, Put(op, t), UNCHANGED answers
        PROVE  QueueInv'
    <3>1. [op |-> op, by |-> t] \in Task  BY DEF Task
    <3>2. answers' \in Seq(Answer)  BY <1>1, <2>3 DEF QueueInv
    <3> QED  BY <1>1, <1>2, <2>3, <3>1, <3>2, PutInv
  <2> QED  BY <1>10, <2>1, <2>2, <2>3
<1> QED  BY <1>5, <1>8, <1>9, <1>11 DEF IOSInv

\* The calls that belong to no transaction().
LEMMA OtherCallInv ==
  ASSUME IOSInv,
         PlainStatement \/ ExecuteSync \/ ExecuteSyncSends \/ BeginSync \/ BeginSyncSends
  PROVE  IOSInv'
<1> USE TransactionsAssumption
<1> USE DEF PlainStatement, ExecuteSync, ExecuteSyncSends, BeginSync, BeginSyncSends
<1>1. DbInv /\ QueueInv /\ GateInv /\ JsType  BY DEF IOSInv
<1>2. UNCHANGED <<block, worked, suspended, gateVars, answers, dbVars, isOpen, pc>>
  BY DEF Sends, queueVars
<1>3. js' = js \/ js' = "blocked" \/ (js = "free" /\ js' \in {"execSync", "beginSync"})
  OBVIOUS
<1>4. Held'
  BY <1>1, <1>2, <1>3, SameHeld DEF dbVars, DbInv, Held
<1>5. DbInv'  BY <1>1, <1>2, <1>4, SameDb
<1>6. GateInv'  BY <1>1, <1>2, SameGate
<1>7. stmts' \in 0..MaxStmts /\ spans' \in 0..MaxSpans  BY <1>1 DEF JsType
<1>8. JsType'  BY <1>1, <1>2, <1>3, <1>7 DEF JsType, JsState
<1>9. answers' \in Seq(Answer)  BY <1>1, <1>2 DEF QueueInv
<1>10. \/ UNCHANGED queue
       \/ Put("exec", Plain) \/ Put("sync", Sync) \/ Put("suspend", Span)
  BY DEF Sends, queueVars
<1>11. QueueInv'
  <2>1. CASE UNCHANGED queue  BY <1>1, <1>2, <1>9, <2>1, SameQueue
  <2>2. /\ [op |-> "exec", by |-> Plain] \in Task /\ [op |-> "sync", by |-> Sync] \in Task
        /\ [op |-> "suspend", by |-> Span] \in Task
    BY DEF Task
  <2> QED  BY <1>1, <1>2, <1>9, <1>10, <2>1, <2>2, PutInv
<1> QED  BY <1>5, <1>6, <1>8, <1>11 DEF IOSInv

\* Inside a span, and its end.
LEMMA SpanInv ==
  ASSUME IOSInv, ExecuteSyncInSpan \/ SpanStatement \/ EndSpan
  PROVE  IOSInv'
<1> USE TransactionsAssumption
<1> USE DEF ExecuteSyncInSpan, SpanStatement, EndSpan
<1>1. DbInv /\ QueueInv /\ GateInv /\ JsType  BY DEF IOSInv
<1>2. js = "span" /\ owner = Span  BY <1>1 DEF DbInv, Held, SuspendedForSpan
<1>3. UNCHANGED <<queue, block, worked, answers, gateVars, open, isOpen, pc, spans>>
  BY DEF queueVars, jsVars
<1>4. QueueInv'  BY <1>1, <1>3 DEF QueueInv
<1>5. GateInv'  BY <1>1, <1>3, SameGate
<1>6. stmts' \in 0..MaxStmts /\ js' \in JsState  BY <1>1 DEF JsType, jsVars, JsState
<1>7. JsType'  BY <1>1, <1>3, <1>6 DEF JsType
<1>8. DbInv'
  <2>1. CASE ExecuteSyncInSpan \/ SpanStatement
    <3>1. UNCHANGED <<open, owner, suspended, js>>
      BY <2>1 DEF queueVars, jsVars
    <3>2. Held'  BY <1>1, <1>2, <3>1, SameHeld DEF DbInv
    <3>3. \E w \in {Span, Sync} : Ran(w)  BY <2>1
    <3> QED  BY <1>1, <1>2, <3>1, <3>2, <3>3, RanInv DEF Who
  <2>2. CASE EndSpan
    <3>1. open' \in BOOLEAN  BY <1>1, <1>3 DEF DbInv, DbType
    <3> QED  BY <1>1, <1>2, <2>2, <3>1, EndInv
  <2> QED  BY <2>1, <2>2
<1> QED  BY <1>4, <1>5, <1>7, <1>8 DEF IOSInv

LEMMA CloseInv ==
  ASSUME IOSInv, Close
  PROVE  IOSInv'
<1> USE TransactionsAssumption DEF Close
<1>1. DbInv /\ QueueInv /\ GateInv /\ JsType  BY DEF IOSInv
<1>2. GateInv'
  <2>1. gate' = FALSE /\ active' = None /\ waiting' = <<>>  OBVIOUS
  <2>2. <<>> \in Seq(Txs)  OBVIOUS
  <2>3. WaitersAreServed'  BY <2>1 DEF WaitersAreServed
  <2> QED  BY <2>1, <2>2, <2>3 DEF GateInv
<1>3. JsType'  BY <1>1 DEF JsType, JsState
<1>4. Rejections \in Seq(Answer)
  <2>1. \A i \in 1..Len(waiting) : [op |-> "begin", by |-> waiting[i], ok |-> FALSE] \in Answer
    BY <1>1 DEF GateInv, Answer, TxOps
  <2>2. Rejections \in [1..Len(waiting) -> Answer] /\ Len(waiting) \in Nat
    BY <1>1, <2>1 DEF Rejections, GateInv
  <2> QED  BY <2>2
<1>5. answers' \in Seq(Answer)  BY <1>1, <1>4 DEF ToldAtClose, QueueInv
<1>6. [op |-> "close", by |-> Plain] \in Task  BY DEF Task
<1>7. QueueInv'  BY <1>1, <1>5, <1>6, PutInv
<1>8. DbInv'
  <2>1. CASE js = "span"
    <3>1. open' \in BOOLEAN  BY <1>1 DEF DbInv, DbType
    <3> QED  BY <1>1, <2>1, <3>1, EndInv
  <2>2. CASE js # "span"
    <3>1. ~suspended /\ owner # Span
      BY <1>1, <2>2 DEF JsFree, DbInv, Held, SuspendedForSpan
    <3>2. UNCHANGED <<dbVars, suspended>> /\ js' = js
      BY <1>1, <2>2, <3>1 DEF JsFree, dbVars, DbInv, DbType
    <3>3. Held'  BY <1>1, <3>2, SameHeld DEF dbVars, DbInv
    <3> QED  BY <1>1, <3>2, <3>3, SameDb
  <2> QED  BY <2>1, <2>2
<1> QED  BY <1>2, <1>3, <1>7, <1>8 DEF IOSInv

-----------------------------------------------------------------------------
(* The invariant, and the theorems.                                        *)

LEMMA InitInv == Init => IOSInv
<1> SUFFICES ASSUME Init PROVE IOSInv
  OBVIOUS
<1> USE TransactionsAssumption DEF Init
<1>1. DbInv
  <2>1. SpanIsAirtight  BY DEF SpanIsAirtight, Units
  <2> QED  BY <2>1 DEF DbInv, DbType, SuspendedForSpan, Held
<1>2. QueueInv
  <2>1. <<>> \in Seq(Task) /\ <<>> \in Seq(Answer)  OBVIOUS
  <2>2. queue = <<>> /\ block = "start" /\ worked = FALSE /\ answers = <<>>  OBVIOUS
  <2> QED  BY <2>1, <2>2 DEF QueueInv
<1>3. GateInv
  <2>1. <<>> \in Seq(Txs)  OBVIOUS
  <2>2. gate = FALSE /\ active = None /\ waiting = <<>>  OBVIOUS
  <2> QED  BY <2>1, <2>2 DEF GateInv, WaitersAreServed
<1>4. JsType  BY DEF JsType, JsState, PC
<1> QED  BY <1>1, <1>2, <1>3, <1>4 DEF IOSInv

LEMMA NextInv == IOSInv /\ [Next]_vars => IOSInv'
<1> SUFFICES ASSUME IOSInv, [Next]_vars PROVE IOSInv'
  OBVIOUS
<1>1. CASE QueueStep
  BY <1>1, WorkInv, GateStepInv, WorkSyncInv DEF QueueStep
<1>2. CASE HearStep  BY <1>2, HearInv
<1>3. CASE JsStep
  BY <1>3, CallInv, OtherCallInv, SpanInv, CloseInv DEF JsStep
<1>4. CASE ExecuteSyncSends \/ BeginSyncSends  BY <1>4, OtherCallInv
<1>5. CASE EndSpan  BY <1>5, SpanInv
<1>6. CASE UNCHANGED vars
  BY <1>6 DEF vars, queueVars, gateVars, dbVars, jsVars, IOSInv, DbInv, DbType,
     SuspendedForSpan, Held, SpanIsAirtight, Units, QueueInv, GateInv,
     WaitersAreServed, JsType
<1> QED  BY <1>1, <1>2, <1>3, <1>4, <1>5, <1>6 DEF Next

\* The history of lost transactions is set by the queue only, and never reset.
LEMMA UndoneNext ==
  [Next]_vars /\ undone \in BOOLEAN => undone' \in BOOLEAN /\ (undone => undone')
<1> SUFFICES ASSUME [Next]_vars, undone \in BOOLEAN
             PROVE  undone' \in BOOLEAN /\ (undone => undone')
  OBVIOUS
<1>1. undone' = undone \/ undone' = TRUE
  BY DEF Next, QueueStep, HearStep, JsStep, WorkBegin, WorkExec, WorkCommit, WorkRollback, Release,
         Flush, WorkSync, WorkSuspend, WorkClose, HearBegin, HearStatement, HearCommit,
         HearRollback, HearOther, Heard, Begin, Statement, LooseStatement, SyncStatement,
         BodyEnds, PlainStatement, ExecuteSync, ExecuteSyncInSpan, BeginSync, SpanStatement,
         Close, ExecuteSyncSends, BeginSyncSends, EndSpan, dbVars, vars
<1> QED  BY <1>1

LEMMA InvAlways == Spec => []IOSInv
BY InitInv, NextInv, PTL DEF Spec

\* The history of lost transactions is Boolean.
LEMMA UndoneType == Spec => [](undone \in BOOLEAN)
<1>1. Init => undone \in BOOLEAN  BY Zenon DEF Init
<1>2. undone \in BOOLEAN /\ [Next]_vars => (undone \in BOOLEAN)'  BY UndoneNext
<1> QED  BY <1>1, <1>2, PTL DEF Spec

\* Every variable holds a value of its type, however many transactions there are.
THEOREM IOSTypeCorrect == Spec => []TypeOK
<1>1. IOSInv /\ undone \in BOOLEAN => TypeOK
  BY DEF IOSInv, DbInv, DbType, QueueInv, GateInv, JsType, TypeOK
<1> QED  BY <1>1, InvAlways, UndoneType, PTL

\* The queue is suspended exactly while a span's transaction is open, on every
\* path that suspends or resumes it.
THEOREM SuspensionCorrect == Spec => []SuspendedForSpan
<1>1. IOSInv => SuspendedForSpan  BY DEF IOSInv, DbInv
<1> QED  BY <1>1, InvAlways, PTL

\* Nothing but its callback's synchronous statements is ever in a span.
THEOREM SpanIsolation == Spec => []SpanIsAirtight
<1>1. IOSInv => SpanIsAirtight  BY DEF IOSInv, DbInv
<1> QED  BY <1>1, InvAlways, PTL

\* The list of the transactions that wait is never left without a block that
\* will start the first of them.
THEOREM NoWaiterForgotten == Spec => []WaitersAreServed
<1>1. IOSInv => WaitersAreServed  BY DEF IOSInv, GateInv
<1> QED  BY <1>1, InvAlways, PTL
-----------------------------------------------------------------------------
(***************************************************************************)
(* The gate.  While the database is open and no transaction() has lost its *)
(* transaction, the gate is held for one transaction() from its BEGIN to   *)
(* the end of the block that ends it, and SQLite's open transaction is     *)
(* that one's; so no BEGIN finds another one open, and none is refused.    *)
(* Who waits for what is known, because transaction() awaits one answer at *)
(* a time: what is on its way for it is one thing only.                    *)
(***************************************************************************)

\* The blocks on the queue that have not answered yet.
Pend == IF block = "flush" THEN Tail(queue) ELSE queue

\* What transaction() awaits an answer to, and where it is meanwhile.
Awaited == {"begin", "await", "commit", "rollback"}
Waiting(op) == IF op = "await" THEN "stmt" ELSE op

\* Nothing in s is awaited by t.
Quiet(s, t) == \A i \in DOMAIN s : s[i].op \in Awaited => s[i].by # t

\* What is awaited in s is awaited by a transaction() that waits for it ...
Expected(s) == \A i \in DOMAIN s : s[i].op \in Awaited => pc[s[i].by] = Waiting(s[i].op)

\* ... and for nothing else: not in s, nor in r.
OneEach(s) ==
  \A i, j \in DOMAIN s :
    s[i].op \in Awaited /\ s[j].op \in Awaited /\ s[i].by = s[j].by => i = j
Apart(s, r) == \A i \in DOMAIN s : s[i].op \in Awaited => Quiet(r, s[i].by)

\* Those in the list wait for their BEGIN, once each, and have sent nothing.
ListWaits ==
  /\ \A i \in DOMAIN waiting :
       pc[waiting[i]] = "begin" /\ Quiet(Pend, waiting[i]) /\ Quiet(answers, waiting[i])
  /\ \A i, j \in DOMAIN waiting : waiting[i] = waiting[j] => i = j

OneAwaited ==
  /\ Expected(Pend) /\ OneEach(Pend)
  /\ Expected(answers) /\ OneEach(answers)
  /\ Apart(Pend, answers) /\ ListWaits

\* The gate is taken for one transaction, and the transaction that is open is its.
GateHeld ==
  /\ gate <=> active # None
  /\ owner \in Txs => active = owner

\* The block that ends its transaction and has done so.
Ended(i) == i = 1 /\ block = "release"

\* Who holds the gate at i: the BEGIN of a transaction that is not open, or the
\* end of one that is.
InTurn(i) ==
  /\ Pend[i].op \in Ending => active = Pend[i].by
  /\ Pend[i].op = "begin" => owner # Pend[i].by
  /\ Pend[i].op \in {"commit", "rollback"} /\ ~Ended(i) => owner = Pend[i].by
  /\ Pend[i].op # "close"

EndedWell ==
  block = "release" =>
    /\ Head(queue).op \in {"commit", "rollback"} /\ owner \notin Txs
    /\ Head(queue).op = "commit" => worked

\* An answer that tells no transaction() that it was turned away, or that its
\* COMMIT failed.
Welcome(a) ==
  /\ a.op = "begin" => a.ok /\ owner = a.by
  /\ a.op = "commit" => a.ok

\* Between its BEGIN and its end a transaction() has its transaction.
HasTransaction == \A t \in Txs : pc[t] \in {"body", "stmt"} => owner = t

InTurns       == \A i \in DOMAIN Pend : InTurn(i)
Welcomes      == \A i \in DOMAIN answers : Welcome(answers[i])
NobodyRefused == \A t \in Txs : pc[t] # "refused"

TurnInv ==
  /\ OneAwaited /\ GateHeld /\ EndedWell /\ HasTransaction
  /\ InTurns /\ Welcomes /\ open /\ NobodyRefused

Orderly == isOpen /\ ~undone

\* Losing the head: nothing of what was expected is there twice.
LEMMA TailAwaited ==
  ASSUME NEW S, NEW s \in Seq(S), s # <<>>
  PROVE  /\ Expected(s) => Expected(Tail(s))
         /\ OneEach(s) => OneEach(Tail(s))
         /\ OneEach(s) /\ Head(s).op \in Awaited => Quiet(Tail(s), Head(s).by)
         /\ \A t : Quiet(s, t) => Quiet(Tail(s), t)
<1>1. /\ Len(Tail(s)) = Len(s) - 1 /\ DOMAIN s = 1..Len(s) /\ Len(s) \in Nat
      /\ DOMAIN Tail(s) = 1..Len(Tail(s)) /\ Len(s) >= 1
  OBVIOUS
<1>2. \A i \in DOMAIN Tail(s) : Tail(s)[i] = s[i+1] /\ i + 1 \in DOMAIN s /\ i + 1 # 1  BY <1>1
<1>3. Head(s) = s[1] /\ 1 \in DOMAIN s  BY <1>1
<1>4. Expected(s) => Expected(Tail(s))  BY <1>2 DEF Expected
<1>5. ASSUME OneEach(s)  PROVE OneEach(Tail(s))
  <2> SUFFICES ASSUME NEW i \in DOMAIN Tail(s), NEW j \in DOMAIN Tail(s),
                      Tail(s)[i].op \in Awaited, Tail(s)[j].op \in Awaited,
                      Tail(s)[i].by = Tail(s)[j].by
               PROVE  i = j
    BY DEF OneEach
  <2>1. i + 1 = j + 1  BY <1>2, <1>5 DEF OneEach
  <2> QED  BY <1>1, <2>1
<1>6. OneEach(s) /\ Head(s).op \in Awaited => Quiet(Tail(s), Head(s).by)
  BY <1>2, <1>3 DEF OneEach, Quiet
<1>7. \A t : Quiet(s, t) => Quiet(Tail(s), t)  BY <1>2 DEF Quiet
<1> QED  BY <1>4, <1>5, <1>6, <1>7

\* Gaining an entry at the end.
LEMMA AppendAwaited ==
  ASSUME NEW S, NEW s \in Seq(S), NEW e \in S
  PROVE  /\ OneEach(s) /\ (e.op \in Awaited => Quiet(s, e.by)) => OneEach(Append(s, e))
         /\ Expected(s) /\ (e.op \in Awaited => pc[e.by] = Waiting(e.op))
              => Expected(Append(s, e))
         /\ \A t : Quiet(s, t) /\ (e.op \in Awaited => e.by # t) => Quiet(Append(s, e), t)
<1>1. /\ DOMAIN s = 1..Len(s) /\ DOMAIN Append(s, e) = 1..(Len(s) + 1) /\ Len(s) \in Nat
  OBVIOUS
<1>2. ASSUME NEW i \in DOMAIN Append(s, e)
      PROVE  \/ i \in DOMAIN s /\ Append(s, e)[i] = s[i]
             \/ i = Len(s) + 1 /\ Append(s, e)[i] = e
  BY <1>1
<1>3. ASSUME OneEach(s), e.op \in Awaited => Quiet(s, e.by)  PROVE OneEach(Append(s, e))
  <2> SUFFICES ASSUME NEW i \in DOMAIN Append(s, e), NEW j \in DOMAIN Append(s, e),
                      Append(s, e)[i].op \in Awaited, Append(s, e)[j].op \in Awaited,
                      Append(s, e)[i].by = Append(s, e)[j].by
               PROVE  i = j
    BY DEF OneEach
  <2> QED  BY <1>2, <1>3 DEF OneEach, Quiet
<1>4. Expected(s) /\ (e.op \in Awaited => pc[e.by] = Waiting(e.op)) => Expected(Append(s, e))
  BY <1>2 DEF Expected
<1>5. \A t : Quiet(s, t) /\ (e.op \in Awaited => e.by # t) => Quiet(Append(s, e), t)
  BY <1>2 DEF Quiet
<1> QED  BY <1>3, <1>4, <1>5

\* The blocks that wait for an answer, as the queue grows.
LEMMA PendType ==
  ASSUME QueueInv
  PROVE  /\ Pend \in Seq(Task) /\ answers \in Seq(Answer)
         /\ block # "flush" => Pend = queue
         /\ \A i \in DOMAIN Pend : Pend[i].op \in Awaited => Pend[i].by \in Txs
         /\ \A i \in DOMAIN answers : answers[i].op \in Awaited => answers[i].by \in Txs
<1>1. Pend \in Seq(Task) /\ answers \in Seq(Answer)  BY HeadOfQueue DEF QueueInv, Pend
<1>2. block # "flush" => Pend = queue  BY DEF Pend
<1>3. \A e \in Task : e.op \in Awaited => e.by \in Txs  BY DEF Task, Awaited
<1>4. \A e \in Answer : e.op \in Awaited => e.by \in Txs  BY DEF Answer, Awaited
<1> QED  BY <1>1, <1>2, <1>3, <1>4

LEMMA PutPend ==
  ASSUME QueueInv, NEW op, NEW w, [op |-> op, by |-> w] \in Task, Put(op, w), block' = block
  PROVE  Pend' = Append(Pend, [op |-> op, by |-> w])
<1> DEFINE e == [op |-> op, by |-> w]
<1>1. queue' = Append(queue, e) /\ queue \in Seq(Task) /\ e \in Task  BY DEF Put, QueueInv
<1> HIDE DEF e
<1>2. CASE block = "flush"
  <2>1. queue # <<>>  BY <1>2 DEF QueueInv
  <2>2. Tail(Append(queue, e)) = Append(Tail(queue), e)
    BY <1>1, <2>1
  <2> QED  BY <1>1, <1>2, <2>2 DEF Pend, e
<1>3. CASE block # "flush"  BY <1>1, <1>3 DEF Pend, e
<1> QED  BY <1>2, <1>3

\* A transaction() that waits for nothing has nothing on its way.
LEMMA NothingOnTheWay ==
  ASSUME OneAwaited, NEW t, \A op \in Awaited : pc[t] # Waiting(op)
  PROVE  Quiet(Pend, t) /\ Quiet(answers, t) /\ \A i \in DOMAIN waiting : waiting[i] # t
<1>1. Quiet(Pend, t) /\ Quiet(answers, t)  BY DEF OneAwaited, Expected, Quiet
<1>2. \A i \in DOMAIN waiting : waiting[i] # t
  BY DEF OneAwaited, ListWaits, Waiting, Awaited
<1> QED  BY <1>1, <1>2

\* The answer of a block takes its place.
LEMMA AnsweredAwaited ==
  ASSUME QueueInv, OneAwaited, Pend # <<>>, NEW a \in Answer,
         a.op = Head(Pend).op, a.by = Head(Pend).by,
         Pend' = Tail(Pend), answers' = Append(answers, a), UNCHANGED <<pc, waiting>>
  PROVE  OneAwaited'
<1> DEFINE h == Head(Pend)
<1>1. Pend \in Seq(Task) /\ answers \in Seq(Answer) /\ Tail(Pend) \in Seq(Task)  BY PendType
<1>2. h = Pend[1] /\ 1 \in DOMAIN Pend  BY <1>1
<1>3. h.op \in Awaited => pc[h.by] = Waiting(h.op) /\ Quiet(answers, h.by)
  BY <1>2 DEF OneAwaited, Expected, Apart
<1>4. /\ Expected(Tail(Pend)) /\ OneEach(Tail(Pend))
      /\ h.op \in Awaited => Quiet(Tail(Pend), h.by)
      /\ \A t : Quiet(Pend, t) => Quiet(Tail(Pend), t)
  BY <1>1, TailAwaited DEF OneAwaited
<1>5. Expected(Append(answers, a)) /\ OneEach(Append(answers, a))
  BY <1>1, <1>3, AppendAwaited DEF OneAwaited
<1>6. Apart(Tail(Pend), Append(answers, a))
  <2> SUFFICES ASSUME NEW i \in DOMAIN Tail(Pend), Tail(Pend)[i].op \in Awaited
               PROVE  Quiet(Append(answers, a), Tail(Pend)[i].by)
    BY DEF Apart
  <2>1. Tail(Pend)[i] = Pend[i + 1] /\ i + 1 \in DOMAIN Pend  BY <1>1
  <2>2. Quiet(answers, Tail(Pend)[i].by)  BY <2>1 DEF OneAwaited, Apart
  <2>3. a.op \in Awaited => a.by # Tail(Pend)[i].by  BY <1>4 DEF Quiet
  <2> QED  BY <1>1, <2>2, <2>3, AppendAwaited
<1>7. ASSUME NEW i \in DOMAIN waiting
      PROVE  Quiet(Tail(Pend), waiting[i]) /\ Quiet(Append(answers, a), waiting[i])
  <2>1. Quiet(Pend, waiting[i]) /\ Quiet(answers, waiting[i])  BY DEF OneAwaited, ListWaits
  <2>2. h.op \in Awaited => h.by # waiting[i]  BY <1>2, <2>1 DEF Quiet
  <2> QED  BY <1>1, <1>4, <2>1, <2>2, AppendAwaited
<1>8. ListWaits'  BY <1>7 DEF OneAwaited, ListWaits, Quiet
<1> QED  BY <1>4, <1>5, <1>6, <1>8 DEF OneAwaited, Expected, OneEach, Apart, Quiet

\* A block that nobody awaits ends, or one is sent.
LEMMA DroppedAwaited ==
  ASSUME QueueInv, OneAwaited, Pend # <<>>,
         Pend' = Tail(Pend), UNCHANGED <<answers, pc, waiting>>
  PROVE  OneAwaited'
<1>1. Pend \in Seq(Task) /\ answers \in Seq(Answer)  BY PendType
<1>2. /\ Expected(Tail(Pend)) /\ OneEach(Tail(Pend))
      /\ \A t : Quiet(Pend, t) => Quiet(Tail(Pend), t)
  BY <1>1, TailAwaited DEF OneAwaited
<1>3. \A i \in DOMAIN Tail(Pend) : Tail(Pend)[i] = Pend[i + 1] /\ i + 1 \in DOMAIN Pend  BY <1>1
<1>4. Apart(Tail(Pend), answers)  BY <1>3 DEF OneAwaited, Apart
<1>5. ListWaits'  BY <1>2 DEF OneAwaited, ListWaits, Quiet
<1> QED  BY <1>2, <1>4, <1>5 DEF OneAwaited, Expected, OneEach, Apart, Quiet

LEMMA SameAwaited ==
  ASSUME OneAwaited, UNCHANGED <<Pend, answers, pc, waiting>>
  PROVE  OneAwaited'
BY DEF OneAwaited, Expected, OneEach, Apart, ListWaits, Quiet

\* One transaction() goes on to wait for nothing it is still to send, while nothing
\* of it is on its way: what is awaited elsewhere stays so.
LEMMA ElsewhereAwaited ==
  ASSUME QueueInv, GateInv, OneAwaited, NEW w, Quiet(Pend, w), Quiet(answers, w),
         \A i \in DOMAIN waiting : waiting[i] # w,
         \A t \in Txs : t # w => pc'[t] = pc[t]
  PROVE  /\ \A i \in DOMAIN Pend : Pend[i].op \in Awaited => pc'[Pend[i].by] = Waiting(Pend[i].op)
         /\ \A i \in DOMAIN answers :
              answers[i].op \in Awaited => pc'[answers[i].by] = Waiting(answers[i].op)
         /\ \A i \in DOMAIN waiting : pc'[waiting[i]] = "begin"
<1>1. \A i \in DOMAIN waiting : waiting[i] \in Txs  BY DEF GateInv
<1> QED  BY <1>1, PendType DEF OneAwaited, Expected, ListWaits, Quiet

\* A task of one transaction(), while the others stay where they are: an awaited
\* one if nothing of it was on its way, or one that nobody awaits.
LEMMA PutAwaited ==
  ASSUME QueueInv, GateInv, OneAwaited, NEW e \in Task, Pend' = Append(Pend, e),
         UNCHANGED <<answers, waiting>>,
         \A t \in Txs : t # e.by => pc'[t] = pc[t],
         IF e.op \in Awaited
           THEN /\ Quiet(Pend, e.by) /\ Quiet(answers, e.by) /\ pc'[e.by] = Waiting(e.op)
                /\ \A i \in DOMAIN waiting : waiting[i] # e.by
           ELSE UNCHANGED pc
  PROVE  OneAwaited'
<1>1. Pend \in Seq(Task) /\ answers \in Seq(Answer)  BY PendType
<1>2. OneEach(Append(Pend, e))  BY <1>1, AppendAwaited DEF OneAwaited
<1>3. ASSUME NEW i \in DOMAIN Append(Pend, e)
      PROVE  \/ i \in DOMAIN Pend /\ Append(Pend, e)[i] = Pend[i]
             \/ Append(Pend, e)[i] = e
  BY <1>1
<1>4. ASSUME NEW i \in DOMAIN Append(Pend, e), Append(Pend, e)[i].op \in Awaited
      PROVE  Quiet(answers, Append(Pend, e)[i].by)
  BY <1>3, <1>4 DEF OneAwaited, Apart
<1>5. /\ \A i \in DOMAIN Pend : Pend[i].op \in Awaited => pc'[Pend[i].by] = Waiting(Pend[i].op)
      /\ \A i \in DOMAIN answers :
           answers[i].op \in Awaited => pc'[answers[i].by] = Waiting(answers[i].op)
      /\ \A i \in DOMAIN waiting : pc'[waiting[i]] = "begin"
  <2>1. CASE e.op \in Awaited  BY <2>1, ElsewhereAwaited
  <2>2. CASE e.op \notin Awaited  BY <2>2 DEF OneAwaited, Expected, ListWaits
  <2> QED  BY <2>1, <2>2
<1>6. ASSUME NEW i \in DOMAIN Append(Pend, e), Append(Pend, e)[i].op \in Awaited
      PROVE  pc'[Append(Pend, e)[i].by] = Waiting(Append(Pend, e)[i].op)
  BY <1>3, <1>5, <1>6
<1>7. Expected(Pend)' /\ Expected(answers)'  BY <1>5, <1>6 DEF Expected
<1>8. Apart(Pend, answers)'  BY <1>4 DEF Apart, Quiet
<1>9. ASSUME NEW i \in DOMAIN waiting  PROVE Quiet(Append(Pend, e), waiting[i])
  BY <1>1, AppendAwaited DEF OneAwaited, ListWaits
<1>10. ListWaits'  BY <1>5, <1>9 DEF OneAwaited, ListWaits, Quiet
<1> QED  BY <1>2, <1>7, <1>8, <1>10 DEF OneAwaited, OneEach

\* The first of the list is started.
LEMMA StartedAwaited ==
  ASSUME QueueInv, GateInv, OneAwaited, waiting # <<>>, NEW e \in Task,
         e = [op |-> "begin", by |-> Head(waiting)], Pend' = Append(Pend, e),
         waiting' = Tail(waiting), UNCHANGED <<answers, pc>>
  PROVE  OneAwaited'
<1>1. Pend \in Seq(Task) /\ answers \in Seq(Answer)  BY PendType
<1>2. /\ Head(waiting) = waiting[1] /\ 1 \in DOMAIN waiting
      /\ \A i \in DOMAIN Tail(waiting) :
           Tail(waiting)[i] = waiting[i + 1] /\ i + 1 \in DOMAIN waiting /\ i + 1 # 1
  BY DEF GateInv
<1>3. e.op = "begin" /\ e.by = waiting[1]  BY <1>2
<1>4. Quiet(Pend, e.by) /\ Quiet(answers, e.by) /\ pc[e.by] = Waiting(e.op)
  BY <1>2, <1>3 DEF OneAwaited, ListWaits, Waiting
<1>5. OneEach(Append(Pend, e)) /\ Expected(Append(Pend, e))
  BY <1>1, <1>4, AppendAwaited DEF OneAwaited
<1>6. ASSUME NEW i \in DOMAIN Append(Pend, e), Append(Pend, e)[i].op \in Awaited
      PROVE  Quiet(answers, Append(Pend, e)[i].by)
  <2>1. \/ i \in DOMAIN Pend /\ Append(Pend, e)[i] = Pend[i]
        \/ Append(Pend, e)[i] = e
    BY <1>1
  <2> QED  BY <1>4, <1>6, <2>1 DEF OneAwaited, Apart
<1>7. ASSUME NEW i \in DOMAIN Tail(waiting)  PROVE Quiet(Append(Pend, e), Tail(waiting)[i])
  <2>1. e.by # Tail(waiting)[i]  BY <1>2, <1>3 DEF OneAwaited, ListWaits
  <2>2. Quiet(Pend, Tail(waiting)[i])  BY <1>2 DEF OneAwaited, ListWaits
  <2> QED  BY <1>1, <2>1, <2>2, AppendAwaited
<1>8. ListWaits'
  <2>1. ASSUME NEW i \in DOMAIN Tail(waiting), NEW j \in DOMAIN Tail(waiting),
               Tail(waiting)[i] = Tail(waiting)[j]
        PROVE  i = j
    <3>1. i + 1 = j + 1  BY <1>2, <2>1 DEF OneAwaited, ListWaits
    <3>2. i \in Nat /\ j \in Nat  BY DEF GateInv
    <3> QED  BY <3>1, <3>2
  <2>2. \A i \in DOMAIN Tail(waiting) :
          pc[Tail(waiting)[i]] = "begin" /\ Quiet(answers, Tail(waiting)[i])
    BY <1>2 DEF OneAwaited, ListWaits
  <2> QED  BY <1>7, <2>1, <2>2 DEF ListWaits, Quiet
<1> QED  BY <1>5, <1>6, <1>8 DEF OneAwaited, Expected, OneEach, Apart, Quiet

\* One more joins the list.
LEMMA ListedAwaited ==
  ASSUME QueueInv, GateInv, OneAwaited, NEW t \in Txs, Quiet(Pend, t), Quiet(answers, t),
         \A i \in DOMAIN waiting : waiting[i] # t,
         pc'[t] = "begin", \A w \in Txs : w # t => pc'[w] = pc[w],
         waiting' = Append(waiting, t), UNCHANGED <<Pend, answers>>
  PROVE  OneAwaited'
<1>1. /\ \A i \in DOMAIN Pend : Pend[i].op \in Awaited => pc'[Pend[i].by] = Waiting(Pend[i].op)
      /\ \A i \in DOMAIN answers :
           answers[i].op \in Awaited => pc'[answers[i].by] = Waiting(answers[i].op)
      /\ \A i \in DOMAIN waiting : pc'[waiting[i]] = "begin"
  BY ElsewhereAwaited
<1>2. Expected(Pend)' /\ Expected(answers)'  BY <1>1 DEF Expected
<1>3. ASSUME NEW i \in DOMAIN Append(waiting, t)
      PROVE  \/ i \in DOMAIN waiting /\ Append(waiting, t)[i] = waiting[i]
             \/ i = Len(waiting) + 1 /\ i \notin DOMAIN waiting /\ Append(waiting, t)[i] = t
  BY DEF GateInv
<1>4. ASSUME NEW i \in DOMAIN Append(waiting, t)
      PROVE  /\ pc'[Append(waiting, t)[i]] = "begin"
             /\ Quiet(Pend, Append(waiting, t)[i]) /\ Quiet(answers, Append(waiting, t)[i])
  BY <1>1, <1>3 DEF OneAwaited, ListWaits
<1>5. ASSUME NEW i \in DOMAIN Append(waiting, t), NEW j \in DOMAIN Append(waiting, t),
             Append(waiting, t)[i] = Append(waiting, t)[j]
      PROVE  i = j
  BY <1>3, <1>5 DEF OneAwaited, ListWaits
<1>6. ListWaits'  BY <1>4, <1>5 DEF ListWaits, Quiet
<1> QED  BY <1>2, <1>6 DEF OneAwaited, OneEach, Apart, Quiet

\* An answer nobody awaits.
LEMMA RefusedAwaited ==
  ASSUME QueueInv, OneAwaited, NEW a \in Answer, a.op \notin Awaited,
         answers' = Append(answers, a), UNCHANGED <<Pend, pc, waiting>>
  PROVE  OneAwaited'
<1>1. answers \in Seq(Answer)  BY PendType
<1>2. /\ OneEach(Append(answers, a)) /\ Expected(Append(answers, a))
      /\ \A t : Quiet(answers, t) => Quiet(Append(answers, a), t)
  BY <1>1, AppendAwaited DEF OneAwaited
<1> QED  BY <1>2 DEF OneAwaited, Expected, OneEach, Apart, ListWaits, Quiet

\* An answer is heard, and nothing of its transaction() is on its way any more.
LEMMA HeardAwaited ==
  ASSUME QueueInv, OneAwaited, answers # <<>>
  PROVE  /\ Expected(Tail(answers)) /\ OneEach(Tail(answers)) /\ Apart(Pend, Tail(answers))
         /\ \A t : Quiet(answers, t) => Quiet(Tail(answers), t)
         /\ Head(answers).op \in Awaited =>
              /\ pc[It] = Waiting(Head(answers).op)
              /\ Quiet(Pend, It) /\ Quiet(Tail(answers), It)
              /\ \A i \in DOMAIN waiting : waiting[i] # It
<1>1. Pend \in Seq(Task) /\ answers \in Seq(Answer)  BY PendType
<1>2. Head(answers) = answers[1] /\ 1 \in DOMAIN answers  BY <1>1
<1>3. /\ Expected(Tail(answers)) /\ OneEach(Tail(answers))
      /\ Head(answers).op \in Awaited => Quiet(Tail(answers), It)
      /\ \A t : Quiet(answers, t) => Quiet(Tail(answers), t)
  BY <1>1, TailAwaited DEF OneAwaited, It
<1>4. Apart(Pend, Tail(answers))  BY <1>3 DEF OneAwaited, Apart
<1>5. Head(answers).op \in Awaited => pc[It] = Waiting(Head(answers).op)
  BY <1>2 DEF OneAwaited, Expected, It
<1>6. Head(answers).op \in Awaited => Quiet(Pend, It)
  BY <1>2 DEF OneAwaited, Apart, Quiet, It
<1>7. Head(answers).op \in Awaited => \A i \in DOMAIN waiting : waiting[i] # It
  BY <1>2 DEF OneAwaited, ListWaits, Quiet, It
<1> QED  BY <1>3, <1>4, <1>5, <1>6, <1>7

-----------------------------------------------------------------------------
(* The steps.  What they do to TurnInv beside OneAwaited.                  *)

\* An entry that says nothing about the gate.
Idle(e) == e.op \notin Ending \cup {"close"}

\* Only one entry is about the gate: its transaction() awaits nothing else.
LEMMA OneEnding ==
  ASSUME OneAwaited, InTurns, NEW i \in DOMAIN Pend, Pend[i].op \in Ending
  PROVE  \A j \in DOMAIN Pend : j # i => Idle(Pend[j])
BY DEF OneAwaited, OneEach, InTurns, InTurn, Idle, Ending, Awaited

\* Nothing is about the gate while it is open.
LEMMA NoEnding ==
  ASSUME InTurns, active \notin Txs, QueueInv
  PROVE  \A i \in DOMAIN Pend : Idle(Pend[i])
<1>1. ASSUME NEW i \in DOMAIN Pend, Pend[i].op \in Ending  PROVE FALSE
  <2>1. Pend[i].by \in Txs  BY <1>1, PendType DEF Ending, Awaited
  <2> QED  BY <1>1, <2>1 DEF InTurns, InTurn
<1> QED  BY <1>1 DEF Idle, InTurns, InTurn

\* A block that leaves the gate and the connection alone ends, or is sent.
LEMMA TailInTurn ==
  ASSUME QueueInv, InTurns, Pend # <<>>, Pend' = Tail(Pend), UNCHANGED <<active, owner>>
  PROVE  InTurns'
<1>1. \A i \in DOMAIN Tail(Pend) :
        Tail(Pend)[i] = Pend[i + 1] /\ i + 1 \in DOMAIN Pend /\ i + 1 # 1
  BY PendType
<1> QED  BY <1>1 DEF InTurns, InTurn, Ended

LEMMA AppendInTurn ==
  ASSUME QueueInv, InTurns, NEW e \in Task, Pend' = Append(Pend, e),
         UNCHANGED <<active, owner, block>>,
         \/ Idle(e)
         \/ e.op \in {"commit", "rollback"} /\ active = e.by /\ owner = e.by
  PROVE  InTurns'
<1>1. ASSUME NEW i \in DOMAIN Append(Pend, e)
      PROVE  \/ i \in DOMAIN Pend /\ Append(Pend, e)[i] = Pend[i]
             \/ Append(Pend, e)[i] = e
  BY PendType
<1> QED  BY <1>1 DEF InTurns, InTurn, Ended, Idle, Ending

\* One answer more, which is welcome; or one less.
LEMMA AppendWelcome ==
  ASSUME QueueInv, Welcomes, NEW a \in Answer, answers' = Append(answers, a),
         a.op = "begin" => a.ok /\ owner' = a.by, a.op = "commit" => a.ok,
         \A i \in DOMAIN answers : answers[i].op = "begin" => owner' = owner
  PROVE  Welcomes'
<1>1. ASSUME NEW i \in DOMAIN Append(answers, a)
      PROVE  \/ i \in DOMAIN answers /\ Append(answers, a)[i] = answers[i]
             \/ Append(answers, a)[i] = a
  BY PendType
<1> QED  BY <1>1 DEF Welcomes, Welcome

LEMMA SameWelcome ==
  ASSUME QueueInv, Welcomes, UNCHANGED owner,
         answers' = answers \/ (answers # <<>> /\ answers' = Tail(answers))
  PROVE  Welcomes'
<1>1. answers # <<>> =>
        \A i \in DOMAIN Tail(answers) :
          Tail(answers)[i] = answers[i + 1] /\ i + 1 \in DOMAIN answers
  BY PendType
<1> QED  BY <1>1 DEF Welcomes, Welcome

\* Once t's transaction ends nobody has one: no answer of a BEGIN is left, and no
\* transaction() is in its callback.
LEMMA NobodyHas ==
  ASSUME QueueInv, OneAwaited, Welcomes, HasTransaction,
         owner \notin Txs \/ pc[owner] \in {"commit", "rollback"}
  PROVE  /\ \A i \in DOMAIN answers : answers[i].op # "begin"
         /\ \A t \in Txs : pc[t] \notin {"body", "stmt"}
<1>1. ASSUME NEW i \in DOMAIN answers, answers[i].op = "begin"  PROVE FALSE
  <2>1. answers[i].by \in Txs /\ owner = answers[i].by
    BY <1>1, PendType DEF Awaited, Welcomes, Welcome
  <2>2. pc[owner] = "begin"  BY <1>1, <2>1 DEF OneAwaited, Expected, Awaited, Waiting
  <2> QED  BY <2>1, <2>2
<1>2. \A t \in Txs : pc[t] \notin {"body", "stmt"}  BY DEF HasTransaction
<1> QED  BY <1>1, <1>2

\* While no transaction() has the connection, a span may take it or give it back.
LEMMA NotTheirs ==
  ASSUME QueueInv, InTurns, Welcomes, HasTransaction, owner \notin Txs, owner' \notin Txs,
         UNCHANGED <<active, answers, pc, block>>,
         Pend' = Pend \/ (Pend # <<>> /\ Pend' = Tail(Pend))
  PROVE  InTurns' /\ Welcomes' /\ HasTransaction'
<1>1. Pend # <<>> =>
        \A i \in DOMAIN Tail(Pend) : Tail(Pend)[i] = Pend[i + 1] /\ i + 1 \in DOMAIN Pend /\ i + 1 # 1
  BY PendType
<1>2. \A i \in DOMAIN Pend : Pend[i].op \in Ending => Pend[i].by \in Txs
  BY PendType DEF Ending, Awaited
<1>3. \A i \in DOMAIN Pend : Pend[i].op \in {"commit", "rollback"} => Ended(i)
  BY <1>2 DEF InTurns, InTurn, Ending
<1>4. \A i \in DOMAIN answers : answers[i].op # "begin"
  BY PendType DEF Welcomes, Welcome, Awaited
<1>5. Welcomes'  BY <1>4 DEF Welcomes, Welcome
<1>6. HasTransaction'  BY DEF HasTransaction
<1>7. CASE Pend' = Pend
  <2> SUFFICES ASSUME NEW i \in DOMAIN Pend  PROVE InTurn(i)'
    BY <1>4, <1>5, <1>6, <1>7 DEF InTurns
  <2>1. InTurn(i)  BY DEF InTurns
  <2>2. Pend'[i].op = "begin" => owner' # Pend'[i].by  BY <1>2, <1>7 DEF Ending
  <2>3. Pend'[i].op \in {"commit", "rollback"} => Ended(i)'  BY <1>3, <1>7 DEF Ended
  <2> QED  BY <1>7, <2>1, <2>2, <2>3 DEF InTurn
<1>8. CASE Pend # <<>> /\ Pend' = Tail(Pend)
  <2> SUFFICES ASSUME NEW i \in DOMAIN Tail(Pend)  PROVE InTurn(i)'
    BY <1>4, <1>5, <1>6, <1>8 DEF InTurns
  <2>1. Tail(Pend)[i] = Pend[i + 1] /\ i + 1 \in DOMAIN Pend /\ i + 1 # 1  BY <1>1, <1>8
  <2>2. InTurn(i + 1)  BY <2>1 DEF InTurns
  <2>3. Pend'[i].op = "begin" => owner' # Pend'[i].by  BY <1>2, <1>8, <2>1 DEF Ending
  <2>4. Pend'[i].op \notin {"commit", "rollback"}  BY <1>3, <1>8, <2>1 DEF Ended
  <2> QED  BY <1>8, <2>1, <2>2, <2>3, <2>4 DEF InTurn
<1> QED  BY <1>5, <1>6, <1>7, <1>8

\* Sending a block leaves the one that has ended its transaction in front.
LEMMA PutEnded ==
  ASSUME QueueInv, EndedWell, NEW op, NEW w, Put(op, w), UNCHANGED <<block, worked, owner>>
  PROVE  EndedWell'
<1> DEFINE e == [op |-> op, by |-> w]
<1>1. queue' = Append(queue, e)  BY DEF Put
<1> HIDE DEF e
<1>2. ASSUME block = "release"  PROVE Head(queue') = Head(queue)
  <2>1. queue \in Seq(Task) /\ queue # <<>>  BY <1>2 DEF QueueInv
  <2> QED  BY <1>1, <2>1
<1> QED  BY <1>2 DEF EndedWell

\* A step that has nothing to do with the gate.
LEMMA SameTurn ==
  ASSUME TurnInv, UNCHANGED <<queue, block, worked, gateVars, answers, open, owner, pc>>
  PROVE  TurnInv'
<1>1. Pend' = Pend  BY DEF Pend
<1>2. UNCHANGED <<gate, active, waiting>>  BY DEF gateVars
<1>3. OneAwaited'  BY <1>1, <1>2, SameAwaited DEF TurnInv
<1> QED
  BY <1>1, <1>2, <1>3 DEF TurnInv, GateHeld, EndedWell, HasTransaction, InTurns, InTurn, Ended,
     Welcomes, Welcome, NobodyRefused

-----------------------------------------------------------------------------
(* The queue's steps.                                                      *)

\* What is known of the block that runs.
LEMMA HeadTurn ==
  ASSUME IOSInv, TurnInv, Running, block # "flush"
  PROVE  /\ Pend = queue /\ Pend # <<>> /\ 1 \in DOMAIN Pend
         /\ Head(Pend) = Pend[1] /\ Me = Pend[1].by
         /\ Head(queue).op \in Awaited => Me \in Txs /\ pc[Me] = Waiting(Head(queue).op)
         /\ Head(queue).op \in Ending => active = Me
         /\ Head(queue).op = "begin" => owner = None
         /\ Head(queue).op \in {"commit", "rollback"} /\ block = "start" => owner = Me
         /\ Head(queue).op # "close"
<1>1. QueueInv /\ queue # <<>> /\ owner # Span /\ owner \in Txs \cup {Span, None}
  BY RunningMeans DEF IOSInv, DbInv, DbType
<1>2. Pend = queue /\ Pend \in Seq(Task)  BY <1>1, PendType
<1>3. 1 \in DOMAIN Pend /\ Head(Pend) = Pend[1]  BY <1>1, <1>2
<1>4. Me = Pend[1].by /\ Head(queue) = Pend[1]  BY <1>2, <1>3 DEF Me
<1>5. Head(queue).op \in Awaited => Me \in Txs /\ pc[Me] = Waiting(Head(queue).op)
  BY <1>1, <1>3, <1>4, PendType DEF TurnInv, OneAwaited, Expected
<1>6. /\ Head(queue).op \in Ending => active = Me
      /\ Head(queue).op = "begin" => owner # Me
      /\ Head(queue).op \in {"commit", "rollback"} /\ block = "start" => owner = Me
      /\ Head(queue).op # "close"
  BY <1>3, <1>4 DEF TurnInv, InTurns, InTurn, Ended
<1>7. Head(queue).op = "begin" => owner = None
  BY <1>1, <1>6 DEF TurnInv, GateHeld, Ending
<1> QED  BY <1>1, <1>2, <1>3, <1>4, <1>5, <1>6, <1>7

\* The answer of the block that runs, welcome to its transaction().
LEMMA ReplyTurn ==
  ASSUME IOSInv, TurnInv, Running, block # "flush", NEW ok \in BOOLEAN, Reply(ok),
         Head(queue).op \in TxOps, Pend' = Tail(Pend), UNCHANGED <<pc, waiting>>,
         Head(queue).op = "begin" => ok /\ owner' = Me, Head(queue).op = "commit" => ok,
         \A i \in DOMAIN answers : answers[i].op = "begin" => owner' = owner
  PROVE  OneAwaited' /\ Welcomes'
<1> DEFINE a == [op |-> Head(queue).op, by |-> Me, ok |-> ok]
<1>1. QueueInv /\ OneAwaited /\ Welcomes  BY DEF IOSInv, TurnInv
<1>2. Pend = queue /\ Pend # <<>>  BY HeadTurn
<1>3. a \in Answer  BY <1>1, <1>2, HeadOfQueue DEF Answer, TxOps
<1>4. /\ answers' = Append(answers, a) /\ a.op = Head(Pend).op /\ a.by = Head(Pend).by
      /\ a.op = Head(queue).op /\ a.by = Me /\ a.ok = ok
  BY <1>2 DEF Reply, Me
<1> HIDE DEF a
<1>5. OneAwaited'  BY <1>1, <1>2, <1>3, <1>4, AnsweredAwaited
<1>6. Welcomes'  BY <1>1, <1>3, <1>4, AppendWelcome
<1> QED  BY <1>5, <1>6

\* A block about the gate is over: none is left.
LEMMA OverInTurn ==
  ASSUME QueueInv, OneAwaited, InTurns, Pend # <<>>, Head(Pend).op \in Ending,
         Pend' = Tail(Pend)
  PROVE  InTurns'
<1>1. /\ 1 \in DOMAIN Pend /\ Head(Pend) = Pend[1]
      /\ \A i \in DOMAIN Tail(Pend) :
           Tail(Pend)[i] = Pend[i + 1] /\ i + 1 \in DOMAIN Pend /\ i + 1 # 1
  BY PendType
<1>2. \A i \in DOMAIN Tail(Pend) : Idle(Tail(Pend)[i])  BY <1>1, OneEnding
<1> QED  BY <1>2 DEF Idle, InTurns, InTurn, Ending

LEMMA BeginTurn ==
  ASSUME IOSInv, TurnInv, WorkBegin
  PROVE  TurnInv'
<1> USE TransactionsAssumption
<1>1. /\ QueueInv /\ OneAwaited /\ GateHeld /\ HasTransaction /\ InTurns /\ Welcomes
      /\ open /\ NobodyRefused
  BY DEF IOSInv, TurnInv
<1>2. Running /\ block = "start" /\ Head(queue).op = "begin"  BY DEF WorkBegin, Works
<1>3. /\ Pend = queue /\ Pend # <<>> /\ Me \in Txs /\ active = Me /\ owner = None
  BY <1>2, HeadTurn DEF Awaited, Ending
<1>4. owner' = Me /\ Reply(TRUE) /\ Done  BY <1>1, <1>3 DEF WorkBegin
<1>5. UNCHANGED <<gate, active, waiting, open, pc, block>>
  BY <1>4 DEF WorkBegin, Done, gateVars, jsVars
<1>6. Pend' = Tail(Pend)  BY <1>2, <1>3, <1>4, <1>5 DEF Pend, Done
<1>7. /\ \A i \in DOMAIN answers : answers[i].op # "begin"
      /\ \A t \in Txs : pc[t] \notin {"body", "stmt"}
  BY <1>1, <1>3, NobodyHas
<1>8. OneAwaited' /\ Welcomes'
  BY <1>2, <1>4, <1>5, <1>6, <1>7, ReplyTurn DEF TxOps
<1>9. InTurns'  BY <1>1, <1>2, <1>3, <1>6, OverInTurn DEF Ending
<1>10. GateHeld'  BY <1>1, <1>3, <1>4, <1>5 DEF GateHeld
<1>11. HasTransaction' /\ NobodyRefused'
  BY <1>1, <1>5, <1>7 DEF HasTransaction, NobodyRefused
<1>12. EndedWell'  BY <1>2, <1>5 DEF EndedWell
<1> QED  BY <1>1, <1>5, <1>8, <1>9, <1>10, <1>11, <1>12 DEF TurnInv

LEMMA ExecTurn ==
  ASSUME IOSInv, TurnInv, WorkExec
  PROVE  TurnInv'
<1>1. /\ QueueInv /\ OneAwaited /\ GateHeld /\ HasTransaction /\ InTurns /\ Welcomes
      /\ open /\ NobodyRefused
  BY DEF IOSInv, TurnInv
<1>2. Running /\ block = "start" /\ Head(queue).op \in {"exec", "await"}
  BY DEF WorkExec, Works
<1>3. Pend = queue /\ Pend # <<>>  BY <1>2, HeadTurn
<1>4. \E ok \in BOOLEAN : Reply(ok)  BY DEF WorkExec
<1>5. UNCHANGED <<gate, active, waiting, open, owner, pc, block>>
  BY DEF WorkExec, Done, gateVars, jsVars
<1>6. Pend' = Tail(Pend)  BY <1>2, <1>3, <1>5 DEF Pend, Done, WorkExec
<1>7. OneAwaited' /\ Welcomes'
  BY <1>2, <1>4, <1>5, <1>6, ReplyTurn DEF TxOps
<1>8. InTurns'  BY <1>1, <1>3, <1>5, <1>6, TailInTurn
<1>9. GateHeld' /\ HasTransaction' /\ NobodyRefused'
  BY <1>1, <1>5 DEF GateHeld, HasTransaction, NobodyRefused
<1>10. EndedWell'  BY <1>2, <1>5 DEF EndedWell
<1> QED  BY <1>1, <1>5, <1>7, <1>8, <1>9, <1>10 DEF TurnInv

\* The SQL that ends a transaction; a COMMIT that fails loses it.
LEMMA EndTurn ==
  ASSUME IOSInv, TurnInv, WorkCommit \/ WorkRollback, ~undone'
  PROVE  TurnInv'
<1> USE TransactionsAssumption
<1>1. /\ QueueInv /\ OneAwaited /\ GateHeld /\ HasTransaction /\ InTurns /\ Welcomes
      /\ open /\ NobodyRefused
  BY DEF IOSInv, TurnInv
<1>2. Running /\ block = "start" /\ Head(queue).op \in {"commit", "rollback"}
  BY DEF WorkCommit, WorkRollback, Works
<1>3. /\ Pend = queue /\ Pend # <<>> /\ 1 \in DOMAIN Pend /\ Head(queue) = Pend[1]
      /\ Me = Pend[1].by /\ active = Me /\ owner = Me /\ Me \in Txs
      /\ pc[Me] \in {"commit", "rollback"}
  BY <1>2, HeadTurn DEF Awaited, Ending, Waiting
<1>4. owner' = None  BY DEF WorkCommit, WorkRollback, Committed, RolledBack
<1>5. /\ block' = "release" /\ UNCHANGED queue
      /\ Head(queue).op = "commit" => worked'
  BY <1>2 DEF WorkCommit, WorkRollback, Works, ThenReleases
<1>6. UNCHANGED <<gate, active, waiting, answers, open, pc>>
  BY DEF WorkCommit, WorkRollback, gateVars, jsVars
<1>7. Pend' = Pend  BY <1>3, <1>5 DEF Pend
<1>8. OneAwaited'  BY <1>1, <1>6, <1>7, SameAwaited
<1>9. /\ \A i \in DOMAIN answers : answers[i].op # "begin"
      /\ \A t \in Txs : pc[t] \notin {"body", "stmt"}
  BY <1>1, <1>3, NobodyHas
<1>10. GateHeld'  BY <1>1, <1>4, <1>6 DEF GateHeld
<1>11. HasTransaction' /\ NobodyRefused'
  BY <1>1, <1>6, <1>9 DEF HasTransaction, NobodyRefused
<1>12. Welcomes'  BY <1>1, <1>6, <1>9 DEF Welcomes, Welcome
<1>13. EndedWell'  BY <1>2, <1>4, <1>5 DEF EndedWell
<1>14. InTurns'
  <2>1. \A i \in DOMAIN Pend : i # 1 => Idle(Pend[i])
    BY <1>1, <1>2, <1>3, OneEnding DEF Ending
  <2>2. \A i \in DOMAIN Pend : i # 1 => InTurn(i)'
    BY <1>7, <2>1 DEF Idle, InTurn, Ending
  <2>3. InTurn(1)'
    BY <1>2, <1>3, <1>5, <1>6, <1>7 DEF InTurn, Ended
  <2> QED  BY <1>7, <2>2, <2>3 DEF InTurns
<1> QED  BY <1>1, <1>6, <1>8, <1>10, <1>11, <1>12, <1>13, <1>14 DEF TurnInv

LEMMA ReleaseTurn ==
  ASSUME IOSInv, TurnInv, Release
  PROVE  TurnInv'
<1> USE TransactionsAssumption
<1>1. /\ QueueInv /\ OneAwaited /\ GateHeld /\ HasTransaction /\ InTurns /\ Welcomes
      /\ open /\ NobodyRefused /\ EndedWell
  BY DEF IOSInv, TurnInv
<1>2. Running /\ block = "release"  BY DEF Release
<1>3. /\ Head(queue).op \in {"commit", "rollback"} /\ owner \notin Txs
      /\ Head(queue).op = "commit" => worked
  BY <1>1, <1>2 DEF EndedWell
<1>4. Pend = queue /\ Pend # <<>> /\ active = Me  BY <1>2, <1>3, HeadTurn DEF Ending
<1>5. UNCHANGED <<queue, waiting, open, owner, pc>> /\ block' = "flush"
  BY DEF Release, dbVars, jsVars
<1>6. Pend' = Tail(Pend)  BY <1>4, <1>5 DEF Pend
<1>7. Reply(worked) /\ worked \in BOOLEAN  BY <1>1 DEF Release, QueueInv
<1>8. OneAwaited' /\ Welcomes'
  BY <1>2, <1>3, <1>5, <1>6, <1>7, ReplyTurn DEF TxOps
<1>9. InTurns'  BY <1>1, <1>3, <1>4, <1>6, OverInTurn DEF Ending
<1>10. gate' = FALSE /\ active' = None  BY <1>4 DEF Release, ActiveAfter
<1>11. GateHeld'  BY <1>3, <1>5, <1>10 DEF GateHeld
<1>12. HasTransaction' /\ NobodyRefused'  BY <1>1, <1>5 DEF HasTransaction, NobodyRefused
<1>13. EndedWell'  BY <1>5 DEF EndedWell
<1> QED  BY <1>1, <1>5, <1>8, <1>9, <1>11, <1>12, <1>13 DEF TurnInv

LEMMA FlushTurn ==
  ASSUME IOSInv, TurnInv, Flush
  PROVE  TurnInv'
<1> USE TransactionsAssumption
<1>1. /\ QueueInv /\ GateInv /\ OneAwaited /\ GateHeld /\ HasTransaction /\ InTurns /\ Welcomes
      /\ open /\ NobodyRefused
  BY DEF IOSInv, TurnInv
<1>2. block = "flush" /\ block' = "start" /\ Pend = Tail(queue)  BY DEF Flush, Pend
<1>3. UNCHANGED <<answers, open, owner, pc>>  BY DEF Flush, dbVars, jsVars
<1>4. Welcomes' /\ HasTransaction' /\ NobodyRefused'
  BY <1>1, <1>3 DEF Welcomes, Welcome, HasTransaction, NobodyRefused
<1>5. EndedWell'  BY <1>2 DEF EndedWell
<1>6. CASE ~MayFlush
  <2>1. UNCHANGED <<gate, active, waiting>> /\ Pend' = Pend
    BY <1>2, <1>6 DEF Flush, gateVars, Pend
  <2>2. OneAwaited'  BY <1>1, <1>3, <2>1, SameAwaited
  <2>3. GateHeld'  BY <1>1, <1>3, <2>1 DEF GateHeld
  <2>4. InTurns'  BY <1>1, <1>2, <1>3, <2>1 DEF InTurns, InTurn, Ended
  <2> QED  BY <1>1, <1>3, <1>4, <1>5, <2>2, <2>3, <2>4 DEF TurnInv
<1>7. CASE MayFlush
  <2> DEFINE e == [op |-> "begin", by |-> Head(waiting)]
  <2>1. waiting # <<>> /\ active = None /\ owner \notin Txs
    BY <1>1, <1>7 DEF MayFlush, GateHeld
  <2>2. Head(waiting) \in Txs  BY <1>1, <2>1 DEF GateInv
  <2>3. e \in Task /\ e.op = "begin" /\ e.by = Head(waiting)  BY <2>2 DEF Task, TxOps
  <2>4. /\ gate' = TRUE /\ active' = e.by /\ waiting' = Tail(waiting)
        /\ Pend' = Append(Pend, e)
    BY <1>2, <1>7 DEF Flush, Pend
  <2>5. OneAwaited'  BY <1>1, <1>3, <2>1, <2>3, <2>4, StartedAwaited
  <2> HIDE DEF e
  <2>6. GateHeld'  BY <1>3, <2>1, <2>2, <2>3, <2>4 DEF GateHeld
  <2>7. \A i \in DOMAIN Pend : Idle(Pend[i])  BY <1>1, <2>1, NoEnding
  <2>8. InTurns'
    <3>1. ASSUME NEW i \in DOMAIN Append(Pend, e)
          PROVE  Idle(Append(Pend, e)[i]) \/ Append(Pend, e)[i] = e
      BY <1>1, <2>7, PendType
    <3> QED  BY <1>3, <2>1, <2>2, <2>3, <2>4, <3>1 DEF InTurns, InTurn, Idle, Ending
  <2> QED  BY <1>1, <1>3, <1>4, <1>5, <2>5, <2>6, <2>8 DEF TurnInv
<1> QED  BY <1>6, <1>7

\* The blocks the JS thread waits for; a span's BEGIN that fails in a transaction
\* loses that one.
LEMMA SyncTurn ==
  ASSUME IOSInv, TurnInv, WorkSync \/ WorkSuspend, ~undone'
  PROVE  TurnInv'
<1> USE TransactionsAssumption
<1>1. /\ QueueInv /\ OneAwaited /\ GateHeld /\ HasTransaction /\ InTurns /\ Welcomes
      /\ open /\ NobodyRefused
  BY DEF IOSInv, TurnInv
<1>2. Running /\ block = "start"  BY DEF WorkSync, WorkSuspend, Works
<1>3. Pend = queue /\ Pend # <<>>  BY <1>2, HeadTurn
<1>4. /\ UNCHANGED <<gate, active, waiting, answers, open, pc, block>>
      /\ queue' = Tail(queue)
  BY DEF WorkSync, WorkSuspend, Done, gateVars
<1>5. Pend' = Tail(Pend)  BY <1>2, <1>3, <1>4 DEF Pend
<1>6. OneAwaited'  BY <1>1, <1>3, <1>4, <1>5, DroppedAwaited
<1>7. NobodyRefused' /\ EndedWell'  BY <1>1, <1>2, <1>4 DEF NobodyRefused, EndedWell
<1>8. CASE UNCHANGED owner
  <2>1. InTurns'  BY <1>1, <1>3, <1>4, <1>5, <1>8, TailInTurn
  <2>2. Welcomes'  BY <1>1, <1>4, <1>8, SameWelcome
  <2>3. GateHeld' /\ HasTransaction'  BY <1>1, <1>4, <1>8 DEF GateHeld, HasTransaction
  <2> QED  BY <1>1, <1>4, <1>6, <1>7, <2>1, <2>2, <2>3 DEF TurnInv
<1>9. CASE owner \notin Txs /\ owner' \notin Txs
  <2>1. InTurns' /\ Welcomes' /\ HasTransaction'
    BY <1>1, <1>3, <1>4, <1>5, <1>9, NotTheirs
  <2>2. GateHeld'  BY <1>1, <1>4, <1>9 DEF GateHeld
  <2> QED  BY <1>1, <1>4, <1>6, <1>7, <2>1, <2>2 DEF TurnInv
<1>10. UNCHANGED owner \/ (owner \notin Txs /\ owner' \notin Txs)
  BY DEF WorkSync, WorkSuspend, RolledBack
<1> QED  BY <1>8, <1>9, <1>10

LEMMA QueueTurn ==
  ASSUME IOSInv, TurnInv, QueueStep, ~undone'
  PROVE  TurnInv'
<1>1. ~WorkClose  BY HeadTurn DEF WorkClose, Works
<1> QED
  BY <1>1, BeginTurn, ExecTurn, EndTurn, ReleaseTurn, FlushTurn, SyncTurn DEF QueueStep

-----------------------------------------------------------------------------
(* The JS thread's steps.                                                  *)

\* A block that says nothing about the gate is sent: one nobody awaits, or a
\* statement of a transaction() that waits for nothing else.
LEMMA SentTurn ==
  ASSUME IOSInv, TurnInv, NEW op \in {"exec", "await", "sync", "suspend"}, NEW w,
         [op |-> op, by |-> w] \in Task, Put(op, w),
         UNCHANGED <<block, worked, gate, active, waiting, answers, open, owner>>,
         IF op = "await"
           THEN w \in Txs /\ pc[w] = "body" /\ pc' = [pc EXCEPT ![w] = "stmt"]
           ELSE UNCHANGED pc
  PROVE  TurnInv'
<1>1. /\ QueueInv /\ GateInv /\ OneAwaited /\ GateHeld /\ EndedWell /\ HasTransaction
      /\ InTurns /\ Welcomes /\ open /\ NobodyRefused /\ pc \in [Txs -> PC]
  BY DEF IOSInv, TurnInv, JsType
<1> DEFINE e == [op |-> op, by |-> w]
<1>2. e \in Task /\ e.op = op /\ e.by = w  OBVIOUS
<1>3. Pend' = Append(Pend, e)  BY <1>1, PutPend
<1> HIDE DEF e
<1>4. OneAwaited'
  <2>1. CASE op = "await"
    <3>1. \A o \in Awaited : pc[w] # Waiting(o)  BY <2>1 DEF Awaited, Waiting
    <3>2. Quiet(Pend, w) /\ Quiet(answers, w) /\ \A i \in DOMAIN waiting : waiting[i] # w
      BY <1>1, <3>1, NothingOnTheWay
    <3>3. pc'[w] = Waiting(e.op) /\ \A t \in Txs : t # w => pc'[t] = pc[t]
      BY <1>1, <1>2, <2>1 DEF Waiting
    <3>4. e.op \in Awaited  BY <1>2, <2>1 DEF Awaited
    <3> QED  BY <1>1, <1>2, <1>3, <3>2, <3>3, <3>4, PutAwaited
  <2>2. CASE op # "await"
    <3>1. e.op \notin Awaited  BY <1>2, <2>2 DEF Awaited
    <3> QED  BY <1>1, <1>2, <1>3, <2>2, <3>1, PutAwaited
  <2> QED  BY <2>1, <2>2
<1>5. Idle(e)  BY <1>2 DEF Idle, Ending
<1>6. InTurns'  BY <1>1, <1>2, <1>3, <1>5, AppendInTurn
<1>7. EndedWell'  BY <1>1, PutEnded
<1>8. Welcomes'  BY <1>1, SameWelcome
<1>9. GateHeld'  BY <1>1 DEF GateHeld
<1>10. HasTransaction' /\ NobodyRefused'
  BY <1>1 DEF HasTransaction, NobodyRefused
<1> QED  BY <1>1, <1>4, <1>6, <1>7, <1>8, <1>9, <1>10 DEF TurnInv

\* Through the gate, or into the list.
LEMMA AskTurn ==
  ASSUME IOSInv, TurnInv, NEW t \in Txs, Begin(t)
  PROVE  TurnInv'
<1> USE TransactionsAssumption
<1>1. /\ QueueInv /\ GateInv /\ OneAwaited /\ GateHeld /\ EndedWell /\ HasTransaction
      /\ InTurns /\ Welcomes /\ open /\ NobodyRefused /\ pc \in [Txs -> PC]
  BY DEF IOSInv, TurnInv, JsType
<1>2. pc[t] = "idle" /\ pc' = [pc EXCEPT ![t] = "begin"]  BY DEF Begin, Goes
<1>3. UNCHANGED <<open, owner, block, worked, answers>>
  BY DEF Begin, Sends, dbVars, queueVars
<1>4. \A o \in Awaited : pc[t] # Waiting(o)  BY <1>2 DEF Awaited, Waiting
<1>5. Quiet(Pend, t) /\ Quiet(answers, t) /\ \A i \in DOMAIN waiting : waiting[i] # t
  BY <1>1, <1>4, NothingOnTheWay
<1>6. pc'[t] = "begin" /\ \A w \in Txs : w # t => pc'[w] = pc[w]  BY <1>1, <1>2
<1>7. HasTransaction' /\ NobodyRefused'
  BY <1>1, <1>3, <1>6 DEF HasTransaction, NobodyRefused
<1>8. Welcomes'  BY <1>1, <1>3, SameWelcome
<1>9. CASE gate
  <2>1. /\ UNCHANGED <<gate, active, queue>> /\ waiting' = Append(waiting, t)
    BY <1>9 DEF Begin, GateTaken, queueVars
  <2>2. Pend' = Pend  BY <1>3, <2>1 DEF Pend
  <2>3. OneAwaited'  BY <1>1, <1>3, <1>5, <1>6, <2>1, <2>2, ListedAwaited
  <2>4. GateHeld' /\ EndedWell' /\ InTurns'
    BY <1>1, <1>3, <2>1, <2>2 DEF GateHeld, EndedWell, InTurns, InTurn, Ended
  <2> QED  BY <1>1, <1>3, <1>7, <1>8, <2>3, <2>4 DEF TurnInv
<1>10. CASE ~gate
  <2> DEFINE e == [op |-> "begin", by |-> t]
  <2>1. gate' = TRUE /\ active' = t /\ Put("begin", t) /\ waiting' = waiting
    BY <1>10 DEF Begin, GateTaken, Sends
  <2>2. e \in Task /\ e.op = "begin" /\ e.by = t  BY DEF Task, TxOps
  <2>3. Pend' = Append(Pend, e)  BY <1>1, <1>3, <2>1, <2>2, PutPend
  <2>4. active = None /\ owner \notin Txs  BY <1>1, <1>10 DEF GateHeld
  <2> HIDE DEF e
  <2>5. e.op \in Awaited /\ Waiting(e.op) = "begin"  BY <2>2 DEF Awaited, Waiting
  <2>6. OneAwaited'  BY <1>1, <1>3, <1>5, <1>6, <2>1, <2>2, <2>3, <2>5, PutAwaited
  <2>7. \A i \in DOMAIN Pend : Idle(Pend[i])  BY <1>1, <2>4, NoEnding
  <2>8. InTurns'
    <3>1. ASSUME NEW i \in DOMAIN Append(Pend, e)
          PROVE  Idle(Append(Pend, e)[i]) \/ Append(Pend, e)[i] = e
      BY <1>1, <2>7, PendType
    <3> QED  BY <1>3, <2>1, <2>2, <2>3, <2>4, <3>1 DEF InTurns, InTurn, Idle, Ending
  <2>9. EndedWell'  BY <1>1, <1>3, <2>1, PutEnded
  <2>10. GateHeld'  BY <1>3, <2>1, <2>4 DEF GateHeld
  <2> QED  BY <1>1, <1>3, <1>7, <1>8, <2>6, <2>8, <2>9, <2>10 DEF TurnInv
<1> QED  BY <1>9, <1>10

\* A statement of a transaction(): sent, or refused to a late use of its object.
LEMMA StatementTurn ==
  ASSUME IOSInv, TurnInv, NEW t \in Txs,
         Statement(t) \/ LooseStatement(t) \/ SyncStatement(t)
  PROVE  TurnInv'
<1>1. /\ QueueInv /\ OneAwaited /\ GateHeld /\ EndedWell /\ HasTransaction
      /\ InTurns /\ Welcomes /\ open /\ NobodyRefused
  BY DEF IOSInv, TurnInv
<1>2. UNCHANGED <<block, worked, gate, active, waiting, open, owner>>
  BY DEF Statement, LooseStatement, SyncStatement, Executes, Sends, Refuses, queueVars, gateVars, dbVars
<1>3. \A op \in TxOps \cup {"sync"} : [op |-> op, by |-> t] \in Task  BY DEF Task
<1>4. CASE Statement(t)
  <2>1. pc[t] = "body" /\ pc' = [pc EXCEPT ![t] = "stmt"]  BY <1>4 DEF Statement, Goes
  <2>2. active = t  BY <1>1, <2>1 DEF HasTransaction, GateHeld
  <2>3. Put("await", t) /\ UNCHANGED answers  BY <1>4, <2>2 DEF Statement, Executes, Sends
  <2> QED  BY <1>2, <1>3, <2>1, <2>3, SentTurn DEF TxOps
<1>5. CASE SyncStatement(t)
  <2>1. Put("sync", t) /\ UNCHANGED <<answers, pc>>  BY <1>5 DEF SyncStatement, Sends
  <2> QED  BY <1>2, <1>3, <2>1, SentTurn
<1>6. CASE LooseStatement(t)
  <2>1. UNCHANGED pc  BY <1>6 DEF LooseStatement
  <2>2. CASE active = t
    <3>1. Put("exec", t) /\ UNCHANGED answers
      BY <1>6, <2>2 DEF LooseStatement, Executes, Sends
    <3> QED  BY <1>2, <1>3, <2>1, <3>1, SentTurn DEF TxOps
  <2>3. CASE active # t
    <3> DEFINE a == [op |-> "exec", by |-> t, ok |-> FALSE]
    <3>1. answers' = Append(answers, a) /\ UNCHANGED queue
      BY <1>6, <2>3 DEF LooseStatement, Executes, Refuses, queueVars
    <3>2. a \in Answer /\ a.op = "exec"  BY DEF Answer, TxOps
    <3> HIDE DEF a
    <3>3. a.op \notin Awaited  BY <3>2 DEF Awaited
    <3>4. Pend' = Pend  BY <1>2, <3>1 DEF Pend
    <3>5. OneAwaited'  BY <1>1, <1>2, <2>1, <3>1, <3>2, <3>3, <3>4, RefusedAwaited
    <3>6. Welcomes'  BY <1>1, <1>2, <3>1, <3>2, AppendWelcome
    <3>7. GateHeld' /\ EndedWell' /\ InTurns'
      BY <1>1, <1>2, <3>1, <3>4 DEF GateHeld, EndedWell, InTurns, InTurn, Ended
    <3>8. HasTransaction' /\ NobodyRefused'
      BY <1>1, <1>2, <2>1 DEF HasTransaction, NobodyRefused
    <3> QED  BY <1>1, <1>2, <3>5, <3>6, <3>7, <3>8 DEF TurnInv
  <2> QED  BY <2>2, <2>3
<1> QED  BY <1>4, <1>5, <1>6

\* The callback ends, and its transaction is to.
LEMMA BodyTurn ==
  ASSUME IOSInv, TurnInv, NEW t \in Txs, BodyEnds(t)
  PROVE  TurnInv'
<1>1. /\ QueueInv /\ GateInv /\ OneAwaited /\ GateHeld /\ EndedWell /\ HasTransaction
      /\ InTurns /\ Welcomes /\ open /\ NobodyRefused /\ pc \in [Txs -> PC]
  BY DEF IOSInv, TurnInv, JsType
<1>2. PICK op \in {"commit", "rollback"} : Sends(op, t) /\ Goes(t, op)  BY DEF BodyEnds
<1>3. /\ Put(op, t) /\ pc' = [pc EXCEPT ![t] = op]
      /\ UNCHANGED <<block, worked, gate, active, waiting, answers, open, owner>>
  BY <1>2 DEF BodyEnds, Sends, Goes, gateVars, dbVars
<1>4. pc[t] = "body"  BY DEF BodyEnds
<1>5. owner = t /\ active = t  BY <1>1, <1>4 DEF HasTransaction, GateHeld
<1> DEFINE e == [op |-> op, by |-> t]
<1>6. e \in Task /\ e.op = op /\ e.by = t  BY DEF Task, TxOps
<1>7. Pend' = Append(Pend, e)  BY <1>1, <1>3, <1>6, PutPend
<1> HIDE DEF e
<1>8. \A o \in Awaited : pc[t] # Waiting(o)  BY <1>4 DEF Awaited, Waiting
<1>9. Quiet(Pend, t) /\ Quiet(answers, t) /\ \A i \in DOMAIN waiting : waiting[i] # t
  BY <1>1, <1>8, NothingOnTheWay
<1>10. pc'[t] = op /\ \A w \in Txs : w # t => pc'[w] = pc[w]  BY <1>1, <1>3
<1>11. e.op \in Awaited /\ Waiting(e.op) = op  BY <1>6 DEF Awaited, Waiting
<1>12. OneAwaited'  BY <1>1, <1>3, <1>6, <1>7, <1>9, <1>10, <1>11, PutAwaited
<1>13. InTurns'  BY <1>1, <1>3, <1>5, <1>6, <1>7, AppendInTurn
<1>14. EndedWell'  BY <1>1, <1>3, PutEnded
<1>15. Welcomes'  BY <1>1, <1>3, SameWelcome
<1>16. GateHeld'  BY <1>1, <1>3 DEF GateHeld
<1>17. HasTransaction' /\ NobodyRefused'
  BY <1>1, <1>3, <1>10 DEF HasTransaction, NobodyRefused
<1> QED  BY <1>1, <1>3, <1>12, <1>13, <1>14, <1>15, <1>16, <1>17 DEF TurnInv

\* An awaited answer is heard, and its transaction() goes on: it sends nothing, or
\* the ROLLBACK.
LEMMA SettledAwaited ==
  ASSUME QueueInv, GateInv, OneAwaited, answers # <<>>, NEW w \in Txs, w = It,
         Head(answers).op \in Awaited, answers' = Tail(answers), UNCHANGED waiting,
         \A t \in Txs : t # w => pc'[t] = pc[t],
         \/ Pend' = Pend
         \/ \E e \in Task : Pend' = Append(Pend, e) /\ e.by = w /\ pc'[w] = Waiting(e.op)
  PROVE  OneAwaited'
<1>1. Pend \in Seq(Task) /\ answers \in Seq(Answer) /\ Tail(answers) \in Seq(Answer)
  BY PendType, HeadOfAnswers
<1>2. /\ Expected(Tail(answers)) /\ OneEach(Tail(answers)) /\ Apart(Pend, Tail(answers))
      /\ \A t : Quiet(answers, t) => Quiet(Tail(answers), t)
      /\ Quiet(Pend, w) /\ Quiet(Tail(answers), w) /\ \A i \in DOMAIN waiting : waiting[i] # w
  BY HeardAwaited
<1>3. /\ \A i \in DOMAIN Pend : Pend[i].op \in Awaited => pc'[Pend[i].by] = Waiting(Pend[i].op)
      /\ \A i \in DOMAIN waiting : pc'[waiting[i]] = "begin"
  <2>1. \A i \in DOMAIN waiting : waiting[i] \in Txs  BY DEF GateInv
  <2> QED  BY <1>2, <2>1, PendType DEF OneAwaited, Expected, ListWaits, Quiet
<1>4. ASSUME NEW i \in DOMAIN Tail(answers), Tail(answers)[i].op \in Awaited
      PROVE  pc'[Tail(answers)[i].by] = Waiting(Tail(answers)[i].op)
  <2>1. Tail(answers)[i].by \in Txs
    <3>1. Tail(answers)[i] \in Answer  BY <1>1
    <3> QED  BY <1>4, <3>1 DEF Answer, Awaited
  <2> QED  BY <1>2, <1>4, <2>1 DEF Expected, Quiet
<1>5. Expected(answers)' /\ OneEach(answers)'  BY <1>2, <1>4 DEF Expected, OneEach
<1>6. CASE Pend' = Pend
  <2>1. Expected(Pend)' /\ OneEach(Pend)'  BY <1>3, <1>6 DEF Expected, OneEach, OneAwaited
  <2>2. Apart(Pend, answers)'  BY <1>2, <1>6 DEF Apart, Quiet
  <2>3. ListWaits'  BY <1>2, <1>3, <1>6 DEF OneAwaited, ListWaits, Quiet
  <2> QED  BY <1>5, <2>1, <2>2, <2>3 DEF OneAwaited
<1>7. CASE \E e \in Task : Pend' = Append(Pend, e) /\ e.by = w /\ pc'[w] = Waiting(e.op)
  <2> PICK e \in Task : Pend' = Append(Pend, e) /\ e.by = w /\ pc'[w] = Waiting(e.op)
    BY <1>7
  <2>1. ASSUME NEW i \in DOMAIN Append(Pend, e)
        PROVE  \/ i \in DOMAIN Pend /\ Append(Pend, e)[i] = Pend[i]
               \/ Append(Pend, e)[i] = e
    BY <1>1
  <2>2. OneEach(Append(Pend, e))  BY <1>1, <1>2, AppendAwaited DEF OneAwaited
  <2>3. \A i \in DOMAIN Append(Pend, e) :
          Append(Pend, e)[i].op \in Awaited =>
            /\ pc'[Append(Pend, e)[i].by] = Waiting(Append(Pend, e)[i].op)
            /\ Quiet(Tail(answers), Append(Pend, e)[i].by)
    BY <1>2, <1>3, <2>1 DEF Apart
  <2>4. \A i \in DOMAIN waiting : Quiet(Append(Pend, e), waiting[i])
    BY <1>1, <1>2, AppendAwaited DEF OneAwaited, ListWaits
  <2>5. Expected(Pend)' /\ OneEach(Pend)'  BY <2>2, <2>3 DEF Expected, OneEach
  <2>6. Apart(Pend, answers)'  BY <2>3 DEF Apart, Quiet
  <2>7. ListWaits'  BY <1>2, <1>3, <2>4 DEF OneAwaited, ListWaits, Quiet
  <2> QED  BY <1>5, <2>5, <2>6, <2>7 DEF OneAwaited
<1> QED  BY <1>6, <1>7

LEMMA HearTurn ==
  ASSUME IOSInv, TurnInv, HearStep
  PROVE  TurnInv'
<1>1. /\ QueueInv /\ GateInv /\ OneAwaited /\ GateHeld /\ EndedWell /\ HasTransaction
      /\ InTurns /\ Welcomes /\ open /\ NobodyRefused /\ pc \in [Txs -> PC]
  BY DEF IOSInv, TurnInv, JsType
<1>2. /\ answers # <<>> /\ answers' = Tail(answers)
      /\ UNCHANGED <<block, worked, gate, active, waiting, open, owner>>
  BY DEF HearStep, HearBegin, HearStatement, HearCommit, HearRollback, HearOther, Hears,
     Heard, gateVars, dbVars
<1>3. /\ Head(answers).op \in Awaited => It \in Txs /\ pc[It] = Waiting(Head(answers).op)
      /\ Welcome(Head(answers))
  <2>1. Head(answers) = answers[1] /\ 1 \in DOMAIN answers  BY <1>1, <1>2, PendType
  <2> QED  BY <1>1, <2>1, PendType DEF OneAwaited, Expected, It, Welcomes
<1>4. Welcomes'  BY <1>1, <1>2, SameWelcome
<1>5. GateHeld'  BY <1>1, <1>2 DEF GateHeld
<1>6. CASE HearOther
  <2>1. UNCHANGED <<queue, pc>>  BY <1>6 DEF HearOther
  <2>2. Pend' = Pend  BY <1>2, <2>1 DEF Pend
  <2>3. OneAwaited'
    BY <1>1, <1>2, <2>1, <2>2, HeardAwaited
    DEF OneAwaited, Expected, OneEach, Apart, ListWaits, Quiet
  <2>4. EndedWell' /\ InTurns'
    BY <1>1, <1>2, <2>1, <2>2 DEF EndedWell, InTurns, InTurn, Ended
  <2>5. HasTransaction' /\ NobodyRefused'
    BY <1>1, <1>2, <2>1 DEF HasTransaction, NobodyRefused
  <2> QED  BY <1>1, <1>2, <1>4, <1>5, <2>3, <2>4, <2>5 DEF TurnInv
<1>7. ASSUME NEW t \in Txs, t = It, Head(answers).op \in Awaited,
             NEW state, pc' = [pc EXCEPT ![t] = state], state # "refused",
             state \in {"body", "stmt"} => owner = t,
             \/ UNCHANGED queue
             \/ state = "rollback" /\ owner = t /\ Put("rollback", t)
      PROVE  TurnInv'
  <2>1. pc'[t] = state /\ \A w \in Txs : w # t => pc'[w] = pc[w]  BY <1>1, <1>7
  <2>2. HasTransaction' /\ NobodyRefused'
    BY <1>1, <1>2, <1>7, <2>1 DEF HasTransaction, NobodyRefused
  <2>3. CASE UNCHANGED queue
    <3>1. Pend' = Pend  BY <1>2, <2>3 DEF Pend
    <3>2. OneAwaited'  BY <1>1, <1>2, <1>7, <2>1, <3>1, SettledAwaited
    <3>3. EndedWell' /\ InTurns'
      BY <1>1, <1>2, <2>3, <3>1 DEF EndedWell, InTurns, InTurn, Ended
    <3> QED  BY <1>1, <1>2, <1>4, <1>5, <2>2, <3>2, <3>3 DEF TurnInv
  <2>4. CASE state = "rollback" /\ owner = t /\ Put("rollback", t)
    <3> DEFINE e == [op |-> "rollback", by |-> t]
    <3>1. e \in Task /\ e.op = "rollback" /\ e.by = t  BY DEF Task, TxOps
    <3>2. Pend' = Append(Pend, e)  BY <1>1, <1>2, <2>4, <3>1, PutPend
    <3> HIDE DEF e
    <3>3. pc'[t] = Waiting(e.op)  BY <2>1, <2>4, <3>1 DEF Waiting
    <3>4. OneAwaited'
      <4>1. \E x \in Task : Pend' = Append(Pend, x) /\ x.by = t /\ pc'[t] = Waiting(x.op)
        BY <3>1, <3>2, <3>3
      <4> QED  BY <1>1, <1>2, <1>7, <2>1, <4>1, SettledAwaited
    <3>5. active = e.by /\ owner = e.by  BY <1>1, <2>4, <3>1 DEF GateHeld
    <3>6. InTurns'  BY <1>1, <1>2, <3>1, <3>2, <3>5, AppendInTurn
    <3>7. EndedWell'  BY <1>1, <1>2, <2>4, PutEnded
    <3> QED  BY <1>1, <1>2, <1>4, <1>5, <2>2, <3>4, <3>6, <3>7 DEF TurnInv
  <2> QED  BY <1>7, <2>3, <2>4
<1>8. CASE HearBegin
  <2>1. Head(answers).op = "begin"  BY <1>8 DEF HearBegin, Hears
  <2>2. It \in Txs /\ Head(answers).ok /\ owner = It
    BY <1>3, <2>1 DEF Awaited, Welcome, It
  <2>3. pc' = [pc EXCEPT ![It] = "body"] /\ UNCHANGED queue
    BY <1>8, <2>2 DEF HearBegin, Goes
  <2> QED  BY <1>7, <2>1, <2>2, <2>3 DEF Awaited
<1>9. CASE HearStatement
  <2>1. Head(answers).op = "await"  BY <1>9 DEF HearStatement, Hears
  <2>2. It \in Txs /\ pc[It] = "stmt"  BY <1>3, <2>1 DEF Awaited, Waiting
  <2>3. owner = It  BY <1>1, <2>2 DEF HasTransaction
  <2>4. \/ pc' = [pc EXCEPT ![It] = "body"] /\ UNCHANGED queue
        \/ pc' = [pc EXCEPT ![It] = "rollback"] /\ Put("rollback", It)
    BY <1>9 DEF HearStatement, Goes
  <2> QED  BY <1>7, <2>1, <2>2, <2>3, <2>4 DEF Awaited
<1>10. CASE HearCommit
  <2>1. Head(answers).op = "commit"  BY <1>10 DEF HearCommit, Hears
  <2>2. It \in Txs /\ Head(answers).ok  BY <1>3, <2>1 DEF Awaited, Welcome
  <2>3. pc' = [pc EXCEPT ![It] = "done"] /\ UNCHANGED queue
    BY <1>10, <2>2 DEF HearCommit, Resolves, Goes
  <2> QED  BY <1>7, <2>1, <2>2, <2>3 DEF Awaited
<1>11. CASE HearRollback
  <2>1. Head(answers).op = "rollback"  BY <1>11 DEF HearRollback, Hears
  <2>2. It \in Txs  BY <1>3, <2>1 DEF Awaited
  <2>3. pc' = [pc EXCEPT ![It] = "failed"] /\ UNCHANGED queue
    BY <1>11 DEF HearRollback, Goes
  <2> QED  BY <1>7, <2>1, <2>2, <2>3 DEF Awaited
<1> QED  BY <1>6, <1>8, <1>9, <1>10, <1>11 DEF HearStep

\* A span's end gives the connection back.
LEMMA EndSpanTurn ==
  ASSUME IOSInv, TurnInv, EndSpan
  PROVE  TurnInv'
<1> USE TransactionsAssumption
<1>1. /\ QueueInv /\ OneAwaited /\ GateHeld /\ EndedWell /\ HasTransaction
      /\ InTurns /\ Welcomes /\ open /\ NobodyRefused
  BY DEF IOSInv, TurnInv
<1>2. owner = Span /\ owner' = None
  BY DEF EndSpan, Committed, RolledBack, IOSInv, DbInv, Held, SuspendedForSpan
<1>3. UNCHANGED <<queue, block, worked, gate, active, waiting, answers, open, pc>>
  BY DEF EndSpan, gateVars
<1>4. Pend' = Pend  BY <1>3 DEF Pend
<1>5. owner \notin Txs /\ owner' \notin Txs  BY <1>2
<1>6. OneAwaited'  BY <1>1, <1>3, <1>4, SameAwaited
<1>7. InTurns' /\ Welcomes' /\ HasTransaction'  BY <1>1, <1>3, <1>4, <1>5, NotTheirs
<1>8. GateHeld' /\ EndedWell' /\ NobodyRefused'
  BY <1>1, <1>3, <1>5 DEF GateHeld, EndedWell, NobodyRefused
<1> QED  BY <1>1, <1>3, <1>6, <1>7, <1>8 DEF TurnInv

\* The calls that belong to no transaction().
LEMMA OtherCallTurn ==
  ASSUME IOSInv, TurnInv,
         PlainStatement \/ ExecuteSync \/ ExecuteSyncSends \/ ExecuteSyncInSpan
           \/ BeginSync \/ BeginSyncSends \/ SpanStatement
  PROVE  TurnInv'
<1>1. CASE ExecuteSync \/ ExecuteSyncInSpan \/ BeginSync \/ SpanStatement
  <2>1. UNCHANGED <<queue, block, worked, gateVars, answers, open, owner, pc>>
    BY <1>1 DEF ExecuteSync, ExecuteSyncInSpan, BeginSync, SpanStatement, queueVars, dbVars, jsVars
  <2> QED  BY <2>1, SameTurn
<1>2. CASE PlainStatement \/ ExecuteSyncSends \/ BeginSyncSends
  <2>1. UNCHANGED <<block, worked, gate, active, waiting, answers, open, owner, pc>>
    BY <1>2 DEF PlainStatement, ExecuteSyncSends, BeginSyncSends, Sends, gateVars, dbVars
  <2>2. Put("exec", Plain) \/ Put("sync", Sync) \/ Put("suspend", Span)
    BY <1>2 DEF PlainStatement, ExecuteSyncSends, BeginSyncSends, Sends
  <2>3. /\ [op |-> "exec", by |-> Plain] \in Task /\ [op |-> "sync", by |-> Sync] \in Task
        /\ [op |-> "suspend", by |-> Span] \in Task
    BY DEF Task
  <2> QED  BY <2>1, <2>2, <2>3, SentTurn
<1> QED  BY <1>1, <1>2

-----------------------------------------------------------------------------
(* The invariant and its theorem.                                          *)

LEMMA InitTurn == Init => TurnInv
<1> SUFFICES ASSUME Init  PROVE TurnInv
  OBVIOUS
<1> USE TransactionsAssumption
<1>1. /\ queue = <<>> /\ block = "start" /\ gate = FALSE /\ active = None /\ waiting = <<>>
      /\ answers = <<>> /\ open = TRUE /\ owner = None /\ pc = [t \in Txs |-> "idle"]
  BY Zenon DEF Init
<1>2. Pend = <<>>  BY <1>1 DEF Pend
<1>3. OneAwaited
  BY <1>1, <1>2 DEF OneAwaited, Expected, OneEach, Apart, ListWaits, Quiet
<1>4. GateHeld /\ EndedWell /\ HasTransaction /\ InTurns /\ Welcomes /\ NobodyRefused
  BY <1>1, <1>2 DEF GateHeld, EndedWell, HasTransaction, InTurns, Welcomes, NobodyRefused
<1>5. open  BY <1>1
<1> QED  BY <1>3, <1>4, <1>5 DEF TurnInv

\* A database that was closed stays so, as a lost transaction does.
LEMMA OrderlyBefore ==
  ASSUME IOSInv, undone \in BOOLEAN, [Next]_vars, Orderly'
  PROVE  Orderly
<1>1. isOpen' = isOpen \/ isOpen' = FALSE
  BY DEF Next, QueueStep, HearStep, JsStep, WorkBegin, WorkExec, WorkCommit, WorkRollback, Release,
         Flush, WorkSync, WorkSuspend, WorkClose, HearBegin, HearStatement, HearCommit,
         HearRollback, HearOther, Heard, Begin, Statement, LooseStatement, SyncStatement,
         BodyEnds, PlainStatement, ExecuteSync, ExecuteSyncInSpan, BeginSync, SpanStatement,
         Close, ExecuteSyncSends, BeginSyncSends, EndSpan, jsVars, vars
<1>2. undone => undone'  BY UndoneNext
<1> QED  BY <1>1, <1>2 DEF Orderly, IOSInv, JsType

LEMMA NextTurn ==
  IOSInv /\ undone \in BOOLEAN /\ (Orderly => TurnInv) /\ [Next]_vars => (Orderly => TurnInv)'
<1> SUFFICES ASSUME IOSInv, undone \in BOOLEAN, Orderly => TurnInv, [Next]_vars, Orderly'
             PROVE  TurnInv'
  OBVIOUS
<1>1. TurnInv  BY OrderlyBefore
<1>2. ~undone' /\ isOpen'  BY DEF Orderly
<1>3. CASE QueueStep  BY <1>1, <1>2, <1>3, QueueTurn
<1>4. CASE HearStep  BY <1>1, <1>4, HearTurn
<1>5. CASE JsStep
  <2>1. ~Close  BY <1>2 DEF Close
  <2> QED
    BY <1>1, <1>5, <2>1, AskTurn, StatementTurn, BodyTurn, OtherCallTurn DEF JsStep
<1>6. CASE ExecuteSyncSends \/ BeginSyncSends  BY <1>1, <1>6, OtherCallTurn
<1>7. CASE EndSpan  BY <1>1, <1>7, EndSpanTurn
<1>8. CASE UNCHANGED vars
  <2>1. UNCHANGED <<queue, block, worked, gateVars, answers, open, owner, pc>>
    BY <1>8 DEF vars, queueVars, dbVars, jsVars
  <2> QED  BY <1>1, <2>1, SameTurn
<1> QED  BY <1>3, <1>4, <1>5, <1>6, <1>7, <1>8 DEF Next

\* No transaction() is turned away while the database is open and none has lost its
\* transaction.
THEOREM TurnsTaken == Spec => []WaitsItsTurn
<1>1. (Orderly => TurnInv) => WaitsItsTurn
  BY DEF Orderly, TurnInv, NobodyRefused, WaitsItsTurn
<1>2. Init => (Orderly => TurnInv)  BY InitTurn
<1>3. Spec => [](Orderly => TurnInv)
  BY <1>2, NextTurn, InvAlways, UndoneType, PTL DEF Spec
<1> QED  BY <1>1, <1>3, PTL
=============================================================================
