----------------------------- MODULE IOSReaders -----------------------------
(***************************************************************************)
(* The connections of a database on iOS: how they open, which one a        *)
(* statement runs on, read transactions, prepared statements, what         *)
(* initialized() says and how close() takes everything down                *)
(* (platforms/ios/src/NSSQLiteDatabase.mm behind index.ios.ts).            *)
(*                                                                         *)
(* Connection 0 is the writer and 1..PoolSize are the readers, each with a *)
(* serial dispatch queue of its own; a block runs in one step.  Their      *)
(* completions go through the main queue to the JS thread, which also      *)
(* makes the calls.  Write transactions and synchronous calls, with the    *)
(* gate and the suspension of the writer's queue, are in IOSTransactions.  *)
(*                                                                         *)
(* SQLite is external: WAL mode, so that a statement of a reader sees the  *)
(* writes committed so far or, inside a transaction, those committed when  *)
(* the transaction was first read in.  The data is the number of committed *)
(* writes.  Errors of the statements themselves are in StatementResults.   *)
(*                                                                         *)
(* An operator commented "Fault:" is a wrong variant of the definition     *)
(* after it; the specification does not use it.                            *)
(***************************************************************************)
EXTENDS Integers, Sequences, FiniteSets

CONSTANTS
  PoolSize,    \* how many readers
  MaxCalls,    \* bound: the calls in a behaviour
  Most,        \* bound: and how many of each kind
  OpenMayFail, \* whether the open of a connection may fail
  MayOutlive   \* whether transaction objects are used after their callback

Kinds == {"write", "read", "tx", "prepare", "finalize", "init", "close"}

ASSUME ReadersAssumption ==
  /\ PoolSize \in Nat \ {0} /\ MaxCalls \in Nat /\ Most \in [Kinds -> Nat]
  /\ {OpenMayFail, MayOutlive} \subseteq BOOLEAN

Writer  == 0
Readers == 1..PoolSize
Conns   == 0..PoolSize
Calls   == 1..MaxCalls
None    == 0
Unset   == -1

VARIABLES
  phase,    \* openDatabase(): "none", "opened", "threw"
  closer,   \* the close() that cleared _isOpen, 0 if none has
  queue,    \* per connection, the blocks that have not run
  main,     \* the main queue: whose completions JS has not heard
  verdict,  \* per connection, how its open ended: "none", "ok", "failed"
  gone,     \* the connections a block of close() has closed (and, readers, deleted)
  pending,  \* _pendingOpens
  failed,   \* whether _openError is set
  inits,    \* _initCompletions
  free,     \* the readers whose _readerAvailable is set
  handle,   \* _readTxHandles: the reader of a transaction, None without a handle
  turn,     \* _readerIndex
  map,      \* _preparedStmts, a statement being the call that prepared it
  alive,    \* SQLite: the statements not finalized
  version,  \* SQLite: how many writes are committed
  span,     \* SQLite: per reader, the transaction open on it, None in autocommit
  snap,     \* SQLite: per reader, the version its transaction reads, if set
  made,     \* how many calls have been made
  call,     \* the calls
  tx        \* where the transaction of each readTransaction() is

openVars == <<phase, closer, verdict, gone, pending, failed, inits>>
poolVars == <<free, handle, turn>>
stmtVars == <<map, alive>>
dataVars == <<version, span, snap>>
jsVars   == <<made, call, tx>>
vars     == <<queue, main, openVars, poolVars, stmtVars, dataVars, jsVars>>

\* A call: of what kind, in which transaction (a transaction is the call that
\* began it), with which statement; whether its transaction was over; how many
\* writes JS knew of; what it found, what it saw and in whose transaction it ran;
\* whether JS has heard.
Call    == [kind : Kinds \cup {"none"}, of : Calls \cup {None}, stmt : Calls \cup {None},
            late : BOOLEAN, seen : Nat, res : {"none", "ok", "error"}, saw : Nat,
            span : Calls \cup {None}, heard : BOOLEAN]
Block   == [op : {"open", "close"}, id : {None}]
             \cup [op : {"write", "read", "begin", "end", "prepare", "finalize"}, id : Calls]
TxState == {"none", "begin", "body", "ending", "over"}

NoCall == [kind |-> "none", of |-> None, stmt |-> None, late |-> FALSE, seen |-> 0,
           res |-> "none", saw |-> 0, span |-> None, heard |-> FALSE]

Init ==
  /\ phase = "none" /\ closer = 0
  /\ queue = [c \in Conns |-> <<>>] /\ main = <<>>
  /\ verdict = [c \in Conns |-> "none"] /\ gone = {}
  /\ pending = 1 + PoolSize /\ failed = FALSE /\ inits = <<>>
  /\ free = Readers /\ handle = [t \in Calls |-> None] /\ turn = 0
  /\ map = {} /\ alive = {} /\ version = 0
  /\ span = [r \in Readers |-> None] /\ snap = [r \in Readers |-> Unset]
  /\ made = 0 /\ call = [k \in Calls |-> NoCall]
  /\ tx = [t \in Calls |-> "none"]

-----------------------------------------------------------------------------
(* Helpers.                                                                *)

IsOpen == phase = "opened" /\ closer = 0

\* The completion of the first close() has emptied the vectors of the readers.
Cleared == closer # 0 /\ call[closer].heard

Up(c) == verdict[c] = "ok" /\ c \notin gone

Sent(c, op, id) == queue' = [queue EXCEPT ![c] = Append(@, [op |-> op, id |-> id])]

\* The next call, and how many writes JS has been told of when it is made.
This == made + 1

WritesHeard == Cardinality({k \in Calls : call[k].kind = "write" /\ call[k].heard /\ call[k].res = "ok"})

Issued(kind) == [NoCall EXCEPT !.kind = kind, !.seen = WritesHeard]

Made(kind) == Cardinality({k \in Calls : call[k].kind = kind})

Makes(rec) ==
  /\ made < MaxCalls /\ Made(rec.kind) < Most[rec.kind]
  /\ made' = This /\ call' = [call EXCEPT ![This] = rec]

\* The call is answered from the main queue, without a block.
AnsweredAt(rec, res) == Makes([rec EXCEPT !.res = res]) /\ main' = Append(main, This) /\ UNCHANGED queue

-----------------------------------------------------------------------------
(* Opening.                                                                *)

ReaderOpens == [c \in Conns |-> IF c = Writer THEN <<>> ELSE <<[op |-> "open", id |-> None]>>]

\* asyncOpen: the writer opens in a block too.
OpenAsync ==
  /\ phase = "none" /\ phase' = "opened"
  /\ queue' = [ReaderOpens EXCEPT ![Writer] = <<[op |-> "open", id |-> None]>>]
  /\ UNCHANGED <<main, closer, verdict, gone, pending, failed, inits, poolVars, stmtVars, dataVars, jsVars>>

\* Otherwise it opens in the call, and its failure is the call's.
OpenSync ==
  /\ phase = "none"
  /\ \/ /\ phase' = "opened" /\ verdict' = [verdict EXCEPT ![Writer] = "ok"] /\ pending' = pending - 1
        /\ queue' = ReaderOpens /\ UNCHANGED failed
     \/ /\ OpenMayFail
        /\ phase' = "threw" /\ verdict' = [verdict EXCEPT ![Writer] = "failed"] /\ pending' = pending - 1
        /\ failed' = TRUE /\ UNCHANGED queue
  /\ UNCHANGED <<main, closer, gone, inits, poolVars, stmtVars, dataVars, jsVars>>

-----------------------------------------------------------------------------
(* Calls.                                                                  *)

\* A call after close() goes nowhere: isOpen is not looked at, the writer's
\* queue takes it and finds the connection closed.
Execute ==
  /\ phase = "opened"
  /\ Makes(Issued("write")) /\ Sent(Writer, "write", This)
  /\ UNCHANGED <<main, openVars, poolVars, stmtVars, dataVars, tx>>

\* A plain select goes to the readers in turn, claimed or not, and to the writer
\* when the vectors are empty.  One made while close() deletes the readers is not
\* modelled: its block uses a deleted connection.
Select ==
  /\ phase = "opened" /\ (IsOpen \/ Cleared)
  /\ Makes(Issued("read"))
  /\ IF Cleared
       THEN Sent(Writer, "read", This) /\ UNCHANGED turn
       ELSE Sent(1 + turn, "read", This) /\ turn' = (turn + 1) % PoolSize
  /\ UNCHANGED <<main, openVars, free, handle, stmtVars, dataVars, tx>>

\* readTransaction() claims the first reader that is free, or is refused.  One
\* made after close() is not modelled: its reader may be deleted.
BeginRead ==
  /\ IsOpen /\ made < MaxCalls /\ tx' = [tx EXCEPT ![This] = "begin"]
  /\ \/ free = {} /\ AnsweredAt(Issued("tx"), "error") /\ UNCHANGED <<free, handle>>
     \/ \E r \in free :
          /\ \A o \in free : r <= o
          /\ Makes(Issued("tx")) /\ Sent(r, "begin", This) /\ UNCHANGED main
          /\ free' = free \ {r} /\ handle' = [handle EXCEPT ![This] = r]
  /\ UNCHANGED <<openVars, turn, stmtVars, dataVars>>

\* Fault: the reads of a transaction go to the readers in turn.
ReaderOf_InTurn(t) == IF handle[t] = None THEN None ELSE 1 + turn

\* The reader a transaction's id leads to.
ReaderOf(t) == handle[t]

\* A read of a transaction is refused once its handle is gone.
TxRead(t) ==
  /\ tx[t] = "body" \/ (MayOutlive /\ tx[t] \in {"ending", "over"} /\ call[t].res = "ok")
  /\ LET rec == [Issued("read") EXCEPT !.of = t, !.late = tx[t] # "body"]
     IN  IF handle[t] = None
           THEN AnsweredAt(rec, "error")
           ELSE Makes(rec) /\ Sent(ReaderOf(t), "read", This) /\ UNCHANGED main
  /\ UNCHANGED <<openVars, poolVars, stmtVars, dataVars, tx>>

\* The callback returned or threw: the transaction ends either way.
EndRead(t) ==
  /\ tx[t] = "body" /\ tx' = [tx EXCEPT ![t] = "ending"]
  /\ IF handle[t] = None
       THEN main' = Append(main, t) /\ UNCHANGED queue
       ELSE Sent(handle[t], "end", t) /\ UNCHANGED main
  /\ UNCHANGED <<openVars, poolVars, stmtVars, dataVars, made, call>>

Prepare ==
  /\ phase = "opened"
  /\ Makes(Issued("prepare")) /\ Sent(Writer, "prepare", This)
  /\ UNCHANGED <<main, openVars, poolVars, stmtVars, dataVars, tx>>

\* The statements JS holds.
Held == {s \in Calls : call[s].kind = "prepare" /\ call[s].heard /\ call[s].res = "ok"}

\* execute() and select() of a prepared statement, refused once it is not in the
\* map.  With one still in the map while close() runs, they would use it after it
\* was finalized: not modelled.
UsePrepared(s, kind) ==
  /\ s \in Held /\ (IsOpen \/ s \notin map)
  /\ LET rec == [Issued(kind) EXCEPT !.stmt = s]
     IN  IF s \notin map
           THEN AnsweredAt(rec, "error")
           ELSE Makes(rec) /\ Sent(Writer, kind, This) /\ UNCHANGED main
  /\ UNCHANGED <<openVars, poolVars, stmtVars, dataVars, tx>>

\* Fault: the statement is finalized in the call.
FinalizedAt_Call(s) == alive \ {s}

\* What the call of finalize() itself leaves of the statements.
FinalizedAt(s) == alive

\* finalize() takes the statement out of the map in the call, and SQLite's is
\* finalized in a block: one made during close() takes it away from there, and
\* SQLite keeps the connection until the statement goes (sqlite3_close_v2).
Finalize(s) ==
  /\ s \in Held
  /\ LET rec == [Issued("finalize") EXCEPT !.stmt = s]
     IN  IF s \notin map
           THEN AnsweredAt(rec, "ok") /\ UNCHANGED stmtVars
           ELSE /\ Makes(rec) /\ Sent(Writer, "finalize", This) /\ UNCHANGED main
                /\ map' = map \ {s} /\ alive' = FinalizedAt(s)
  /\ UNCHANGED <<openVars, poolVars, dataVars, tx>>

Initialized ==
  /\ phase = "opened"
  /\ IF pending > 0
       THEN Makes(Issued("init")) /\ inits' = Append(inits, This) /\ UNCHANGED <<main, queue>>
       ELSE AnsweredAt(Issued("init"), IF failed THEN "error" ELSE "ok") /\ UNCHANGED inits
  /\ UNCHANGED <<phase, closer, verdict, gone, pending, failed, poolVars, stmtVars, dataVars, tx>>

\* close() forgets the read transactions and sends each connection a last block; a
\* second one is answered at once.
Close ==
  /\ phase = "opened"
  /\ IF closer # 0
       THEN AnsweredAt(Issued("close"), "ok") /\ UNCHANGED <<closer, handle>>
       ELSE /\ Makes(Issued("close")) /\ closer' = This /\ UNCHANGED main
            /\ handle' = [t \in Calls |-> None]
            /\ queue' = [c \in Conns |-> Append(queue[c], [op |-> "close", id |-> None])]
  /\ UNCHANGED <<phase, verdict, gone, pending, failed, inits, free, turn, stmtVars, dataVars, tx>>

-----------------------------------------------------------------------------
(* Blocks.                                                                 *)

Runs(c, op) == queue[c] # <<>> /\ Head(queue[c]).op = op

It(c) == Head(queue[c]).id

Popped(c) == queue' = [queue EXCEPT ![c] = Tail(@)]

\* A block's completion, with what its call found.
Completes(c, found) ==
  /\ main' = Append(main, It(c)) /\ call' = [call EXCEPT ![It(c)] = found]
  /\ UNCHANGED <<made, tx>>

\* Fault: the open of the writer is not counted when it fails.
Counted_Successes(c, ok) == ok \/ c # Writer

\* Whether the end of this open is counted.
Counted(c, ok) == TRUE

\* _connectionOpenFinished: the last one answers the calls of initialized().
OpenFinished(c, ok) ==
  /\ verdict' = [verdict EXCEPT ![c] = IF ok THEN "ok" ELSE "failed"]
  /\ failed' = (failed \/ ~ok)
  /\ pending' = IF Counted(c, ok) THEN pending - 1 ELSE pending
  /\ IF pending' = 0
       THEN /\ main' = main \o inits /\ inits' = <<>>
            /\ call' = [k \in Calls |-> IF call[k].kind = "init" /\ call[k].res = "none"
                                          THEN [call[k] EXCEPT !.res = IF failed' THEN "error" ELSE "ok"]
                                          ELSE call[k]]
       ELSE UNCHANGED <<main, inits, call>>

\* A reader's block waits for the writer's open, with the reader's queue.
MayOpen(c) == c = Writer \/ verdict[Writer] # "none"

\* A reader takes the writer's failure for its own.
RunOpen(c) ==
  /\ Runs(c, "open") /\ MayOpen(c)
  /\ \/ (c = Writer \/ verdict[Writer] = "ok") /\ OpenFinished(c, TRUE)
     \/ (OpenMayFail \/ verdict[Writer] = "failed") /\ OpenFinished(c, FALSE)
  /\ Popped(c)
  /\ UNCHANGED <<phase, closer, gone, poolVars, stmtVars, dataVars, made, tx>>

RunWrite ==
  /\ Runs(Writer, "write")
  /\ LET k == It(Writer)
     IN  IF Up(Writer)
           THEN version' = version + 1 /\ Completes(Writer, [call[k] EXCEPT !.res = "ok"])
           ELSE Completes(Writer, [call[k] EXCEPT !.res = "error"]) /\ UNCHANGED version
  /\ Popped(Writer)
  /\ UNCHANGED <<openVars, poolVars, stmtVars, span, snap>>

\* What a statement sees that reads on c: the first one of a transaction fixes it.
InTx(c)    == c # Writer /\ span[c] # None
Visible(c) == IF InTx(c) /\ snap[c] # Unset THEN snap[c] ELSE version

RunRead(c) ==
  /\ Runs(c, "read")
  /\ LET k == It(c)
     IN  IF Up(c)
           THEN /\ snap' = IF InTx(c) THEN [snap EXCEPT ![c] = Visible(c)] ELSE snap
                /\ Completes(c, [call[k] EXCEPT !.res = "ok", !.saw = Visible(c),
                                                !.span = IF InTx(c) THEN span[c] ELSE None])
           ELSE Completes(c, [call[k] EXCEPT !.res = "error"]) /\ UNCHANGED snap
  /\ Popped(c)
  /\ UNCHANGED <<openVars, poolVars, stmtVars, version, span>>

\* The handle goes and the reader is free again.
Released(t, r) == handle' = [handle EXCEPT ![t] = None] /\ free' = free \cup {r} /\ UNCHANGED turn

\* A BEGIN that fails gives the reader back.
RunBegin(r) ==
  /\ Runs(r, "begin")
  /\ IF Up(r) /\ span[r] = None
       THEN /\ span' = [span EXCEPT ![r] = It(r)] /\ UNCHANGED poolVars
            /\ Completes(r, [call[It(r)] EXCEPT !.res = "ok"])
       ELSE /\ Released(It(r), r) /\ UNCHANGED span
            /\ Completes(r, [call[It(r)] EXCEPT !.res = "error"])
  /\ Popped(r)
  /\ UNCHANGED <<openVars, stmtVars, version, snap>>

\* END, whose result nobody looks at.
RunEnd(r) ==
  /\ Runs(r, "end")
  /\ span' = [span EXCEPT ![r] = None] /\ snap' = [snap EXCEPT ![r] = Unset]
  /\ Released(It(r), r)
  /\ main' = Append(main, It(r)) /\ Popped(r)
  /\ UNCHANGED <<openVars, stmtVars, version, jsVars>>

RunPrepare ==
  /\ Runs(Writer, "prepare")
  /\ LET k == It(Writer)
     IN  IF Up(Writer)
           THEN /\ map' = map \cup {k} /\ alive' = alive \cup {k}
                /\ Completes(Writer, [call[k] EXCEPT !.res = "ok"])
           ELSE Completes(Writer, [call[k] EXCEPT !.res = "error"]) /\ UNCHANGED stmtVars
  /\ Popped(Writer)
  /\ UNCHANGED <<openVars, poolVars, dataVars>>

RunFinalize ==
  /\ Runs(Writer, "finalize")
  /\ alive' = alive \ {call[It(Writer)].stmt}
  /\ Completes(Writer, [call[It(Writer)] EXCEPT !.res = "ok"]) /\ Popped(Writer)
  /\ UNCHANGED <<openVars, poolVars, map, dataVars>>

\* The last block of a connection ends its transaction, or its statements, and
\* closes it; after the last of them all, close() is answered.
RunClose(c) ==
  /\ Runs(c, "close")
  /\ gone' = gone \cup {c}
  /\ IF c = Writer
       THEN map' = {} /\ alive' = alive \ map /\ UNCHANGED <<span, snap>>
       ELSE span' = [span EXCEPT ![c] = None] /\ snap' = [snap EXCEPT ![c] = Unset] /\ UNCHANGED stmtVars
  /\ IF gone' = Conns
       THEN main' = Append(main, closer) /\ call' = [call EXCEPT ![closer].res = "ok"]
       ELSE UNCHANGED <<main, call>>
  /\ Popped(c)
  /\ UNCHANGED <<phase, closer, verdict, pending, failed, inits, poolVars, version, made, tx>>

-----------------------------------------------------------------------------
(* The main queue.                                                         *)

\* JS hears: a promise settles, readTransaction() enters its callback or ends.
Deliver ==
  /\ main # <<>> /\ main' = Tail(main)
  /\ LET k == Head(main)
     IN  /\ call' = [call EXCEPT ![k].heard = TRUE]
         /\ tx' = [tx EXCEPT ![k] = IF @ = "begin" /\ call[k].res = "ok" THEN "body"
                                      ELSE IF @ \in {"begin", "ending"} THEN "over"
                                      ELSE @]
  /\ UNCHANGED <<queue, openVars, poolVars, stmtVars, dataVars, made>>

-----------------------------------------------------------------------------
(* The specification.                                                      *)

RunBlock(c) ==
  \/ RunOpen(c) \/ RunRead(c) \/ RunClose(c)
  \/ c = Writer /\ (RunWrite \/ RunPrepare \/ RunFinalize)
  \/ c \in Readers /\ (RunBegin(c) \/ RunEnd(c))

JsCalls ==
  \/ OpenAsync \/ OpenSync \/ Execute \/ Select \/ BeginRead \/ Prepare \/ Initialized \/ Close
  \/ \E t \in Calls : TxRead(t) \/ EndRead(t)
  \/ \E s \in Calls : Finalize(s) \/ \E kind \in {"write", "read"} : UsePrepared(s, kind)

Next == JsCalls \/ Deliver \/ \E c \in Conns : RunBlock(c)

Spec == Init /\ [][Next]_vars

\* As long as a block can run GCD runs one, the main thread runs its own, and the
\* callbacks of readTransaction() end.
FairSpec ==
  /\ Spec /\ WF_vars(Deliver)
  /\ WF_vars(\E c \in Conns : RunBlock(c))
  /\ WF_vars(\E t \in Calls : EndRead(t))

-----------------------------------------------------------------------------
(* Properties.                                                             *)

TypeOK ==
  /\ phase \in {"none", "opened", "threw"} /\ closer \in 0..MaxCalls
  /\ queue \in [Conns -> Seq(Block)] /\ main \in Seq(Calls)
  /\ verdict \in [Conns -> {"none", "ok", "failed"}] /\ gone \subseteq Conns
  /\ pending \in 0..(1 + PoolSize) /\ failed \in BOOLEAN /\ inits \in Seq(Calls)
  /\ free \subseteq Readers /\ handle \in [Calls -> Readers \cup {None}] /\ turn \in 0..(PoolSize - 1)
  /\ map \subseteq Calls /\ alive \subseteq Calls
  /\ version \in Nat
  /\ span \in [Readers -> Calls \cup {None}] /\ snap \in [Readers -> Nat \cup {Unset}]
  /\ made \in 0..MaxCalls /\ call \in [Calls -> Call] /\ tx \in [Calls -> TxState]

Found(k) == call[k].kind = "read" /\ call[k].res = "ok"

\* The reads of one read transaction see one state of the database, which holds
\* every write JS knew of when it began, and run inside that transaction; one
\* made after its end runs in it or in none, never in another's.
ReadsAgree ==
  \A k \in Calls : Found(k) /\ call[k].of # None =>
    /\ call[k].span \in (IF call[k].late THEN {None, call[k].of} ELSE {call[k].of})
    /\ ~call[k].late => call[k].saw >= call[call[k].of].seen
    /\ \A l \in Calls : Found(l) /\ call[l].span # None /\ call[l].span = call[k].span
                          => call[l].saw = call[k].saw

\* A plain read sees every write JS knew of, unless its turn fell on a reader with
\* a read transaction.
ReadsAreFresh ==
  \A k \in Calls : Found(k) /\ call[k].of = None /\ call[k].span = None => call[k].saw >= call[k].seen

\* Until close(), a reader is claimed as long as one read transaction has it, and a
\* transaction open on a reader is the one that claimed it.
ClaimsMatch ==
  IsOpen => \A r \in Readers :
    LET owners == {t \in Calls : handle[t] = r}
    IN  /\ Cardinality(owners) = (IF r \in free THEN 0 ELSE 1)
        /\ span[r] # None => span[r] \in owners

\* Read transactions keep their snapshot beside plain reads, other read
\* transactions and the writer, and readers are never shared or lost.
SnapshotsHold == ReadsAgree /\ ReadsAreFresh /\ ClaimsMatch

\* initialized() resolves when every connection is open, and rejects only when all
\* have ended opening and one could not.
InitializedIsTrue ==
  \A k \in Calls : call[k].kind = "init" /\ call[k].res # "none" =>
    /\ \A c \in Conns : verdict[c] # "none"
    /\ call[k].res = "ok" <=> \A c \in Conns : verdict[c] = "ok"

\* When the close() that closed the database resolves, every connection is closed,
\* every statement finalized but one whose finalize() came after it, every earlier
\* call answered and no read transaction still beginning.
CloseIsFinal ==
  Cleared => /\ gone = Conns
             /\ \A s \in alive : \E k \in Calls : k > closer /\ call[k].kind = "finalize" /\ call[k].stmt = s
             /\ \A k \in 1..(closer - 1) : call[k].heard
             /\ \A t \in Calls : tx[t] # "begin"

\* A block that may run finds its connection opened, its reader not deleted and its
\* statement not finalized.
BlocksFindTheirs ==
  \A c \in Conns : queue[c] # <<>> /\ Head(queue[c]).op # "open" =>
    /\ verdict[c] # "none"
    /\ c \in Readers => c \notin gone
    /\ It(c) # None /\ call[It(c)].stmt # None => call[It(c)].stmt \in alive

\* What initialized() and close() promise is so, and nothing uses what close() or
\* finalize() has taken down.
LifecycleIsHonest == InitializedIsTrue /\ CloseIsFinal /\ BlocksFindTheirs

Settled ==
  /\ \A k \in Calls : call[k].kind # "none" => call[k].heard
  /\ \A t \in Calls : tx[t] \in {"none", "over"}

\* Every call is answered, and every read transaction begun ends or is refused.
\* (A settled one stays so and their number is bounded, so this says it of each.)
EverythingSettles == []<>Settled
=============================================================================
