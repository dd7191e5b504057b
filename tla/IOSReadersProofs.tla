-------------------------- MODULE IOSReadersProofs --------------------------
(***************************************************************************)
(* Read transactions keep their snapshot, readers are neither shared nor   *)
(* lost, initialized() tells the truth and close() leaves nothing behind:  *)
(* for any number of readers and of calls.                                 *)
(*                                                                         *)
(* What a read of a transaction finds was settled when it was made: its    *)
(* transaction had the reader, so its block is on that reader's queue      *)
(* after the BEGIN and, while the callback runs, before the END.  The      *)
(* invariant says so of every block that waits (Reads), who has claimed    *)
(* each reader (Claims), which transaction is open on it (Spans)           *)
(* and which blocks a queue may hold (Numbered, Queued, Opening).          *)
(* Snapshots adds what the reads that have run saw.                        *)
(*                                                                         *)
(* close() is the last thing each connection hears of the calls before it. *)
(* What a queue holds after that block is of later calls (Ends); a         *)
(* statement that left the map has a block of finalize() that no user of   *)
(* it comes after (Statements); and a call not heard of has its block or   *)
(* its completion on its way, so that the completion of the last close     *)
(* comes after theirs (Answering).                                         *)
(***************************************************************************)
EXTENDS IOSReaders, TLAPS, FiniteSetTheorems

\* What every variable holds.
Shape ==
  /\ phase \in {"none", "opened", "threw"} /\ closer \in Calls \cup {None}
  /\ queue \in [Conns -> Seq(Block)] /\ main \in Seq(Calls) /\ inits \in Seq(Calls)
  /\ verdict \in [Conns -> {"none", "ok", "failed"}] /\ gone \subseteq Conns /\ failed \in BOOLEAN
  /\ free \subseteq Readers /\ handle \in [Calls -> Readers \cup {None}] /\ turn \in 0..(PoolSize - 1)
  /\ version \in Nat
  /\ span \in [Readers -> Calls \cup {None}] /\ snap \in [Readers -> Nat \cup {Unset}]
  /\ made \in 0..MaxCalls /\ call \in [Calls -> Call] /\ tx \in [Calls -> TxState]

\* The places of a connection's queue.
At(c) == 1..Len(queue[c])
Op(c, i) == queue[c][i].op
Id(c, i) == queue[c][i].id

Blocks(c) == {queue[c][i] : i \in At(c)}

\* The kind of the call a block is of.
KindOf(op) == IF op \in {"begin", "end"} THEN "tx" ELSE op

\* Only reads have a transaction,
Belongs == \A k \in Calls : call[k].of # None =>
  call[k].kind = "read" /\ call[k].of \in Calls /\ call[call[k].of].kind = "tx"

\* and calls are those made so far, in the queues too.
Numbered ==
  /\ \A k \in Calls : IF k > made THEN call[k] = NoCall ELSE call[k].kind # "none"
  /\ Belongs
  /\ \A t \in Calls : tx[t] # "none" => call[t].kind = "tx"
  /\ \A i \in 1..Len(main) : call[main[i]].kind # "none"
  /\ \A i \in 1..Len(inits) : call[inits[i]].kind = "init"
  /\ closer # None => call[closer].kind = "close" /\ \A t \in Calls : handle[t] = None

\* A block of a connection's queue: its call waits for it.
Placed(c, b) ==
  /\ b.id # None => call[b.id].kind = KindOf(b.op)
  /\ b.id # None /\ b.op # "end" => call[b.id].res = "none"
  /\ b.op = "close" => closer # None
  /\ b.op \in {"begin", "end"} => c # Writer /\ \A m \in 1..Len(main) : main[m] # b.id
  /\ b.op = "begin" => tx[b.id] = "begin"
  /\ b.op = "end" => tx[b.id] = "ending"

\* A call has one block,
OneBlock == \A c, d \in Conns : \A i \in At(c), j \in At(d) :
  Id(c, i) # None /\ Id(c, i) = Id(d, j) => c = d /\ i = j

\* and the beginning or the end of a transaction is heard of once.
HeardOnce ==
  /\ \A m, n \in 1..Len(main) : main[m] = main[n] /\ call[main[m]].kind = "tx" => m = n
  /\ \A m \in 1..Len(main) : call[main[m]].kind = "tx" => tx[main[m]] \in {"begin", "ending"}

Queued == (\A c \in Conns : \A b \in Blocks(c) : Placed(c, b)) /\ OneBlock /\ HeardOnce

\* The opens that have not ended are counted, and are the first of their queues.
Unopened == {c \in Conns : verdict[c] = "none"}

Counts == pending = Cardinality(Unopened) /\ (failed <=> \E c \in Conns : verdict[c] = "failed")

OpensFirst == \A c \in Conns : \A i \in At(c) : Op(c, i) = "open" => i = 1 /\ c \in Unopened

Untouched == phase = "none" =>
  made = 0 /\ closer = None /\ \A c \in Conns : queue[c] = <<>> /\ c \in Unopened

Opening == Counts /\ OpensFirst /\ Untouched /\ InitializedIsTrue

\* A transaction is open on one reader, and its snapshot is not older than it is.
Spans ==
  /\ \A r \in Readers : span[r] # None => call[span[r]].kind = "tx" /\ call[span[r]].res = "ok"
  /\ \A r, q \in Readers : span[r] = span[q] /\ span[r] # None => r = q
  /\ \A r \in Readers : snap[r] # Unset =>
       span[r] # None /\ snap[r] >= call[span[r]].seen /\ snap[r] <= version

\* Until close(), the claims on the readers.
Claimed ==
  /\ \A t \in Calls : handle[t] # None => handle[t] \notin free /\ call[t].kind = "tx"
  /\ \A t, u \in Calls : handle[t] = handle[u] /\ handle[t] # None => t = u
  /\ \A r \in Readers : r \notin free => \E t \in Calls : handle[t] = r
  /\ \A r \in Readers : span[r] # None => handle[span[r]] = r

\* A transaction that has begun is open on the reader it claims,
Begun == \A t \in Calls : tx[t] = "body" \/ (tx[t] = "begin" /\ call[t].res = "ok") =>
  handle[t] # None /\ span[handle[t]] = t

\* and begins and ends there.
ClaimsInQueues == \A c \in Conns : \A b \in Blocks(c) : b.op \in {"begin", "end"} => handle[b.id] = c

Claims == closer = None => Claimed /\ Begun /\ ClaimsInQueues

\* A read of a transaction waits here.
InTransaction(c, i) == Op(c, i) = "read" /\ call[Id(c, i)].of # None

\* It is on its reader, after its transaction began and, unless it came late, before
\* it ends.
InItsTransaction(c, i) == LET rec == call[Id(c, i)] IN
  /\ c # Writer /\ span[c] \in {None, rec.of}
  /\ \A j \in 1..(i - 1) : Op(c, j) # "begin"
  /\ ~rec.late => span[c] = rec.of /\ \A j \in 1..(i - 1) : Op(c, j) \notin {"end", "close"}

Reads == \A c \in Conns : \A i \in At(c) : InTransaction(c, i) => InItsTransaction(c, i)

\* A version is a number of writes, and nobody knows of more.
Written == {k \in Calls : call[k].kind = "write" /\ call[k].res = "ok"}

Versions == version = Cardinality(Written) /\ \A k \in Calls : call[k].seen <= version

\* What was read in a transaction that is open is its snapshot.
Snapshots ==
  /\ \A k \in Calls : Found(k) /\ call[k].span # None =>
       /\ call[call[k].span].kind = "tx" /\ call[call[k].span].res = "ok"
       /\ \A r \in Readers : span[r] = call[k].span => call[k].saw = snap[r]
  /\ ReadsAgree /\ ReadsAreFresh

ReadersInv ==
  Shape /\ Numbered /\ Queued /\ Opening /\ Spans /\ Claims /\ Reads /\ Versions /\ Snapshots

-----------------------------------------------------------------------------
(* Steps.                                                                  *)

\* The connections and the calls are finite sets of numbers, None and Unset in neither.
LEMMA Sets ==
  /\ Writer \in Conns /\ Readers \subseteq Conns /\ \A c \in Conns : c # Writer <=> c \in Readers
  /\ None \notin Calls /\ Calls \subseteq Nat /\ Conns \subseteq Nat /\ Unset \notin Nat
  /\ None \notin Readers /\ IsFiniteSet(Calls) /\ IsFiniteSet(Conns)
<1>1. PoolSize \in Nat \ {0} /\ MaxCalls \in Nat  BY ReadersAssumption
<1>2. IsFiniteSet(1..MaxCalls) /\ IsFiniteSet(0..PoolSize)  BY <1>1, FS_Interval
<1> QED  BY <1>1, <1>2 DEF Writer, Conns, Readers, Calls, None, Unset

\* What a call knows when it is made.
LEMMA IssuedCall ==
  ASSUME Shape, NEW kind \in Kinds
  PROVE  /\ WritesHeard \in Nat /\ Issued(kind) \in Call
         /\ Issued(kind).kind = kind /\ Issued(kind).seen = WritesHeard /\ Issued(kind).of = None
         /\ Issued(kind).res = "none" /\ Issued(kind).span = None /\ ~Issued(kind).heard
<1>1. IsFiniteSet({k \in Calls : call[k].kind = "write" /\ call[k].heard /\ call[k].res = "ok"})
  BY Sets, FS_Subset
<1>2. WritesHeard \in Nat  BY <1>1, FS_CardinalityType DEF WritesHeard
<1>3. NoCall \in Call /\ NoCall.of = None /\ NoCall.res = "none" /\ NoCall.span = None /\ ~NoCall.heard
  BY DEF NoCall, Call
<1> QED  BY <1>2, <1>3 DEF Issued, Call

\* The block at the head of a queue.
LEMMA HeadBlock ==
  ASSUME Shape, NEW c \in Conns, queue[c] # <<>>
  PROVE  /\ Head(queue[c]) = queue[c][1] /\ 1 \in At(c) /\ queue[c][1] \in Block /\ queue[c][1] \in Blocks(c)
         /\ Tail(queue[c]) \in Seq(Block)
         /\ Op(c, 1) \notin {"open", "close"} => It(c) \in Calls /\ Id(c, 1) \in Calls /\ It(c) = Id(c, 1)
<1>1. queue[c] \in Seq(Block)  BY DEF Shape
<1>2. PICK q \in Seq(Block) : q = queue[c]  BY <1>1
<1>3. Head(q) = q[1] /\ 1 \in 1..Len(q) /\ q[1] \in Block /\ Tail(q) \in Seq(Block)  BY <1>2
<1>4. 1 \in At(c) /\ queue[c][1] \in Blocks(c)  BY <1>2, <1>3 DEF At, Blocks
<1>5. It(c) = Id(c, 1)  BY <1>2, <1>3 DEF It, Id
<1>6. Op(c, 1) \notin {"open", "close"} => Id(c, 1) \in Calls  BY <1>2, <1>3 DEF Op, Id, Block
<1> QED  BY <1>2, <1>3, <1>4, <1>5, <1>6

\* Steps keep the shape: a block is sent,
LEMMA Sends ==
  ASSUME Shape, NEW c \in Conns, NEW op, NEW id, [op |-> op, id |-> id] \in Block, Sent(c, op, id)
  PROVE  /\ queue' \in [Conns -> Seq(Block)]
         /\ queue' = [queue EXCEPT ![c] = Append(@, [op |-> op, id |-> id])]
BY DEF Shape, Sent

\* A block that runs leaves the queue,
LEMMA Pops ==
  ASSUME Shape, NEW c \in Conns, queue[c] # <<>>, Popped(c)
  PROVE  queue' \in [Conns -> Seq(Block)]
BY HeadBlock DEF Shape, Popped

\* a call is made with the next number,
LEMMA MakesOne ==
  ASSUME Shape, NEW rec \in Call, Makes(rec)
  PROVE  /\ This \in Calls /\ made' = This /\ made' \in 0..MaxCalls
         /\ call' = [call EXCEPT ![This] = rec] /\ call' \in [Calls -> Call]
         /\ Append(main, This) \in Seq(Calls)
BY ReadersAssumption DEF Shape, Makes, This, Calls

\* completions are of calls,
LEMMA MainQueue ==
  ASSUME Shape
  PROVE  /\ \A k \in Calls : Append(main, k) \in Seq(Calls)
         /\ main \o inits \in Seq(Calls)
         /\ main # <<>> => Head(main) \in Calls /\ Tail(main) \in Seq(Calls) /\ Head(main) = main[1]
BY DEF Shape

\* a block completes its call,
LEMMA Completed ==
  ASSUME Shape, NEW c \in Conns, It(c) \in Calls, NEW found \in Call, Completes(c, found)
  PROVE  /\ main' = Append(main, It(c)) /\ main' \in Seq(Calls)
         /\ call' = [call EXCEPT ![It(c)] = found] /\ call' \in [Calls -> Call]
         /\ UNCHANGED <<made, tx>>
BY MainQueue DEF Shape, Completes

\* and a call that needs no block is answered at once.
LEMMA Answers ==
  ASSUME Shape, NEW rec \in Call, NEW res \in {"none", "ok", "error"}, AnsweredAt(rec, res)
  PROVE  /\ This \in Calls /\ made' = This /\ made' \in 0..MaxCalls /\ UNCHANGED queue
         /\ call' = [call EXCEPT ![This] = [rec EXCEPT !.res = res]] /\ call' \in [Calls -> Call]
         /\ main' = Append(main, This) /\ main' \in Seq(Calls)
<1>1. [rec EXCEPT !.res = res] \in Call  BY DEF Call
<1> QED  BY <1>1, MakesOne DEF AnsweredAt

\* The shape of the initial state,
LEMMA ShapeInit == Init => Shape
<1> SUFFICES ASSUME Init PROVE Shape  OBVIOUS
<1> USE Sets, ReadersAssumption
<1>1. NoCall \in Call  BY DEF NoCall, Call
<1>2. 0 \in 0..MaxCalls /\ 0 \in 0..(PoolSize - 1)  OBVIOUS
<1>3. queue \in [Conns -> Seq(Block)] /\ main \in Seq(Calls) /\ inits \in Seq(Calls)  BY DEF Init
<1>4. snap \in [Readers -> Nat \cup {Unset}] /\ span \in [Readers -> Calls \cup {None}] BY DEF Init
<1> QED  BY <1>1, <1>2, <1>3, <1>4 DEF Init, Shape, TxState, None

\* The blocks that open connections.
LEMMA OpenBlocks ==
  /\ [op |-> "open", id |-> None] \in Block /\ ReaderOpens \in [Conns -> Seq(Block)]
  /\ [ReaderOpens EXCEPT ![Writer] = <<[op |-> "open", id |-> None]>>] \in [Conns -> Seq(Block)]
<1>1. [op |-> "open", id |-> None] \in Block  BY DEF Block
<1>2. \A b \in Block : <<b>> \in Seq(Block)  OBVIOUS
<1>3. <<[op |-> "open", id |-> None]>> \in Seq(Block)  BY <1>1, <1>2
<1> HIDE DEF Block
<1>4. ReaderOpens \in [Conns -> Seq(Block)]  BY <1>3 DEF ReaderOpens
<1> QED  BY <1>1, <1>3, <1>4

\* and of every next one.
LEMMA ShapeStep == Shape /\ Queued /\ [Next]_vars => Shape'
<1> SUFFICES ASSUME Shape, Queued, [Next]_vars PROVE Shape'  OBVIOUS
<1> USE Sets
<1>1. CASE OpenAsync
  BY <1>1, OpenBlocks DEF OpenAsync, Shape, poolVars, stmtVars, dataVars, jsVars
<1>2. CASE OpenSync
  BY <1>2, OpenBlocks DEF OpenSync, Shape, poolVars, stmtVars, dataVars, jsVars
\* Fields of calls and of blocks.
<1>3. Kinds = {"write", "read", "tx", "prepare", "finalize", "init", "close"}  BY DEF Kinds
<1>4. \A kind \in Kinds : Issued(kind) \in Call  BY IssuedCall
<1>5. \A k \in Calls, op \in {"write", "read", "begin", "end", "prepare", "finalize"} : [op |-> op, id |-> k] \in Block
  BY DEF Block
<1>6. \A rec \in Call, res \in {"none", "ok", "error"} : [rec EXCEPT !.res = res] \in Call  BY DEF Call
<1>7. \A rec \in Call, t \in Calls, late \in BOOLEAN : [rec EXCEPT !.of = t, !.late = late] \in Call  BY DEF Call
<1>8. \A rec \in Call, s \in Calls : [rec EXCEPT !.stmt = s] \in Call  BY DEF Call
<1>9. CASE Execute
  <2>1. call' \in [Calls -> Call] /\ made' \in 0..MaxCalls /\ This \in Calls  BY <1>9, <1>3, <1>4, MakesOne DEF Execute
  <2>2. queue' \in [Conns -> Seq(Block)]  BY <1>9, <1>5, <2>1, Sends DEF Execute
  <2> QED  BY <1>9, <2>1, <2>2 DEF Execute, Shape, openVars, poolVars, stmtVars, dataVars
<1>10. CASE Select
  <2>1. call' \in [Calls -> Call] /\ made' \in 0..MaxCalls /\ This \in Calls  BY <1>10, <1>3, <1>4, MakesOne DEF Select
  <2>2. 1 + turn \in Conns /\ (turn + 1) % PoolSize \in 0..(PoolSize - 1)
    BY ReadersAssumption DEF Shape, Conns
  <2>3. queue' \in [Conns -> Seq(Block)]  BY <1>10, <1>5, <2>1, <2>2, Sends DEF Select
  <2> QED  BY <1>10, <2>1, <2>2, <2>3 DEF Select, Shape, openVars, stmtVars, dataVars
<1>11. CASE BeginRead
  <2>1. CASE AnsweredAt(Issued("tx"), "error") /\ UNCHANGED <<free, handle>>
    BY <1>11, <2>1, <1>3, <1>4, Answers DEF BeginRead, Shape, openVars, stmtVars, dataVars, TxState
  <2>2. ASSUME NEW r \in free, Makes(Issued("tx")), Sent(r, "begin", This), UNCHANGED main,
               free' = free \ {r}, handle' = [handle EXCEPT ![This] = r]
        PROVE  Shape'
    <3>1. call' \in [Calls -> Call] /\ made' \in 0..MaxCalls /\ This \in Calls  BY <2>2, <1>3, <1>4, MakesOne
    <3>2. r \in Readers  BY DEF Shape
    <3>3. queue' \in [Conns -> Seq(Block)]  BY <2>2, <3>1, <3>2, <1>5, Sends
    <3> QED  BY <1>11, <2>2, <3>1, <3>2, <3>3 DEF BeginRead, Shape, openVars, stmtVars, dataVars, TxState
  <2> QED  BY <1>11, <2>1, <2>2 DEF BeginRead
<1>12. ASSUME NEW t \in Calls, TxRead(t) PROVE Shape'
  <2> DEFINE rec == [Issued("read") EXCEPT !.of = t, !.late = tx[t] # "body"]
  <2>1. rec \in Call  BY <1>3, <1>4, <1>7
  <2>2. (handle[t] = None /\ AnsweredAt(rec, "error")) \/
        (handle[t] # None /\ Makes(rec) /\ Sent(handle[t], "read", This) /\ UNCHANGED main)
    BY <1>12 DEF TxRead, ReaderOf
  <2> HIDE DEF rec
  <2>3. CASE handle[t] = None
    BY <1>12, <2>1, <2>2, <2>3, Answers DEF TxRead, Shape, openVars, poolVars, stmtVars, dataVars
  <2>4. CASE handle[t] # None
    <3>1. call' \in [Calls -> Call] /\ made' \in 0..MaxCalls /\ This \in Calls  BY <2>1, <2>2, <2>4, MakesOne
    <3>2. queue' \in [Conns -> Seq(Block)]  BY <2>2, <2>4, <3>1, <1>5, Sends DEF Shape
    <3> QED  BY <1>12, <2>2, <2>4, <3>1, <3>2 DEF TxRead, Shape, openVars, poolVars, stmtVars, dataVars
  <2> QED  BY <2>3, <2>4
<1>13. ASSUME NEW t \in Calls, EndRead(t) PROVE Shape'
  <2>1. CASE handle[t] = None
    <3>1. main' \in Seq(Calls) /\ UNCHANGED queue  BY <1>13, <2>1, MainQueue DEF EndRead
    <3> QED  BY <1>13, <3>1 DEF EndRead, Shape, openVars, poolVars, stmtVars, dataVars, TxState
  <2>2. CASE handle[t] # None
    <3>1. queue' \in [Conns -> Seq(Block)] /\ UNCHANGED main  BY <1>13, <2>2, <1>5, Sends DEF EndRead, Shape
    <3> QED  BY <1>13, <3>1 DEF EndRead, Shape, openVars, poolVars, stmtVars, dataVars, TxState
  <2> QED  BY <2>1, <2>2
<1>14. CASE Prepare
  <2>1. call' \in [Calls -> Call] /\ made' \in 0..MaxCalls /\ This \in Calls  BY <1>14, <1>3, <1>4, MakesOne DEF Prepare
  <2>2. queue' \in [Conns -> Seq(Block)]  BY <1>14, <1>5, <2>1, Sends DEF Prepare
  <2> QED  BY <1>14, <2>1, <2>2 DEF Prepare, Shape, openVars, poolVars, stmtVars, dataVars
<1>15. ASSUME NEW s \in Calls, NEW kind \in {"write", "read"}, UsePrepared(s, kind) PROVE Shape'
  <2> DEFINE rec == [Issued(kind) EXCEPT !.stmt = s]
  <2>1. rec \in Call  BY <1>3, <1>4, <1>8
  <2>2. (s \notin map /\ AnsweredAt(rec, "error")) \/
        (s \in map /\ Makes(rec) /\ Sent(Writer, kind, This) /\ UNCHANGED main)
    BY <1>15 DEF UsePrepared
  <2> HIDE DEF rec
  <2>3. CASE s \notin map
    BY <1>15, <2>1, <2>2, <2>3, Answers DEF UsePrepared, Shape, openVars, poolVars, stmtVars, dataVars
  <2>4. CASE s \in map
    <3>1. call' \in [Calls -> Call] /\ made' \in 0..MaxCalls /\ This \in Calls  BY <2>1, <2>2, <2>4, MakesOne
    <3>2. queue' \in [Conns -> Seq(Block)]  BY <2>2, <2>4, <3>1, <1>5, Sends
    <3> QED  BY <1>15, <2>2, <2>4, <3>1, <3>2 DEF UsePrepared, Shape, openVars, poolVars, stmtVars, dataVars
  <2> QED  BY <2>3, <2>4
<1>16. ASSUME NEW s \in Calls, Finalize(s) PROVE Shape'
  <2> DEFINE rec == [Issued("finalize") EXCEPT !.stmt = s]
  <2>1. rec \in Call  BY <1>3, <1>4, <1>8
  <2>2. (s \notin map /\ AnsweredAt(rec, "ok")) \/
        (s \in map /\ Makes(rec) /\ Sent(Writer, "finalize", This) /\ UNCHANGED main)
    BY <1>16 DEF Finalize
  <2> HIDE DEF rec
  <2>3. CASE s \notin map
    BY <1>16, <2>1, <2>2, <2>3, Answers DEF Finalize, Shape, openVars, poolVars, dataVars
  <2>4. CASE s \in map
    <3>1. call' \in [Calls -> Call] /\ made' \in 0..MaxCalls /\ This \in Calls  BY <2>1, <2>2, <2>4, MakesOne
    <3>2. queue' \in [Conns -> Seq(Block)]  BY <2>2, <2>4, <3>1, <1>5, Sends
    <3> QED  BY <1>16, <2>2, <2>4, <3>1, <3>2 DEF Finalize, Shape, openVars, poolVars, dataVars
  <2> QED  BY <2>3, <2>4
<1>17. CASE Initialized
  <2>1. CASE pending > 0
    <3>1. Makes(Issued("init")) /\ inits' = Append(inits, This) /\ UNCHANGED <<main, queue>>
      BY <1>17, <2>1 DEF Initialized
    <3>2. call' \in [Calls -> Call] /\ made' \in 0..MaxCalls /\ This \in Calls  BY <3>1, <1>3, <1>4, MakesOne
    <3>3. inits' \in Seq(Calls)  BY <3>1, <3>2 DEF Shape
    <3> QED  BY <1>17, <3>1, <3>2, <3>3 DEF Initialized, Shape, poolVars, stmtVars, dataVars
  <2>2. CASE ~(pending > 0)
    <3>1. AnsweredAt(Issued("init"), IF failed THEN "error" ELSE "ok") /\ UNCHANGED inits
      BY <1>17, <2>2 DEF Initialized
    <3>2. /\ call' \in [Calls -> Call] /\ made' \in 0..MaxCalls /\ main' \in Seq(Calls) /\ UNCHANGED queue
      BY <3>1, <1>3, <1>4, Answers
    <3> QED  BY <1>17, <3>1, <3>2 DEF Initialized, Shape, poolVars, stmtVars, dataVars
  <2> QED  BY <2>1, <2>2
<1>18. CASE Close
  <2>1. CASE closer # 0
    <3>1. AnsweredAt(Issued("close"), "ok") /\ UNCHANGED <<closer, handle>>  BY <1>18, <2>1 DEF Close
    <3>2. /\ call' \in [Calls -> Call] /\ made' \in 0..MaxCalls /\ main' \in Seq(Calls) /\ UNCHANGED queue
      BY <3>1, <1>3, <1>4, Answers
    <3> QED  BY <1>18, <3>1, <3>2 DEF Close, Shape, stmtVars, dataVars
  <2>2. CASE closer = 0
    <3>1. /\ Makes(Issued("close")) /\ closer' = This /\ UNCHANGED main
          /\ handle' = [t \in Calls |-> None]
          /\ queue' = [c \in Conns |-> Append(queue[c], [op |-> "close", id |-> None])]
      BY <1>18, <2>2 DEF Close
    <3>2. call' \in [Calls -> Call] /\ made' \in 0..MaxCalls /\ This \in Calls  BY <3>1, <1>3, <1>4, MakesOne
    <3>3. [op |-> "close", id |-> None] \in Block  BY DEF Block
    <3>4. queue' \in [Conns -> Seq(Block)]  BY <3>1, <3>3 DEF Shape
    <3> QED  BY <1>18, <3>1, <3>2, <3>4 DEF Close, Shape, stmtVars, dataVars
  <2> QED  BY <2>1, <2>2
<1>19. ASSUME NEW c \in Conns, RunOpen(c) PROVE Shape'
  <2>1. \E ok \in BOOLEAN : OpenFinished(c, ok)  BY <1>19 DEF RunOpen
  <2>2. PICK ok \in BOOLEAN : OpenFinished(c, ok)  BY <2>1
  <2>3. call' \in [Calls -> Call] /\ main' \in Seq(Calls) /\ inits' \in Seq(Calls)
    <3>1. CASE pending' = 0
      <4>1. call' = [k \in Calls |-> IF call[k].kind = "init" /\ call[k].res = "none"
                                      THEN [call[k] EXCEPT !.res = IF failed' THEN "error" ELSE "ok"]
                                      ELSE call[k]]
        BY <2>2, <3>1 DEF OpenFinished
      <4>2. \A k \in Calls : [call[k] EXCEPT !.res = IF failed' THEN "error" ELSE "ok"] \in Call  BY <1>6 DEF Shape
      <4>3. call' \in [Calls -> Call]  BY <4>1, <4>2 DEF Shape
      <4>4. main' = main \o inits /\ inits' = <<>>  BY <2>2, <3>1 DEF OpenFinished
      <4> QED  BY <4>3, <4>4, MainQueue
    <3>2. CASE pending' # 0  BY <2>2, <3>2 DEF OpenFinished, Shape
    <3> QED  BY <3>1, <3>2
  <2>4. queue' \in [Conns -> Seq(Block)]  BY <1>19, Pops DEF RunOpen, Runs
  <2> QED  BY <1>19, <2>2, <2>3, <2>4 DEF RunOpen, OpenFinished, Shape, poolVars, stmtVars, dataVars
\* A block that completes its call.
<1>20. \A c \in Conns : It(c) \in Calls => call[It(c)] \in Call  BY DEF Shape
<1>21. CASE RunWrite
  <2>1. It(Writer) \in Calls  BY <1>21, HeadBlock DEF RunWrite, Runs, Op
  <2>2. queue' \in [Conns -> Seq(Block)]  BY <1>21, Pops DEF RunWrite, Runs
  <2>3. \E found \in Call : Completes(Writer, found)  BY <1>21, <1>20, <1>6, <2>1 DEF RunWrite
  <2>4. version' \in Nat  BY <1>21 DEF RunWrite, Shape
  <2> QED  BY <1>21, <2>1, <2>2, <2>3, <2>4, Completed DEF RunWrite, Shape, openVars, poolVars, stmtVars
<1>22. ASSUME NEW c \in Conns, RunRead(c) PROVE Shape'
  <2>1. It(c) \in Calls  BY <1>22, HeadBlock DEF RunRead, Runs, Op
  <2>2. queue' \in [Conns -> Seq(Block)]  BY <1>22, Pops DEF RunRead, Runs
  <2>3. Visible(c) \in Nat /\ (InTx(c) => c \in Readers /\ span[c] \in Calls)
    BY DEF Visible, InTx, Shape, None
  <2>4. \A rec \in Call, saw \in Nat, t \in Calls \cup {None} :
          [rec EXCEPT !.res = "ok", !.saw = saw, !.span = t] \in Call  BY DEF Call
  <2>5. \E found \in Call : Completes(c, found)  BY <1>22, <1>20, <1>6, <2>1, <2>3, <2>4 DEF RunRead
  <2>6. snap' \in [Readers -> Nat \cup {Unset}]  BY <1>22, <2>3 DEF RunRead, Shape
  <2> QED  BY <1>22, <2>1, <2>2, <2>5, <2>6, Completed DEF RunRead, Shape, openVars, poolVars, stmtVars
<1>23. ASSUME NEW r \in Readers, RunBegin(r) PROVE Shape'
  <2>1. It(r) \in Calls  BY <1>23, HeadBlock DEF RunBegin, Runs, Op
  <2>2. queue' \in [Conns -> Seq(Block)]  BY <1>23, Pops DEF RunBegin, Runs
  <2>3. \E found \in Call : Completes(r, found)  BY <1>23, <1>20, <1>6, <2>1 DEF RunBegin
  <2>4. /\ span' \in [Readers -> Calls \cup {None}] /\ free' \subseteq Readers
        /\ handle' \in [Calls -> Readers \cup {None}] /\ turn' = turn
    BY <1>23, <2>1 DEF RunBegin, Released, Shape, poolVars
  <2> QED  BY <1>23, <2>1, <2>2, <2>3, <2>4, Completed DEF RunBegin, Shape, openVars, stmtVars
<1>24. ASSUME NEW r \in Readers, RunEnd(r) PROVE Shape'
  <2>1. It(r) \in Calls  BY <1>24, HeadBlock DEF RunEnd, Runs, Op
  <2>2. queue' \in [Conns -> Seq(Block)]  BY <1>24, Pops DEF RunEnd, Runs
  <2>3. main' \in Seq(Calls)  BY <1>24, <2>1, MainQueue DEF RunEnd
  <2> QED  BY <1>24, <2>1, <2>2, <2>3 DEF RunEnd, Released, Shape, openVars, stmtVars, jsVars
<1>25. CASE RunPrepare
  <2>1. It(Writer) \in Calls  BY <1>25, HeadBlock DEF RunPrepare, Runs, Op
  <2>2. queue' \in [Conns -> Seq(Block)]  BY <1>25, Pops DEF RunPrepare, Runs
  <2>3. \E found \in Call : Completes(Writer, found)  BY <1>25, <1>20, <1>6, <2>1 DEF RunPrepare
  <2> QED  BY <1>25, <2>1, <2>2, <2>3, Completed DEF RunPrepare, Shape, openVars, poolVars, dataVars
<1>26. CASE RunFinalize
  <2>1. It(Writer) \in Calls  BY <1>26, HeadBlock DEF RunFinalize, Runs, Op
  <2>2. queue' \in [Conns -> Seq(Block)]  BY <1>26, Pops DEF RunFinalize, Runs
  <2>3. \E found \in Call : Completes(Writer, found)  BY <1>26, <1>20, <1>6, <2>1 DEF RunFinalize
  <2> QED  BY <1>26, <2>1, <2>2, <2>3, Completed DEF RunFinalize, Shape, openVars, poolVars, dataVars
<1>27. ASSUME NEW c \in Conns, RunClose(c) PROVE Shape'
  <2>1. queue' \in [Conns -> Seq(Block)]  BY <1>27, Pops DEF RunClose, Runs
  <2>2. closer \in Calls  BY <1>27, HeadBlock DEF RunClose, Runs, Queued, Placed, Op, Shape
  <2>3. call' \in [Calls -> Call] /\ main' \in Seq(Calls)
    <3>1. CASE gone' = Conns
      <4>1. call[closer] \in Call  BY <2>2 DEF Shape
      <4>2. call' = [call EXCEPT ![closer] = [call[closer] EXCEPT !.res = "ok"]] /\ main' = Append(main, closer)
        BY <1>27, <2>2, <3>1 DEF RunClose, Shape
      <4> QED  BY <2>2, <4>1, <4>2, <1>6, MainQueue DEF Shape
    <3>2. CASE gone' # Conns  BY <1>27, <3>2 DEF RunClose, Shape
    <3> QED  BY <3>1, <3>2
  <2>4. /\ span' \in [Readers -> Calls \cup {None}] /\ snap' \in [Readers -> Nat \cup {Unset}]
        /\ gone' \subseteq Conns
    BY <1>27 DEF RunClose, Shape
  <2> QED  BY <1>27, <2>1, <2>2, <2>3, <2>4 DEF RunClose, Shape, stmtVars, poolVars
<1>28. CASE Deliver
  <2>1. main' \in Seq(Calls) /\ Head(main) \in Calls  BY <1>28, MainQueue DEF Deliver
  <2>2. call' \in [Calls -> Call]
    <3>1. call[Head(main)] \in Call  BY <2>1 DEF Shape
    <3>2. \A rec \in Call : [rec EXCEPT !.heard = TRUE] \in Call  BY DEF Call
    <3>3. call' = [call EXCEPT ![Head(main)] = [call[Head(main)] EXCEPT !.heard = TRUE]]
      BY <1>28, <2>1 DEF Deliver, Shape
    <3> QED  BY <2>1, <3>1, <3>2, <3>3 DEF Shape
  <2>3. tx' \in [Calls -> TxState]  BY <1>28, <2>1 DEF Deliver, Shape, TxState
  <2> QED  BY <1>28, <2>1, <2>2, <2>3 DEF Deliver, Shape, openVars, poolVars, stmtVars, dataVars
<1>29. CASE UNCHANGED vars
  BY <1>29 DEF vars, openVars, poolVars, stmtVars, dataVars, jsVars, Shape
<1>30. CASE JsCalls
  BY <1>30, <1>1, <1>2, <1>9, <1>10, <1>11, <1>12, <1>13, <1>14, <1>15, <1>16, <1>17, <1>18 DEF JsCalls
<1>31. ASSUME NEW c \in Conns, RunBlock(c) PROVE Shape'
  BY <1>31, <1>19, <1>21, <1>22, <1>23, <1>24, <1>25, <1>26, <1>27 DEF RunBlock
<1> QED  BY <1>28, <1>29, <1>30, <1>31 DEF Next

-----------------------------------------------------------------------------
(* What the steps have in common.                                          *)

\* A call is made, and is a block at the end of a queue,
Adds(rec) ==
  /\ This \in Calls /\ made' = This /\ rec \in Call /\ call' = [call EXCEPT ![This] = rec]
  /\ rec.kind # "none" /\ rec.seen = WritesHeard /\ rec.span = None
  /\ rec.kind = "write" => rec.res # "ok"
  /\ rec.kind = "read" => rec.res # "ok"

Queues(rec, c, op) ==
  /\ [op |-> op, id |-> This] \in Block
  /\ queue' = [queue EXCEPT ![c] = Append(@, [op |-> op, id |-> This])]
  /\ op \notin {"open", "close", "end"} /\ KindOf(op) = rec.kind /\ rec.res = "none"
  /\ UNCHANGED <<main, inits, closer>>

\* or is answered at once,
Tells(rec) ==
  /\ main' = Append(main, This) /\ UNCHANGED <<queue, inits, closer>>
  /\ rec.kind = "init" => pending = 0 /\ rec.res = IF failed THEN "error" ELSE "ok"

\* or waits for the connections to open,
Waits(rec) ==
  /\ rec.kind = "init" /\ rec.res = "none" /\ inits' = Append(inits, This) /\ UNCHANGED <<queue, main, closer>>

\* or closes them.
Closes(rec) ==
  /\ rec.kind = "close" /\ rec.res = "none" /\ closer = None /\ closer' = This /\ UNCHANGED <<main, inits>>
  /\ queue' = [c \in Conns |-> Append(queue[c], [op |-> "close", id |-> None])]
  /\ handle' = [t \in Calls |-> None] /\ UNCHANGED free

\* A transaction claims a reader,
ClaimsOne(rec) ==
  \E r \in free :
    /\ rec.kind = "tx" /\ closer = None
    /\ Queues(rec, r, "begin") /\ free' = free \ {r} /\ handle' = [handle EXCEPT ![This] = r]

\* and nothing else does; the reads of one go to its reader.
ClaimsNone(rec) ==
  /\ UNCHANGED <<free, handle>>
  /\ \/ Tells(rec)
     \/ Waits(rec)
     \/ rec.kind # "tx" /\ rec.of = None /\ \E c \in Conns, op \in {"write", "read", "prepare", "finalize"} : Queues(rec, c, op)
     \/ rec.of # None /\ handle[rec.of] # None /\ Queues(rec, handle[rec.of], "read")

JsStep(rec) ==
  /\ Adds(rec)
  /\ phase # "none" /\ UNCHANGED <<phase, verdict, pending, failed, dataVars>>
  /\ rec.of # None => /\ rec.kind = "read" /\ rec.of \in Calls /\ tx[rec.of] \in {"body", "ending", "over"}
                      /\ rec.late <=> tx[rec.of] # "body"
  /\ rec.kind = "tx" /\ rec.res # "none" => rec.res = "error"
  /\ tx' = IF rec.kind = "tx" THEN [tx EXCEPT ![This] = "begin"] ELSE tx
  /\ Closes(rec) \/ ClaimsNone(rec) \/ ClaimsOne(rec)

\* The calls of JS but the opening of the database and the end of a transaction are such steps.
LEMMA JsSteps ==
  ASSUME Shape, Numbered, Opening, JsCalls, ~OpenAsync, ~OpenSync, \A t \in Calls : ~EndRead(t)
  PROVE  \E rec : JsStep(rec)
<1> USE Sets
<1>3. Kinds = {"write", "read", "tx", "prepare", "finalize", "init", "close"}  BY DEF Kinds
<1>4. \A kind \in Kinds : /\ Issued(kind) \in Call /\ Issued(kind).kind = kind /\ Issued(kind).seen = WritesHeard
                           /\ Issued(kind).of = None /\ Issued(kind).res = "none" /\ Issued(kind).span = None
  BY IssuedCall
<1>5. \A k \in Calls, op \in {"write", "read", "begin", "end", "prepare", "finalize"} : [op |-> op, id |-> k] \in Block
  BY DEF Block
<1>6. CASE Execute
  <2> DEFINE rec == Issued("write")
  <2>1. rec \in Call /\ Makes(rec)  BY <1>3, <1>4, <1>6 DEF Execute
  <2>2. Adds(rec)  BY <1>3, <1>4, <2>1, MakesOne DEF Adds
  <2>3. Queues(rec, Writer, "write")  BY <1>3, <1>4, <1>5, <1>6, <2>2 DEF Execute, Adds, Sent, Queues, KindOf, openVars
  <2>4. rec.kind = "write" /\ rec.of = None  BY <1>3, <1>4
  <2> HIDE DEF rec
  <2>5. JsStep(rec)
    BY <1>6, <2>2, <2>3, <2>4 DEF Execute, JsStep, ClaimsNone, openVars, poolVars, dataVars
  <2> QED  BY <2>5
<1>7. CASE Select
  <2> DEFINE rec == Issued("read")
  <2>1. rec \in Call /\ Makes(rec)  BY <1>3, <1>4, <1>7 DEF Select
  <2>2. Adds(rec)  BY <1>3, <1>4, <2>1, MakesOne DEF Adds
  <2>3. \E c \in Conns : Queues(rec, c, "read")
    <3>1. 1 + turn \in Conns  BY ReadersAssumption DEF Shape, Conns
    <3>2. \E c \in Conns : Sent(c, "read", This)  BY <1>7, <3>1 DEF Select
    <3> QED  BY <1>3, <1>4, <1>5, <1>7, <2>2, <3>2 DEF Select, Adds, Sent, Queues, KindOf, openVars
  <2>4. rec.kind = "read" /\ rec.of = None  BY <1>3, <1>4
  <2> HIDE DEF rec
  <2>5. JsStep(rec)
    BY <1>7, <2>2, <2>3, <2>4 DEF Select, JsStep, ClaimsNone, openVars, dataVars
  <2> QED  BY <2>5
<1>8. CASE BeginRead
  <2> DEFINE new == Issued("tx")
  <2>1. new \in Call /\ new.kind = "tx" /\ new.seen = WritesHeard /\ new.of = None /\ new.res = "none" /\ new.span = None
    BY <1>3, <1>4
  <2>2. tx' = [tx EXCEPT ![This] = "begin"] /\ phase = "opened" /\ closer = None
        /\ UNCHANGED <<openVars, turn, stmtVars, dataVars>>
    BY <1>8 DEF BeginRead, IsOpen, None
  <2>3. CASE AnsweredAt(new, "error") /\ UNCHANGED <<free, handle>>
    <3> DEFINE rec == [new EXCEPT !.res = "error"]
    <3>1. /\ This \in Calls /\ made' = This /\ UNCHANGED queue /\ call' = [call EXCEPT ![This] = rec]
          /\ main' = Append(main, This)
      BY <2>1, <2>3, Answers
    <3>2. rec \in Call /\ rec.kind = "tx" /\ rec.seen = WritesHeard /\ rec.of = None /\ rec.res = "error" /\ rec.span = None
      BY <2>1 DEF Call
    <3> HIDE DEF rec, new
    <3>3. JsStep(rec)  BY <2>2, <2>3, <3>1, <3>2 DEF JsStep, Adds, Tells, ClaimsNone, openVars, dataVars
    <3> QED  BY <3>3
  <2>4. ASSUME NEW r \in free, Makes(new), Sent(r, "begin", This), UNCHANGED main,
               free' = free \ {r}, handle' = [handle EXCEPT ![This] = r]
        PROVE  JsStep(new)
    <3> HIDE DEF new
    <3>1. Adds(new)  BY <2>1, <2>4, MakesOne DEF Adds
    <3>2. Queues(new, r, "begin")  BY <1>5, <2>1, <2>2, <2>4, <3>1 DEF Queues, Adds, Sent, KindOf, openVars
    <3> QED  BY <2>1, <2>2, <2>4, <3>1, <3>2 DEF JsStep, ClaimsOne, openVars, dataVars
  <2> QED  BY <1>8, <2>3, <2>4 DEF BeginRead
<1>9. ASSUME NEW t \in Calls, TxRead(t) PROVE \E rec : JsStep(rec)
  <2> DEFINE new == [Issued("read") EXCEPT !.of = t, !.late = tx[t] # "body"]
  <2>1. /\ new \in Call /\ new.kind = "read" /\ new.seen = WritesHeard /\ new.of = t /\ new.res = "none"
        /\ new.span = None /\ (new.late <=> tx[t] # "body")
    <3> DEFINE base == Issued("read")
               late == tx[t] # "body"
    <3>1. base \in Call /\ late \in BOOLEAN /\ new = [base EXCEPT !.of = t, !.late = late]  BY <1>3, <1>4
    <3>2. base.kind = "read" /\ base.seen = WritesHeard /\ base.res = "none" /\ base.span = None  BY <1>3, <1>4
    <3>3. late = (tx[t] # "body")  OBVIOUS
    <3> HIDE DEF base, late, new
    <3>4. /\ new \in Call /\ new.kind = base.kind /\ new.seen = base.seen /\ new.of = t
          /\ new.res = base.res /\ new.span = base.span /\ new.late = late
      BY <3>1 DEF Call
    <3>5. new.late <=> tx[t] # "body"  BY <3>3, <3>4, Zenon
    <3> QED  BY <3>2, <3>4, <3>5
  <2>2. /\ tx[t] \in {"body", "ending", "over"} /\ UNCHANGED <<openVars, poolVars, stmtVars, dataVars, tx>>
        /\ \/ handle[t] = None /\ AnsweredAt(new, "error")
           \/ handle[t] # None /\ Makes(new) /\ Sent(handle[t], "read", This) /\ UNCHANGED main
    BY <1>9 DEF TxRead, ReaderOf
  <2>3. phase # "none"
    <3>1. call[t].kind = "tx"  BY <2>2 DEF Numbered
    <3> QED  BY <3>1 DEF Opening, Untouched, Numbered, NoCall, Calls
  <2> HIDE DEF new
  <2>4. CASE handle[t] = None
    <3> DEFINE rec == [new EXCEPT !.res = "error"]
    <3>1. /\ This \in Calls /\ made' = This /\ UNCHANGED queue /\ call' = [call EXCEPT ![This] = rec]
          /\ main' = Append(main, This)
      BY <2>1, <2>2, <2>4, Answers
    <3>2. /\ rec \in Call /\ rec.kind = "read" /\ rec.seen = WritesHeard /\ rec.of = t /\ rec.res = "error"
          /\ rec.span = None /\ (rec.late <=> tx[t] # "body")
      BY <2>1 DEF Call
    <3> HIDE DEF rec
    <3>3. JsStep(rec)  BY <2>2, <2>3, <2>4, <3>1, <3>2 DEF JsStep, Adds, Tells, ClaimsNone, openVars, poolVars, dataVars
    <3> QED  BY <3>3
  <2>5. CASE handle[t] # None
    <3>1. Adds(new)  BY <2>1, <2>2, <2>5, MakesOne DEF Adds
    <3>2. Queues(new, handle[t], "read")  BY <1>5, <2>1, <2>2, <2>5, <3>1 DEF Queues, Adds, Sent, KindOf, openVars
    <3>3. JsStep(new)  BY <2>1, <2>2, <2>3, <2>5, <3>1, <3>2 DEF JsStep, ClaimsNone, openVars, poolVars, dataVars
    <3> QED  BY <3>3
  <2> QED  BY <2>4, <2>5
<1>10. CASE Prepare
  <2> DEFINE rec == Issued("prepare")
  <2>1. rec \in Call /\ Makes(rec)  BY <1>3, <1>4, <1>10 DEF Prepare
  <2>2. Adds(rec)  BY <1>3, <1>4, <2>1, MakesOne DEF Adds
  <2>3. Queues(rec, Writer, "prepare")  BY <1>3, <1>4, <1>5, <1>10, <2>2 DEF Prepare, Adds, Sent, Queues, KindOf, openVars
  <2>4. rec.kind = "prepare" /\ rec.of = None  BY <1>3, <1>4
  <2> HIDE DEF rec
  <2>5. JsStep(rec)
    BY <1>10, <2>2, <2>3, <2>4 DEF Prepare, JsStep, ClaimsNone, openVars, poolVars, dataVars
  <2> QED  BY <2>5
\* A call of a prepared statement or its end.
<1>11. ASSUME NEW s \in Held, NEW kind \in {"write", "read", "finalize"}, NEW res \in {"ok", "error"},
              res = "ok" => kind = "finalize", NEW new, new = [Issued(kind) EXCEPT !.stmt = s],
              AnsweredAt(new, res) \/ (Makes(new) /\ Sent(Writer, kind, This) /\ UNCHANGED main),
              UNCHANGED <<openVars, poolVars, dataVars, tx>>
       PROVE  \E rec : JsStep(rec)
  <2>1. /\ new \in Call /\ new.kind = kind /\ new.seen = WritesHeard /\ new.of = None /\ new.res = "none"
        /\ new.span = None
    BY <1>3, <1>4, <1>11 DEF Call, Held
  <2>2. phase # "none"  BY DEF Opening, Untouched, Numbered, NoCall, Calls, Held
  <2>3. CASE AnsweredAt(new, res)
    <3> DEFINE rec == [new EXCEPT !.res = res]
    <3>1. /\ This \in Calls /\ made' = This /\ UNCHANGED queue /\ call' = [call EXCEPT ![This] = rec]
          /\ main' = Append(main, This)
      BY <2>1, <2>3, Answers
    <3>2. /\ rec \in Call /\ rec.kind = kind /\ rec.seen = WritesHeard /\ rec.of = None /\ rec.res = res
          /\ rec.span = None
      BY <2>1 DEF Call
    <3> HIDE DEF rec
    <3>3. JsStep(rec)  BY <1>11, <2>2, <3>1, <3>2 DEF JsStep, Adds, Tells, ClaimsNone, openVars, poolVars, dataVars
    <3> QED  BY <3>3
  <2>4. CASE Makes(new) /\ Sent(Writer, kind, This) /\ UNCHANGED main
    <3>1. Adds(new)  BY <2>1, <2>4, MakesOne DEF Adds
    <3>2. Queues(new, Writer, kind)  BY <1>5, <1>11, <2>1, <2>4, <3>1 DEF Queues, Adds, Sent, KindOf, openVars
    <3>3. JsStep(new)  BY <1>11, <2>1, <2>2, <3>1, <3>2 DEF JsStep, ClaimsNone, openVars, poolVars, dataVars
    <3> QED  BY <3>3
  <2> QED  BY <1>11, <2>3, <2>4
<1>12. ASSUME NEW s \in Calls, NEW kind \in {"write", "read"}, UsePrepared(s, kind) PROVE \E rec : JsStep(rec)
  BY <1>12, <1>11 DEF UsePrepared
<1>13. ASSUME NEW s \in Calls, Finalize(s) PROVE \E rec : JsStep(rec)
  BY <1>13, <1>11 DEF Finalize
<1>14. CASE Initialized
  <2> DEFINE new == Issued("init")
  <2>1. new \in Call /\ new.kind = "init" /\ new.seen = WritesHeard /\ new.of = None /\ new.res = "none" /\ new.span = None
    BY <1>3, <1>4
  <2>2. /\ phase = "opened" /\ UNCHANGED <<phase, closer, verdict, pending, failed, poolVars, dataVars, tx>>
        /\ \/ pending > 0 /\ Makes(new) /\ inits' = Append(inits, This) /\ UNCHANGED <<main, queue>>
           \/ ~(pending > 0) /\ AnsweredAt(new, IF failed THEN "error" ELSE "ok") /\ UNCHANGED inits
    BY <1>14 DEF Initialized
  <2> HIDE DEF new
  <2>3. CASE pending > 0
    BY <2>1, <2>2, <2>3, MakesOne DEF JsStep, Adds, Waits, ClaimsNone, poolVars
  <2>4. CASE ~(pending > 0)
    <3> DEFINE res == IF failed THEN "error" ELSE "ok"
    <3> DEFINE rec == [new EXCEPT !.res = res]
    <3>1. res \in {"none", "ok", "error"} /\ UNCHANGED inits  BY <2>2, <2>4
    <3>2. /\ This \in Calls /\ made' = This /\ UNCHANGED queue /\ call' = [call EXCEPT ![This] = rec]
          /\ main' = Append(main, This)
      BY <2>1, <2>2, <2>4, <3>1, Answers
    <3>3. /\ rec \in Call /\ rec.kind = "init" /\ rec.seen = WritesHeard /\ rec.of = None
          /\ rec.res = (IF failed THEN "error" ELSE "ok") /\ rec.span = None
      BY <2>1 DEF Call
    <3>4. pending = 0
      BY <2>4, Sets, FS_CardinalityType, FS_Subset DEF Opening, Counts, Unopened
    <3> HIDE DEF rec, res
    <3>5. JsStep(rec)  BY <2>2, <3>1, <3>2, <3>3, <3>4 DEF JsStep, Adds, Tells, ClaimsNone, poolVars
    <3> QED  BY <3>5
  <2> QED  BY <2>3, <2>4
<1>15. CASE Close
  <2> DEFINE new == Issued("close")
  <2>1. new \in Call /\ new.kind = "close" /\ new.seen = WritesHeard /\ new.of = None /\ new.res = "none" /\ new.span = None
    BY <1>3, <1>4
  <2>2. /\ phase = "opened" /\ UNCHANGED <<phase, verdict, gone, pending, failed, inits, free, turn, dataVars, tx>>
        /\ \/ closer # 0 /\ AnsweredAt(new, "ok") /\ UNCHANGED <<closer, handle>>
           \/ /\ closer = 0 /\ Makes(new) /\ closer' = This /\ UNCHANGED main
              /\ handle' = [t \in Calls |-> None]
              /\ queue' = [c \in Conns |-> Append(queue[c], [op |-> "close", id |-> None])]
    BY <1>15 DEF Close
  <2> HIDE DEF new
  <2>3. CASE closer # 0
    <3> DEFINE rec == [new EXCEPT !.res = "ok"]
    <3>1. /\ This \in Calls /\ made' = This /\ UNCHANGED queue /\ call' = [call EXCEPT ![This] = rec]
          /\ main' = Append(main, This)
      BY <2>1, <2>2, <2>3, Answers
    <3>2. /\ rec \in Call /\ rec.kind = "close" /\ rec.seen = WritesHeard /\ rec.of = None /\ rec.res = "ok"
          /\ rec.span = None
      BY <2>1 DEF Call
    <3> HIDE DEF rec
    <3>3. JsStep(rec)  BY <2>2, <2>3, <3>1, <3>2 DEF JsStep, Adds, Tells, ClaimsNone
    <3> QED  BY <3>3
  <2>4. CASE closer = 0
    BY <2>1, <2>2, <2>4, MakesOne DEF JsStep, Adds, Closes, None
  <2> QED  BY <2>3, <2>4
<1> QED  BY <1>6, <1>7, <1>8, <1>9, <1>10, <1>12, <1>13, <1>14, <1>15 DEF JsCalls

\* A block runs and completes its call, which keeps what it was made with.
RunStep(c, found) ==
  /\ c \in Conns /\ queue[c] # <<>> /\ Id(c, 1) \in Calls /\ Op(c, 1) \notin {"open", "close"}
  /\ queue' = [queue EXCEPT ![c] = Tail(@)] /\ main' = Append(main, Id(c, 1))
  /\ found \in Call /\ call' = [call EXCEPT ![Id(c, 1)] = found]
  /\ LET rec == call[Id(c, 1)] IN
     /\ found.kind = rec.kind /\ found.of = rec.of /\ found.late = rec.late /\ found.seen = rec.seen
     /\ found.heard = rec.heard
     /\ IF Op(c, 1) = "end" THEN found = rec ELSE found.res \in {"ok", "error"}
  /\ UNCHANGED <<made, tx, inits, openVars>>
  /\ handle' = handle \/ handle' = [handle EXCEPT ![Id(c, 1)] = None]

\* Every block but those that open and close a connection runs so.
LEMMA RunSteps ==
  ASSUME Shape, NEW c \in Conns, RunBlock(c), ~RunOpen(c), ~RunClose(c)
  PROVE  \E found : RunStep(c, found)
<1> USE Sets
<1>1. \A rec \in Call, res \in {"ok", "error"} :
        LET with == [rec EXCEPT !.res = res] IN
        /\ with \in Call /\ with.kind = rec.kind /\ with.of = rec.of /\ with.late = rec.late /\ with.seen = rec.seen
        /\ with.heard = rec.heard /\ with.res = res
  BY DEF Call
<1>3. \A k \in Calls : call[k] \in Call  BY DEF Shape
<1> DEFINE Ran(found) == /\ Completes(c, found) /\ Popped(c) /\ UNCHANGED openVars
                         /\ handle' = handle \/ handle' = [handle EXCEPT ![It(c)] = None]
<1>4. ASSUME queue[c] # <<>>, Op(c, 1) \notin {"open", "close", "end"},
             NEW found \in Call, Ran(found), It(c) \in Calls => found.res \in {"ok", "error"},
             LET rec == call[It(c)] IN
             /\ found.kind = rec.kind /\ found.of = rec.of /\ found.late = rec.late /\ found.seen = rec.seen
             /\ found.heard = rec.heard
      PROVE  RunStep(c, found)
  BY <1>4, HeadBlock DEF RunStep, Completes, Popped, openVars
<1> HIDE DEF Ran
<1> USE DEF Op, Runs
<1>5. CASE RunWrite /\ c = Writer
  <2>1. queue[c] # <<>> /\ Op(c, 1) = "write" /\ It(c) \in Calls  BY <1>5, HeadBlock DEF RunWrite
  <2>2. Ran([call[It(c)] EXCEPT !.res = "ok"]) \/ Ran([call[It(c)] EXCEPT !.res = "error"])
    BY <1>5 DEF RunWrite, Ran, poolVars
  <2> QED  BY <1>1, <1>3, <1>4, <2>1, <2>2
<1>6. CASE RunRead(c)
  <2>1. queue[c] # <<>> /\ Op(c, 1) = "read" /\ It(c) \in Calls  BY <1>6, HeadBlock DEF RunRead
  <2>2. Visible(c) \in Nat /\ (IF InTx(c) THEN span[c] ELSE None) \in Calls \cup {None}
    BY DEF Visible, InTx, Shape, None
  <2>3. \/ Ran([call[It(c)] EXCEPT !.res = "ok", !.saw = Visible(c), !.span = IF InTx(c) THEN span[c] ELSE None])
        \/ Ran([call[It(c)] EXCEPT !.res = "error"])
    BY <1>6 DEF RunRead, Ran, poolVars
  <2>4. CASE Ran([call[It(c)] EXCEPT !.res = "error"])  BY <1>1, <1>3, <1>4, <2>1, <2>4
  <2> DEFINE t == IF InTx(c) THEN span[c] ELSE None
             saw == Visible(c)
             rec == call[It(c)]
             found == [rec EXCEPT !.res = "ok", !.saw = saw, !.span = t]
  <2>5. CASE Ran(found)
    <3>1. t \in Calls \cup {None} /\ saw \in Nat /\ rec \in Call  BY <1>3, <2>1, <2>2
    <3>2. found = [rec EXCEPT !.res = "ok", !.saw = saw, !.span = t]  OBVIOUS
    <3> HIDE DEF found, t, saw, rec
    <3>3. /\ found \in Call /\ found.kind = rec.kind /\ found.of = rec.of /\ found.late = rec.late
          /\ found.seen = rec.seen /\ found.heard = rec.heard /\ found.res = "ok"
      BY <3>1, <3>2 DEF Call
    <3> QED  BY <1>4, <2>1, <2>5, <3>3 DEF rec
  <2> QED  BY <2>3, <2>4, <2>5
<1>7. CASE c \in Readers /\ RunBegin(c)
  <2>1. queue[c] # <<>> /\ Op(c, 1) = "begin" /\ It(c) \in Calls  BY <1>7, HeadBlock DEF RunBegin
  <2>2. Ran([call[It(c)] EXCEPT !.res = "ok"]) \/ Ran([call[It(c)] EXCEPT !.res = "error"])
    BY <1>7 DEF RunBegin, Ran, poolVars, Released
  <2> QED  BY <1>1, <1>3, <1>4, <2>1, <2>2
<1>8. CASE c \in Readers /\ RunEnd(c)
  <2>1. queue[c] # <<>> /\ Op(c, 1) = "end" /\ It(c) \in Calls /\ It(c) = Id(c, 1)  BY <1>8, HeadBlock DEF RunEnd
  <2>2. call' = [call EXCEPT ![It(c)] = call[It(c)]]  BY <1>8, <2>1 DEF RunEnd, jsVars, Shape
  <2>3. RunStep(c, call[It(c)])
    BY <1>3, <1>8, <2>1, <2>2 DEF RunStep, RunEnd, Popped, openVars, jsVars, Released
  <2> QED  BY <2>3
<1>9. CASE RunPrepare /\ c = Writer
  <2>1. queue[c] # <<>> /\ Op(c, 1) = "prepare" /\ It(c) \in Calls  BY <1>9, HeadBlock DEF RunPrepare
  <2>2. Ran([call[It(c)] EXCEPT !.res = "ok"]) \/ Ran([call[It(c)] EXCEPT !.res = "error"])
    BY <1>9 DEF RunPrepare, Ran, poolVars
  <2> QED  BY <1>1, <1>3, <1>4, <2>1, <2>2
<1>10. CASE RunFinalize /\ c = Writer
  <2>1. queue[c] # <<>> /\ Op(c, 1) = "finalize" /\ It(c) \in Calls  BY <1>10, HeadBlock DEF RunFinalize
  <2>2. Ran([call[It(c)] EXCEPT !.res = "ok"])  BY <1>10 DEF RunFinalize, Ran, poolVars
  <2> QED  BY <1>1, <1>3, <1>4, <2>1, <2>2
<1> QED  BY <1>5, <1>6, <1>7, <1>8, <1>9, <1>10 DEF RunBlock

\* A block that is appended is the last of its queue, and nothing else moves.
LEMMA Appended ==
  ASSUME Shape, NEW c \in Conns, NEW b \in Block, queue' = [queue EXCEPT ![c] = Append(@, b)],
         NEW d \in Conns, NEW i \in At(d)'
  PROVE  \/ i \in At(d) /\ queue'[d][i] = queue[d][i]
         \/ d = c /\ i = Len(queue[c]) + 1 /\ queue'[d][i] = b
BY DEF Shape, At

\* When a block has run the others of its queue move up.
LEMMA Dropped ==
  ASSUME Shape, NEW c \in Conns, queue[c] # <<>>, queue' = [queue EXCEPT ![c] = Tail(@)],
         NEW d \in Conns, NEW i \in At(d)'
  PROVE  IF d = c THEN i + 1 \in At(d) /\ queue'[d][i] = queue[d][i + 1]
                  ELSE i \in At(d) /\ queue'[d][i] = queue[d][i]
BY DEF Shape, At

\* The same of the blocks as a set.
LEMMA AppendedBlocks ==
  ASSUME Shape, NEW c \in Conns, NEW b \in Block, queue' = [queue EXCEPT ![c] = Append(@, b)],
         NEW d \in Conns, NEW e \in Blocks(d)'
  PROVE  e \in Block /\ (e \in Blocks(d) \/ (d = c /\ e = b))
<1>1. PICK i \in At(d)' : e = queue'[d][i]  BY DEF Blocks
<1>2. \/ i \in At(d) /\ queue'[d][i] = queue[d][i]
      \/ d = c /\ queue'[d][i] = b
  BY Appended
<1> QED  BY <1>1, <1>2 DEF Blocks, Shape, At

\* When a block has run, the others are those that were there, of other calls.
LEMMA DroppedBlocks ==
  ASSUME Shape, OneBlock, NEW c \in Conns, queue[c] # <<>>, queue' = [queue EXCEPT ![c] = Tail(@)],
         NEW d \in Conns, NEW e \in Blocks(d)'
  PROVE  e \in Block /\ e \in Blocks(d) /\ (e.id # None => e.id # Id(c, 1))
<1>1. PICK i \in At(d)' : e = queue'[d][i]  BY DEF Blocks
<1>2. IF d = c THEN i + 1 \in At(d) /\ queue'[d][i] = queue[d][i + 1]
               ELSE i \in At(d) /\ queue'[d][i] = queue[d][i]
  BY Dropped
<1>3. i \in Nat /\ i > 0 /\ 1 \in At(c)
  <2>1. queue'[d] \in Seq(Block)  BY Sets, HeadBlock DEF Shape
  <2> QED  BY <2>1, HeadBlock DEF At
<1>4. \E j \in At(d) : e = queue[d][j] /\ (d = c => j # 1)
  <2>1. CASE d = c
    <3>1. i + 1 \in At(d) /\ e = queue[d][i + 1]  BY <1>1, <1>2, <2>1
    <3>2. i + 1 # 1  BY <1>3
    <3> QED  BY <3>1, <3>2
  <2>2. CASE d # c
    <3>1. i \in At(d) /\ e = queue[d][i]  BY <1>1, <1>2, <2>2
    <3> QED  BY <2>2, <3>1
  <2> QED  BY <2>1, <2>2
<1> QED  BY <1>3, <1>4 DEF OneBlock, Blocks, Shape, At, Id

\* A call that had no block has one after it is sent,
LEMMA OneBlockAppended ==
  ASSUME Shape, OneBlock, NEW c \in Conns, NEW b \in Block, queue' = [queue EXCEPT ![c] = Append(@, b)],
         \A d \in Conns : \A e \in Blocks(d) : e.id # b.id
  PROVE  OneBlock'
<1> DEFINE Old(d, i) == i \in At(d) /\ queue'[d][i] = queue[d][i]
           New(d, i) == d = c /\ i = Len(queue[c]) + 1 /\ queue'[d][i] = b
<1>1. \A d \in Conns : \A i \in At(d) : Id(d, i) # b.id  BY DEF Blocks, Id
<1>2. \A d \in Conns : \A i \in At(d)' : Old(d, i) \/ New(d, i)  BY Appended
<1>3. ASSUME NEW d \in Conns, NEW e \in Conns, NEW i \in At(d)', NEW j \in At(e)',
             Id(d, i)' # None, Id(d, i)' = Id(e, j)'
      PROVE  d = e /\ i = j
  <2>1. (Old(d, i) \/ New(d, i)) /\ (Old(e, j) \/ New(e, j))  BY <1>2
  <2>2. CASE Old(d, i) /\ Old(e, j)
    <3>1. Id(d, i)' = Id(d, i) /\ Id(e, j)' = Id(e, j)  BY <2>2 DEF Id
    <3>2. i \in At(d) /\ j \in At(e)  BY <2>2
    <3>3. Id(d, i) # None /\ Id(d, i) = Id(e, j)  BY <1>3, <3>1
    <3> HIDE DEF Old, New
    <3> QED  BY <3>2, <3>3 DEF OneBlock
  <2>3. CASE Old(d, i) /\ New(e, j)  BY <1>1, <1>3, <2>3 DEF Id
  <2>4. CASE New(d, i) /\ Old(e, j)  BY <1>1, <1>3, <2>4 DEF Id
  <2>5. CASE New(d, i) /\ New(e, j)  BY <2>5
  <2> QED  BY <2>1, <2>2, <2>3, <2>4, <2>5
<1> QED  BY <1>3 DEF OneBlock

\* and none has two after one has run.
LEMMA OneBlockDropped ==
  ASSUME Shape, OneBlock, NEW c \in Conns, queue[c] # <<>>, queue' = [queue EXCEPT ![c] = Tail(@)]
  PROVE  OneBlock'
<1> DEFINE was(d, i) == IF d = c THEN i + 1 ELSE i
<1>1. \A d \in Conns : \A i \in At(d)' : i \in Nat /\ was(d, i) \in At(d) /\ Id(d, i)' = Id(d, was(d, i))
  <2> SUFFICES ASSUME NEW d \in Conns, NEW i \in At(d)'
               PROVE  i \in Nat /\ was(d, i) \in At(d) /\ Id(d, i)' = Id(d, was(d, i))
    OBVIOUS
  <2>1. IF d = c THEN i + 1 \in At(d) /\ queue'[d][i] = queue[d][i + 1]
                 ELSE i \in At(d) /\ queue'[d][i] = queue[d][i]
    BY Dropped
  <2>2. i \in Nat
    <3>1. queue'[d] \in Seq(Block)  BY HeadBlock DEF Shape
    <3> QED  BY <3>1 DEF At
  <2> QED  BY <2>1, <2>2 DEF Id
<1>2. ASSUME NEW d \in Conns, NEW e \in Conns, NEW i \in At(d)', NEW j \in At(e)',
             Id(d, i)' # None, Id(d, i)' = Id(e, j)'
      PROVE  d = e /\ i = j
  <2>1. i \in Nat /\ j \in Nat /\ was(d, i) \in At(d) /\ was(e, j) \in At(e)  BY <1>1
  <2>2. Id(d, was(d, i)) # None /\ Id(d, was(d, i)) = Id(e, was(e, j))  BY <1>1, <1>2
  <2>3. d = e /\ was(d, i) = was(e, j)
    <3> HIDE DEF was
    <3> QED  BY <2>1, <2>2 DEF OneBlock
  <2> QED  BY <2>1, <2>3
<1> QED  BY <1>2 DEF OneBlock

\* The last blocks.
LEMMA OneBlockClosed ==
  ASSUME Shape, OneBlock, queue' = [c \in Conns |-> Append(queue[c], [op |-> "close", id |-> None])]
  PROVE  /\ OneBlock'
         /\ \A d \in Conns : \A e \in Blocks(d)' :
              e \in Block /\ (e \in Blocks(d) \/ e = [op |-> "close", id |-> None])
<1>1. \A b \in {[op |-> "close", id |-> None]} : b \in Block /\ b.id = None  BY DEF Block
<1>2. PICK b : b = [op |-> "close", id |-> None]  OBVIOUS
<1>3. b \in Block /\ b.id = None /\ queue' = [c \in Conns |-> Append(queue[c], b)]  BY <1>1, <1>2
<1> DEFINE Old(d, i) == i \in At(d) /\ queue'[d][i] = queue[d][i]
<1>4. \A d \in Conns : \A i \in At(d)' : Old(d, i) \/ queue'[d][i] = b  BY <1>3 DEF Shape, At
<1>5. ASSUME NEW d \in Conns, NEW e \in Conns, NEW i \in At(d)', NEW j \in At(e)',
             Id(d, i)' # None, Id(d, i)' = Id(e, j)'
      PROVE  d = e /\ i = j
  <2>1. Old(d, i) /\ Old(e, j)  BY <1>3, <1>4, <1>5 DEF Id
  <2>2. i \in At(d) /\ j \in At(e)  BY <2>1
  <2>3. Id(d, i) # None /\ Id(d, i) = Id(e, j)  BY <1>5, <2>1 DEF Id
  <2> HIDE DEF Old
  <2> QED  BY <2>2, <2>3 DEF OneBlock
<1>6. ASSUME NEW d \in Conns, NEW e \in Blocks(d)' PROVE e \in Block /\ (e \in Blocks(d) \/ e = b)
  <2>1. PICK i \in At(d)' : e = queue'[d][i]  BY <1>6 DEF Blocks
  <2> QED  BY <1>3, <1>4, <2>1 DEF Blocks, Shape, At
<1> QED  BY <1>2, <1>5, <1>6 DEF OneBlock

\* A completion that is appended is the last.
LEMMA AppendedMain ==
  ASSUME Shape, NEW k \in Calls, main' = Append(main, k), NEW m \in 1..Len(main')
  PROVE  (m \in 1..Len(main) /\ main'[m] = main[m]) \/ (m = Len(main) + 1 /\ main'[m] = k)
BY DEF Shape

-----------------------------------------------------------------------------
(* Calls.                                                                  *)

\* What a call was made with stays.
LEMMA BelongsKept ==
  ASSUME Belongs, \A k \in Calls : call'[k].kind = call[k].kind /\ call'[k].of = call[k].of
  PROVE  Belongs'
<1> SUFFICES ASSUME NEW k \in Calls, call'[k].of # None
             PROVE  call'[k].kind = "read" /\ call'[k].of \in Calls /\ call'[call'[k].of].kind = "tx"
  BY DEF Belongs
<1>1. call[k].kind = "read" /\ call[k].of \in Calls /\ call[call[k].of].kind = "tx"  BY DEF Belongs
<1> QED  BY <1>1

\* The end of an open changes no more of a call than the answer to initialized().
LEMMA OpenAnswers ==
  ASSUME Shape, NEW c \in Conns, RunOpen(c), NEW k \in Calls
  PROVE  /\ call[k].kind # "init" \/ call[k].res # "none" => call'[k] = call[k]
         /\ call'[k].kind = call[k].kind /\ call'[k].of = call[k].of /\ call'[k].late = call[k].late
         /\ call'[k].seen = call[k].seen /\ call'[k].span = call[k].span /\ call'[k].saw = call[k].saw
         /\ call'[k].heard = call[k].heard
<1> DEFINE res == IF failed' THEN "error" ELSE "ok"
           rec == call[k]
           new == [rec EXCEPT !.res = res]
<1>0. \/ call' = call
      \/ call' = [j \in Calls |-> IF call[j].kind = "init" /\ call[j].res = "none"
                                    THEN [call[j] EXCEPT !.res = res] ELSE call[j]]
  BY DEF RunOpen, OpenFinished
<1>2. rec \in Call  BY DEF Shape
<1> HIDE DEF res
<1>1. call'[k] = rec \/ (rec.kind = "init" /\ rec.res = "none" /\ call'[k] = new)  BY <1>0
<1> HIDE DEF rec
<1>3. /\ new.kind = rec.kind /\ new.of = rec.of /\ new.late = rec.late /\ new.seen = rec.seen
      /\ new.span = rec.span /\ new.saw = rec.saw /\ new.heard = rec.heard
  BY <1>2 DEF Call
<1> HIDE DEF new
<1>4. rec = call[k]  BY DEF rec
<1> QED  BY <1>1, <1>3, <1>4

\* Its completions are those of initialized(),
LEMMA OpenTells ==
  ASSUME Shape, Numbered, NEW c \in Conns, RunOpen(c), NEW m \in 1..Len(main')
  PROVE  \/ m \in 1..Len(main) /\ main'[m] = main[m]
         \/ main'[m] \in Calls /\ call[main'[m]].kind = "init"
<1>1. main' = main \/ main' = main \o inits  BY DEF RunOpen, OpenFinished
<1>2. \A n \in 1..Len(inits) : inits[n] \in Calls /\ call[inits[n]].kind = "init"  BY DEF Shape, Numbered
<1>3. \/ m \in 1..Len(main) /\ main'[m] = main[m]
      \/ m - Len(main) \in 1..Len(inits) /\ main'[m] = inits[m - Len(main)]
  BY <1>1 DEF Shape
<1> QED  BY <1>2, <1>3

\* and that of the last block of a connection is close()'s.
LEMMA CloseTells ==
  ASSUME Shape, Numbered, Queued, NEW c \in Conns, RunClose(c)
  PROVE  /\ closer \in Calls /\ call[closer].kind = "close"
         /\ \A k \in Calls : /\ k # closer => call'[k] = call[k]
                             /\ call'[k].kind = call[k].kind /\ call'[k].of = call[k].of
         /\ \A m \in 1..Len(main') : (m \in 1..Len(main) /\ main'[m] = main[m]) \/ main'[m] = closer
<1>1. closer \in Calls /\ call[closer].kind = "close"
  BY HeadBlock DEF RunClose, Runs, Queued, Placed, Op, Shape, Numbered
<1>2. call' = call \/ call' = [call EXCEPT ![closer] = [call[closer] EXCEPT !.res = "ok"]]
  BY <1>1 DEF RunClose, Shape
<1>3. [call[closer] EXCEPT !.res = "ok"].kind = call[closer].kind /\ [call[closer] EXCEPT !.res = "ok"].of = call[closer].of
  BY <1>1 DEF Shape, Call
<1>4. main' = main \/ main' = Append(main, closer)  BY DEF RunClose
<1>5. \A m \in 1..Len(main') : (m \in 1..Len(main) /\ main'[m] = main[m]) \/ main'[m] = closer
  BY <1>1, <1>4, AppendedMain
<1> QED  BY <1>1, <1>2, <1>3, <1>5 DEF Shape

\* Hearing of an answer changes no more of a call.
LEMMA DeliverAnswers ==
  ASSUME Shape, Deliver, NEW k \in Calls
  PROVE  /\ call'[k].kind = call[k].kind /\ call'[k].of = call[k].of /\ call'[k].late = call[k].late
         /\ call'[k].seen = call[k].seen /\ call'[k].res = call[k].res /\ call'[k].saw = call[k].saw
         /\ call'[k].span = call[k].span
<1>1. Head(main) \in Calls  BY MainQueue DEF Deliver
<1>2. call' = [call EXCEPT ![Head(main)] = [call[Head(main)] EXCEPT !.heard = TRUE]]
  BY <1>1 DEF Deliver, Shape
<1>3. \A rec \in Call : LET new == [rec EXCEPT !.heard = TRUE] IN
        /\ new.kind = rec.kind /\ new.of = rec.of /\ new.late = rec.late /\ new.seen = rec.seen
        /\ new.res = rec.res /\ new.saw = rec.saw /\ new.span = rec.span
  BY DEF Call
<1> QED  BY <1>1, <1>2, <1>3 DEF Shape

\* Calls are numbered as they are made, and none changes its kind.
LEMMA NumberedStep ==
  ASSUME Shape, Numbered, Queued, Opening, [Next]_vars
  PROVE  Numbered'
<1> USE Sets
<1>1. ASSUME NEW rec, JsStep(rec) PROVE Numbered'
  <2>1. This \in Calls /\ made' = This /\ call' = [call EXCEPT ![This] = rec] /\ rec.kind # "none"
    BY <1>1 DEF JsStep, Adds
  <2>2. call[This] = NoCall /\ call[This].kind = "none" /\ made \in 0..MaxCalls
    <3>1. made \in 0..MaxCalls /\ This > made  BY ReadersAssumption DEF Shape, This
    <3>2. call[This] = NoCall  BY <2>1, <3>1 DEF Numbered
    <3> QED  BY <3>1, <3>2 DEF NoCall
  <2>3. \A k \in Calls : k # This => call'[k] = call[k]  BY <2>1 DEF Shape
  <2>4. call'[This] = rec  BY <2>1 DEF Shape
  <2>5. \A k \in Calls : IF k > made' THEN call'[k] = NoCall ELSE call'[k].kind # "none"
    BY <2>1, <2>2, <2>3, <2>4 DEF Numbered, This, Calls
  <2>6. Belongs'
    <3> SUFFICES ASSUME NEW k \in Calls, call'[k].of # None
                 PROVE  call'[k].kind = "read" /\ call'[k].of \in Calls /\ call'[call'[k].of].kind = "tx"
      BY DEF Belongs
    <3>1. CASE k = This
      <4>1. rec.kind = "read" /\ rec.of \in Calls /\ tx[rec.of] # "none"  BY <1>1, <2>4, <3>1 DEF JsStep
      <4>2. call[rec.of].kind = "tx"  BY <4>1 DEF Numbered
      <4> QED  BY <2>2, <2>3, <2>4, <3>1, <4>1, <4>2
    <3>2. CASE k # This
      <4>1. call'[k] = call[k]  BY <2>3, <3>2
      <4>2. call[k].kind = "read" /\ call[k].of \in Calls /\ call[call[k].of].kind = "tx"  BY <4>1 DEF Numbered, Belongs
      <4>3. call[k].of # This  BY <2>2, <4>2
      <4> QED  BY <2>3, <4>1, <4>2, <4>3
    <3> QED  BY <3>1, <3>2
  <2>7. \A t \in Calls : tx'[t] # "none" => call'[t].kind = "tx"
    BY <1>1, <2>1, <2>2, <2>3, <2>4 DEF JsStep, Numbered, Shape
  <2>8. \A m \in 1..Len(main') : call'[main'[m]].kind # "none"
    <3>1. CASE UNCHANGED main  BY <2>1, <2>2, <2>3, <2>4, <3>1 DEF Numbered, Shape
    <3>2. CASE main' = Append(main, This)
      <4>1. \A m \in 1..Len(main) : main[m] \in Calls /\ call[main[m]].kind # "none"  BY DEF Shape, Numbered
      <4> QED  BY <2>1, <2>2, <2>3, <2>4, <3>2, <4>1, AppendedMain
    <3> QED  BY <1>1, <3>1, <3>2 DEF JsStep, Closes, ClaimsNone, ClaimsOne, Tells, Waits, Queues
  <2>9. \A m \in 1..Len(inits') : call'[inits'[m]].kind = "init"
    <3>1. CASE UNCHANGED inits
      <4>1. \A m \in 1..Len(inits) : inits[m] \in Calls /\ call[inits[m]].kind = "init"  BY DEF Shape, Numbered
      <4> QED  BY <2>2, <2>3, <3>1, <4>1
    <3>2. CASE Waits(rec)  BY <2>1, <2>2, <2>3, <2>4, <3>2 DEF Waits, Numbered, Shape
    <3> QED  BY <1>1, <3>1, <3>2 DEF JsStep, Closes, ClaimsNone, ClaimsOne, Tells, Queues
  <2>10. closer' # None => call'[closer'].kind = "close" /\ \A t \in Calls : handle'[t] = None
    <3>1. CASE Closes(rec)  BY <2>1, <2>4, <3>1 DEF Closes
    <3>2. CASE UNCHANGED <<closer, handle>>  BY <2>2, <2>3, <3>2 DEF Numbered, Shape
    <3>3. CASE ClaimsOne(rec)  BY <3>3 DEF ClaimsOne, Queues
    <3> QED  BY <1>1, <3>1, <3>2, <3>3 DEF JsStep, ClaimsNone, Tells, Waits, Queues
  <2> QED  BY <2>5, <2>6, <2>7, <2>8, <2>9, <2>10 DEF Numbered
<1>2. ASSUME NEW c, NEW found, RunStep(c, found) PROVE Numbered'
  <2> DEFINE k == Id(c, 1)
  <2>1. /\ k \in Calls /\ call' = [call EXCEPT ![k] = found] /\ main' = Append(main, k)
        /\ found.kind = call[k].kind /\ found.of = call[k].of /\ UNCHANGED <<made, tx, inits, closer>>
    BY <1>2 DEF RunStep, openVars
  <2>2. call[k].kind # "none" /\ k <= made
    <3>1. c \in Conns /\ 1 \in At(c) /\ k # None  BY <1>2, <2>1, HeadBlock DEF RunStep
    <3>2. call[k].kind = KindOf(Op(c, 1)) /\ Op(c, 1) # "none"
      <4>1. Op(c, 1) # "none"  BY <3>1, <1>2, HeadBlock DEF RunStep, Block, Op
      <4> QED  BY <1>2, <3>1, <4>1, HeadBlock DEF RunStep, Queued, Placed, Op, Id
    <3>3. call[k].kind # "none"  BY <3>2 DEF KindOf
    <3>4. k \in Nat /\ made \in Nat  BY <2>1, ReadersAssumption DEF Shape, Calls
    <3> QED  BY <2>1, <3>3, <3>4 DEF Numbered, NoCall
  <2> HIDE DEF k
  <2>3. \A j \in Calls : call'[j].kind = call[j].kind /\ call'[j].of = call[j].of /\ (j # k => call'[j] = call[j])
    BY <2>1 DEF Shape
  <2>4. \A j \in Calls : IF j > made' THEN call'[j] = NoCall ELSE call'[j].kind # "none"
    <3>1. k \in Nat /\ made \in Nat  BY <2>1, ReadersAssumption DEF Shape
    <3> QED  BY <2>1, <2>2, <2>3, <3>1 DEF Numbered
  <2>5. Belongs'  BY <2>3, BelongsKept DEF Numbered
  <2>6. \A t \in Calls : tx'[t] # "none" => call'[t].kind = "tx"  BY <2>1, <2>3 DEF Numbered
  <2>7. \A m \in 1..Len(main') : call'[main'[m]].kind # "none"
    <3>1. \A m \in 1..Len(main) : main[m] \in Calls  BY DEF Shape
    <3> QED  BY <2>1, <2>2, <2>3, <3>1, AppendedMain DEF Numbered
  <2>8. \A m \in 1..Len(inits') : call'[inits'[m]].kind = "init"
    <3>1. \A m \in 1..Len(inits) : inits[m] \in Calls  BY DEF Shape
    <3> QED  BY <2>1, <2>3, <3>1 DEF Numbered
  <2>9. closer # None => \A t \in Calls : handle'[t] = None  BY <1>2 DEF Numbered, RunStep, Shape
  <2>10. closer' # None => call'[closer'].kind = "close" /\ \A t \in Calls : handle'[t] = None
    BY <2>1, <2>3, <2>9 DEF Numbered, Shape
  <2> QED  BY <2>4, <2>5, <2>6, <2>7, <2>8, <2>10 DEF Numbered
<1>3. ASSUME NEW c \in Conns, RunOpen(c) PROVE Numbered'
  <2>1. UNCHANGED <<made, tx, closer, handle>>  BY <1>3 DEF RunOpen, poolVars
  <2>3. \A k \in Calls : call'[k].kind = call[k].kind /\ call'[k].of = call[k].of
    BY <1>3, OpenAnswers
  <2>4. \A k \in Calls : call[k].kind # "init" => call'[k] = call[k]  BY <1>3, OpenAnswers
  <2>5. \A k \in Calls : IF k > made' THEN call'[k] = NoCall ELSE call'[k].kind # "none"
    <3>1. NoCall.kind = "none"  BY DEF NoCall
    <3>2. SUFFICES ASSUME NEW k \in Calls PROVE IF k > made THEN call'[k] = NoCall ELSE call'[k].kind # "none"
      BY <2>1
    <3>3. IF k > made THEN call[k] = NoCall ELSE call[k].kind # "none"  BY DEF Numbered
    <3> QED  BY <2>3, <2>4, <3>1, <3>3
  <2>6. Belongs'  BY <2>3, BelongsKept DEF Numbered
  <2>7. \A m \in 1..Len(main') : call'[main'[m]].kind # "none"
    <3>1. \A m \in 1..Len(main) : main[m] \in Calls /\ call[main[m]].kind # "none"  BY DEF Shape, Numbered
    <3>2. \A m \in 1..Len(inits) : inits[m] \in Calls /\ call[inits[m]].kind # "none"  BY DEF Shape, Numbered
    <3>3. main' = main \/ main' = main \o inits  BY <1>3 DEF RunOpen, OpenFinished
    <3>4. \A m \in 1..Len(main') : (m \in 1..Len(main) /\ main'[m] = main[m])
                                 \/ (m - Len(main) \in 1..Len(inits) /\ main'[m] = inits[m - Len(main)])
      <4>1. main \in Seq(Calls) /\ inits \in Seq(Calls)  BY DEF Shape
      <4> QED  BY <3>3, <4>1
    <3> SUFFICES ASSUME NEW m \in 1..Len(main') PROVE call'[main'[m]].kind # "none"  OBVIOUS
    <3>5. main'[m] \in Calls /\ call[main'[m]].kind # "none"  BY <3>1, <3>2, <3>4
    <3> QED  BY <2>3, <3>5
  <2>8. \A m \in 1..Len(inits') : call'[inits'[m]].kind = "init"
    <3>1. \A m \in 1..Len(inits) : inits[m] \in Calls /\ call[inits[m]].kind = "init"  BY DEF Shape, Numbered
    <3>2. inits' = inits \/ inits' = <<>>  BY <1>3 DEF RunOpen, OpenFinished
    <3> SUFFICES ASSUME NEW m \in 1..Len(inits') PROVE call'[inits'[m]].kind = "init"  OBVIOUS
    <3>3. inits'[m] \in Calls /\ call[inits'[m]].kind = "init"  BY <3>1, <3>2
    <3> QED  BY <2>3, <3>3
  <2>9. \A t \in Calls : tx'[t] # "none" => call'[t].kind = "tx"  BY <2>1, <2>3 DEF Numbered
  <2> QED  BY <2>1, <2>3, <2>5, <2>6, <2>7, <2>8, <2>9 DEF Numbered, Shape
\* close() and the steps that change no more of a call than its answer.
<1>4. ASSUME UNCHANGED <<made, inits>>, closer' = closer,
             \A t \in Calls : handle'[t] = handle[t] \/ handle'[t] = None,
             \A k \in Calls : call'[k].kind = call[k].kind /\ call'[k].of = call[k].of,
             \A k \in Calls : k > made => call'[k] = NoCall,
             \A t \in Calls : tx'[t] # "none" => tx[t] # "none",
             \A m \in 1..Len(main') : main'[m] \in Calls /\ call[main'[m]].kind # "none"
      PROVE  Numbered'
  <2>2. Belongs'  BY <1>4, BelongsKept DEF Numbered
  <2>3. \A m \in 1..Len(inits) : inits[m] \in Calls /\ call[inits[m]].kind = "init"  BY DEF Shape, Numbered
  <2>4. \A m \in 1..Len(inits') : call'[inits'[m]].kind = "init"  BY <1>4, <2>3
  <2>5. \A m \in 1..Len(main') : call'[main'[m]].kind # "none"
    <3> SUFFICES ASSUME NEW m \in 1..Len(main') PROVE call'[main'[m]].kind # "none"  OBVIOUS
    <3> QED  BY <1>4
  <2>6. closer' # None => call'[closer'].kind = "close" /\ \A t \in Calls : handle'[t] = None
    BY <1>4 DEF Numbered, Shape
  <2>7. \A t \in Calls : tx'[t] # "none" => call'[t].kind = "tx"  BY <1>4 DEF Numbered
  <2>8. \A k \in Calls : IF k > made' THEN call'[k] = NoCall ELSE call'[k].kind # "none"
    <3> SUFFICES ASSUME NEW k \in Calls PROVE IF k > made THEN call'[k] = NoCall ELSE call'[k].kind # "none"
      BY <1>4
    <3>1. IF k > made THEN call[k] = NoCall ELSE call[k].kind # "none"  BY DEF Numbered
    <3> QED  BY <1>4, <3>1
  <2> QED  BY <2>2, <2>4, <2>5, <2>6, <2>7, <2>8 DEF Numbered
<1>5. \A m \in 1..Len(main) : main[m] \in Calls /\ call[main[m]].kind # "none"  BY DEF Shape, Numbered
<1>6. ASSUME NEW c \in Conns, RunClose(c) PROVE Numbered'
  <2>1. closer \in Calls /\ call[closer].kind = "close"
    BY <1>6, HeadBlock DEF RunClose, Runs, Queued, Placed, Op, Shape, Numbered
  <2>2. UNCHANGED <<made, inits, handle, tx, closer>>  BY <1>6 DEF RunClose, poolVars
  <2>3. \A k \in Calls : /\ call'[k].kind = call[k].kind /\ call'[k].of = call[k].of
                         /\ k # closer => call'[k] = call[k]
    <3>1. call' = call \/ call' = [call EXCEPT ![closer] = [call[closer] EXCEPT !.res = "ok"]]
      BY <1>6, <2>1 DEF RunClose, Shape
    <3>2. [call[closer] EXCEPT !.res = "ok"].kind = call[closer].kind /\ [call[closer] EXCEPT !.res = "ok"].of = call[closer].of
      BY <2>1 DEF Shape, Call
    <3> QED  BY <2>1, <3>1, <3>2 DEF Shape
  <2>4. main' = main \/ main' = Append(main, closer)  BY <1>6 DEF RunClose
  <2>5. \A m \in 1..Len(main') : main'[m] \in Calls /\ call[main'[m]].kind # "none"
    BY <1>5, <2>1, <2>4, AppendedMain
  <2>6. closer <= made  BY <2>1, ReadersAssumption DEF Numbered, NoCall, Shape, Calls
  <2> QED  BY <1>4, <2>1, <2>2, <2>3, <2>5, <2>6, ReadersAssumption DEF Shape, Numbered, Calls
<1>7. CASE Deliver
  <2>1. UNCHANGED <<made, inits, handle, closer>>  BY <1>7 DEF Deliver, openVars, poolVars
  <2>2. Head(main) \in Calls /\ Head(main) = main[1] /\ 1 \in 1..Len(main) /\ main' = Tail(main)
    BY <1>7, MainQueue DEF Deliver, Shape
  <2>3. \A k \in Calls : /\ call'[k].kind = call[k].kind /\ call'[k].of = call[k].of
                         /\ k # Head(main) => call'[k] = call[k]
    BY <1>7, <2>2 DEF Deliver, Shape, Call
  <2>4. \A m \in 1..Len(main') : main'[m] \in Calls /\ call[main'[m]].kind # "none"
    BY <1>5, <2>2 DEF Shape
  <2>5. Head(main) <= made  BY <1>5, <2>2, ReadersAssumption DEF Numbered, NoCall, Shape, Calls
  <2>6. \A t \in Calls : tx'[t] # "none" => tx[t] # "none"  BY <1>7, <2>2 DEF Deliver, Shape, TxState
  <2>7. \A k \in Calls : k > made => call'[k] = NoCall
    <3> DEFINE h == Head(main)
    <3>0. h \in Calls  BY <2>2
    <3> HIDE DEF h
    <3>1. made \in Nat /\ h \in Nat  BY <3>0, ReadersAssumption DEF Shape
    <3>2. \A k \in Calls : k > made => k # Head(main)  BY <2>5, <3>1 DEF h
    <3> QED  BY <2>3, <3>2 DEF Numbered
  <2> QED  BY <1>4, <2>1, <2>3, <2>4, <2>6, <2>7
<1>8. ASSUME NEW t \in Calls, EndRead(t) PROVE Numbered'
  <2>1. UNCHANGED <<made, inits, handle, closer, call>> /\ call[t].kind = "tx"
    BY <1>8 DEF EndRead, openVars, poolVars, Numbered
  <2>2. main' = main \/ main' = Append(main, t)  BY <1>8 DEF EndRead
  <2>3. \A m \in 1..Len(main') : main'[m] \in Calls /\ call[main'[m]].kind # "none"
    BY <1>5, <2>1, <2>2, AppendedMain
  <2>4. \A k \in Calls : tx'[k] # "none" => tx[k] # "none"  BY <1>8 DEF EndRead, Shape
  <2> QED  BY <1>4, <2>1, <2>3, <2>4 DEF Numbered
<1>9. CASE OpenAsync \/ OpenSync \/ UNCHANGED vars
  <2>1. UNCHANGED <<made, inits, handle, closer, call, tx, main>>
    BY <1>9 DEF OpenAsync, OpenSync, vars, openVars, poolVars, jsVars
  <2>2. \A k \in Calls : k > made => call[k] = NoCall  BY DEF Numbered
  <2> QED  BY <1>4, <1>5, <2>1, <2>2
<1>10. CASE JsCalls  BY <1>1, <1>8, <1>9, <1>10, JsSteps
<1>11. ASSUME NEW c \in Conns, RunBlock(c) PROVE Numbered'  BY <1>2, <1>3, <1>6, <1>11, RunSteps
<1> QED  BY <1>7, <1>9, <1>10, <1>11 DEF Next

\* A block stays placed when its call and what it waits for stay.
LEMMA PlacedKept ==
  ASSUME NEW c \in Conns, NEW b \in Block, Placed(c, b),
         b.id # None => call'[b.id].kind = call[b.id].kind,
         b.id # None => call'[b.id].res = call[b.id].res,
         closer # None => closer' # None,
         b.op \in {"begin", "end"} => tx'[b.id] = tx[b.id] /\ \A m \in 1..Len(main') : main'[m] # b.id
  PROVE  Placed(c, b)'
BY DEF Placed

\* What Queued says of a block.
LEMMA BlockFacts ==
  ASSUME Shape, Queued, NEW c \in Conns, NEW b \in Blocks(c)
  PROVE  /\ b \in Block /\ Placed(c, b)
         /\ b.id # None => b.id \in Calls /\ call[b.id].kind = KindOf(b.op) /\ call[b.id].kind \notin {"none", "init", "close"}
<1>1. b \in Block /\ Placed(c, b)  BY DEF Queued, Blocks, Shape, At
<1> QED  BY <1>1 DEF Block, Placed, KindOf

\* Every block is sent once, for a call that waits for it.
LEMMA QueuedStep ==
  ASSUME Shape, Numbered, Queued, Opening, [Next]_vars
  PROVE  Queued'
<1> USE Sets
<1>1. ASSUME NEW rec, JsStep(rec) PROVE Queued'
  <2>1. This \in Calls /\ call' = [call EXCEPT ![This] = rec] /\ rec.kind # "none"
    BY <1>1 DEF JsStep, Adds
  <2>2. call[This].kind = "none"
    <3>1. made \in 0..MaxCalls /\ This > made  BY ReadersAssumption DEF Shape, This
    <3> QED  BY <2>1, <3>1 DEF Numbered, NoCall
  <2>3. \A k \in Calls : k # This => call'[k] = call[k] /\ tx'[k] = tx[k]
    BY <1>1, <2>1 DEF JsStep, Shape
  <2>4. \A m \in 1..Len(main) : main[m] \in Calls /\ main[m] # This  BY <2>2 DEF Shape, Numbered
  <2>5. \A c \in Conns : \A b \in Blocks(c) : b \in Block /\ b.id # This /\ Placed(c, b) /\ (b.id # None => b.id \in Calls)
    <3> SUFFICES ASSUME NEW c \in Conns, NEW b \in Blocks(c)
                 PROVE  b \in Block /\ b.id # This /\ Placed(c, b) /\ (b.id # None => b.id \in Calls)
      OBVIOUS
    <3>1. This # None  BY <2>1
    <3> QED  BY <2>2, <3>1, BlockFacts
  <2>6. main' = main \/ main' = Append(main, This)
    BY <1>1 DEF JsStep, Closes, ClaimsNone, ClaimsOne, Tells, Waits, Queues
  <2>7. \A m \in 1..Len(main') : (m \in 1..Len(main) /\ main'[m] = main[m]) \/ (m = Len(main) + 1 /\ main'[m] = This)
    BY <2>1, <2>6, AppendedMain
  <2>8. closer # None => closer' # None
    BY <1>1 DEF JsStep, Closes, ClaimsNone, ClaimsOne, Tells, Waits, Queues
  <2>9. ASSUME NEW c \in Conns, NEW b \in Blocks(c) PROVE Placed(c, b)'
    <3>1. b \in Block /\ b.id # This /\ Placed(c, b) /\ (b.id # None => b.id \in Calls)  BY <2>5
    <3>2. b.op \in {"begin", "end"} => b.id \in Calls  BY <3>1 DEF Block
    <3>3. b.op \in {"begin", "end"} => \A m \in 1..Len(main') : main'[m] # b.id  BY <2>7, <3>1 DEF Placed
    <3> QED  BY <2>3, <2>8, <3>1, <3>2, <3>3, PlacedKept
  <2>10. ASSUME UNCHANGED queue PROVE (\A c \in Conns : \A b \in Blocks(c)' : Placed(c, b)') /\ OneBlock'
    <3>1. \A c \in Conns : Blocks(c)' = Blocks(c) /\ At(c)' = At(c)  BY <2>10 DEF Blocks, At
    <3>2. \A c \in Conns : \A b \in Blocks(c)' : Placed(c, b)'  BY <2>9, <3>1
    <3>3. OneBlock'  BY <2>10, <3>1 DEF Queued, OneBlock, Id
    <3> QED  BY <3>2, <3>3
  <2>11. ASSUME NEW c \in Conns, NEW op, NEW new, new = [op |-> op, id |-> This],
                Queues(rec, c, op), op = "begin" => c \in Readers /\ tx'[This] = "begin"
         PROVE  (\A d \in Conns : \A b \in Blocks(d)' : Placed(d, b)') /\ OneBlock'
    <3>3. /\ new \in Block /\ queue' = [queue EXCEPT ![c] = Append(@, new)] /\ new.id = This /\ new.op = op
          /\ op \notin {"open", "close", "end"} /\ KindOf(op) = rec.kind /\ rec.res = "none" /\ main' = main
      BY <2>11 DEF Queues
    <3>4. Placed(c, new)'
      <4>1. call'[This] = rec  BY <2>1 DEF Shape
      <4>2. This # None  BY <2>1
      <4>3. new.op = "begin" => c # Writer /\ tx'[This] = "begin"  BY <2>11, <3>3
      <4>4. \A m \in 1..Len(main') : main'[m] # This  BY <2>4, <3>3
      <4> QED  BY <3>3, <4>1, <4>2, <4>3, <4>4 DEF Placed
    <3>5. \A d \in Conns : \A b \in Blocks(d)' : Placed(d, b)'
      <4> SUFFICES ASSUME NEW d \in Conns, NEW b \in Blocks(d)' PROVE Placed(d, b)'  OBVIOUS
      <4>1. b \in Blocks(d) \/ (d = c /\ b = new)  BY <3>3, AppendedBlocks
      <4> QED  BY <2>9, <3>4, <4>1
    <3>6. OneBlock'  BY <2>5, <3>3, OneBlockAppended DEF Queued
    <3> QED  BY <3>5, <3>6
  <2>12. ASSUME Closes(rec)
         PROVE  (\A c \in Conns : \A b \in Blocks(c)' : Placed(c, b)') /\ OneBlock'
    <3>1. queue' = [c \in Conns |-> Append(queue[c], [op |-> "close", id |-> None])] /\ closer' # None
      BY <2>1, <2>12 DEF Closes
    <3>2. ASSUME NEW c \in Conns, NEW b \in Blocks(c)' PROVE Placed(c, b)'
      <4>1. CASE b \in Blocks(c)  BY <2>9, <4>1
      <4>2. CASE b = [op |-> "close", id |-> None]
        <5>1. b.op = "close" /\ b.id = None  BY <4>2
        <5> QED  BY <3>1, <5>1 DEF Placed
      <4> QED  BY <3>1, <3>2, <4>1, <4>2, OneBlockClosed DEF Queued
    <3> QED  BY <3>1, <3>2, OneBlockClosed DEF Queued
  <2>13. HeardOnce'
    <3>1. \A m \in 1..Len(main') : m \in Nat
      BY <2>1, <2>6 DEF Shape
    <3>2. \A m, n \in 1..Len(main') : main'[m] = main'[n] /\ call'[main'[m]].kind = "tx" => m = n
      <4> SUFFICES ASSUME NEW m \in 1..Len(main'), NEW n \in 1..Len(main'),
                          main'[m] = main'[n], call'[main'[m]].kind = "tx"
                   PROVE  m = n
        OBVIOUS
      <4>1. CASE m \in 1..Len(main) /\ main'[m] = main[m] /\ n \in 1..Len(main) /\ main'[n] = main[n]
        <5>1. main[m] = main[n] /\ call[main[m]].kind = "tx"  BY <2>3, <2>4, <4>1
        <5> QED  BY <4>1, <5>1 DEF Queued, HeardOnce
      <4> QED  BY <2>4, <2>7, <4>1
    <3>3. \A m \in 1..Len(main') : call'[main'[m]].kind = "tx" => tx'[main'[m]] \in {"begin", "ending"}
      BY <1>1, <2>1, <2>3, <2>4, <2>7 DEF Queued, HeardOnce, JsStep, Shape
    <3> QED  BY <3>2, <3>3 DEF HeardOnce
  <2>14. (\A c \in Conns : \A b \in Blocks(c)' : Placed(c, b)') /\ OneBlock'
    <3>1. CASE ClaimsNone(rec)
      <4>1. CASE Tells(rec) \/ Waits(rec)  BY <2>10, <4>1 DEF Tells, Waits
      <4>2. ASSUME NEW c \in Conns, NEW op \in {"write", "read", "prepare", "finalize"}, Queues(rec, c, op)
            PROVE  (\A d \in Conns : \A b \in Blocks(d)' : Placed(d, b)') /\ OneBlock'
        BY <2>11, <4>2
      <4>3. ASSUME rec.of # None, handle[rec.of] # None, Queues(rec, handle[rec.of], "read")
            PROVE  (\A d \in Conns : \A b \in Blocks(d)' : Placed(d, b)') /\ OneBlock'
        <5>1. handle[rec.of] \in Conns  BY <1>1, <4>3 DEF JsStep, Shape
        <5> QED  BY <2>11, <4>3, <5>1
      <4> QED  BY <3>1, <4>1, <4>2, <4>3 DEF ClaimsNone
    <3>2. CASE ClaimsOne(rec)
      <4>1. PICK r \in free : rec.kind = "tx" /\ Queues(rec, r, "begin")  BY <3>2 DEF ClaimsOne
      <4>2. r \in Readers /\ r \in Conns /\ tx'[This] = "begin"  BY <1>1, <2>1, <4>1 DEF Shape, JsStep
      <4> QED  BY <2>11, <4>1, <4>2
    <3> QED  BY <1>1, <2>12, <3>1, <3>2 DEF JsStep
  <2> QED  BY <2>13, <2>14 DEF Queued
<1>2. ASSUME NEW c, NEW found, RunStep(c, found) PROVE Queued'
  <2>1. PICK k : k = Id(c, 1)  OBVIOUS
  <2>2. /\ c \in Conns /\ queue[c] # <<>> /\ queue' = [queue EXCEPT ![c] = Tail(@)]
        /\ k \in Calls /\ call' = [call EXCEPT ![k] = found] /\ main' = Append(main, k)
        /\ found.kind = call[k].kind /\ UNCHANGED <<tx, closer>>
    BY <1>2, <2>1 DEF RunStep, openVars
  <2>3. \A j \in Calls : call'[j].kind = call[j].kind /\ (j # k => call'[j] = call[j])  BY <2>2 DEF Shape
  <2>4. /\ 1 \in At(c) /\ queue[c][1] \in Blocks(c) /\ queue[c][1].id = k /\ k # None
        /\ queue[c][1].op \in {"write", "read", "begin", "end", "prepare", "finalize"}
    BY <1>2, <2>1, <2>2, HeadBlock DEF Block, RunStep, Op, Id
  <2>5. call[k].kind = "tx" => tx[k] \in {"begin", "ending"} /\ \A m \in 1..Len(main) : main[m] # k
    BY <2>2, <2>4, BlockFacts DEF Placed, KindOf
  <2>6. \A m \in 1..Len(main') : (m \in 1..Len(main) /\ main'[m] = main[m]) \/ (m = Len(main) + 1 /\ main'[m] = k)
    BY <2>2, AppendedMain
  <2>7. OneBlock'  BY <2>2, OneBlockDropped DEF Queued
  <2>8. ASSUME NEW d \in Conns, NEW b \in Blocks(d)' PROVE Placed(d, b)'
    <3>1. b \in Block /\ b \in Blocks(d) /\ (b.id # None => b.id # k)
      BY <2>1, <2>2, <2>8, DroppedBlocks DEF Queued
    <3>2. Placed(d, b) /\ (b.id # None => b.id \in Calls)  BY <3>1, BlockFacts
    <3>3. b.op \in {"begin", "end"} => b.id # None  BY <3>1 DEF Block
    <3>4. b.op \in {"begin", "end"} => \A m \in 1..Len(main') : main'[m] # b.id  BY <2>6, <3>1, <3>2, <3>3 DEF Placed
    <3> QED  BY <2>2, <2>3, <3>1, <3>2, <3>4, PlacedKept
  <2>9. \A m \in 1..Len(main) : main[m] \in Calls  BY DEF Shape
  <2>10. \A m, n \in 1..Len(main') : main'[m] = main'[n] /\ call'[main'[m]].kind = "tx" => m = n
    <3> SUFFICES ASSUME NEW m \in 1..Len(main'), NEW n \in 1..Len(main'),
                        main'[m] = main'[n], call'[main'[m]].kind = "tx"
                 PROVE  m = n
      OBVIOUS
    <3>1. call[main'[m]].kind = "tx"  BY <2>2, <2>3, <2>6, <2>9
    <3>2. CASE m \in 1..Len(main) /\ main'[m] = main[m] /\ n \in 1..Len(main) /\ main'[n] = main[n]
      BY <3>1, <3>2 DEF Queued, HeardOnce
    <3> QED  BY <2>5, <2>6, <3>1, <3>2
  <2>11. \A m \in 1..Len(main') : call'[main'[m]].kind = "tx" => tx'[main'[m]] \in {"begin", "ending"}
    <3> SUFFICES ASSUME NEW m \in 1..Len(main'), call'[main'[m]].kind = "tx"
                 PROVE  tx[main'[m]] \in {"begin", "ending"}
      BY <2>2
    <3>1. call[main'[m]].kind = "tx"  BY <2>2, <2>3, <2>6, <2>9
    <3> QED  BY <2>5, <2>6, <3>1 DEF Queued, HeardOnce
  <2> QED  BY <2>7, <2>8, <2>10, <2>11 DEF Queued, HeardOnce
\* The end of an open, or of them all.
<1>3. ASSUME NEW c \in Conns, queue[c] # <<>>, Popped(c), UNCHANGED <<tx, closer>>,
             \A k \in Calls : call'[k].kind = call[k].kind,
             \A k \in Calls : call[k].kind \notin {"init", "close"} => call'[k] = call[k],
             \A m \in 1..Len(main') : \/ m \in 1..Len(main) /\ main'[m] = main[m]
                                      \/ main'[m] \in Calls /\ call[main'[m]].kind \in {"init", "close"}
      PROVE  Queued'
  <2>1. queue' = [queue EXCEPT ![c] = Tail(@)]  BY <1>3 DEF Popped
  <2>2. OneBlock'  BY <1>3, <2>1, OneBlockDropped DEF Queued
  <2>3. ASSUME NEW d \in Conns, NEW b \in Blocks(d)' PROVE Placed(d, b)'
    <3>1. b \in Block /\ b \in Blocks(d)  BY <1>3, <2>1, <2>3, DroppedBlocks DEF Queued
    <3>2. Placed(d, b) /\ (b.id # None => b.id \in Calls /\ call[b.id].kind \notin {"init", "close"})
      BY <3>1, BlockFacts
    <3>3. b.op \in {"begin", "end"} => b.id # None  BY <3>1 DEF Block
    <3>4. b.op \in {"begin", "end"} => \A m \in 1..Len(main') : main'[m] # b.id  BY <1>3, <3>2, <3>3 DEF Placed
    <3> QED  BY <1>3, <3>1, <3>2, <3>4, PlacedKept
  <2>4. \A m \in 1..Len(main) : main[m] \in Calls  BY DEF Shape
  <2>5. \A m \in 1..Len(main') : call'[main'[m]].kind = "tx" =>
          m \in 1..Len(main) /\ main'[m] = main[m] /\ call[main[m]].kind = "tx"
    <3> SUFFICES ASSUME NEW m \in 1..Len(main'), call'[main'[m]].kind = "tx"
                 PROVE  m \in 1..Len(main) /\ main'[m] = main[m] /\ call[main[m]].kind = "tx"
      OBVIOUS
    <3>1. main'[m] \in Calls /\ call[main'[m]].kind = "tx"  BY <1>3, <2>4
    <3> QED  BY <1>3, <3>1
  <2>6. HeardOnce'
    <3>1. \A m, n \in 1..Len(main') : main'[m] = main'[n] /\ call'[main'[m]].kind = "tx" => m = n
      BY <2>5 DEF Queued, HeardOnce
    <3>2. \A m \in 1..Len(main') : call'[main'[m]].kind = "tx" => tx'[main'[m]] \in {"begin", "ending"}
      BY <1>3, <2>5 DEF Queued, HeardOnce
    <3> QED  BY <3>1, <3>2 DEF HeardOnce
  <2> QED  BY <2>2, <2>3, <2>6 DEF Queued
<1>4. ASSUME NEW c \in Conns, RunOpen(c) PROVE Queued'
  <2>1. queue[c] # <<>> /\ Popped(c) /\ UNCHANGED <<tx, closer>>  BY <1>4 DEF RunOpen, Runs
  <2>2. \A k \in Calls : call'[k].kind = call[k].kind  BY <1>4, OpenAnswers
  <2>3. \A k \in Calls : call[k].kind \notin {"init", "close"} => call'[k] = call[k]  BY <1>4, OpenAnswers
  <2>4. \A m \in 1..Len(main') : \/ m \in 1..Len(main) /\ main'[m] = main[m]
                                 \/ main'[m] \in Calls /\ call[main'[m]].kind \in {"init", "close"}
    <3> SUFFICES ASSUME NEW m \in 1..Len(main')
                 PROVE  \/ m \in 1..Len(main) /\ main'[m] = main[m]
                        \/ main'[m] \in Calls /\ call[main'[m]].kind \in {"init", "close"}
      OBVIOUS
    <3>1. (m \in 1..Len(main) /\ main'[m] = main[m]) \/ (main'[m] \in Calls /\ call[main'[m]].kind = "init")
      BY <1>4, OpenTells
    <3> QED  BY <3>1
  <2> QED  BY <1>3, <2>1, <2>2, <2>3, <2>4
<1>5. ASSUME NEW c \in Conns, RunClose(c) PROVE Queued'
  <2>1. queue[c] # <<>> /\ Popped(c) /\ UNCHANGED <<tx, closer>>  BY <1>5 DEF RunClose, Runs
  <2>2. /\ closer \in Calls /\ call[closer].kind = "close"
        /\ \A k \in Calls : /\ k # closer => call'[k] = call[k]
                            /\ call'[k].kind = call[k].kind
        /\ \A m \in 1..Len(main') : (m \in 1..Len(main) /\ main'[m] = main[m]) \/ main'[m] = closer
    BY <1>5, CloseTells
  <2>3. \A k \in Calls : call[k].kind \notin {"init", "close"} => call'[k] = call[k]  BY <2>2
  <2>4. \A m \in 1..Len(main') : \/ m \in 1..Len(main) /\ main'[m] = main[m]
                                 \/ main'[m] \in Calls /\ call[main'[m]].kind \in {"init", "close"}
    <3> SUFFICES ASSUME NEW m \in 1..Len(main')
                 PROVE  \/ m \in 1..Len(main) /\ main'[m] = main[m]
                        \/ main'[m] \in Calls /\ call[main'[m]].kind \in {"init", "close"}
      OBVIOUS
    <3>1. (m \in 1..Len(main) /\ main'[m] = main[m]) \/ main'[m] = closer  BY <2>2
    <3> QED  BY <3>1, <2>2
  <2> QED  BY <1>3, <2>1, <2>2, <2>3, <2>4
<1>6. CASE Deliver
  <2>1. PICK k : k = Head(main)  OBVIOUS
  <2>2. /\ k \in Calls /\ k = main[1] /\ 1 \in 1..Len(main) /\ main' = Tail(main) /\ UNCHANGED <<queue, closer>>
    BY <1>6, <2>1, MainQueue DEF Deliver, Shape, openVars
  <2>3. \A j \in Calls : /\ call'[j].kind = call[j].kind /\ call'[j].res = call[j].res
                         /\ j # k => call'[j] = call[j] /\ tx'[j] = tx[j]
    BY <1>6, <2>1, <2>2 DEF Deliver, Shape, Call
  <2>4. \A m \in 1..Len(main') : m \in Nat \ {0} /\ m + 1 \in 1..Len(main) /\ main'[m] = main[m + 1] /\ main[m + 1] \in Calls
    BY <2>2 DEF Shape
  <2>5. \A c \in Conns : Blocks(c)' = Blocks(c) /\ At(c)' = At(c)  BY <2>2 DEF Blocks, At
  <2>6. OneBlock'  BY <2>2, <2>5 DEF Queued, OneBlock, Id
  <2>7. ASSUME NEW c \in Conns, NEW b \in Blocks(c) PROVE Placed(c, b)'
    <3>1. b \in Block /\ Placed(c, b) /\ (b.id # None => b.id \in Calls)  BY BlockFacts
    <3>2. b.op \in {"begin", "end"} => b.id # None /\ b.id # k  BY <2>2, <3>1 DEF Block, Placed
    <3>3. b.op \in {"begin", "end"} => \A m \in 1..Len(main') : main'[m] # b.id  BY <2>4, <3>1 DEF Placed
    <3> QED  BY <2>2, <2>3, <3>1, <3>2, <3>3, PlacedKept
  <2>8. HeardOnce'
    <3>1. ASSUME NEW m \in 1..Len(main'), NEW n \in 1..Len(main'), main'[m] = main'[n], call'[main'[m]].kind = "tx"
          PROVE  m = n
      <4>1. main[m + 1] = main[n + 1] /\ call[main[m + 1]].kind = "tx"  BY <2>3, <2>4, <3>1
      <4>2. m + 1 = n + 1  BY <2>4, <4>1 DEF Queued, HeardOnce
      <4> QED  BY <2>4, <4>2
    <3>2. ASSUME NEW m \in 1..Len(main'), call'[main'[m]].kind = "tx"
          PROVE  tx'[main'[m]] \in {"begin", "ending"}
      <4>0. main'[m] = main[m + 1] /\ main[m + 1] \in Calls /\ m + 1 \in 1..Len(main) /\ m + 1 # 1  BY <2>4, <3>2
      <4>1. call[main[m + 1]].kind = "tx"  BY <2>3, <3>2, <4>0
      <4>2. main[m + 1] # k  BY <2>2, <4>0, <4>1 DEF Queued, HeardOnce
      <4> QED  BY <2>3, <4>0, <4>1, <4>2 DEF Queued, HeardOnce
    <3> QED  BY <3>1, <3>2 DEF HeardOnce
  <2> QED  BY <2>5, <2>6, <2>7, <2>8 DEF Queued
<1>7. ASSUME NEW t \in Calls, EndRead(t) PROVE Queued'
  <2>1. tx[t] = "body" /\ UNCHANGED <<call, closer>> /\ \A k \in Calls : tx'[k] = IF k = t THEN "ending" ELSE tx[k]
    BY <1>7 DEF EndRead, openVars, Shape
  <2>2. call[t].kind = "tx"  BY <2>1 DEF Numbered
  <2>3. \A m \in 1..Len(main) : main[m] \in Calls /\ main[m] # t  BY <2>1, <2>2 DEF Queued, HeardOnce, Shape
  <2>4. ASSUME NEW c \in Conns, NEW b \in Blocks(c)
        PROVE  /\ b \in Block /\ Placed(c, b) /\ b.id # t /\ (b.id # None => b.id \in Calls)
    <3>1. b \in Block /\ Placed(c, b) /\ (b.id # None => b.id \in Calls /\ call[b.id].kind = KindOf(b.op))
      BY BlockFacts
    <3>2. CASE b.id = t
      <4>1. b.op \in {"begin", "end"}  BY <2>2, <3>1, <3>2 DEF KindOf, Block
      <4> QED  BY <2>1, <3>1, <3>2, <4>1 DEF Placed
    <3> QED  BY <3>1, <3>2
  <2>5. main' = main \/ main' = Append(main, t)  BY <1>7 DEF EndRead
  <2>6. \A m \in 1..Len(main') : (m \in 1..Len(main) /\ main'[m] = main[m]) \/ (m = Len(main) + 1 /\ main'[m] = t)
    BY <2>5, AppendedMain
  <2>7. ASSUME NEW c \in Conns, NEW b \in Blocks(c) PROVE Placed(c, b)'
    <3>1. b \in Block /\ Placed(c, b) /\ b.id # t /\ (b.id # None => b.id \in Calls)  BY <2>4
    <3>2. b.op \in {"begin", "end"} => b.id # None  BY <3>1 DEF Block
    <3>3. b.op \in {"begin", "end"} => \A m \in 1..Len(main') : main'[m] # b.id  BY <2>6, <3>1 DEF Placed
    <3> QED  BY <2>1, <3>1, <3>2, <3>3, PlacedKept
  <2>8. HeardOnce'
    <3>1. \A m, n \in 1..Len(main') : main'[m] = main'[n] /\ call'[main'[m]].kind = "tx" => m = n
      BY <2>1, <2>3, <2>6 DEF Queued, HeardOnce
    <3>2. \A m \in 1..Len(main') : call'[main'[m]].kind = "tx" => tx'[main'[m]] \in {"begin", "ending"}
      BY <2>1, <2>3, <2>6 DEF Queued, HeardOnce
    <3> QED  BY <3>1, <3>2 DEF HeardOnce
  <2>9. (\A c \in Conns : \A b \in Blocks(c)' : Placed(c, b)') /\ OneBlock'
    <3>1. CASE handle[t] = None
      <4>1. UNCHANGED queue  BY <1>7, <3>1 DEF EndRead
      <4>2. \A c \in Conns : Blocks(c)' = Blocks(c) /\ At(c)' = At(c)  BY <4>1 DEF Blocks, At
      <4> QED  BY <2>7, <4>1, <4>2 DEF Queued, OneBlock, Id
    <3>2. CASE handle[t] # None
      <4>1. PICK new : new = [op |-> "end", id |-> t]  OBVIOUS
      <4>2. PICK c \in Readers : c = handle[t]  BY <3>2 DEF Shape
      <4>3. /\ new \in Block /\ new.op = "end" /\ new.id = t /\ c \in Conns /\ c # Writer
            /\ queue' = [queue EXCEPT ![c] = Append(@, new)] /\ main' = main
        BY <1>7, <3>2, <4>1, <4>2 DEF EndRead, Sent, Block
      <4>4. OneBlock'  BY <2>4, <4>3, OneBlockAppended DEF Queued
      <4>5. Placed(c, new)'
        <5>1. \A m \in 1..Len(main') : main'[m] # t  BY <2>3, <4>3
        <5> QED  BY <2>1, <2>2, <4>3, <5>1 DEF Placed, KindOf
      <4>6. ASSUME NEW d \in Conns, NEW b \in Blocks(d)' PROVE Placed(d, b)'
        <5>1. b \in Blocks(d) \/ (d = c /\ b = new)  BY <4>3, <4>6, AppendedBlocks
        <5> QED  BY <2>7, <4>5, <5>1
      <4> QED  BY <4>4, <4>6
    <3> QED  BY <3>1, <3>2
  <2> QED  BY <2>8, <2>9 DEF Queued
<1>8. CASE OpenAsync \/ OpenSync
  <2>1. UNCHANGED <<main, call, tx, closer>>  BY <1>8 DEF OpenAsync, OpenSync, jsVars
  <2>2. phase = "none"  BY <1>8 DEF OpenAsync, OpenSync
  <2>3. \A c \in Conns : queue'[c] \in {<<>>, <<[op |-> "open", id |-> None]>>}
    BY <1>8, <2>2 DEF OpenAsync, OpenSync, ReaderOpens, Opening, Untouched
  <2>4. \A c \in Conns : \A i \in At(c)' : queue'[c][i] = [op |-> "open", id |-> None]
    BY <2>3 DEF At
  <2>5. ASSUME NEW c \in Conns, NEW b \in Blocks(c)' PROVE Placed(c, b)'
    <3>1. b = [op |-> "open", id |-> None]  BY <2>4, <2>5 DEF Blocks
    <3>2. b.op = "open" /\ b.id = None  BY <3>1
    <3> QED  BY <3>2 DEF Placed
  <2>6. OneBlock'
    <3>1. \A c \in Conns : \A i \in At(c)' : Id(c, i)' = None  BY <2>4 DEF Id
    <3> QED  BY <3>1 DEF OneBlock
  <2> QED  BY <2>1, <2>5, <2>6 DEF Queued, HeardOnce
<1>9. CASE UNCHANGED vars
  BY <1>9 DEF vars, openVars, jsVars, Queued, OneBlock, HeardOnce, Placed, Blocks, At, Id
<1>10. CASE JsCalls  BY <1>1, <1>7, <1>8, <1>10, JsSteps
<1>11. ASSUME NEW c \in Conns, RunBlock(c) PROVE Queued'  BY <1>2, <1>4, <1>5, <1>11, RunSteps
<1> QED  BY <1>6, <1>9, <1>10, <1>11 DEF Next

\* What the count says.
LEMMA CountOfOpens ==
  ASSUME Shape, Counts
  PROVE  /\ IsFiniteSet(Unopened) /\ pending \in Nat
         /\ pending = 0 <=> Unopened = {}
         /\ pending = 0 => (~failed <=> \A c \in Conns : verdict[c] = "ok")
<1>1. IsFiniteSet(Unopened)  BY Sets, FS_Subset DEF Unopened
<1>2. Cardinality(Unopened) \in Nat /\ (Cardinality(Unopened) = 0 <=> Unopened = {})
  BY <1>1, FS_CardinalityType, FS_EmptySet
<1>3. Unopened = {} => (~failed <=> \A c \in Conns : verdict[c] = "ok")  BY DEF Counts, Unopened, Shape
<1> QED  BY <1>1, <1>2, <1>3 DEF Counts

\* A step that leaves the opens alone.
LEMMA OpeningKept ==
  ASSUME Shape, Numbered, Opening, UNCHANGED <<phase, verdict, pending, failed>>,
         phase = "none" => UNCHANGED <<made, closer, queue>>,
         \A c \in Conns : \A i \in At(c)' : Op(c, i)' = "open" => i \in At(c) /\ Op(c, i) = "open",
         \A k \in Calls : call'[k].kind = "init" /\ call'[k].res # "none" =>
           \/ call[k].kind = "init" /\ call[k].res = call'[k].res
           \/ pending = 0 /\ call'[k].res = (IF failed THEN "error" ELSE "ok")
  PROVE  Opening'
<1>1. Unopened' = Unopened  BY DEF Unopened
<1>2. Counts'  BY <1>1 DEF Opening, Counts
<1>3. OpensFirst'  BY <1>1 DEF Opening, OpensFirst
<1>4. Untouched'  BY <1>1 DEF Opening, Untouched
<1>5. InitializedIsTrue'
  <2> SUFFICES ASSUME NEW k \in Calls, call'[k].kind = "init", call'[k].res # "none"
               PROVE  /\ \A c \in Conns : verdict[c] # "none"
                      /\ call'[k].res = "ok" <=> \A c \in Conns : verdict[c] = "ok"
    BY DEF InitializedIsTrue
  <2>1. CASE call[k].kind = "init" /\ call[k].res = call'[k].res  BY <2>1 DEF Opening, InitializedIsTrue
  <2>2. CASE pending = 0 /\ call'[k].res = (IF failed THEN "error" ELSE "ok")
    BY <2>2, CountOfOpens DEF Opening, Unopened
  <2> QED  BY <2>1, <2>2
<1> QED  BY <1>2, <1>3, <1>4, <1>5 DEF Opening

\* A block that runs leaves no open on its connection.
LEMMA NoOpenLeft ==
  ASSUME Shape, OpensFirst, NEW c \in Conns, queue[c] # <<>>, queue' = [queue EXCEPT ![c] = Tail(@)],
         NEW d \in Conns, NEW i \in At(d)', Op(d, i)' = "open"
  PROVE  d # c /\ i \in At(d) /\ Op(d, i) = "open"
<1>1. IF d = c THEN i + 1 \in At(d) /\ queue'[d][i] = queue[d][i + 1]
               ELSE i \in At(d) /\ queue'[d][i] = queue[d][i]
  BY Dropped
<1>2. i \in Nat \ {0}
  <2>1. queue'[d] \in Seq(Block)  BY Sets, HeadBlock DEF Shape
  <2> QED  BY <2>1 DEF At
<1>3. CASE d = c
  <2>1. i + 1 \in At(d) /\ Op(d, i + 1) = "open"  BY <1>1, <1>3 DEF Op
  <2>2. i + 1 = 1  BY <2>1 DEF OpensFirst
  <2> QED  BY <1>2, <2>2
<1> QED  BY <1>1, <1>3 DEF Op

\* The opens are counted down, each once, and initialized() is answered at the last.
LEMMA OpeningStep ==
  ASSUME Shape, Numbered, Queued, Opening, [Next]_vars
  PROVE  Opening'
<1> USE Sets
<1>1. ASSUME NEW rec, JsStep(rec) PROVE Opening'
  <2>1. /\ This \in Calls /\ call' = [call EXCEPT ![This] = rec]
        /\ phase # "none" /\ UNCHANGED <<phase, verdict, pending, failed>>
    BY <1>1 DEF JsStep, Adds
  <2>2. ASSUME NEW k \in Calls, call'[k].kind = "init", call'[k].res # "none"
        PROVE  \/ call[k].kind = "init" /\ call[k].res = call'[k].res
               \/ pending = 0 /\ call'[k].res = (IF failed THEN "error" ELSE "ok")
    <3>1. CASE k # This  BY <2>1, <2>2, <3>1 DEF Shape
    <3>2. CASE k = This
      <4>1. call'[k] = rec /\ rec.kind = "init" /\ rec.res # "none"  BY <2>1, <2>2, <3>2 DEF Shape
      <4> QED  BY <1>1, <4>1 DEF JsStep, Closes, ClaimsNone, ClaimsOne, Tells, Waits, Queues
    <3> QED  BY <3>1, <3>2
  <2>3. ASSUME NEW c \in Conns, NEW i \in At(c)', Op(c, i)' = "open"
        PROVE  i \in At(c) /\ Op(c, i) = "open"
    <3>1. CASE UNCHANGED queue  BY <2>3, <3>1 DEF At, Op
    <3>2. ASSUME NEW d \in Conns, NEW op, Queues(rec, d, op) PROVE i \in At(c) /\ Op(c, i) = "open"
      <4>1. PICK new : new = [op |-> op, id |-> This]  OBVIOUS
      <4>2. new \in Block /\ new.op # "open" /\ queue' = [queue EXCEPT ![d] = Append(@, new)]
        BY <3>2, <4>1 DEF Queues
      <4>3. (i \in At(c) /\ queue'[c][i] = queue[c][i]) \/ queue'[c][i] = new
        BY <4>2, Appended
      <4> QED  BY <2>3, <4>2, <4>3 DEF Op
    <3>3. CASE Closes(rec)
      <4>1. PICK new : new = [op |-> "close", id |-> None]  OBVIOUS
      <4>2. new.op # "open" /\ queue' = [e \in Conns |-> Append(queue[e], new)]  BY <3>3, <4>1 DEF Closes
      <4>3. (i \in At(c) /\ queue'[c][i] = queue[c][i]) \/ queue'[c][i] = new  BY <4>2 DEF Shape, At
      <4> QED  BY <2>3, <4>2, <4>3 DEF Op
    <3>4. CASE ClaimsNone(rec)
      <4>1. rec.of # None /\ handle[rec.of] # None => handle[rec.of] \in Conns  BY <1>1 DEF JsStep, Shape
      <4> QED  BY <3>1, <3>2, <3>4, <4>1 DEF ClaimsNone, Tells, Waits
    <3>5. CASE ClaimsOne(rec)
      <4>1. \A r \in free : r \in Conns  BY DEF Shape
      <4> QED  BY <3>2, <3>5, <4>1 DEF ClaimsOne
    <3> QED  BY <1>1, <3>3, <3>4, <3>5 DEF JsStep
  <2> QED  BY <2>1, <2>2, <2>3, OpeningKept
<1>2. ASSUME NEW c, NEW found, RunStep(c, found) PROVE Opening'
  <2>1. PICK k : k = Id(c, 1)  OBVIOUS
  <2>2. /\ c \in Conns /\ queue[c] # <<>> /\ queue' = [queue EXCEPT ![c] = Tail(@)]
        /\ k \in Calls /\ call' = [call EXCEPT ![k] = found]
        /\ found.kind = call[k].kind /\ UNCHANGED <<phase, verdict, pending, failed>>
    BY <1>2, <2>1 DEF RunStep, openVars
  <2>3. call[k].kind # "init"
    <3>1. queue[c][1] \in Blocks(c) /\ queue[c][1].id = k /\ k # None  BY <2>1, <2>2, HeadBlock DEF Id
    <3> QED  BY <2>2, <3>1, BlockFacts
  <2>4. phase # "none"  BY <2>2 DEF Opening, Untouched
  <2>5. \A j \in Calls : call'[j].kind = "init" => call'[j] = call[j]  BY <2>2, <2>3 DEF Shape
  <2>6. \A d \in Conns : \A i \in At(d)' : Op(d, i)' = "open" => i \in At(d) /\ Op(d, i) = "open"
    BY <2>2, NoOpenLeft DEF Opening
  <2> QED  BY <2>2, <2>4, <2>5, <2>6, OpeningKept
<1>3. ASSUME NEW c \in Conns, RunClose(c) PROVE Opening'
  <2>1. /\ queue[c] # <<>> /\ queue' = [queue EXCEPT ![c] = Tail(@)] /\ UNCHANGED <<phase, verdict, pending, failed>>
    BY <1>3 DEF RunClose, Runs, Popped
  <2>2. phase # "none"  BY <2>1 DEF Opening, Untouched
  <2>3. \A k \in Calls : call'[k].kind = "init" => call'[k] = call[k]  BY <1>3, CloseTells
  <2>4. \A d \in Conns : \A i \in At(d)' : Op(d, i)' = "open" => i \in At(d) /\ Op(d, i) = "open"
    BY <2>1, NoOpenLeft DEF Opening
  <2> QED  BY <2>1, <2>2, <2>3, <2>4, OpeningKept
<1>4. CASE Deliver
  <2>1. UNCHANGED <<queue, phase, verdict, pending, failed, made, closer>>  BY <1>4 DEF Deliver, openVars
  <2>2. Head(main) \in Calls  BY <1>4, MainQueue DEF Deliver
  <2>3. \A k \in Calls : call'[k].kind = call[k].kind /\ call'[k].res = call[k].res
    BY <1>4, <2>2 DEF Deliver, Shape, Call
  <2>4. \A d \in Conns : \A i \in At(d)' : Op(d, i)' = "open" => i \in At(d) /\ Op(d, i) = "open"
    BY <2>1 DEF At, Op
  <2> QED  BY <2>1, <2>3, <2>4, OpeningKept
<1>5. ASSUME NEW t \in Calls, EndRead(t) PROVE Opening'
  <2>1. UNCHANGED <<phase, verdict, pending, failed, call>>  BY <1>5 DEF EndRead, openVars
  <2>2. phase # "none"
    <3>1. call[t].kind = "tx"  BY <1>5 DEF EndRead, Numbered
    <3> QED  BY <3>1 DEF Opening, Untouched, Numbered, NoCall, Calls
  <2>3. ASSUME NEW c \in Conns, NEW i \in At(c)', Op(c, i)' = "open"
        PROVE  i \in At(c) /\ Op(c, i) = "open"
    <3>1. CASE handle[t] = None
      <4>1. UNCHANGED queue  BY <1>5, <3>1 DEF EndRead
      <4> QED  BY <2>3, <4>1 DEF At, Op
    <3>2. CASE handle[t] # None
      <4>1. PICK new : new = [op |-> "end", id |-> t]  OBVIOUS
      <4>2. PICK d \in Conns : d = handle[t]  BY <3>2 DEF Shape
      <4>3. new \in Block /\ new.op # "open" /\ queue' = [queue EXCEPT ![d] = Append(@, new)]
        BY <1>5, <3>2, <4>1, <4>2 DEF EndRead, Sent, Block
      <4>4. (i \in At(c) /\ queue'[c][i] = queue[c][i]) \/ queue'[c][i] = new
        BY <4>3, Appended
      <4> QED  BY <2>3, <4>3, <4>4 DEF Op
    <3> QED  BY <3>1, <3>2
  <2> QED  BY <2>1, <2>2, <2>3, OpeningKept
<1>6. ASSUME NEW c \in Conns, RunOpen(c) PROVE Opening'
  <2>1. PICK ok \in BOOLEAN : OpenFinished(c, ok)  BY <1>6 DEF RunOpen
  <2>2. /\ queue[c] # <<>> /\ queue' = [queue EXCEPT ![c] = Tail(@)] /\ UNCHANGED phase
        /\ Op(c, 1) = "open" /\ 1 \in At(c)
    BY <1>6, HeadBlock DEF RunOpen, Runs, Popped, Op
  <2>3. c \in Unopened /\ phase # "none"  BY <2>2 DEF Opening, OpensFirst, Untouched
  <2>4. \A d \in Conns : verdict'[d] = IF d = c THEN (IF ok THEN "ok" ELSE "failed") ELSE verdict[d]
    BY <2>1 DEF OpenFinished, Shape
  <2>5. Unopened' = Unopened \ {c}  BY <2>4 DEF Unopened
  <2>6. Counts'
    <3>1. pending' = pending - 1 /\ (failed' <=> failed \/ ~ok)  BY <2>1 DEF OpenFinished, Counted
    <3>2. Cardinality(Unopened \ {c}) = Cardinality(Unopened) - 1
      BY <2>3, CountOfOpens, FS_RemoveElement DEF Opening
    <3>3. pending' = Cardinality(Unopened')  BY <2>5, <3>1, <3>2 DEF Opening, Counts
    <3>4. failed' <=> \E d \in Conns : verdict'[d] = "failed"
      BY <2>3, <2>4, <3>1 DEF Opening, Counts, Unopened
    <3> QED  BY <3>3, <3>4 DEF Counts
  <2>7. OpensFirst'
    <3> SUFFICES ASSUME NEW d \in Conns, NEW i \in At(d)', Op(d, i)' = "open"
                 PROVE  i = 1 /\ d \in Unopened'
      BY DEF OpensFirst
    <3>1. d # c /\ i \in At(d) /\ Op(d, i) = "open"  BY <2>2, NoOpenLeft DEF Opening
    <3> QED  BY <2>5, <3>1 DEF Opening, OpensFirst
  <2>8. Untouched'  BY <2>2, <2>3 DEF Untouched
  <2>9. \A k \in Calls : call[k].kind = "init" => call[k].res = "none"
    BY <2>3 DEF Opening, InitializedIsTrue, Unopened
  <2>10. InitializedIsTrue'
    <3>1. CASE pending' = 0
      <4>1. Unopened' = {} /\ (~failed' <=> \A d \in Conns : verdict'[d] = "ok")
        <5>1. IsFiniteSet(Unopened')  BY <2>5, CountOfOpens, FS_RemoveElement DEF Opening
        <5>2. Unopened' = {}  BY <2>6, <3>1, <5>1, FS_EmptySet DEF Counts
        <5>3. \A d \in Conns : verdict'[d] \in {"none", "ok", "failed"}  BY <2>4 DEF Shape
        <5> QED  BY <2>6, <5>2, <5>3 DEF Counts, Unopened
      <4>2. \A k \in Calls : call'[k].kind = "init" => call'[k].res = IF failed' THEN "error" ELSE "ok"
        <5> SUFFICES ASSUME NEW k \in Calls, call'[k].kind = "init"
                     PROVE  call'[k].res = IF failed' THEN "error" ELSE "ok"
          OBVIOUS
        <5>1. PICK res : res = IF failed' THEN "error" ELSE "ok"  OBVIOUS
        <5>2. call' = [j \in Calls |-> IF call[j].kind = "init" /\ call[j].res = "none"
                                        THEN [call[j] EXCEPT !.res = res] ELSE call[j]]
          BY <2>1, <3>1, <5>1 DEF OpenFinished
        <5>3. call[k].kind = "init" /\ call[k].res = "none"  BY <1>6, <2>9, OpenAnswers
        <5>4. call'[k].res = res  BY <5>2, <5>3 DEF Shape, Call
        <5> QED  BY <5>1, <5>4
      <4> QED  BY <4>1, <4>2 DEF InitializedIsTrue, Unopened
    <3>2. CASE pending' # 0
      <4>1. call' = call  BY <2>1, <3>2 DEF OpenFinished
      <4> QED  BY <2>9, <4>1 DEF InitializedIsTrue
    <3> QED  BY <3>1, <3>2
  <2> QED  BY <2>6, <2>7, <2>8, <2>10 DEF Opening
<1>7. CASE OpenAsync \/ OpenSync
  <2>1. /\ phase = "none" /\ phase' # "none" /\ UNCHANGED call  BY <1>7 DEF OpenAsync, OpenSync, jsVars
  <2>2. /\ \A k \in Calls : call[k].kind = "none"
        /\ \A c \in Conns : queue[c] = <<>> /\ c \in Unopened
    <3>1. made = 0 /\ \A c \in Conns : queue[c] = <<>> /\ c \in Unopened  BY <2>1 DEF Opening, Untouched
    <3>2. \A k \in Calls : k > made  BY <3>1 DEF Calls
    <3>3. \A k \in Calls : call[k] = NoCall  BY <3>2 DEF Numbered
    <3> QED  BY <3>1, <3>3 DEF NoCall
  <2>3. InitializedIsTrue' /\ Untouched'  BY <2>1, <2>2 DEF InitializedIsTrue, Untouched
  <2>4. \A c \in Conns : queue'[c] \in {<<>>, <<[op |-> "open", id |-> None]>>}
    BY <1>7, <2>2 DEF OpenAsync, OpenSync, ReaderOpens
  <2>5. \A c \in Conns : \A i \in At(c)' : i = 1
    <3> SUFFICES ASSUME NEW c \in Conns, NEW i \in At(c)' PROVE i = 1  OBVIOUS
    <3>1. CASE queue'[c] = <<>>  BY <3>1 DEF At
    <3>2. CASE queue'[c] # <<>>
      <4>1. Len(queue'[c]) = 1  BY <2>4, <3>2
      <4> QED  BY <4>1 DEF At
    <3> QED  BY <3>1, <3>2
  <2>6. CASE verdict' = verdict
    <3>1. UNCHANGED <<pending, failed>>  BY <1>7, <2>2, <2>6 DEF OpenAsync, OpenSync, Shape, Unopened
    <3> QED  BY <2>2, <2>3, <2>5, <2>6, <3>1 DEF Opening, Counts, Unopened, OpensFirst
  <2>7. CASE verdict' # verdict
    <3>1. /\ pending' = pending - 1 /\ queue'[Writer] = <<>>
          /\ \/ verdict' = [verdict EXCEPT ![Writer] = "ok"] /\ failed' = failed
             \/ verdict' = [verdict EXCEPT ![Writer] = "failed"] /\ failed'
      BY <1>7, <2>2, <2>7 DEF OpenAsync, OpenSync, ReaderOpens
    <3>2. Unopened' = Unopened \ {Writer}  BY <3>1 DEF Unopened, Shape
    <3>3. Cardinality(Unopened \ {Writer}) = Cardinality(Unopened) - 1
      BY <2>2, CountOfOpens, FS_RemoveElement DEF Opening
    <3>4. pending' = Cardinality(Unopened')  BY <3>1, <3>2, <3>3 DEF Opening, Counts
    <3>5. failed' <=> \E c \in Conns : verdict'[c] = "failed"
      BY <2>2, <3>1 DEF Opening, Counts, Unopened, Shape
    <3>6. OpensFirst'
      <4>1. At(Writer)' = {}  BY <3>1 DEF At
      <4> QED  BY <2>2, <2>5, <3>2, <4>1 DEF OpensFirst
    <3> QED  BY <2>3, <3>4, <3>5, <3>6 DEF Opening, Counts
  <2> QED  BY <2>6, <2>7
<1>8. CASE UNCHANGED vars
  BY <1>8 DEF vars, openVars, jsVars, Opening, Counts, Unopened, OpensFirst, Untouched, InitializedIsTrue, At, Op
<1>9. CASE JsCalls  BY <1>1, <1>5, <1>7, <1>9, JsSteps
<1>10. ASSUME NEW c \in Conns, RunBlock(c) PROVE Opening'  BY <1>2, <1>3, <1>6, <1>10, RunSteps
<1> QED  BY <1>4, <1>8, <1>9, <1>10 DEF Next

-----------------------------------------------------------------------------
(* Blocks and what they do to the connection and to the claim on it.       *)

Effect(c, found) ==
  /\ Op(c, 1) \in {"prepare", "finalize"} => UNCHANGED <<free, handle, version, span, snap>>
  /\ Op(c, 1) = "write" =>
       /\ UNCHANGED <<free, handle, span, snap>>
       /\ \/ found.res = "ok" /\ version' = version + 1
          \/ found.res = "error" /\ UNCHANGED version
  /\ Op(c, 1) = "read" =>
       /\ UNCHANGED <<free, handle, version, span>>
       /\ \/ /\ found.res = "ok" /\ found.saw = Visible(c)
             /\ found.span = IF InTx(c) THEN span[c] ELSE None
             /\ snap' = IF InTx(c) THEN [snap EXCEPT ![c] = Visible(c)] ELSE snap
          \/ found.res = "error" /\ UNCHANGED snap
  /\ Op(c, 1) = "begin" =>
       /\ c \in Readers /\ UNCHANGED <<version, snap>>
       /\ \/ /\ found.res = "ok" /\ span[c] = None /\ span' = [span EXCEPT ![c] = Id(c, 1)]
             /\ UNCHANGED <<free, handle>>
          \/ /\ found.res = "error" /\ UNCHANGED span
             /\ handle' = [handle EXCEPT ![Id(c, 1)] = None] /\ free' = free \cup {c}
  /\ Op(c, 1) = "end" =>
       /\ c \in Readers /\ UNCHANGED version
       /\ span' = [span EXCEPT ![c] = None] /\ snap' = [snap EXCEPT ![c] = Unset]
       /\ handle' = [handle EXCEPT ![Id(c, 1)] = None] /\ free' = free \cup {c}

\* What each block does to the database and to the claims.
LEMMA Effects ==
  ASSUME Shape, NEW c \in Conns, RunBlock(c), ~RunOpen(c), ~RunClose(c), NEW found, RunStep(c, found)
  PROVE  Effect(c, found)
<1> USE Sets
<1>1. /\ queue[c] # <<>> /\ It(c) = Id(c, 1) /\ It(c) \in Calls /\ call' = [call EXCEPT ![It(c)] = found]
      /\ Head(queue[c]).op = Op(c, 1) /\ call'[It(c)] = found
  BY HeadBlock DEF RunStep, Op, Shape
<1>2. PICK done, bad : done = [call[It(c)] EXCEPT !.res = "ok"] /\ bad = [call[It(c)] EXCEPT !.res = "error"]
  OBVIOUS
<1>3. call[It(c)] \in Call /\ done.res = "ok" /\ bad.res = "error"  BY <1>1, <1>2 DEF Shape, Call
<1>4. CASE RunWrite /\ c = Writer
  <2>1. Op(c, 1) = "write"  BY <1>1, <1>4 DEF RunWrite, Runs
  <2>2. UNCHANGED <<free, handle, span, snap>>  BY <1>4 DEF RunWrite, poolVars
  <2>3. \/ found = done /\ version' = version + 1
        \/ found = bad /\ UNCHANGED version
    BY <1>1, <1>2, <1>4 DEF RunWrite, Completes, Shape
  <2>4. \/ found.res = "ok" /\ version' = version + 1
        \/ found.res = "error" /\ UNCHANGED version
    BY <1>3, <2>3
  <2> QED  BY <2>1, <2>2, <2>4 DEF Effect
<1>5. CASE RunRead(c)
  <2>1. Op(c, 1) = "read"  BY <1>1, <1>5 DEF RunRead, Runs
  <2>2. UNCHANGED <<free, handle, span, version>>  BY <1>5 DEF RunRead, poolVars
  <2>3. PICK saw, t : saw = Visible(c) /\ t = IF InTx(c) THEN span[c] ELSE None  OBVIOUS
  <2>4. PICK new : new = [call[It(c)] EXCEPT !.res = "ok", !.saw = saw, !.span = t]  OBVIOUS
  <2>5. \/ /\ found = new
           /\ snap' = IF InTx(c) THEN [snap EXCEPT ![c] = Visible(c)] ELSE snap
        \/ found = bad /\ UNCHANGED snap
    BY <1>1, <1>2, <1>5, <2>3, <2>4 DEF RunRead, Completes, Shape
  <2>6. new.res = "ok" /\ new.saw = saw /\ new.span = t  BY <1>3, <2>4 DEF Call
  <2>7. \/ /\ found.res = "ok" /\ found.saw = saw /\ found.span = t
           /\ snap' = IF InTx(c) THEN [snap EXCEPT ![c] = Visible(c)] ELSE snap
        \/ found.res = "error" /\ UNCHANGED snap
    BY <1>3, <2>5, <2>6
  <2> QED  BY <2>1, <2>2, <2>3, <2>7 DEF Effect
<1>6. CASE c \in Readers /\ RunBegin(c)
  <2>1. Op(c, 1) = "begin"  BY <1>1, <1>6 DEF RunBegin, Runs
  <2>2. UNCHANGED <<snap, version>>  BY <1>6 DEF RunBegin
  <2>3. \/ /\ found = done /\ span[c] = None
           /\ span' = [span EXCEPT ![c] = It(c)] /\ UNCHANGED <<free, handle>>
        \/ /\ found = bad /\ UNCHANGED span
           /\ handle' = [handle EXCEPT ![It(c)] = None] /\ free' = free \cup {c}
    BY <1>1, <1>2, <1>6 DEF RunBegin, Released, Completes, poolVars, Shape
  <2>4. \/ /\ found.res = "ok" /\ span[c] = None
           /\ span' = [span EXCEPT ![c] = It(c)] /\ UNCHANGED <<free, handle>>
        \/ /\ found.res = "error" /\ UNCHANGED span
           /\ handle' = [handle EXCEPT ![It(c)] = None] /\ free' = free \cup {c}
    BY <1>3, <2>3
  <2> QED  BY <1>1, <1>6, <2>1, <2>2, <2>4 DEF Effect
<1>7. CASE c \in Readers /\ RunEnd(c)
  BY <1>1, <1>7 DEF RunEnd, Runs, Released, Effect
<1>8. CASE (RunPrepare \/ RunFinalize) /\ c = Writer
  BY <1>1, <1>8 DEF RunPrepare, RunFinalize, Runs, poolVars, dataVars, Effect
<1> QED  BY <1>4, <1>5, <1>6, <1>7, <1>8 DEF RunBlock

\* A call keeps what it was made with, and its answer once it has one.
LEMMA CallsKept ==
  ASSUME Shape, Numbered, Queued, Opening, [Next]_vars, NEW k \in Calls, call[k].kind # "none"
  PROVE  /\ call'[k].kind = call[k].kind /\ call'[k].of = call[k].of
         /\ call'[k].late = call[k].late /\ call'[k].seen = call[k].seen
         /\ call[k].kind # "close" /\ call[k].res # "none" =>
              call'[k].res = call[k].res /\ call'[k].saw = call[k].saw /\ call'[k].span = call[k].span
<1> USE Sets
<1>1. ASSUME NEW rec, JsStep(rec) PROVE call'[k] = call[k]
  <2>1. This \in Calls /\ call' = [call EXCEPT ![This] = rec]  BY <1>1 DEF JsStep, Adds
  <2>2. k # This
    <3>1. made \in 0..MaxCalls /\ This > made  BY ReadersAssumption DEF Shape, This
    <3> QED  BY <2>1, <3>1 DEF Numbered, NoCall
  <2> QED  BY <2>1, <2>2 DEF Shape
<1>2. CASE \E c, found : RunStep(c, found)
  <2>1. PICK c, found : RunStep(c, found)  BY <1>2
  <2>2. CASE k = Id(c, 1) /\ Op(c, 1) # "end"
    <3>1. call'[k] = found /\ c \in Conns /\ queue[c] # <<>> /\ k # None  BY <2>1, <2>2 DEF RunStep, Shape
    <3>2. queue[c][1] \in Blocks(c) /\ queue[c][1].id = k /\ queue[c][1].op # "end"  BY <2>2, <3>1, HeadBlock DEF Op, Id
    <3>3. call[k].res = "none"  BY <3>1, <3>2, BlockFacts DEF Placed
    <3> QED  BY <2>1, <2>2, <3>1, <3>3 DEF RunStep
  <2>3. CASE k = Id(c, 1) /\ Op(c, 1) = "end"  BY <2>1, <2>3 DEF RunStep, Shape
  <2>4. CASE k # Id(c, 1)  BY <2>1, <2>4 DEF RunStep, Shape
  <2> QED  BY <2>2, <2>3, <2>4
<1>3. CASE \E c \in Conns : RunOpen(c)  BY <1>3, OpenAnswers
<1>4. CASE \E c \in Conns : RunClose(c)
  <2>1. PICK c \in Conns : RunClose(c)  BY <1>4
  <2>2. closer \in Calls /\ call[closer].kind = "close" /\ (k # closer => call'[k] = call[k])  BY <2>1, CloseTells
  <2>3. CASE k # closer  BY <2>2, <2>3
  <2>4. CASE k = closer
    <3>1. call' = call \/ call' = [call EXCEPT ![closer] = [call[closer] EXCEPT !.res = "ok"]]
      BY <2>1, <2>2 DEF RunClose, Shape
    <3>2. \A rec \in Call : LET new == [rec EXCEPT !.res = "ok"] IN
            new.kind = rec.kind /\ new.of = rec.of /\ new.late = rec.late /\ new.seen = rec.seen
      BY DEF Call
    <3> QED  BY <2>2, <2>4, <3>1, <3>2 DEF Shape
  <2> QED  BY <2>3, <2>4
<1>5. CASE Deliver  BY <1>5, DeliverAnswers
<1>6. CASE UNCHANGED call  BY <1>6
<1>7. CASE JsCalls
  <2>1. (OpenAsync \/ OpenSync \/ \E t \in Calls : EndRead(t)) => UNCHANGED call
    BY DEF OpenAsync, OpenSync, EndRead, jsVars
  <2> QED  BY <1>1, <1>6, <1>7, <2>1, JsSteps
<1>8. CASE \E c \in Conns : RunBlock(c)  BY <1>2, <1>3, <1>4, <1>8, RunSteps
<1> QED  BY <1>5, <1>6, <1>7, <1>8 DEF Next, vars, jsVars

-----------------------------------------------------------------------------
(* Versions and transactions.                                              *)

\* A step that does no write.
LEMMA VersionsKept ==
  ASSUME Versions, version' = version, \A k \in Calls : call'[k].seen <= version,
         \A k \in Calls : k \in Written' <=> k \in Written
  PROVE  Versions'
<1>1. Written' = Written  BY DEF Written
<1> QED  BY <1>1 DEF Versions

\* A write that is answered is one more version.
LEMMA VersionsStep ==
  ASSUME Shape, Numbered, Queued, Opening, Versions, [Next]_vars
  PROVE  Versions'
<1> USE Sets
<1>0. IsFiniteSet(Written) /\ Cardinality(Written) \in Nat  BY FS_Subset, FS_CardinalityType DEF Written
<1>1. ASSUME NEW rec, JsStep(rec) PROVE Versions'
  <2>1. /\ This \in Calls /\ call' = [call EXCEPT ![This] = rec] /\ version' = version
        /\ rec.seen = WritesHeard /\ (rec.kind = "write" => rec.res # "ok")
    BY <1>1 DEF JsStep, Adds, dataVars
  <2>2. call[This].kind = "none"
    <3>1. made \in 0..MaxCalls /\ This > made  BY ReadersAssumption DEF Shape, This
    <3> QED  BY <2>1, <3>1 DEF Numbered, NoCall
  <2>3. WritesHeard <= version
    <3>1. {k \in Calls : call[k].kind = "write" /\ call[k].heard /\ call[k].res = "ok"} \subseteq Written
      BY DEF Written
    <3> QED  BY <1>0, <3>1, FS_Subset DEF WritesHeard, Versions
  <2>4. \A k \in Calls : call'[k].seen <= version  BY <2>1, <2>3 DEF Versions, Shape
  <2>5. \A k \in Calls : k \in Written' <=> k \in Written  BY <2>1, <2>2 DEF Written, Shape
  <2> QED  BY <2>1, <2>4, <2>5, VersionsKept
<1>2. ASSUME NEW c \in Conns, RunBlock(c), ~RunOpen(c), ~RunClose(c) PROVE Versions'
  <2>1. PICK found : RunStep(c, found)  BY <1>2, RunSteps
  <2>2. Effect(c, found)  BY <1>2, <2>1, Effects
  <2>3. PICK k \in Calls : k = Id(c, 1)  BY <2>1 DEF RunStep
  <2>4. /\ queue[c] # <<>> /\ call' = [call EXCEPT ![k] = found] /\ Op(c, 1) \notin {"open", "close"}
        /\ found.kind = call[k].kind /\ found.seen = call[k].seen
        /\ Op(c, 1) = "end" => found = call[k]
    BY <2>1, <2>3 DEF RunStep
  <2>5. /\ queue[c][1] \in Blocks(c) /\ queue[c][1].id = k /\ queue[c][1].op = Op(c, 1) /\ k # None
        /\ queue[c][1] \in Block
    BY <2>3, <2>4, HeadBlock DEF Id, Op
  <2>6. /\ call[k].kind = KindOf(Op(c, 1)) /\ (Op(c, 1) # "end" => call[k].res = "none")
        /\ Op(c, 1) \in {"write", "read", "begin", "end", "prepare", "finalize"}
    BY <2>4, <2>5, BlockFacts DEF Placed, Block
  <2>7. k \notin Written  BY <2>6 DEF Written, KindOf
  <2>8. \A j \in Calls : j # k => (j \in Written' <=> j \in Written)  BY <2>3, <2>4 DEF Written, Shape
  <2>9. \A j \in Calls : call'[j].seen = call[j].seen  BY <2>3, <2>4 DEF Shape
  <2>10. CASE Op(c, 1) = "write" /\ found.res = "ok"
    <3>1. version' = version + 1  BY <2>2, <2>10 DEF Effect
    <3>2. k \in Written'  BY <2>3, <2>4, <2>6, <2>10 DEF Written, KindOf, Shape
    <3>3. Written' = Written \cup {k}  BY <2>8, <3>2 DEF Written
    <3>4. Cardinality(Written \cup {k}) = Cardinality(Written) + 1  BY <1>0, <2>7, FS_AddElement
    <3>5. \A j \in Calls : call'[j].seen <= version'
      <4>1. \A j \in Calls : call[j].seen \in Nat /\ call[j].seen <= version /\ version \in Nat
        BY DEF Versions, Shape, Call
      <4> QED  BY <2>9, <3>1, <4>1
    <3> QED  BY <3>1, <3>3, <3>4, <3>5 DEF Versions
  <2>11. CASE ~(Op(c, 1) = "write" /\ found.res = "ok")
    <3>1. version' = version  BY <2>2, <2>6, <2>11 DEF Effect
    <3>2. k \notin Written'  BY <2>3, <2>4, <2>6, <2>11 DEF Written, KindOf, Shape
    <3> QED  BY <2>7, <2>8, <2>9, <3>1, <3>2, VersionsKept DEF Versions
  <2> QED  BY <2>10, <2>11
\* The steps that answer no write.
<1>3. ASSUME version' = version, \A k \in Calls : call'[k].seen = call[k].seen /\ call'[k].kind = call[k].kind,
             \A k \in Calls : call[k].kind = "write" => call'[k].res = call[k].res
      PROVE  Versions'
  BY <1>3, VersionsKept DEF Versions, Written
<1>4. ASSUME NEW c \in Conns, RunOpen(c) PROVE Versions'
  <2>1. version' = version  BY <1>4 DEF RunOpen, dataVars
  <2> QED  BY <1>3, <1>4, <2>1, OpenAnswers
<1>5. ASSUME NEW c \in Conns, RunClose(c) PROVE Versions'
  <2>1. version' = version  BY <1>5 DEF RunClose
  <2>2. closer \in Calls /\ call[closer].kind = "close" /\ \A k \in Calls : k # closer => call'[k] = call[k]
    BY <1>5, CloseTells
  <2>3. call'[closer].kind = call[closer].kind /\ call'[closer].seen = call[closer].seen  BY <2>2, CallsKept
  <2> QED  BY <1>3, <2>1, <2>2, <2>3
<1>6. CASE Deliver
  <2>1. version' = version /\ Head(main) \in Calls  BY <1>6, MainQueue DEF Deliver, dataVars
  <2>2. \A k \in Calls : call'[k].seen = call[k].seen /\ call'[k].kind = call[k].kind /\ call'[k].res = call[k].res
    BY <1>6, DeliverAnswers
  <2> QED  BY <1>3, <2>1, <2>2
<1>7. CASE UNCHANGED <<call, version>>  BY <1>3, <1>7
<1>8. CASE JsCalls
  <2>1. (OpenAsync \/ OpenSync \/ \E t \in Calls : EndRead(t)) => UNCHANGED <<call, version>>
    BY DEF OpenAsync, OpenSync, EndRead, jsVars, dataVars
  <2> QED  BY <1>1, <1>7, <1>8, <2>1, JsSteps
<1> QED  BY <1>2, <1>4, <1>5, <1>6, <1>7, <1>8 DEF Next, vars, jsVars, dataVars

\* A transaction opens on a reader without one, and reads what it has read first.
LEMMA SpansStep ==
  ASSUME Shape, Numbered, Queued, Opening, Spans, Versions, [Next]_vars
  PROVE  Spans'
<1> USE Sets
<1>1. \A r \in Readers : span[r] # None =>
        /\ span[r] \in Calls /\ call'[span[r]].kind = "tx" /\ call'[span[r]].res = "ok"
        /\ call'[span[r]].seen = call[span[r]].seen
  <2> SUFFICES ASSUME NEW r \in Readers, span[r] # None
               PROVE  /\ span[r] \in Calls /\ call'[span[r]].kind = "tx" /\ call'[span[r]].res = "ok"
                      /\ call'[span[r]].seen = call[span[r]].seen
    OBVIOUS
  <2>1. span[r] \in Calls /\ call[span[r]].kind = "tx" /\ call[span[r]].res = "ok"  BY DEF Spans, Shape
  <2> QED  BY <2>1, CallsKept
<1>2. \A k \in Calls : call[k].seen \in Nat /\ call[k].seen <= version  BY DEF Versions, Shape, Call
\* Transactions may end and the others stay.
<1>4. ASSUME version' \in {version, version + 1},
             \A r \in Readers : \/ span'[r] = span[r] /\ snap'[r] = snap[r]
                                \/ span'[r] = None /\ snap'[r] = Unset
      PROVE  Spans'
  <2>1. \A r \in Readers : span'[r] # None => span'[r] = span[r] /\ snap'[r] = snap[r]  BY <1>4
  <2>2. \A r \in Readers : span'[r] # None => call'[span'[r]].kind = "tx" /\ call'[span'[r]].res = "ok"
    <3> SUFFICES ASSUME NEW r \in Readers, span'[r] # None
                 PROVE  call'[span'[r]].kind = "tx" /\ call'[span'[r]].res = "ok"
      OBVIOUS
    <3>1. span'[r] = span[r] /\ span[r] # None  BY <2>1
    <3> QED  BY <1>1, <3>1
  <2>3. \A r, q \in Readers : span'[r] = span'[q] /\ span'[r] # None => r = q  BY <2>1 DEF Spans
  <2>4. ASSUME NEW r \in Readers, snap'[r] # Unset
        PROVE  span'[r] # None /\ snap'[r] >= call'[span'[r]].seen /\ snap'[r] <= version'
    <3>1. span'[r] = span[r] /\ snap'[r] = snap[r]  BY <1>4, <2>4
    <3>2. span[r] # None /\ snap[r] >= call[span[r]].seen /\ snap[r] <= version /\ snap[r] \in Nat
      BY <2>4, <3>1 DEF Spans, Shape
    <3>3. call'[span'[r]].seen = call[span[r]].seen  BY <1>1, <3>1, <3>2
    <3>4. snap[r] <= version'  BY <1>4, <3>2 DEF Shape
    <3> QED  BY <3>1, <3>2, <3>3, <3>4
  <2> QED  BY <2>2, <2>3, <2>4 DEF Spans
<1>5. CASE UNCHANGED dataVars  BY <1>4, <1>5 DEF dataVars
<1>6. ASSUME NEW c \in Conns, RunClose(c) PROVE Spans'
  <2>1. version' = version  BY <1>6 DEF RunClose
  <2>2. \/ UNCHANGED <<span, snap>>
        \/ c \in Readers /\ span' = [span EXCEPT ![c] = None] /\ snap' = [snap EXCEPT ![c] = Unset]
    BY <1>6 DEF RunClose
  <2>3. \A r \in Readers : \/ span'[r] = span[r] /\ snap'[r] = snap[r]
                           \/ span'[r] = None /\ snap'[r] = Unset
    BY <2>2 DEF Shape
  <2> QED  BY <1>4, <2>1, <2>3
<1>7. ASSUME NEW c \in Conns, RunBlock(c), ~RunOpen(c), ~RunClose(c) PROVE Spans'
  <2>1. PICK found : RunStep(c, found)  BY <1>7, RunSteps
  <2>2. Effect(c, found)  BY <1>7, <2>1, Effects
  <2>3. PICK k \in Calls : k = Id(c, 1)  BY <2>1 DEF RunStep
  <2>4. /\ queue[c][1] \in Blocks(c) /\ queue[c][1].id = k /\ queue[c][1].op = Op(c, 1) /\ k # None
        /\ queue[c][1] \in Block /\ Op(c, 1) \notin {"open", "close"} /\ call' = [call EXCEPT ![k] = found]
    BY <2>1, <2>3, HeadBlock DEF Id, Op, RunStep
  <2>5. /\ call[k].kind = KindOf(Op(c, 1)) /\ (Op(c, 1) # "end" => call[k].res = "none")
        /\ Op(c, 1) \in {"write", "read", "begin", "end", "prepare", "finalize"}
    BY <2>4, BlockFacts DEF Placed, Block
  <2>6. CASE Op(c, 1) \in {"write", "prepare", "finalize"} \/ (snap' = snap /\ span' = span /\ version' = version)
    BY <1>4, <2>2, <2>6 DEF Effect
  <2>7. CASE Op(c, 1) = "read" /\ ~(snap' = snap /\ span' = span /\ version' = version)
    <3>1. /\ version' = version /\ span' = span /\ InTx(c) /\ snap' = [snap EXCEPT ![c] = Visible(c)]
      BY <2>2, <2>7 DEF Effect
    <3>2. c \in Readers /\ span[c] # None  BY <3>1 DEF InTx
    <3>3. Visible(c) \in Nat /\ Visible(c) >= call[span[c]].seen /\ Visible(c) <= version
      <4>1. CASE snap[c] = Unset
        <5>1. Visible(c) = version  BY <4>1 DEF Visible
        <5>2. version \in Nat  BY DEF Shape
        <5>3. span[c] \in Calls  BY <1>1, <3>2
        <5>4. call[span[c]].seen \in Nat /\ call[span[c]].seen <= version  BY <1>2, <5>3
        <5> QED  BY <5>1, <5>2, <5>4
      <4>2. CASE snap[c] # Unset
        <5>1. Visible(c) = snap[c]  BY <3>1, <4>2 DEF Visible
        <5> QED  BY <3>2, <4>2, <5>1 DEF Spans, Shape
      <4> QED  BY <4>1, <4>2
    <3>4. ASSUME NEW r \in Readers, snap'[r] # Unset
          PROVE  span'[r] # None /\ snap'[r] >= call'[span'[r]].seen /\ snap'[r] <= version'
      <4>1. CASE r = c  BY <1>1, <3>1, <3>2, <3>3, <4>1 DEF Shape
      <4>2. CASE r # c
        <5>1. snap'[r] = snap[r] /\ span'[r] = span[r]  BY <3>1, <4>2 DEF Shape
        <5> QED  BY <1>1, <3>1, <3>4, <5>1 DEF Spans
      <4> QED  BY <4>1, <4>2
    <3>5. \A r \in Readers : span'[r] # None => call'[span'[r]].kind = "tx" /\ call'[span'[r]].res = "ok"
      BY <1>1, <3>1
    <3> QED  BY <3>1, <3>4, <3>5 DEF Spans
  <2>8. CASE Op(c, 1) = "begin" /\ ~(snap' = snap /\ span' = span /\ version' = version)
    <3>1. /\ c \in Readers /\ UNCHANGED <<version, snap>> /\ found.res = "ok" /\ span[c] = None
          /\ span' = [span EXCEPT ![c] = k]
      BY <2>2, <2>3, <2>8 DEF Effect
    <3>2. call[k].kind = "tx" /\ call[k].res = "none" /\ call'[k].kind = "tx" /\ call'[k].res = "ok"
      BY <2>1, <2>3, <2>4, <2>5, <2>8, <3>1 DEF KindOf, RunStep, Shape
    <3>3. \A r \in Readers : span'[r] = IF r = c THEN k ELSE span[r]  BY <3>1 DEF Shape
    <3>4. \A r \in Readers : span[r] # k  BY <2>4, <3>2 DEF Spans
    <3>5. \A r \in Readers : span'[r] # None => call'[span'[r]].kind = "tx" /\ call'[span'[r]].res = "ok"
      <4> SUFFICES ASSUME NEW r \in Readers, span'[r] # None
                   PROVE  call'[span'[r]].kind = "tx" /\ call'[span'[r]].res = "ok"
        OBVIOUS
      <4>1. CASE r = c  BY <3>2, <3>3, <4>1
      <4>2. CASE r # c
        <5>1. span'[r] = span[r] /\ span[r] # None  BY <3>3, <4>2
        <5> QED  BY <1>1, <5>1
      <4> QED  BY <4>1, <4>2
    <3>6. \A r, q \in Readers : span'[r] = span'[q] /\ span'[r] # None => r = q  BY <3>3, <3>4 DEF Spans
    <3>7. ASSUME NEW r \in Readers, snap'[r] # Unset
          PROVE  span'[r] # None /\ snap'[r] >= call'[span'[r]].seen /\ snap'[r] <= version'
      <4>1. snap[r] # Unset /\ span[r] # None  BY <3>1, <3>7 DEF Spans
      <4>2. span'[r] = span[r]  BY <3>1, <3>3, <4>1
      <4> QED  BY <1>1, <3>1, <4>1, <4>2 DEF Spans
    <3> QED  BY <3>5, <3>6, <3>7 DEF Spans
  <2>9. CASE Op(c, 1) = "end"
    <3>1. /\ c \in Readers /\ version' = version
          /\ span' = [span EXCEPT ![c] = None] /\ snap' = [snap EXCEPT ![c] = Unset]
      BY <2>2, <2>9 DEF Effect
    <3>2. \A r \in Readers : \/ span'[r] = span[r] /\ snap'[r] = snap[r]
                             \/ span'[r] = None /\ snap'[r] = Unset
      BY <3>1 DEF Shape
    <3> QED  BY <1>4, <3>1, <3>2
  <2> QED  BY <2>5, <2>6, <2>7, <2>8, <2>9
<1>8. CASE JsCalls
  <2>1. (OpenAsync \/ OpenSync \/ \E t \in Calls : EndRead(t)) => UNCHANGED dataVars
    BY DEF OpenAsync, OpenSync, EndRead
  <2>2. ASSUME NEW rec, JsStep(rec) PROVE UNCHANGED dataVars  BY <2>2 DEF JsStep
  <2> QED  BY <1>5, <1>8, <2>1, <2>2, JsSteps
<1>9. (\E c \in Conns : RunOpen(c)) \/ Deliver \/ UNCHANGED vars => UNCHANGED dataVars  BY DEF RunOpen, Deliver, vars
<1> QED  BY <1>5, <1>6, <1>7, <1>8, <1>9 DEF Next

-----------------------------------------------------------------------------
(* Claims.                                                                 *)

\* A step that leaves the claims alone.
LEMMA ClaimsKept ==
  ASSUME Shape, Claims, UNCHANGED <<free, handle, span>>, closer' = None => closer = None,
         \A c \in Conns : \A b \in Blocks(c)' : b.op \in {"begin", "end"} => b \in Blocks(c),
         \A t \in Calls : call[t].kind = "tx" => call'[t].kind = "tx",
         \A t \in Calls : tx'[t] = "body" \/ (tx'[t] = "begin" /\ call'[t].res = "ok") =>
           tx[t] = "body" \/ (tx[t] = "begin" /\ call[t].res = "ok")
  PROVE  Claims'
<1> SUFFICES ASSUME closer' = None PROVE Claimed' /\ Begun' /\ ClaimsInQueues'  BY DEF Claims
<1>1. Claimed /\ Begun /\ ClaimsInQueues  BY DEF Claims
<1>2. Claimed'  BY <1>1 DEF Claimed
<1>3. Begun'  BY <1>1 DEF Begun
<1>4. ClaimsInQueues'  BY <1>1 DEF ClaimsInQueues
<1> QED  BY <1>2, <1>3, <1>4

\* A transaction claims a reader.
LEMMA ClaimsAdded ==
  ASSUME Shape, Numbered, Queued, Spans, Claims, NEW rec, JsStep(rec), ClaimsOne(rec)
  PROVE  Claims'
<1> USE Sets
<1>1. PICK t \in Calls : t = This  BY DEF JsStep, Adds
<1>2. PICK r \in free : /\ rec.kind = "tx" /\ closer = None /\ Queues(rec, r, "begin")
                        /\ free' = free \ {r} /\ handle' = [handle EXCEPT ![t] = r]
  BY <1>1 DEF ClaimsOne
<1>3. PICK new : new = [op |-> "begin", id |-> t]  OBVIOUS
<1>4. /\ new \in Block /\ new.op = "begin" /\ new.id = t /\ queue' = [queue EXCEPT ![r] = Append(@, new)]
      /\ r \in Readers /\ r \in Conns /\ rec.res = "none"
  BY <1>1, <1>2, <1>3 DEF Queues, Shape
<1>5. call[t].kind = "none"
  <2>1. made \in 0..MaxCalls /\ t > made  BY <1>1, ReadersAssumption DEF Shape, This
  <2> QED  BY <2>1 DEF Numbered, NoCall
<1>6. \A u \in Calls : call'[u] = (IF u = t THEN rec ELSE call[u]) /\ tx'[u] = (IF u = t THEN "begin" ELSE tx[u])
  BY <1>1, <1>2 DEF JsStep, Adds, Shape
<1>7. Claimed /\ Begun /\ ClaimsInQueues  BY <1>2 DEF Claims
<1>8. \A u \in Calls : handle'[u] = IF u = t THEN r ELSE handle[u]  BY <1>2 DEF Shape
<1>9. handle[t] = None /\ \A q \in Readers : span'[q] = span[q] /\ (span[q] # None => span[q] \in Calls /\ span[q] # t)
  BY <1>5, <1>7 DEF Claimed, Spans, Shape, JsStep, dataVars
<1>10. \A u \in Calls : handle[u] # r  BY <1>4, <1>7 DEF Claimed
<1>11. Claimed'
  <2>1. \A u \in Calls : handle'[u] # None => handle'[u] \notin free' /\ call'[u].kind = "tx"
    BY <1>2, <1>6, <1>7, <1>8 DEF Claimed
  <2>2. \A u, v \in Calls : handle'[u] = handle'[v] /\ handle'[u] # None => u = v
    BY <1>7, <1>8, <1>10 DEF Claimed
  <2>3. \A q \in Readers : q \notin free' => \E u \in Calls : handle'[u] = q
    <3> SUFFICES ASSUME NEW q \in Readers, q \notin free' PROVE \E u \in Calls : handle'[u] = q  OBVIOUS
    <3>1. CASE q = r  BY <1>8, <3>1
    <3>2. CASE q # r
      <4>1. PICK u \in Calls : handle[u] = q  BY <1>2, <1>7, <3>2 DEF Claimed
      <4>2. u # t  BY <1>9, <4>1
      <4> QED  BY <1>8, <4>1, <4>2
    <3> QED  BY <3>1, <3>2
  <2>4. \A q \in Readers : span'[q] # None => handle'[span'[q]] = q
    <3> SUFFICES ASSUME NEW q \in Readers, span'[q] # None PROVE handle'[span'[q]] = q  OBVIOUS
    <3>1. span'[q] = span[q] /\ span[q] \in Calls /\ span[q] # t /\ handle[span[q]] = q  BY <1>7, <1>9 DEF Claimed
    <3> QED  BY <1>8, <3>1
  <2> QED  BY <2>1, <2>2, <2>3, <2>4 DEF Claimed
<1>12. Begun'
  <2> SUFFICES ASSUME NEW u \in Calls, tx'[u] = "body" \/ (tx'[u] = "begin" /\ call'[u].res = "ok")
               PROVE  handle'[u] # None /\ span'[handle'[u]] = u
    BY DEF Begun
  <2>1. u # t /\ (tx[u] = "body" \/ (tx[u] = "begin" /\ call[u].res = "ok"))  BY <1>4, <1>6
  <2>2. handle[u] # None /\ span[handle[u]] = u /\ handle'[u] = handle[u] /\ handle[u] \in Readers
    BY <1>7, <1>8, <2>1 DEF Begun, Shape
  <2> QED  BY <1>9, <2>2
<1>13. ClaimsInQueues'
  <2> SUFFICES ASSUME NEW c \in Conns, NEW b \in Blocks(c)', b.op \in {"begin", "end"} PROVE handle'[b.id] = c
    BY DEF ClaimsInQueues
  <2>1. b \in Blocks(c) \/ (c = r /\ b = new)  BY <1>4, AppendedBlocks
  <2>2. CASE b \in Blocks(c)
    <3>1. handle[b.id] = c /\ b.id \in Calls  BY <1>7, <2>2, BlockFacts DEF ClaimsInQueues, Block
    <3>2. b.id # t  BY <1>5, <2>2, <3>1, BlockFacts
    <3> QED  BY <1>8, <3>1, <3>2
  <2> QED  BY <1>4, <1>8, <2>1, <2>2
<1> QED  BY <1>11, <1>12, <1>13 DEF Claims

\* A reader is given back.
LEMMA ClaimReleased ==
  ASSUME Shape, Numbered, Queued, Spans, Claims, closer' = closer, NEW r \in Readers, NEW t \in Calls,
         closer = None => handle[t] = r, tx' = tx, tx[t] # "body", tx[t] = "begin" => call'[t].res # "ok",
         handle' = [handle EXCEPT ![t] = None], free' = free \cup {r},
         \A q \in Readers : span'[q] = span[q] \/ span'[q] = None, span'[r] # t,
         \A q \in Readers : q # r => span'[q] = span[q],
         \A u \in Calls : u # t => call'[u] = call[u],
         \A c \in Conns : \A b \in Blocks(c)' : b \in Blocks(c) /\ b \in Block /\ (b.id # None => b.id # t)
  PROVE  Claims'
<1> USE Sets
<1> SUFFICES ASSUME closer' = None PROVE Claimed' /\ Begun' /\ ClaimsInQueues'  BY DEF Claims
<1>1. Claimed /\ Begun /\ ClaimsInQueues /\ handle[t] = r  BY DEF Claims
<1>2. \A u \in Calls : handle'[u] = IF u = t THEN None ELSE handle[u]  BY DEF Shape
<1>3. \A u \in Calls : u # t => handle[u] # r  BY <1>1 DEF Claimed
<1>4. Claimed'
  <2>1. \A u \in Calls : handle'[u] # None => handle'[u] \notin free' /\ call'[u].kind = "tx"
    BY <1>1, <1>2, <1>3 DEF Claimed
  <2>2. \A u, v \in Calls : handle'[u] = handle'[v] /\ handle'[u] # None => u = v
    <3> SUFFICES ASSUME NEW u \in Calls, NEW v \in Calls, handle'[u] = handle'[v], handle'[u] # None PROVE u = v
      OBVIOUS
    <3>1. handle[u] = handle[v] /\ handle[u] # None  BY <1>2
    <3> QED  BY <1>1, <3>1 DEF Claimed
  <2>3. \A q \in Readers : q \notin free' => \E u \in Calls : handle'[u] = q
    <3> SUFFICES ASSUME NEW q \in Readers, q \notin free' PROVE \E u \in Calls : handle'[u] = q  OBVIOUS
    <3>1. PICK u \in Calls : handle[u] = q  BY <1>1 DEF Claimed
    <3>2. u # t  BY <1>1, <3>1
    <3> QED  BY <1>2, <3>1, <3>2
  <2>4. \A q \in Readers : span'[q] # None => handle'[span'[q]] = q
    <3> SUFFICES ASSUME NEW q \in Readers, span'[q] # None PROVE handle'[span'[q]] = q  OBVIOUS
    <3>1. span'[q] = span[q] /\ span[q] \in Calls /\ handle[span[q]] = q  BY <1>1 DEF Claimed, Shape
    <3>2. span[q] # t  BY <1>1, <3>1
    <3> QED  BY <1>2, <3>1, <3>2
  <2> QED  BY <2>1, <2>2, <2>3, <2>4 DEF Claimed
<1>5. Begun'
  <2> SUFFICES ASSUME NEW u \in Calls, tx'[u] = "body" \/ (tx'[u] = "begin" /\ call'[u].res = "ok")
               PROVE  handle'[u] # None /\ span'[handle'[u]] = u
    BY DEF Begun
  <2>1. u # t /\ (tx[u] = "body" \/ (tx[u] = "begin" /\ call[u].res = "ok"))  OBVIOUS
  <2>2. handle[u] # None /\ span[handle[u]] = u /\ handle'[u] = handle[u] /\ handle[u] \in Readers /\ handle[u] # r
    BY <1>1, <1>2, <1>3, <2>1 DEF Begun, Shape
  <2> QED  BY <2>2
<1>6. ClaimsInQueues'
  <2> SUFFICES ASSUME NEW c \in Conns, NEW b \in Blocks(c)', b.op \in {"begin", "end"} PROVE handle'[b.id] = c
    BY DEF ClaimsInQueues
  <2>1. b \in Blocks(c) /\ b.id \in Calls /\ b.id # t  BY DEF Block
  <2> QED  BY <1>1, <1>2, <2>1 DEF ClaimsInQueues
<1> QED  BY <1>4, <1>5, <1>6

\* A reader is claimed when free, and free when its transaction ends or could not begin.
LEMMA ClaimsStep ==
  ASSUME Shape, Numbered, Queued, Opening, Spans, Claims, [Next]_vars
  PROVE  Claims'
<1> USE Sets
<1>1. ASSUME NEW rec, JsStep(rec) PROVE Claims'
  <2>1. CASE ClaimsOne(rec)  BY <1>1, <2>1, ClaimsAdded
  <2>2. CASE Closes(rec)
    <3>1. closer' # None  BY <1>1, <2>2 DEF Closes, JsStep, Adds
    <3> QED  BY <3>1 DEF Claims
  <2>3. CASE ClaimsNone(rec)
    <3>1. /\ This \in Calls /\ call' = [call EXCEPT ![This] = rec] /\ UNCHANGED <<free, handle, span, closer>>
      BY <1>1, <2>3 DEF JsStep, Adds, ClaimsNone, Tells, Waits, Queues, dataVars
    <3>2. call[This].kind = "none"
      <4>1. made \in 0..MaxCalls /\ This > made  BY ReadersAssumption DEF Shape, This
      <4> QED  BY <3>1, <4>1 DEF Numbered, NoCall
    <3>3. \A u \in Calls : u # This => call'[u] = call[u] /\ tx'[u] = tx[u]  BY <1>1, <3>1 DEF JsStep, Shape
    <3>4. tx'[This] = "none" \/ (tx'[This] = "begin" /\ call'[This].res # "ok")
      <4>1. tx[This] = "none" /\ call'[This] = rec  BY <3>1, <3>2 DEF Numbered, Shape
      <4>2. CASE rec.kind = "tx"
        <5>1. tx'[This] = "begin" /\ rec.res # "ok"  BY <1>1, <3>1, <4>2 DEF JsStep, Shape
        <5> QED  BY <4>1, <5>1
      <4> QED  BY <1>1, <4>1, <4>2 DEF JsStep
    <3>5. ASSUME NEW c \in Conns, NEW b \in Blocks(c)', b.op \in {"begin", "end"} PROVE b \in Blocks(c)
      <4>1. CASE UNCHANGED queue  BY <3>5, <4>1 DEF Blocks, At
      <4>2. ASSUME NEW d \in Conns, NEW op \in {"write", "read", "prepare", "finalize"}, Queues(rec, d, op)
            PROVE  b \in Blocks(c)
        <5>1. PICK new : new = [op |-> op, id |-> This]  OBVIOUS
        <5>2. new \in Block /\ new.op = op /\ queue' = [queue EXCEPT ![d] = Append(@, new)]
          BY <4>2, <5>1 DEF Queues
        <5> QED  BY <3>5, <5>2, AppendedBlocks
      <4>3. rec.of # None /\ handle[rec.of] # None => handle[rec.of] \in Conns  BY <1>1 DEF JsStep, Shape
      <4> QED  BY <2>3, <4>1, <4>2, <4>3 DEF ClaimsNone, Tells, Waits
    <3> QED  BY <3>1, <3>2, <3>3, <3>4, <3>5, ClaimsKept
  <2> QED  BY <1>1, <2>1, <2>2, <2>3 DEF JsStep
<1>2. ASSUME NEW c \in Conns, RunBlock(c), ~RunOpen(c), ~RunClose(c) PROVE Claims'
  <2>1. PICK found : RunStep(c, found)  BY <1>2, RunSteps
  <2>2. Effect(c, found)  BY <1>2, <2>1, Effects
  <2>3. PICK k \in Calls : k = Id(c, 1)  BY <2>1 DEF RunStep
  <2>4. /\ queue[c] # <<>> /\ queue' = [queue EXCEPT ![c] = Tail(@)] /\ call' = [call EXCEPT ![k] = found]
        /\ found.kind = call[k].kind /\ UNCHANGED <<tx, closer>> /\ Op(c, 1) \notin {"open", "close"}
    BY <2>1, <2>3 DEF RunStep, openVars
  <2>5. /\ queue[c][1] \in Blocks(c) /\ queue[c][1].id = k /\ queue[c][1].op = Op(c, 1) /\ k # None
        /\ queue[c][1] \in Block
    BY <2>3, <2>4, HeadBlock DEF Id, Op
  <2>6. /\ call[k].kind = KindOf(Op(c, 1)) /\ (Op(c, 1) # "end" => call[k].res = "none")
        /\ Op(c, 1) \in {"write", "read", "begin", "end", "prepare", "finalize"}
        /\ Op(c, 1) = "begin" => tx[k] = "begin"
        /\ Op(c, 1) = "end" => tx[k] = "ending"
    BY <2>4, <2>5, BlockFacts DEF Placed, Block
  <2>7. \A d \in Conns : \A b \in Blocks(d)' : b \in Blocks(d) /\ b \in Block /\ (b.id # None => b.id # k)
    BY <2>3, <2>4, DroppedBlocks DEF Queued
  <2>8. call'[k] = found /\ \A u \in Calls : u # k => call'[u] = call[u]  BY <2>4 DEF Shape
  <2>9. closer = None /\ Op(c, 1) \in {"begin", "end"} => handle[k] = c  BY <2>5 DEF Claims, ClaimsInQueues
  <2>10. CASE Op(c, 1) \in {"write", "read", "prepare", "finalize"}
    <3>1. UNCHANGED <<free, handle, span>>  BY <2>2, <2>10 DEF Effect
    <3>2. call[k].kind # "tx" /\ tx[k] = "none"  BY <2>6, <2>10 DEF KindOf, Numbered
    <3> QED  BY <2>4, <2>7, <2>8, <3>1, <3>2, ClaimsKept
  <2>11. CASE Op(c, 1) = "begin" /\ found.res = "ok"
    <3>1. /\ c \in Readers /\ span[c] = None /\ span' = [span EXCEPT ![c] = k] /\ UNCHANGED <<free, handle>>
      BY <2>2, <2>3, <2>11 DEF Effect
    <3> SUFFICES ASSUME closer' = None PROVE Claimed' /\ Begun' /\ ClaimsInQueues'  BY DEF Claims
    <3>2. Claimed /\ Begun /\ ClaimsInQueues /\ handle[k] = c  BY <2>4, <2>9, <2>11 DEF Claims
    <3>3. \A r \in Readers : span'[r] = IF r = c THEN k ELSE span[r]  BY <3>1 DEF Shape
    <3>4. Claimed'
      <4>1. \A t \in Calls : handle'[t] # None => handle'[t] \notin free' /\ call'[t].kind = "tx"
        BY <2>4, <2>8, <3>1, <3>2 DEF Claimed
      <4>2. \A r \in Readers : span'[r] # None => handle'[span'[r]] = r
        BY <3>1, <3>2, <3>3 DEF Claimed
      <4> QED  BY <3>1, <3>2, <4>1, <4>2 DEF Claimed
    <3>5. Begun'
      <4> SUFFICES ASSUME NEW u \in Calls, tx'[u] = "body" \/ (tx'[u] = "begin" /\ call'[u].res = "ok")
                   PROVE  handle'[u] # None /\ span'[handle'[u]] = u
        BY DEF Begun
      <4>1. CASE u = k  BY <3>1, <3>2, <3>3, <4>1
      <4>2. CASE u # k
        <5>1. handle[u] # None /\ span[handle[u]] = u /\ handle[u] \in Readers /\ u # None
          BY <2>4, <2>8, <3>2, <4>2 DEF Begun, Shape
        <5>2. handle[u] # c  BY <3>1, <5>1
        <5> QED  BY <3>1, <3>3, <5>1, <5>2
      <4> QED  BY <4>1, <4>2
    <3>6. ClaimsInQueues'  BY <2>7, <3>1, <3>2 DEF ClaimsInQueues
    <3> QED  BY <3>4, <3>5, <3>6
  <2>12. CASE Op(c, 1) = "begin" /\ found.res # "ok"
    <3>1. /\ c \in Readers /\ UNCHANGED span /\ found.res = "error"
          /\ handle' = [handle EXCEPT ![k] = None] /\ free' = free \cup {c}
      BY <2>2, <2>3, <2>12 DEF Effect
    <3>2. span[c] # k  BY <2>5, <2>6, <2>12, <3>1 DEF Spans
    <3> QED  BY <2>4, <2>6, <2>7, <2>8, <2>9, <2>12, <3>1, <3>2, ClaimReleased
  <2>13. CASE Op(c, 1) = "end"
    <3>1. /\ c \in Readers /\ span' = [span EXCEPT ![c] = None]
          /\ handle' = [handle EXCEPT ![k] = None] /\ free' = free \cup {c}
      BY <2>2, <2>3, <2>13 DEF Effect
    <3>2. \A r \in Readers : span'[r] = IF r = c THEN None ELSE span[r]  BY <3>1 DEF Shape
    <3>3. span'[c] # k /\ \A q \in Readers : span'[q] = span[q] \/ span'[q] = None  BY <2>5, <3>1, <3>2
    <3>4. \A q \in Readers : q # c => span'[q] = span[q]  BY <3>2
    <3>5. tx[k] # "body" /\ tx[k] # "begin" /\ (closer = None => handle[k] = c)  BY <2>6, <2>9, <2>13
    <3> QED  BY <2>4, <2>7, <2>8, <3>1, <3>3, <3>4, <3>5, ClaimReleased
  <2> QED  BY <2>6, <2>10, <2>11, <2>12, <2>13
<1>3. ASSUME NEW c \in Conns, RunOpen(c) PROVE Claims'
  <2>1. /\ queue[c] # <<>> /\ queue' = [queue EXCEPT ![c] = Tail(@)] /\ UNCHANGED <<free, handle, span, closer, tx>>
    BY <1>3 DEF RunOpen, Runs, Popped, poolVars, dataVars
  <2>2. \A d \in Conns : \A b \in Blocks(d)' : b \in Blocks(d)  BY <2>1, DroppedBlocks DEF Queued
  <2>3. \A t \in Calls : call[t].kind = "tx" => call'[t] = call[t]  BY <1>3, OpenAnswers
  <2>4. \A t \in Calls : tx[t] # "none" => call'[t] = call[t]  BY <2>3 DEF Numbered
  <2> QED  BY <2>1, <2>2, <2>3, <2>4, ClaimsKept
<1>4. ASSUME NEW c \in Conns, RunClose(c) PROVE Claims'
  <2>1. closer' # None  BY <1>4, CloseTells DEF RunClose
  <2> QED  BY <2>1 DEF Claims
<1>5. CASE Deliver
  <2>1. UNCHANGED <<queue, free, handle, span, closer>> /\ Head(main) \in Calls
    BY <1>5, MainQueue DEF Deliver, openVars, poolVars, dataVars
  <2>2. \A t \in Calls : call'[t].kind = call[t].kind /\ call'[t].res = call[t].res  BY <1>5, DeliverAnswers
  <2>3. \A t \in Calls : \/ tx'[t] = tx[t]
                         \/ tx'[t] = "body" /\ tx[t] = "begin" /\ call[t].res = "ok"
                         \/ tx'[t] = "over"
    BY <1>5, <2>1 DEF Deliver, Shape
  <2>4. \A c \in Conns : Blocks(c)' = Blocks(c)  BY <2>1 DEF Blocks, At
  <2> QED  BY <2>1, <2>2, <2>3, <2>4, ClaimsKept
<1>6. ASSUME NEW t \in Calls, EndRead(t) PROVE Claims'
  <2>1. /\ tx[t] = "body" /\ UNCHANGED <<call, closer, free, handle, span>>
        /\ \A k \in Calls : tx'[k] = IF k = t THEN "ending" ELSE tx[k]
    BY <1>6 DEF EndRead, openVars, poolVars, dataVars, Shape
  <2> SUFFICES ASSUME closer' = None PROVE Claimed' /\ Begun' /\ ClaimsInQueues'  BY DEF Claims
  <2>2. Claimed /\ Begun /\ ClaimsInQueues  BY <2>1 DEF Claims
  <2>3. Claimed'  BY <2>1, <2>2 DEF Claimed
  <2>4. Begun'  BY <2>1, <2>2 DEF Begun
  <2>5. PICK r \in Readers : r = handle[t]  BY <2>1, <2>2 DEF Begun, Shape
  <2>6. PICK new : new = [op |-> "end", id |-> t]  OBVIOUS
  <2>7. new \in Block /\ new.id = t /\ r \in Conns /\ queue' = [queue EXCEPT ![r] = Append(@, new)]
    BY <1>6, <2>5, <2>6 DEF EndRead, Sent, Block
  <2>8. ClaimsInQueues'
    <3> SUFFICES ASSUME NEW c \in Conns, NEW b \in Blocks(c)', b.op \in {"begin", "end"} PROVE handle'[b.id] = c
      BY DEF ClaimsInQueues
    <3>1. b \in Blocks(c) \/ (c = r /\ b = new)  BY <2>7, AppendedBlocks
    <3> QED  BY <2>1, <2>2, <2>5, <2>7, <3>1 DEF ClaimsInQueues
  <2> QED  BY <2>3, <2>4, <2>8
<1>7. CASE OpenAsync \/ OpenSync
  <2>1. UNCHANGED <<call, tx, closer, free, handle, span>>
    BY <1>7 DEF OpenAsync, OpenSync, poolVars, dataVars, jsVars
  <2>2. phase = "none"  BY <1>7 DEF OpenAsync, OpenSync
  <2>3. \A c \in Conns : queue'[c] \in {<<>>, <<[op |-> "open", id |-> None]>>}
    BY <1>7, <2>2 DEF OpenAsync, OpenSync, ReaderOpens, Opening, Untouched
  <2>4. \A c \in Conns : \A b \in Blocks(c)' : b.op = "open"
    <3> SUFFICES ASSUME NEW c \in Conns, NEW i \in At(c)' PROVE queue'[c][i].op = "open"  BY DEF Blocks
    <3>1. queue'[c] # <<>>  BY DEF At
    <3>2. queue'[c] = <<[op |-> "open", id |-> None]>>  BY <2>3, <3>1
    <3> QED  BY <3>2 DEF At
  <2> QED  BY <2>1, <2>4, ClaimsKept
<1>8. CASE UNCHANGED vars
  <2>1. UNCHANGED <<queue, call, tx, closer, free, handle, span>>
    BY <1>8 DEF vars, openVars, poolVars, dataVars, jsVars
  <2>2. \A c \in Conns : Blocks(c)' = Blocks(c)  BY <2>1 DEF Blocks, At
  <2> QED  BY <2>1, <2>2, ClaimsKept
<1>9. CASE JsCalls  BY <1>1, <1>6, <1>7, <1>9, JsSteps
<1> QED  BY <1>2, <1>3, <1>4, <1>5, <1>8, <1>9 DEF Next

-----------------------------------------------------------------------------
(* The reads of transactions that wait, and what they find.                *)

\* The block at a place was at that one or at the next, and those before it before that.
Stays(c, i, was) ==
  /\ was \in At(c) /\ was \in {i, i + 1} /\ queue'[c][i] = queue[c][was]
  /\ \A j \in 1..(i - 1) : \E e \in 1..(was - 1) : queue'[c][j] = queue[c][e]

\* Those before this place are the ones that were there.
Joins(c, i) == \A j \in 1..(i - 1) : j \in At(c) /\ queue'[c][j] = queue[c][j]

\* A block with the same blocks before it.
LEMMA StaysPut ==
  ASSUME NEW c, NEW i \in Nat \ {0}, i \in At(c), \A j \in 1..i : queue'[c][j] = queue[c][j]
  PROVE  Stays(c, i, i)
<1>1. i \in 1..i /\ \A j \in 1..(i - 1) : j \in 1..i  OBVIOUS
<1>2. queue'[c][i] = queue[c][i]  BY <1>1
<1>3. \A j \in 1..(i - 1) : queue'[c][j] = queue[c][j]  BY <1>1
<1>4. \A j \in 1..(i - 1) : \E e \in 1..(i - 1) : queue'[c][j] = queue[c][e]  BY <1>3
<1> QED  BY <1>2, <1>4 DEF Stays

\* What is before a block, when one is appended,
LEMMA AppendedPrefix ==
  ASSUME Shape, NEW c \in Conns, NEW b \in Block, queue' = [queue EXCEPT ![c] = Append(@, b)],
         NEW d \in Conns, NEW i \in At(d)'
  PROVE  \/ Stays(d, i, i)
         \/ d = c /\ queue'[d][i] = b /\ Joins(d, i)
<1>1. \/ i \in At(d) /\ \A j \in 1..i : queue'[d][j] = queue[d][j]
      \/ d = c /\ queue'[d][i] = b /\ Joins(d, i)
  BY DEF Shape, At, Joins
<1>2. i \in Nat \ {0}  BY DEF Shape, At
<1> QED  BY <1>1, <1>2, StaysPut

\* when close() appends one to every queue,
LEMMA ClosedPrefix ==
  ASSUME Shape, NEW b \in Block, queue' = [c \in Conns |-> Append(queue[c], b)],
         NEW d \in Conns, NEW i \in At(d)'
  PROVE  Stays(d, i, i) \/ queue'[d][i] = b
<1>1. (i \in At(d) /\ \A j \in 1..i : queue'[d][j] = queue[d][j]) \/ queue'[d][i] = b
  BY DEF Shape, At
<1>2. i \in Nat \ {0}  BY DEF Shape, At
<1> QED  BY <1>1, <1>2, StaysPut

\* and when one has run.
LEMMA DroppedPrefix ==
  ASSUME Shape, NEW c \in Conns, queue[c] # <<>>, queue' = [queue EXCEPT ![c] = Tail(@)],
         NEW d \in Conns, NEW i \in At(d)'
  PROVE  /\ d # c => Stays(d, i, i)
         /\ d = c => Stays(d, i, i + 1)
<1>1. /\ d # c => i \in At(d) /\ \A j \in 1..i : queue'[d][j] = queue[d][j]
      /\ d = c => i + 1 \in At(d) /\ \A j \in 1..i : queue'[d][j] = queue[d][j + 1]
  BY DEF Shape, At
<1>2. i \in Nat \ {0}  BY DEF Shape, At
<1>3. CASE d = c
  <2>1. i \in 1..i /\ \A j \in 1..(i - 1) : j \in 1..i /\ j + 1 \in 1..((i + 1) - 1)  BY <1>2
  <2>2. queue'[d][i] = queue[d][i + 1]  BY <1>1, <1>3, <2>1
  <2>3. \A j \in 1..(i - 1) : queue'[d][j] = queue[d][j + 1]  BY <1>1, <1>3, <2>1
  <2>4. \A j \in 1..(i - 1) : \E e \in 1..((i + 1) - 1) : queue'[d][j] = queue[d][e]  BY <2>1, <2>3
  <2> QED  BY <1>1, <1>3, <2>2, <2>4 DEF Stays
<1>4. CASE d # c  BY <1>1, <1>2, <1>4, StaysPut
<1> QED  BY <1>3, <1>4

\* A read that stays was where it belongs,
LEMMA ReadWas ==
  ASSUME Shape, Numbered, Queued, Opening, Reads, [Next]_vars, NEW c \in Conns, NEW i, NEW was, Stays(c, i, was),
         InTransaction(c, i)'
  PROVE  /\ Id(c, i)' = Id(c, was) /\ Id(c, was) \in Calls
         /\ call'[Id(c, was)].of = call[Id(c, was)].of /\ call'[Id(c, was)].late = call[Id(c, was)].late
         /\ InItsTransaction(c, was)
<1> USE Sets
<1>1. PICK k : k = Id(c, was)  OBVIOUS
<1>2. was \in At(c) /\ queue'[c][i] = queue[c][was] /\ queue[c][was] \in Blocks(c)  BY DEF Stays, Blocks
<1>3. /\ Id(c, i)' = k /\ Op(c, was) = "read" /\ k \in Calls /\ call[k].kind = "read"
  <2>1. Id(c, i)' = k /\ Op(c, was) = "read" /\ queue[c][was].id = k
    BY <1>1, <1>2 DEF InTransaction, Op, Id
  <2>2. queue[c][was].op = "read" /\ queue[c][was] \in Block  BY <1>2, <2>1, BlockFacts DEF Op
  <2>3. k \in Calls /\ k # None  BY <2>1, <2>2 DEF Block
  <2> QED  BY <1>2, <2>1, <2>2, <2>3, BlockFacts DEF KindOf
<1>4. call'[k].of = call[k].of /\ call'[k].late = call[k].late  BY <1>3, CallsKept
<1>5. InTransaction(c, was)  BY <1>1, <1>3, <1>4 DEF InTransaction
<1>6. InItsTransaction(c, was)  BY <1>2, <1>5 DEF Reads
<1> QED  BY <1>1, <1>3, <1>4, <1>6

\* and is, if the transaction on its reader is the same or has ended without it.
LEMMA ReadStays ==
  ASSUME Shape, Numbered, Queued, Opening, Reads, [Next]_vars, NEW c \in Conns, NEW i, NEW was, Stays(c, i, was),
         InTransaction(c, i)',
         (c # Writer => span'[c] = span[c]) \/ (span'[c] = None /\ call[Id(c, was)].late)
  PROVE  InItsTransaction(c, i)'
<1> USE Sets
<1>1. PICK k : k = Id(c, was)  OBVIOUS
<1>2. /\ Id(c, i)' = Id(c, was) /\ Id(c, was) \in Calls
      /\ call'[Id(c, was)].of = call[Id(c, was)].of /\ call'[Id(c, was)].late = call[Id(c, was)].late
      /\ InItsTransaction(c, was)
  BY ReadWas
<1>3. Id(c, i)' = k /\ k \in Calls /\ call'[k].of = call[k].of /\ call'[k].late = call[k].late
  BY <1>1, <1>2
<1>4. /\ c # Writer /\ span[c] \in {None, call[k].of}
      /\ \A j \in 1..(was - 1) : Op(c, j) # "begin"
      /\ ~call[k].late => span[c] = call[k].of /\ \A j \in 1..(was - 1) : Op(c, j) \notin {"end", "close"}
  BY <1>1, <1>2 DEF InItsTransaction
<1>5. \A j \in 1..(i - 1) : \E e \in 1..(was - 1) : Op(c, j)' = Op(c, e)
  BY DEF Stays, Op
<1>6. (call[k].late /\ span'[c] = None) \/ span'[c] = span[c]  BY <1>1, <1>4
<1>7. \A j \in 1..(i - 1) : Op(c, j)' # "begin"  BY <1>4, <1>5
<1>8. ~call[k].late => \A j \in 1..(i - 1) : Op(c, j)' \notin {"end", "close"}  BY <1>4, <1>5
<1>9. span'[c] \in {None, call[k].of} /\ (~call[k].late => span'[c] = call[k].of)  BY <1>4, <1>6
<1> QED  BY <1>3, <1>4, <1>7, <1>8, <1>9 DEF InItsTransaction

\* The read of a transaction as it is made.
LEMMA ReadAdded ==
  ASSUME Shape, Numbered, Queued, Opening, Spans, Claims, NEW rec, JsStep(rec), NEW c, NEW i \in At(c)',
         rec.of # None, handle[rec.of] # None, c = handle[rec.of], Id(c, i)' = This, span'[c] = span[c],
         Joins(c, i)
  PROVE  InItsTransaction(c, i)'
<1> USE Sets
<1>1. /\ rec.of \in Calls /\ tx[rec.of] \in {"body", "ending", "over"} /\ (rec.late <=> tx[rec.of] # "body")
      /\ call'[This] = rec /\ c \in Readers /\ c \in Conns
  BY DEF JsStep, Adds, Shape
<1>2. PICK t \in Calls : t = rec.of  BY <1>1
<1>3. closer = None  BY <1>1 DEF Numbered, Shape
<1>4. Claimed /\ Begun /\ ClaimsInQueues  BY <1>3 DEF Claims
<1>5. span[c] # None => span[c] = t
  <2>1. span[c] # None => span[c] \in Calls /\ handle[span[c]] = c  BY <1>1, <1>4 DEF Claimed, Shape
  <2> QED  BY <1>2, <1>4, <2>1 DEF Claimed
<1>6. ASSUME NEW j \in 1..(i - 1)
      PROVE  /\ Op(c, j)' \notin {"begin", "close"}
             /\ Op(c, j)' = "end" => tx[t] = "ending"
  <2>1. PICK b : b = queue[c][j]  OBVIOUS
  <2>2. b \in Blocks(c) /\ Op(c, j)' = b.op  BY <1>6, <2>1 DEF Joins, Blocks, Op
  <2>3. Placed(c, b) /\ b \in Block  BY <1>1, <2>2, BlockFacts
  <2>4. b.op \in {"begin", "end"} => b.id = t
    <3>1. b.op \in {"begin", "end"} => b.id \in Calls /\ handle[b.id] = handle[t] /\ handle[t] # None
      BY <1>1, <1>2, <1>4, <2>2, <2>3 DEF ClaimsInQueues, Block
    <3> QED  BY <1>4, <3>1 DEF Claimed
  <2> QED  BY <1>1, <1>2, <1>3, <2>2, <2>3, <2>4 DEF Placed
<1>7. ~rec.late => tx[t] = "body" /\ span[c] = t  BY <1>1, <1>2, <1>4 DEF Begun
<1> QED  BY <1>1, <1>2, <1>5, <1>6, <1>7 DEF InItsTransaction

\* The reads that wait are in their transaction, or after it.
LEMMA ReadsStep ==
  ASSUME Shape, Numbered, Queued, Opening, Spans, Claims, Reads, [Next]_vars
  PROVE  Reads'
<1> USE Sets
<1> SUFFICES ASSUME NEW d \in Conns, NEW i \in At(d)', InTransaction(d, i)'
             PROVE  InItsTransaction(d, i)'
  BY DEF Reads
<1>0. i \in Nat \ {0}
  <2>1. queue'[d] \in Seq(Block)  BY ShapeStep DEF Shape
  <2> QED  BY <2>1 DEF At
\* The read was there, and nothing has run before it.
<1>1. ASSUME Stays(d, i, i), span' = span PROVE InItsTransaction(d, i)'
  BY <1>1, ReadStays
<1>2. CASE UNCHANGED <<queue, span>>
  <2>1. Stays(d, i, i)  BY <1>0, <1>2 DEF Stays, At
  <2> QED  BY <1>1, <1>2, <2>1
<1>3. ASSUME NEW rec, JsStep(rec) PROVE InItsTransaction(d, i)'
  <2>1. span' = span /\ This \in Calls /\ call' = [call EXCEPT ![This] = rec] /\ call'[This] = rec
    BY <1>3 DEF JsStep, Adds, dataVars, Shape
  <2>2. ASSUME NEW c \in Conns, NEW op, Queues(rec, c, op),
               op = "read" /\ rec.of # None => handle[rec.of] # None /\ c = handle[rec.of]
        PROVE  InItsTransaction(d, i)'
    <3>1. PICK b : b = [op |-> op, id |-> This]  OBVIOUS
    <3>2. b \in Block /\ b.op = op /\ b.id = This /\ queue' = [queue EXCEPT ![c] = Append(@, b)]
      BY <2>2, <3>1 DEF Queues
    <3>3. \/ Stays(d, i, i)
          \/ d = c /\ queue'[d][i] = b /\ Joins(d, i)
      BY <3>2, AppendedPrefix
    <3>4. CASE d = c /\ queue'[d][i] = b /\ Joins(d, i)
      <4>1. Id(d, i)' = This /\ op = "read" /\ rec.of # None  BY <2>1, <3>2, <3>4 DEF InTransaction, Id, Op
      <4> QED  BY <1>3, <2>1, <2>2, <3>4, <4>1, ReadAdded
    <3> QED  BY <1>1, <2>1, <3>3, <3>4
  <2>3. CASE Closes(rec)
    <3>1. PICK b : b = [op |-> "close", id |-> None]  OBVIOUS
    <3>2. b \in Block /\ b.op # "read" /\ queue' = [c \in Conns |-> Append(queue[c], b)]  BY <2>3, <3>1 DEF Closes, Block
    <3>3. queue'[d][i] # b  BY <3>2 DEF InTransaction, Op
    <3> QED  BY <1>1, <2>1, <3>2, <3>3, ClosedPrefix
  <2>4. CASE ClaimsOne(rec)
    <3>1. \A r \in free : r \in Conns  BY DEF Shape
    <3> QED  BY <2>2, <2>4, <3>1 DEF ClaimsOne
  <2>5. CASE ClaimsNone(rec)
    <3>1. Tells(rec) \/ Waits(rec) => UNCHANGED <<queue, span>>  BY <2>1 DEF Tells, Waits
    <3>2. rec.of # None /\ handle[rec.of] # None => handle[rec.of] \in Conns  BY <1>3 DEF JsStep, Shape
    <3> QED  BY <1>2, <2>2, <2>5, <3>1, <3>2 DEF ClaimsNone
  <2> QED  BY <1>3, <2>3, <2>4, <2>5 DEF JsStep
\* Another connection's block has run.
<1>4. ASSUME NEW c \in Conns, queue[c] # <<>>, queue' = [queue EXCEPT ![c] = Tail(@)], d # c, d # Writer => span'[d] = span[d]
      PROVE  InItsTransaction(d, i)'
  <2>1. Stays(d, i, i)  BY <1>4, DroppedPrefix
  <2> QED  BY <1>4, <2>1, ReadStays
\* The first block of its own has.
<1>5. ASSUME queue[d] # <<>>, queue' = [queue EXCEPT ![d] = Tail(@)],
             \/ d # Writer => span'[d] = span[d]
             \/ span'[d] = None /\ Op(d, 1) \in {"end", "close"}
             \/ Op(d, 1) = "begin"
      PROVE  InItsTransaction(d, i)'
  <2>1. PICK was : was = i + 1  OBVIOUS
  <2>2. Stays(d, i, i + 1)  BY <1>5, DroppedPrefix
  <2>3. Stays(d, i, was) /\ 1 \in 1..(was - 1)  BY <1>0, <2>1, <2>2
  <2>4. InItsTransaction(d, was)  BY <2>3, ReadWas
  <2>5. Op(d, 1) # "begin" /\ (Op(d, 1) \in {"end", "close"} => call[Id(d, was)].late)
    BY <2>3, <2>4 DEF InItsTransaction
  <2> QED  BY <1>5, <2>3, <2>5, ReadStays
<1>6. ASSUME NEW c \in Conns, RunBlock(c), ~RunOpen(c), ~RunClose(c) PROVE InItsTransaction(d, i)'
  <2>1. PICK found : RunStep(c, found)  BY <1>6, RunSteps
  <2>2. Effect(c, found)  BY <1>6, <2>1, Effects
  <2>3. /\ queue[c] # <<>> /\ queue' = [queue EXCEPT ![c] = Tail(@)] /\ Op(c, 1) \notin {"open", "close"}
        /\ queue[c][1] \in Block
    BY <2>1, HeadBlock DEF RunStep
  <2>4. Op(c, 1) \in {"write", "read", "begin", "end", "prepare", "finalize"}  BY <2>3 DEF Block, Op
  <2>5. \/ Op(c, 1) = "begin" /\ (d # c /\ d # Writer => span'[d] = span[d])
        \/ span' = span
        \/ Op(c, 1) = "end" /\ c \in Readers /\ span' = [span EXCEPT ![c] = None]
    BY <2>2, <2>4 DEF Effect, Shape
  <2>6. d # c /\ d # Writer => span'[d] = span[d]  BY <2>5 DEF Shape
  <2>7. CASE d # c  BY <1>4, <2>3, <2>6, <2>7
  <2>8. CASE d = c
    <3>1. \/ d # Writer => span'[d] = span[d]
          \/ span'[d] = None /\ Op(d, 1) \in {"end", "close"}
          \/ Op(d, 1) = "begin"
      BY <2>5, <2>8 DEF Shape
    <3> QED  BY <1>5, <2>3, <2>8, <3>1
  <2> QED  BY <2>7, <2>8
<1>7. ASSUME NEW c \in Conns, RunOpen(c) PROVE InItsTransaction(d, i)'
  <2>1. queue[c] # <<>> /\ queue' = [queue EXCEPT ![c] = Tail(@)] /\ span' = span
    BY <1>7 DEF RunOpen, Runs, Popped, dataVars
  <2> QED  BY <1>4, <1>5, <2>1
<1>8. ASSUME NEW c \in Conns, RunClose(c) PROVE InItsTransaction(d, i)'
  <2>1. queue[c] # <<>> /\ queue' = [queue EXCEPT ![c] = Tail(@)] /\ Op(c, 1) = "close"
    BY <1>8, HeadBlock DEF RunClose, Runs, Popped, Op
  <2>2. (c = Writer /\ span' = span) \/ (c \in Readers /\ span' = [span EXCEPT ![c] = None])
    BY <1>8 DEF RunClose
  <2>3. CASE d # c
    <3>1. d # Writer => span'[d] = span[d]  BY <2>2, <2>3 DEF Shape
    <3> QED  BY <1>4, <2>1, <2>3, <3>1
  <2>4. CASE d = c
    <3>1. (d # Writer => span'[d] = span[d]) \/ span'[d] = None  BY <2>2, <2>4 DEF Shape
    <3> QED  BY <1>5, <2>1, <2>4, <3>1
  <2> QED  BY <2>3, <2>4
<1>9. ASSUME NEW t \in Calls, EndRead(t) PROVE InItsTransaction(d, i)'
  <2>1. span' = span  BY <1>9 DEF EndRead, dataVars
  <2>2. CASE handle[t] = None
    <3>1. UNCHANGED queue  BY <1>9, <2>2 DEF EndRead
    <3> QED  BY <1>2, <2>1, <3>1
  <2>3. CASE handle[t] # None
    <3>1. PICK b : b = [op |-> "end", id |-> t]  OBVIOUS
    <3>2. PICK c \in Conns : c = handle[t]  BY <2>3 DEF Shape
    <3>3. b \in Block /\ b.op # "read" /\ queue' = [queue EXCEPT ![c] = Append(@, b)]
      BY <1>9, <2>3, <3>1, <3>2 DEF EndRead, Sent, Block
    <3>4. queue'[d][i] # b  BY <3>3 DEF InTransaction, Op
    <3> QED  BY <1>1, <2>1, <3>3, <3>4, AppendedPrefix
  <2> QED  BY <2>2, <2>3
<1>10. CASE OpenAsync \/ OpenSync
  <2>1. phase = "none"  BY <1>10 DEF OpenAsync, OpenSync
  <2>2. queue'[d] \in {<<>>, <<[op |-> "open", id |-> None]>>}
    BY <1>10, <2>1 DEF OpenAsync, OpenSync, ReaderOpens, Opening, Untouched
  <2>3. queue'[d] # <<>>  BY DEF At
  <2>4. queue'[d] = <<[op |-> "open", id |-> None]>>  BY <2>2, <2>3
  <2> QED  BY <2>4 DEF At, Op, InTransaction
<1>11. Deliver \/ UNCHANGED vars => UNCHANGED <<queue, span>>  BY DEF Deliver, vars, dataVars
<1>12. CASE JsCalls  BY <1>3, <1>9, <1>10, <1>12, JsSteps
<1> QED  BY <1>2, <1>6, <1>7, <1>8, <1>11, <1>12 DEF Next

-----------------------------------------------------------------------------
(* What the reads have seen.                                               *)

\* What a read that has found keeps.
LEMMA FoundKept ==
  ASSUME Shape, Numbered, Queued, Opening, Snapshots, [Next]_vars, NEW k \in Calls, Found(k)
  PROVE  /\ call'[k].of = call[k].of /\ call'[k].late = call[k].late /\ call'[k].seen = call[k].seen
         /\ call'[k].saw = call[k].saw /\ call'[k].span = call[k].span
         /\ call[k].of # None => call[k].of \in Calls /\ call'[call[k].of].seen = call[call[k].of].seen
         /\ call[k].span # None =>
              call[k].span \in Calls /\ call'[call[k].span].kind = "tx" /\ call'[call[k].span].res = "ok"
<1> USE Sets
<1>1. call[k].kind = "read" /\ call[k].res = "ok"  BY DEF Found
<1>2. /\ call'[k].of = call[k].of /\ call'[k].late = call[k].late /\ call'[k].seen = call[k].seen
      /\ call'[k].saw = call[k].saw /\ call'[k].span = call[k].span
  BY <1>1, CallsKept
<1>3. ASSUME NEW t, t = call[k].of, t # None PROVE t \in Calls /\ call'[t].seen = call[t].seen
  <2>1. t \in Calls /\ call[t].kind = "tx"  BY <1>3 DEF Numbered, Belongs
  <2> QED  BY <2>1, CallsKept
<1>4. ASSUME NEW t, t = call[k].span, t # None PROVE t \in Calls /\ call'[t].kind = "tx" /\ call'[t].res = "ok"
  <2>1. t \in Calls /\ call[t].kind = "tx" /\ call[t].res = "ok"  BY <1>4 DEF Snapshots, Shape, Call
  <2> QED  BY <2>1, CallsKept
<1> QED  BY <1>2, <1>3, <1>4

\* Two reads in one transaction have seen the same.
LEMMA OneSnapshot ==
  ASSUME Snapshots, NEW k \in Calls, Found(k), call[k].of # None,
         NEW l \in Calls, Found(l), call[l].span # None, call[l].span = call[k].span
  PROVE  call[l].saw = call[k].saw
BY DEF Snapshots, ReadsAgree

\* A step in which no read finds, and that changes no transaction that has been read in.
LEMMA SnapshotsKept ==
  ASSUME Shape, Numbered, Queued, Opening, Snapshots, [Next]_vars,
         \A k \in Calls : Found(k)' => Found(k),
         \A k \in Calls, r \in Readers : Found(k) /\ call[k].span # None /\ span'[r] = call[k].span =>
           span'[r] = span[r] /\ snap'[r] = snap[r]
  PROVE  Snapshots'
<1> USE Sets
<1>1. ASSUME NEW k \in Calls, Found(k)', call'[k].span # None
      PROVE  /\ call'[call'[k].span].kind = "tx" /\ call'[call'[k].span].res = "ok"
             /\ \A r \in Readers : span'[r] = call'[k].span => call'[k].saw = snap'[r]
  <2>1. Found(k)  BY <1>1
  <2>2. call'[k].span = call[k].span /\ call'[k].saw = call[k].saw  BY <2>1, FoundKept
  <2>3. call'[call[k].span].kind = "tx" /\ call'[call[k].span].res = "ok"  BY <1>1, <2>1, <2>2, FoundKept
  <2>4. ASSUME NEW r \in Readers, span'[r] = call[k].span PROVE call[k].saw = snap'[r]
    <3>1. span'[r] = span[r] /\ snap'[r] = snap[r]  BY <1>1, <2>1, <2>2, <2>4
    <3> QED  BY <1>1, <2>1, <2>2, <2>4, <3>1 DEF Snapshots
  <2> QED  BY <2>2, <2>3, <2>4
<1>2. ASSUME NEW k \in Calls, Found(k)', call'[k].of # None
      PROVE  /\ call'[k].span \in (IF call'[k].late THEN {None, call'[k].of} ELSE {call'[k].of})
             /\ ~call'[k].late => call'[k].saw >= call'[call'[k].of].seen
             /\ \A l \in Calls : Found(l)' /\ call'[l].span # None /\ call'[l].span = call'[k].span
                                   => call'[l].saw = call'[k].saw
  <2>1. Found(k)  BY <1>2
  <2>2. /\ call'[k].of = call[k].of /\ call'[k].late = call[k].late
        /\ call'[k].saw = call[k].saw /\ call'[k].span = call[k].span
    BY <2>1, FoundKept
  <2>3. call'[call[k].of].seen = call[call[k].of].seen  BY <1>2, <2>1, <2>2, FoundKept
  <2>4. /\ call[k].span \in (IF call[k].late THEN {None, call[k].of} ELSE {call[k].of})
        /\ ~call[k].late => call[k].saw >= call[call[k].of].seen
    BY <1>2, <2>1, <2>2 DEF Snapshots, ReadsAgree
  <2>5. ASSUME NEW l \in Calls, Found(l)', call'[l].span # None, call'[l].span = call'[k].span
        PROVE  call'[l].saw = call'[k].saw
    <3>1. Found(l)  BY <2>5
    <3>2. call'[l].span = call[l].span /\ call'[l].saw = call[l].saw  BY <3>1, FoundKept
    <3>3. call[k].of # None /\ call[l].span # None /\ call[l].span = call[k].span
      BY <1>2, <2>2, <2>5, <3>2
    <3>4. call[l].saw = call[k].saw  BY <2>1, <3>1, <3>3, OneSnapshot
    <3> QED  BY <2>2, <3>2, <3>4
  <2> QED  BY <2>2, <2>3, <2>4, <2>5
<1>3. ASSUME NEW k \in Calls, Found(k)', call'[k].of = None, call'[k].span = None
      PROVE  call'[k].saw >= call'[k].seen
  <2>1. Found(k)  BY <1>3
  <2>2. /\ call'[k].of = call[k].of /\ call'[k].seen = call[k].seen
        /\ call'[k].saw = call[k].saw /\ call'[k].span = call[k].span
    BY <2>1, FoundKept
  <2> QED  BY <1>3, <2>1, <2>2 DEF Snapshots, ReadsAreFresh
<1>4. ReadsAgree'  BY <1>2 DEF ReadsAgree
<1>5. ReadsAreFresh'  BY <1>3 DEF ReadsAreFresh
<1> QED  BY <1>1, <1>4, <1>5 DEF Snapshots

\* A read finds: what its transaction has read before, or the latest version.
LEMMA SnapshotsRead ==
  ASSUME Shape, Numbered, Queued, Opening, Spans, Reads, Versions, Snapshots, [Next]_vars,
         NEW c \in Conns, NEW found, RunStep(c, found), Effect(c, found), Op(c, 1) = "read", found.res = "ok"
  PROVE  Snapshots'
<1> USE Sets
<1>1. PICK k \in Calls : k = Id(c, 1)  BY DEF RunStep
<1>2. /\ queue[c] # <<>> /\ call' = [call EXCEPT ![k] = found] /\ call'[k] = found
      /\ found.kind = call[k].kind /\ found.of = call[k].of /\ found.late = call[k].late /\ found.seen = call[k].seen
  BY <1>1 DEF RunStep, Shape
<1>3. /\ 1 \in At(c) /\ queue[c][1] \in Blocks(c) /\ queue[c][1].id = k /\ queue[c][1].op = "read" /\ k # None
  BY <1>1, <1>2, HeadBlock DEF Id, Op
<1>4. call[k].kind = "read" /\ call[k].res = "none"  BY <1>3, BlockFacts DEF Placed, KindOf
<1>5. PICK s, v : s = (IF InTx(c) THEN span[c] ELSE None) /\ v = Visible(c)  OBVIOUS
<1>6. /\ found.saw = v /\ found.span = s /\ span' = span
      /\ snap' = IF InTx(c) THEN [snap EXCEPT ![c] = v] ELSE snap
  BY <1>5 DEF Effect
<1>7. /\ s # None => /\ c \in Readers /\ s = span[c] /\ s \in Calls /\ call[s].kind = "tx" /\ call[s].res = "ok"
                      /\ \A r \in Readers : span[r] = s => r = c
                      /\ snap' = [snap EXCEPT ![c] = v]
      /\ s = None => snap' = snap
  BY <1>5, <1>6 DEF InTx, Spans, Shape
\* The version it sees,
<1>8. /\ version \in Nat /\ v \in Nat
      /\ s = None => v = version
      /\ s # None => v >= call[s].seen
      /\ s # None /\ snap[c] # Unset => v = snap[c]
  <2>1. version \in Nat /\ \A j \in Calls : call[j].seen \in Nat /\ call[j].seen <= version
    BY DEF Shape, Versions, Call
  <2>2. s = None => v = version  BY <1>5, <1>7 DEF Visible, InTx, Shape
  <2>3. s # None /\ snap[c] # Unset => v = snap[c]  BY <1>5 DEF Visible
  <2>4. s # None /\ snap[c] = Unset => v = version  BY <1>5 DEF Visible
  <2>5. s # None /\ snap[c] # Unset => snap[c] \in Nat /\ snap[c] >= call[s].seen  BY <1>7 DEF Spans, Shape
  <2>6. CASE s = None  BY <2>1, <2>2, <2>6
  <2>7. CASE s # None /\ snap[c] = Unset  BY <1>7, <2>1, <2>4, <2>7
  <2>8. CASE s # None /\ snap[c] # Unset  BY <2>1, <2>3, <2>5, <2>8
  <2> QED  BY <2>6, <2>7, <2>8
\* and what the others of its transaction saw.
<1>9. ASSUME NEW l \in Calls, Found(l)', l # k PROVE Found(l) /\ call'[l] = call[l]
  <2>1. call'[l] = call[l]  BY <1>2, <1>9 DEF Shape
  <2> QED  BY <1>9, <2>1 DEF Found
<1>10. ASSUME NEW l \in Calls, Found(l), call[l].span = s, s # None PROVE call[l].saw = v
  <2>1. call[l].saw = snap[c]  BY <1>7, <1>10 DEF Snapshots
  <2>2. call[l].saw \in Nat  BY DEF Shape, Call
  <2> QED  BY <1>8, <1>10, <2>1, <2>2
<1>11. ASSUME NEW l \in Calls, Found(l)', call'[l].span # None
       PROVE  /\ call'[call'[l].span].kind = "tx" /\ call'[call'[l].span].res = "ok"
              /\ \A r \in Readers : span'[r] = call'[l].span => call'[l].saw = snap'[r]
  <2>1. CASE l = k
    <3>1. call'[l].span = s /\ call'[l].saw = v /\ s # None  BY <1>2, <1>6, <1>11, <2>1
    <3>2. call'[s].kind = "tx" /\ call'[s].res = "ok"  BY <1>7, <3>1, CallsKept
    <3>3. \A r \in Readers : span'[r] = s => v = snap'[r]  BY <1>6, <1>7, <3>1 DEF Shape
    <3> QED  BY <3>1, <3>2, <3>3
  <2>2. CASE l # k
    <3>1. PICK t : t = call[l].span  OBVIOUS
    <3>2. Found(l) /\ call'[l].span = t /\ call'[l].saw = call[l].saw /\ t # None
      BY <1>9, <1>11, <2>2, <3>1
    <3>3. call'[t].kind = "tx" /\ call'[t].res = "ok"  BY <3>1, <3>2, FoundKept
    <3>4. ASSUME NEW r \in Readers, span'[r] = t PROVE call[l].saw = snap'[r]
      <4>1. span[r] = t /\ call[l].saw = snap[r]  BY <1>6, <3>1, <3>2, <3>4 DEF Snapshots
      <4>2. CASE s # None /\ r = c
        <5>1. s = t /\ snap'[r] = v  BY <1>7, <4>1, <4>2 DEF Shape
        <5> QED  BY <1>10, <3>1, <3>2, <5>1
      <4>3. CASE ~(s # None /\ r = c)
        <5>1. snap'[r] = snap[r]  BY <1>7, <4>3 DEF Shape
        <5> QED  BY <4>1, <5>1
      <4> QED  BY <4>2, <4>3
    <3> QED  BY <3>2, <3>3, <3>4
  <2> QED  BY <2>1, <2>2
\* The read is in its transaction.
<1>12. ASSUME call[k].of # None
       PROVE  /\ s \in (IF call[k].late THEN {None, call[k].of} ELSE {call[k].of})
              /\ ~call[k].late => v >= call[call[k].of].seen
  <2>1. InTransaction(c, 1)  BY <1>1, <1>12 DEF InTransaction
  <2>2. InItsTransaction(c, 1)  BY <1>3, <2>1 DEF Reads
  <2>3. /\ c # Writer /\ span[c] \in {None, call[k].of} /\ (~call[k].late => span[c] = call[k].of)
    BY <1>1, <2>2 DEF InItsTransaction
  <2>4. s = span[c]  BY <1>5, <2>3 DEF InTx
  <2> QED  BY <1>8, <1>12, <2>3, <2>4
<1>13. ASSUME NEW j \in Calls, Found(j)', call'[j].of # None
       PROVE  /\ call'[j].span \in (IF call'[j].late THEN {None, call'[j].of} ELSE {call'[j].of})
              /\ ~call'[j].late => call'[j].saw >= call'[call'[j].of].seen
  <2>1. CASE j = k
    <3>1. PICK t : t = call[k].of  OBVIOUS
    <3>2. call'[j].of = t /\ call'[j].late = call[k].late /\ call'[j].span = s /\ call'[j].saw = v /\ t # None
      BY <1>2, <1>6, <1>13, <2>1, <3>1
    <3>3. call'[t].seen = call[t].seen
      <4>1. t \in Calls /\ call[t].kind = "tx"  BY <3>1, <3>2 DEF Numbered, Belongs
      <4> QED  BY <4>1, CallsKept
    <3> QED  BY <1>12, <3>1, <3>2, <3>3
  <2>2. CASE j # k
    <3>1. PICK t : t = call[j].of  OBVIOUS
    <3>2. Found(j) /\ call'[j] = call[j] /\ t # None  BY <1>9, <1>13, <2>2, <3>1
    <3>3. call'[t].seen = call[t].seen  BY <3>1, <3>2, FoundKept
    <3> QED  BY <3>1, <3>2, <3>3 DEF Snapshots, ReadsAgree
  <2> QED  BY <2>1, <2>2
<1>14. ASSUME NEW j \in Calls, Found(j)', call'[j].of # None,
              NEW l \in Calls, Found(l)', call'[l].span # None, call'[l].span = call'[j].span
       PROVE  call'[l].saw = call'[j].saw
  <2>1. CASE j = k /\ l = k  BY <2>1
  <2>2. CASE j = k /\ l # k
    <3>1. call'[j].span = s /\ call'[j].saw = v  BY <1>2, <1>6, <2>2
    <3>2. Found(l) /\ call'[l] = call[l]  BY <1>9, <1>14, <2>2
    <3> QED  BY <1>10, <1>14, <3>1, <3>2
  <2>3. CASE j # k /\ l = k
    <3>1. call'[l].span = s /\ call'[l].saw = v  BY <1>2, <1>6, <2>3
    <3>2. Found(j) /\ call'[j] = call[j]  BY <1>9, <1>14, <2>3
    <3> QED  BY <1>10, <1>14, <3>1, <3>2
  <2>4. CASE j # k /\ l # k
    <3>1. Found(j) /\ call'[j] = call[j] /\ Found(l) /\ call'[l] = call[l]  BY <1>9, <1>14, <2>4
    <3>2. call[j].of # None /\ call[l].span # None /\ call[l].span = call[j].span  BY <1>14, <3>1
    <3>3. call[l].saw = call[j].saw  BY <3>1, <3>2, OneSnapshot
    <3> QED  BY <3>1, <3>3
  <2> QED  BY <2>1, <2>2, <2>3, <2>4
<1>15. ReadsAgree'  BY <1>13, <1>14 DEF ReadsAgree
<1>16. ASSUME NEW j \in Calls, Found(j)', call'[j].of = None, call'[j].span = None
       PROVE  call'[j].saw >= call'[j].seen
  <2>1. CASE j = k
    <3>1. call'[j].saw = version /\ call'[j].seen = call[k].seen  BY <1>2, <1>6, <1>8, <1>16, <2>1
    <3>2. call[k].seen \in Nat /\ call[k].seen <= version  BY DEF Shape, Versions, Call
    <3> QED  BY <1>8, <3>1, <3>2
  <2>2. CASE j # k
    <3>1. Found(j) /\ call'[j] = call[j]  BY <1>9, <1>16, <2>2
    <3> QED  BY <1>16, <3>1 DEF Snapshots, ReadsAreFresh
  <2> QED  BY <2>1, <2>2
<1>17. ReadsAreFresh'  BY <1>16 DEF ReadsAreFresh
<1> QED  BY <1>11, <1>15, <1>17 DEF Snapshots

\* Whatever runs next, a transaction has one snapshot.
LEMMA SnapshotsStep ==
  ASSUME Shape, Numbered, Queued, Opening, Spans, Reads, Versions, Snapshots, [Next]_vars
  PROVE  Snapshots'
<1> USE Sets
<1>1. \A k \in Calls : Found(k) /\ call[k].span # None => call[call[k].span].res = "ok"
  BY DEF Snapshots
\* The answers to reads, and the transactions, stay or end.
<1>2. ASSUME \A k \in Calls : Found(k)' => Found(k),
             \A r \in Readers : (span'[r] = span[r] /\ snap'[r] = snap[r]) \/ span'[r] = None
      PROVE  Snapshots'
  BY <1>2, SnapshotsKept
<1>3. ASSUME NEW rec, JsStep(rec) PROVE Snapshots'
  <2>1. /\ This \in Calls /\ call' = [call EXCEPT ![This] = rec] /\ (rec.kind = "read" => rec.res # "ok")
        /\ UNCHANGED <<span, snap>>
    BY <1>3 DEF JsStep, Adds, dataVars
  <2>2. \A k \in Calls : Found(k)' => Found(k)  BY <2>1 DEF Found, Shape
  <2> QED  BY <1>2, <2>1, <2>2
<1>4. ASSUME NEW c \in Conns, RunBlock(c), ~RunOpen(c), ~RunClose(c) PROVE Snapshots'
  <2>1. PICK found : RunStep(c, found)  BY <1>4, RunSteps
  <2>2. Effect(c, found)  BY <1>4, <2>1, Effects
  <2>3. PICK k \in Calls : k = Id(c, 1)  BY <2>1 DEF RunStep
  <2>4. /\ queue[c] # <<>> /\ call' = [call EXCEPT ![k] = found] /\ call'[k] = found /\ found.kind = call[k].kind
        /\ Op(c, 1) \notin {"open", "close"} /\ (Op(c, 1) = "end" => found = call[k])
    BY <2>1, <2>3 DEF RunStep, Shape
  <2>5. /\ queue[c][1] \in Blocks(c) /\ queue[c][1].id = k /\ queue[c][1].op = Op(c, 1) /\ k # None
        /\ queue[c][1] \in Block
    BY <2>3, <2>4, HeadBlock DEF Id, Op
  <2>6. /\ call[k].kind = KindOf(Op(c, 1)) /\ (Op(c, 1) # "end" => call[k].res = "none")
        /\ Op(c, 1) \in {"write", "read", "begin", "end", "prepare", "finalize"}
    BY <2>4, <2>5, BlockFacts DEF Placed, Block
  <2>7. CASE Op(c, 1) = "read" /\ found.res = "ok"  BY <2>1, <2>2, <2>7, SnapshotsRead
  <2>8. CASE ~(Op(c, 1) = "read" /\ found.res = "ok")
    <3>1. ASSUME NEW j \in Calls, Found(j)' PROVE Found(j)
      <4>1. CASE j = k
        <5>1. found.kind = "read" /\ found.res = "ok"  BY <2>4, <3>1, <4>1 DEF Found
        <5> QED  BY <2>4, <2>6, <2>8, <5>1 DEF KindOf
      <4>2. CASE j # k
        <5>1. call'[j] = call[j]  BY <2>4, <4>2 DEF Shape
        <5> QED  BY <3>1, <5>1 DEF Found
      <4> QED  BY <4>1, <4>2
    <3>2. CASE Op(c, 1) = "begin" /\ span' # span
      <4>1. c \in Readers /\ UNCHANGED snap /\ span' = [span EXCEPT ![c] = k] /\ call[k].res = "none"
        BY <2>2, <2>3, <2>6, <3>2 DEF Effect
      <4>2. ASSUME NEW j \in Calls, NEW r \in Readers, Found(j), call[j].span # None, span'[r] = call[j].span
            PROVE  span'[r] = span[r] /\ snap'[r] = snap[r]
        <5>1. call[j].span # k  BY <1>1, <4>1, <4>2
        <5> QED  BY <4>1, <4>2, <5>1 DEF Shape
      <4> QED  BY <3>1, <4>2, SnapshotsKept
    <3>3. CASE Op(c, 1) = "end"
      <4>1. span' = [span EXCEPT ![c] = None] /\ snap' = [snap EXCEPT ![c] = Unset]  BY <2>2, <3>3 DEF Effect
      <4>2. \A r \in Readers : (span'[r] = span[r] /\ snap'[r] = snap[r]) \/ span'[r] = None  BY <4>1 DEF Shape
      <4> QED  BY <1>2, <3>1, <4>2
    <3>4. CASE Op(c, 1) # "end" /\ span' = span
      <4>1. UNCHANGED snap  BY <2>2, <2>6, <2>8, <3>4 DEF Effect
      <4> QED  BY <1>2, <3>1, <3>4, <4>1
    <3>5. Op(c, 1) \notin {"begin", "end"} => span' = span  BY <2>2, <2>6 DEF Effect
    <3> QED  BY <3>2, <3>3, <3>4, <3>5
  <2> QED  BY <2>7, <2>8
<1>5. ASSUME NEW c \in Conns, RunOpen(c) PROVE Snapshots'
  <2>1. UNCHANGED <<span, snap>>  BY <1>5 DEF RunOpen, dataVars
  <2>2. ASSUME NEW k \in Calls, Found(k)' PROVE Found(k)
    <3>1. call'[k].kind = "read" /\ call'[k].res = "ok"  BY <2>2 DEF Found
    <3>2. call'[k] = call[k]  BY <1>5, <3>1, OpenAnswers
    <3> QED  BY <3>1, <3>2 DEF Found
  <2> QED  BY <1>2, <2>1, <2>2
<1>6. ASSUME NEW c \in Conns, RunClose(c) PROVE Snapshots'
  <2>1. \/ UNCHANGED <<span, snap>>
        \/ c \in Readers /\ span' = [span EXCEPT ![c] = None] /\ snap' = [snap EXCEPT ![c] = Unset]
    BY <1>6 DEF RunClose
  <2>2. \A r \in Readers : (span'[r] = span[r] /\ snap'[r] = snap[r]) \/ span'[r] = None  BY <2>1 DEF Shape
  <2>3. ASSUME NEW k \in Calls, Found(k)' PROVE Found(k)
    <3>1. call'[k].kind = "read" /\ call'[k].res = "ok"  BY <2>3 DEF Found
    <3>2. call[closer].kind = "close" /\ call'[k].kind = call[k].kind /\ (k # closer => call'[k] = call[k])
      BY <1>6, CloseTells
    <3> QED  BY <3>1, <3>2 DEF Found
  <2> QED  BY <1>2, <2>2, <2>3
<1>7. CASE Deliver
  <2>1. UNCHANGED <<span, snap>>  BY <1>7 DEF Deliver, dataVars
  <2>2. \A k \in Calls : Found(k)' => Found(k)  BY <1>7, DeliverAnswers DEF Found
  <2> QED  BY <1>2, <2>1, <2>2
<1>8. CASE UNCHANGED <<call, span, snap>>
  <2>1. \A k \in Calls : Found(k)' => Found(k)  BY <1>8 DEF Found
  <2> QED  BY <1>2, <1>8, <2>1
<1>9. CASE JsCalls
  <2>1. (OpenAsync \/ OpenSync \/ \E t \in Calls : EndRead(t)) => UNCHANGED <<call, span, snap>>
    BY DEF OpenAsync, OpenSync, EndRead, jsVars, dataVars
  <2> QED  BY <1>3, <1>8, <1>9, <2>1, JsSteps
<1> QED  BY <1>4, <1>5, <1>6, <1>7, <1>8, <1>9 DEF Next, vars, jsVars, dataVars

-----------------------------------------------------------------------------
(* The invariant.                                                          *)

\* The invariant holds before the database is opened,
LEMMA ReadersInit == Init => ReadersInv
<1> SUFFICES ASSUME Init PROVE ReadersInv  OBVIOUS
<1> USE Sets, ReadersAssumption
<1>1. Shape  BY ShapeInit
<1>2. /\ \A k \in Calls : call[k] = NoCall /\ tx[k] = "none" /\ handle[k] = None
      /\ \A r \in Readers : span[r] = None /\ snap[r] = Unset
      /\ \A c \in Conns : queue[c] = <<>> /\ verdict[c] = "none"
      /\ made = 0 /\ closer = None /\ main = <<>> /\ inits = <<>> /\ free = Readers /\ version = 0 /\ ~failed
      /\ pending = 1 + PoolSize
  BY DEF Init, None
<1>3. NoCall.kind = "none" /\ NoCall.of = None /\ NoCall.res = "none" /\ NoCall.seen = 0  BY DEF NoCall
<1>4. \A c \in Conns : At(c) = {} /\ Blocks(c) = {}
  <2>1. \A c \in Conns : Len(queue[c]) = 0  BY <1>2
  <2>2. \A c \in Conns : At(c) = {}  BY <2>1 DEF At
  <2> QED  BY <2>2 DEF Blocks
<1>5. Numbered  BY <1>2, <1>3 DEF Numbered, Belongs, Calls
<1>6. Queued  BY <1>2, <1>4 DEF Queued, OneBlock, HeardOnce
<1>7. Opening
  <2>1. Unopened = 0..PoolSize  BY <1>2 DEF Unopened, Conns
  <2>2. Cardinality(0..PoolSize) = PoolSize - 0 + 1  BY FS_Interval
  <2>3. Counts  BY <1>2, <2>1, <2>2 DEF Counts
  <2>4. OpensFirst /\ Untouched /\ InitializedIsTrue
    BY <1>2, <1>3, <1>4 DEF OpensFirst, Untouched, InitializedIsTrue, Unopened
  <2> QED  BY <2>3, <2>4 DEF Opening
<1>8. Spans  BY <1>2 DEF Spans
<1>9. Claims  BY <1>2, <1>4 DEF Claims, Claimed, Begun, ClaimsInQueues
<1>10. Reads  BY <1>4 DEF Reads
<1>11. Versions
  <2>1. Written = {}  BY <1>2, <1>3 DEF Written
  <2> QED  BY <1>2, <1>3, <2>1, FS_EmptySet DEF Versions
<1>12. Snapshots  BY <1>2, <1>3 DEF Snapshots, ReadsAgree, ReadsAreFresh, Found
<1> QED  BY <1>1, <1>5, <1>6, <1>7, <1>8, <1>9, <1>10, <1>11, <1>12 DEF ReadersInv

\* and every step keeps it.
LEMMA ReadersStep == ReadersInv /\ [Next]_vars => ReadersInv'
<1> SUFFICES ASSUME ReadersInv, [Next]_vars PROVE ReadersInv'  OBVIOUS
<1>1. Shape /\ Numbered /\ Queued /\ Opening /\ Spans /\ Claims /\ Reads /\ Versions /\ Snapshots
  BY DEF ReadersInv
<1>2. Shape'  BY <1>1, ShapeStep
<1>3. Numbered'  BY <1>1, NumberedStep
<1>4. Queued'  BY <1>1, QueuedStep
<1>5. Opening'  BY <1>1, OpeningStep
<1>6. Spans'  BY <1>1, SpansStep
<1>7. Claims'  BY <1>1, ClaimsStep
<1>8. Reads'  BY <1>1, ReadsStep
<1>9. Versions'  BY <1>1, VersionsStep
<1>10. Snapshots'  BY <1>1, SnapshotsStep
<1> QED  BY <1>2, <1>3, <1>4, <1>5, <1>6, <1>7, <1>8, <1>9, <1>10 DEF ReadersInv

\* Until close(), the transaction that has a reader is the only one.
LEMMA ClaimsAreMatched == ReadersInv => ClaimsMatch
<1> SUFFICES ASSUME ReadersInv, IsOpen, NEW r \in Readers
             PROVE  LET owners == {t \in Calls : handle[t] = r}
                    IN  /\ Cardinality(owners) = (IF r \in free THEN 0 ELSE 1)
                        /\ span[r] # None => span[r] \in owners
  BY DEF ClaimsMatch
<1> USE Sets
<1> DEFINE owners == {t \in Calls : handle[t] = r}
<1>1. Shape /\ Claimed  BY DEF ReadersInv, Claims, IsOpen, None
<1>2. CASE r \in free
  <2>1. \A t \in Calls : handle[t] # r
    <3>1. r # None /\ \A t \in Calls : handle[t] # None => handle[t] \notin free  BY <1>1 DEF Claimed
    <3> QED  BY <1>2, <3>1
  <2>2. owners = {}  BY <2>1
  <2>3. Cardinality(owners) = 0  BY <2>2, FS_EmptySet
  <2>4. span[r] # None => span[r] \in owners  BY <1>1 DEF Claimed, Shape
  <2> QED  BY <1>2, <2>3, <2>4
<1>3. CASE r \notin free
  <2>1. PICK t \in Calls : handle[t] = r  BY <1>1, <1>3 DEF Claimed
  <2>2. owners = {t}  BY <1>1, <2>1 DEF Claimed
  <2>3. Cardinality({t}) = 1  BY FS_Singleton
  <2>4. Cardinality(owners) = 1  BY <2>2, <2>3
  <2>5. span[r] # None => span[r] \in owners  BY <1>1 DEF Claimed, Shape
  <2> QED  BY <1>3, <2>4, <2>5
<1> QED  BY <1>2, <1>3

\* The connections of a database on iOS keep the invariant, whichever queue runs next.
THEOREM ReadersInvariant == Spec => []ReadersInv
<1> QED  BY ReadersInit, ReadersStep, PTL DEF Spec

\* Read transactions keep their snapshot beside plain reads, other read transactions
\* and the writer, whose blocks run on queues of their own, and a reader is neither
\* shared nor lost (readTransaction, selectInReadTransaction and close of
\* NSSQLiteDatabase.mm).
THEOREM ReadersSnapshotsHold == Spec => []SnapshotsHold
<1>1. ReadersInv => SnapshotsHold  BY ClaimsAreMatched DEF ReadersInv, Snapshots, SnapshotsHold
<1> QED  BY <1>1, ReadersInvariant, PTL

\* initialized() resolves only with every connection open, and rejects only when all have
\* ended opening and one could not (initialized and _connectionOpenFinished of
\* NSSQLiteDatabase.mm).
THEOREM InitializedHonest == Spec => []InitializedIsTrue
<1>1. ReadersInv => InitializedIsTrue  BY DEF ReadersInv, Opening
<1> QED  BY <1>1, ReadersInvariant, PTL

-----------------------------------------------------------------------------
(* The end: what close() and finalize() take down, and when.               *)

\* This place of a queue is behind the last block of the connection: it is the writer's,
\* and of a call made after close().
Behind(c, i) == c \in gone \/ \E j \in 1..(i - 1) : Op(c, j) = "close"

Ends ==
  /\ \A c \in Conns : \A i \in At(c) : Behind(c, i) => c = Writer /\ Op(c, i) # "close" /\ Id(c, i) > closer
  /\ closer = None => gone = {}
  /\ closer # None => \A c \in Conns : c \in gone \/ \E i \in At(c) : Op(c, i) = "close"

\* Nothing is called before the database is open, and a connection whose open has not
\* ended has it at the head of its queue.
Opened ==
  /\ phase # "opened" => made = 0 /\ closer = None /\ \A c \in Conns : queue[c] = <<>>
  /\ phase = "opened" => \A c \in Conns : verdict[c] = "none" => c \notin gone /\ queue[c] # <<>> /\ Op(c, 1) = "open"

\* The block here uses or finalizes the statement s: it is one of the writer's, the
\* statement is there, and nothing uses it after it is finalized.
Uses(c, i, s) == Id(c, i) # None /\ call[Id(c, i)].stmt = s

Finalizes(i, s) == Op(Writer, i) = "finalize" /\ Uses(Writer, i, s)

Used(c, i, s) ==
  /\ c = Writer /\ s \in alive
  /\ Op(c, i) = "finalize" \/ ~Behind(c, i)
  /\ Op(c, i) = "finalize" => s \notin map /\ \A j \in At(c) : Uses(c, j, s) => j <= i

Prepared(s) == call[s].kind = "prepare" /\ call[s].res = "ok"

Bound == \A k \in Calls : call[k].stmt # None => Prepared(call[k].stmt) /\ call[k].kind # "tx"

AllUsed == \A c \in Conns : \A i \in At(c), s \in Calls : Uses(c, i, s) => Used(c, i, s)

\* A statement that is no longer in the map has a block that will finalize it.
Statements ==
  /\ map \subseteq alive /\ (Writer \in gone => map = {})
  /\ \A s \in alive : s \in Calls /\ Prepared(s)
  /\ Bound
  /\ AllUsed
  /\ \A s \in alive \ map : \E i \in At(Writer) : Finalizes(i, s)

\* A call that has not been heard of has a block or a completion on its way,
Expected(k) ==
  \/ \E c \in Conns : \E i \in At(c) : Id(c, i) = k
  \/ \E m \in 1..Len(main) : main[m] = k
  \/ \E m \in 1..Len(inits) : inits[m] = k
  \/ k = closer /\ gone # Conns

\* that of close() after those of all earlier calls.
Heard(m, k) == call[k].heard \/ \E n \in 1..(m - 1) : main[n] = k

CloseLast ==
  /\ closer # None => \A m \in 1..Len(main) : main[m] = closer =>
       gone = Conns /\ \A k \in 1..(closer - 1) : Heard(m, k)
  /\ closer # None /\ call[closer].heard => gone = Conns /\ \A k \in 1..(closer - 1) : call[k].heard

Beginnings == \A t \in Calls : tx[t] = "begin" => ~call[t].heard /\ (closer # None => t < closer)

Awaited == \A k \in Calls : call[k].kind # "none" /\ ~call[k].heard => Expected(k)

Answering == (pending = 0 => inits = <<>>) /\ Awaited /\ Beginnings /\ CloseLast

LifecycleInv == ReadersInv /\ Ends /\ Opened /\ Statements /\ Answering

\* What a call of JS does to them: it sends a block, of a statement that is in the map,
Asks(rec) ==
  \E c \in Conns, op \in {"write", "read", "begin", "prepare", "finalize"} :
    /\ [op |-> op, id |-> This] \in Block
    /\ queue' = [queue EXCEPT ![c] = Append(@, [op |-> op, id |-> This])] /\ UNCHANGED <<main, inits, closer>>
    /\ c # Writer => closer = None /\ rec.stmt = None
    /\ IF op = "finalize" THEN rec.stmt \in map /\ map' = map \ {rec.stmt}
       ELSE map' = map /\ (rec.stmt # None => rec.stmt \in map /\ closer = None)

\* is answered without one,
IsTold ==
  /\ UNCHANGED <<queue, map, closer>>
  /\ \/ main' = Append(main, This) /\ UNCHANGED inits
     \/ inits' = Append(inits, This) /\ UNCHANGED main /\ pending # 0

\* or closes the connections.
Ending(rec) ==
  /\ rec.stmt = None /\ closer = None /\ closer' = This /\ UNCHANGED <<main, inits, map, tx>>
  /\ queue' = [c \in Conns |-> Append(queue[c], [op |-> "close", id |-> None])]

JsMove(rec) ==
  /\ This \in Calls /\ made' = This /\ rec \in Call /\ call' = [call EXCEPT ![This] = rec]
  /\ rec.kind # "none" /\ ~rec.heard /\ (rec.stmt # None => Prepared(rec.stmt) /\ rec.kind # "tx")
  /\ phase = "opened" /\ UNCHANGED <<phase, verdict, pending, gone, alive>>
  /\ \/ tx' = [tx EXCEPT ![This] = "begin"] /\ closer = None
     \/ UNCHANGED tx
  /\ Asks(rec) \/ IsTold \/ Ending(rec)

\* Every call of JS but the opening of the database and the end of a transaction is such a step.
LEMMA JsMoves ==
  ASSUME Shape, Numbered, Opening, Opened, JsCalls, ~OpenAsync, ~OpenSync, \A t \in Calls : ~EndRead(t)
  PROVE  \E rec : JsMove(rec)
<1> USE Sets
<1>1. Kinds = {"write", "read", "tx", "prepare", "finalize", "init", "close"}  BY DEF Kinds
<1>2. \A kind \in Kinds : /\ Issued(kind) \in Call /\ Issued(kind).kind = kind
                           /\ Issued(kind).res = "none" /\ ~Issued(kind).heard /\ Issued(kind).stmt = None
  <2>1. NoCall \in Call /\ NoCall.stmt = None  BY DEF NoCall, Call
  <2>2. WritesHeard \in Nat  BY <1>1, IssuedCall
  <2>3. \A kind \in Kinds : Issued(kind).stmt = None  BY <2>1, <2>2 DEF Issued, Call
  <2> QED  BY <2>3, IssuedCall
<1>3. \A k \in Calls, op \in {"write", "read", "begin", "end", "prepare", "finalize"} : [op |-> op, id |-> k] \in Block
  BY DEF Block
<1>4. phase = "opened"
  <2>1. ASSUME made # 0 PROVE phase = "opened"  BY <2>1 DEF Opened
  <2>2. \A k \in Calls : call[k].kind # "none" => made # 0  BY DEF Numbered, NoCall, Calls
  <2>3. \A t \in Calls : TxRead(t) => call[t].kind # "none"  BY DEF TxRead, Numbered
  <2>4. \A s \in Calls : s \in Held => call[s].kind # "none"  BY DEF Held
  <2> QED
    BY <2>1, <2>2, <2>3, <2>4
       DEF JsCalls, Execute, Select, BeginRead, IsOpen, Prepare, UsePrepared, Finalize, Initialized, Close
\* A call that is answered at once,
<1>5. ASSUME NEW rec \in Call, NEW res \in {"ok", "error"}, AnsweredAt(rec, res),
             rec.kind # "none", ~rec.heard, rec.stmt # None => Prepared(rec.stmt) /\ rec.kind # "tx",
             UNCHANGED <<phase, verdict, pending, gone, stmtVars, closer, inits>>,
             \/ tx' = [tx EXCEPT ![This] = "begin"] /\ closer = None
             \/ UNCHANGED tx
      PROVE  \E new : JsMove(new)
  <2> DEFINE new == [rec EXCEPT !.res = res]
  <2>1. /\ This \in Calls /\ made' = This /\ UNCHANGED queue /\ call' = [call EXCEPT ![This] = new]
        /\ main' = Append(main, This)
    BY <1>5, Answers
  <2>2. new \in Call /\ new.kind = rec.kind /\ new.heard = rec.heard /\ new.stmt = rec.stmt
    BY DEF Call
  <2> HIDE DEF new
  <2>3. IsTold  BY <1>5, <2>1 DEF IsTold, stmtVars
  <2>4. JsMove(new)  BY <1>4, <1>5, <2>1, <2>2, <2>3 DEF JsMove, stmtVars
  <2> QED  BY <2>4
\* and one that sends a block.
<1>6. ASSUME NEW rec \in Call, Makes(rec), rec.kind # "none", ~rec.heard, rec.stmt # None => Prepared(rec.stmt) /\ rec.kind # "tx",
             NEW c \in Conns, NEW op \in {"write", "read", "begin", "prepare", "finalize"},
             Sent(c, op, This), UNCHANGED main,
             UNCHANGED <<phase, verdict, pending, gone, alive, closer, inits>>,
             \/ tx' = [tx EXCEPT ![This] = "begin"] /\ closer = None
             \/ UNCHANGED tx,
             c # Writer => closer = None /\ rec.stmt = None,
             IF op = "finalize" THEN rec.stmt \in map /\ map' = map \ {rec.stmt}
             ELSE map' = map /\ (rec.stmt # None => rec.stmt \in map /\ closer = None)
      PROVE  \E new : JsMove(new)
  <2>1. This \in Calls /\ made' = This /\ call' = [call EXCEPT ![This] = rec]  BY <1>6, MakesOne
  <2>2. [op |-> op, id |-> This] \in Block  BY <1>3, <2>1
  <2>3. Asks(rec)  BY <1>6, <2>2 DEF Asks, Sent
  <2>4. JsMove(rec)  BY <1>4, <1>6, <2>1, <2>3 DEF JsMove
  <2> QED  BY <2>4
<1>7. CASE Execute \/ Prepare
  <2>1. PICK kind \in {"write", "prepare"} :
          /\ Makes(Issued(kind)) /\ Sent(Writer, kind, This)
          /\ UNCHANGED <<main, openVars, stmtVars, tx>>
    BY <1>7 DEF Execute, Prepare
  <2> DEFINE rec == Issued(kind)
  <2>2. rec \in Call /\ rec.kind # "none" /\ ~rec.heard /\ rec.stmt = None  BY <1>1, <1>2
  <2>3. Makes(rec)  BY <2>1
  <2>4. kind \in {"write", "read", "begin", "prepare", "finalize"} /\ kind # "finalize"  OBVIOUS
  <2>5. UNCHANGED <<phase, verdict, pending, gone, alive, closer, inits>> /\ map' = map /\ UNCHANGED tx
    BY <2>1 DEF openVars, stmtVars
  <2> HIDE DEF rec
  <2> QED  BY <1>6, <2>1, <2>2, <2>3, <2>4, <2>5
<1>8. CASE Select
  <2> DEFINE rec == Issued("read")
  <2>1. rec \in Call /\ rec.kind # "none" /\ ~rec.heard /\ rec.stmt = None  BY <1>1, <1>2
  <2>2. Makes(rec) /\ UNCHANGED <<main, openVars, stmtVars, tx>>  BY <1>8 DEF Select
  <2>3. PICK c \in Conns : Sent(c, "read", This) /\ (c # Writer => closer = None)
    <3>1. 1 + turn \in Conns  BY ReadersAssumption DEF Shape, Conns
    <3>2. CASE Cleared  BY <1>8, <3>2 DEF Select
    <3>3. CASE ~Cleared  BY <1>8, <3>1, <3>3 DEF Select, IsOpen, None
    <3> QED  BY <3>2, <3>3
  <2>4. UNCHANGED <<phase, verdict, pending, gone, alive, closer, inits>> /\ map' = map /\ UNCHANGED tx
    BY <2>2 DEF openVars, stmtVars
  <2>5. "read" \in {"write", "read", "begin", "prepare", "finalize"}  OBVIOUS
  <2> HIDE DEF rec
  <2> QED  BY <1>6, <2>1, <2>2, <2>3, <2>4, <2>5
<1>9. CASE BeginRead
  <2> DEFINE rec == Issued("tx")
  <2>1. rec \in Call /\ rec.kind # "none" /\ ~rec.heard /\ rec.stmt = None  BY <1>1, <1>2
  <2>2. UNCHANGED <<openVars, stmtVars>> /\ tx' = [tx EXCEPT ![This] = "begin"] /\ closer = None
    BY <1>9 DEF BeginRead, IsOpen, None
  <2>3. UNCHANGED <<phase, verdict, pending, gone, alive, closer, inits>> /\ map' = map
    BY <2>2 DEF openVars, stmtVars
  <2>4. \/ AnsweredAt(rec, "error")
        \/ \E r \in free : Makes(rec) /\ Sent(r, "begin", This) /\ UNCHANGED main
    BY <1>9 DEF BeginRead
  <2> HIDE DEF rec
  <2>5. CASE AnsweredAt(rec, "error")  BY <1>5, <2>1, <2>2, <2>3, <2>5 DEF stmtVars
  <2>6. ASSUME NEW r \in free, Makes(rec), Sent(r, "begin", This), UNCHANGED main
        PROVE  \E new : JsMove(new)
    <3>1. r \in Conns /\ "begin" \in {"write", "read", "begin", "prepare", "finalize"}  BY DEF Shape
    <3> QED  BY <1>6, <2>1, <2>2, <2>3, <2>6, <3>1
  <2> QED  BY <2>4, <2>5, <2>6
<1>10. ASSUME NEW t \in Calls, TxRead(t) PROVE \E rec : JsMove(rec)
  <2> DEFINE rec == [Issued("read") EXCEPT !.of = t, !.late = tx[t] # "body"]
  <2>1. rec \in Call /\ rec.kind # "none" /\ ~rec.heard /\ rec.stmt = None
    <3>1. Issued("read") \in Call /\ Issued("read").kind = "read" /\ ~Issued("read").heard /\ Issued("read").stmt = None
      BY <1>1, <1>2
    <3> HIDE DEF Issued
    <3> QED  BY <3>1 DEF Call
  <2>2. UNCHANGED <<openVars, stmtVars, tx>>  BY <1>10 DEF TxRead
  <2>3. UNCHANGED <<phase, verdict, pending, gone, alive, closer, inits>> /\ map' = map /\ UNCHANGED tx
    BY <2>2 DEF openVars, stmtVars
  <2>4. \/ AnsweredAt(rec, "error")
        \/ handle[t] # None /\ Makes(rec) /\ Sent(handle[t], "read", This) /\ UNCHANGED main
    BY <1>10 DEF TxRead, ReaderOf
  <2> HIDE DEF rec
  <2>5. CASE AnsweredAt(rec, "error")  BY <1>5, <2>1, <2>2, <2>3, <2>5 DEF stmtVars
  <2>6. CASE handle[t] # None /\ Makes(rec) /\ Sent(handle[t], "read", This) /\ UNCHANGED main
    <3>1. handle[t] \in Conns /\ closer = None /\ "read" \in {"write", "read", "begin", "prepare", "finalize"}
      BY <2>6 DEF Shape, Numbered
    <3>2. PICK c \in Conns : c = handle[t]  BY <3>1
    <3> QED  BY <1>6, <2>1, <2>3, <2>6, <3>1, <3>2
  <2> QED  BY <2>4, <2>5, <2>6
\* A call of a prepared statement, and its end.
<1>11. ASSUME NEW s \in Held, NEW kind \in {"write", "read", "finalize"}
       PROVE  LET rec == [Issued(kind) EXCEPT !.stmt = s] IN
              rec \in Call /\ rec.kind # "none" /\ ~rec.heard /\ rec.kind # "tx" /\ rec.stmt = s /\ s # None /\ Prepared(s)
  <2>1. Issued(kind) \in Call /\ Issued(kind).kind = kind /\ ~Issued(kind).heard /\ Issued(kind).res = "none"
    BY <1>1, <1>2
  <2>2. s \in Calls /\ Prepared(s)  BY DEF Held, Prepared
  <2> QED  BY <2>1, <2>2 DEF Call
<1>12. ASSUME NEW s \in Calls, NEW kind \in {"write", "read"}, UsePrepared(s, kind) PROVE \E rec : JsMove(rec)
  <2> DEFINE rec == [Issued(kind) EXCEPT !.stmt = s]
  <2>1. rec \in Call /\ rec.kind # "none" /\ ~rec.heard /\ rec.kind # "tx" /\ rec.stmt = s /\ Prepared(s)
    BY <1>11, <1>12 DEF UsePrepared
  <2>2. UNCHANGED <<phase, verdict, pending, gone, alive, closer, inits>> /\ map' = map /\ UNCHANGED tx
    BY <1>12 DEF UsePrepared, openVars, stmtVars
  <2>3. \/ AnsweredAt(rec, "error")
        \/ s \in map /\ closer = None /\ Makes(rec) /\ Sent(Writer, kind, This) /\ UNCHANGED main
    BY <1>12 DEF UsePrepared, IsOpen, None
  <2>4. kind \in {"write", "read", "begin", "prepare", "finalize"} /\ kind # "finalize"  OBVIOUS
  <2> HIDE DEF rec
  <2> QED  BY <1>5, <1>6, <2>1, <2>2, <2>3, <2>4 DEF stmtVars
<1>13. ASSUME NEW s \in Calls, Finalize(s) PROVE \E rec : JsMove(rec)
  <2> DEFINE rec == [Issued("finalize") EXCEPT !.stmt = s]
  <2>1. rec \in Call /\ rec.kind # "none" /\ ~rec.heard /\ rec.kind # "tx" /\ rec.stmt = s /\ Prepared(s)
    BY <1>11, <1>13 DEF Finalize
  <2>2. UNCHANGED <<phase, verdict, pending, gone, alive, closer, inits>> /\ UNCHANGED tx
    BY <1>13 DEF Finalize, FinalizedAt, openVars, stmtVars
  <2>3. \/ AnsweredAt(rec, "ok") /\ UNCHANGED stmtVars
        \/ s \in map /\ Makes(rec) /\ Sent(Writer, "finalize", This) /\ UNCHANGED main /\ map' = map \ {s}
    BY <1>13 DEF Finalize
  <2>4. "finalize" \in {"write", "read", "begin", "prepare", "finalize"}  OBVIOUS
  <2> HIDE DEF rec
  <2> QED  BY <1>5, <1>6, <2>1, <2>2, <2>3, <2>4
<1>14. CASE Initialized
  <2> DEFINE rec == Issued("init")
  <2>1. rec \in Call /\ rec.kind # "none" /\ ~rec.heard /\ rec.stmt = None  BY <1>1, <1>2
  <2>2. /\ UNCHANGED <<phase, verdict, pending, gone, stmtVars, closer>> /\ UNCHANGED tx
        /\ \/ pending > 0 /\ Makes(rec) /\ inits' = Append(inits, This) /\ UNCHANGED <<main, queue>>
           \/ UNCHANGED inits /\ \E res \in {"ok", "error"} : AnsweredAt(rec, res)
    BY <1>14 DEF Initialized
  <2> HIDE DEF rec
  <2>3. CASE pending > 0 /\ Makes(rec) /\ inits' = Append(inits, This) /\ UNCHANGED <<main, queue>>
    <3>1. This \in Calls /\ made' = This /\ call' = [call EXCEPT ![This] = rec]  BY <2>1, <2>3, MakesOne
    <3>2. IsTold  BY <2>2, <2>3 DEF IsTold, stmtVars
    <3>3. JsMove(rec)  BY <1>4, <2>1, <2>2, <3>1, <3>2 DEF JsMove, stmtVars
    <3> QED  BY <3>3
  <2>4. CASE UNCHANGED inits /\ \E res \in {"ok", "error"} : AnsweredAt(rec, res)
    BY <1>5, <2>1, <2>2, <2>4
  <2> QED  BY <2>2, <2>3, <2>4
<1>15. CASE Close
  <2> DEFINE rec == Issued("close")
  <2>1. rec \in Call /\ rec.kind # "none" /\ ~rec.heard /\ rec.stmt = None  BY <1>1, <1>2
  <2>2. /\ UNCHANGED <<phase, verdict, pending, gone, inits, stmtVars>> /\ UNCHANGED tx
        /\ \/ AnsweredAt(rec, "ok") /\ UNCHANGED closer
           \/ /\ closer = 0 /\ Makes(rec) /\ closer' = This /\ UNCHANGED main
              /\ queue' = [c \in Conns |-> Append(queue[c], [op |-> "close", id |-> None])]
    BY <1>15 DEF Close
  <2> HIDE DEF rec
  <2>3. CASE AnsweredAt(rec, "ok") /\ UNCHANGED closer  BY <1>5, <2>1, <2>2, <2>3
  <2>4. CASE /\ closer = 0 /\ Makes(rec) /\ closer' = This /\ UNCHANGED main
             /\ queue' = [c \in Conns |-> Append(queue[c], [op |-> "close", id |-> None])]
    <3>1. This \in Calls /\ made' = This /\ call' = [call EXCEPT ![This] = rec]  BY <2>1, <2>4, MakesOne
    <3>2. Ending(rec)  BY <2>1, <2>2, <2>4 DEF Ending, stmtVars, None
    <3>3. JsMove(rec)  BY <1>4, <2>1, <2>2, <3>1, <3>2 DEF JsMove, stmtVars
    <3> QED  BY <3>3
  <2> QED  BY <2>2, <2>3, <2>4
<1> QED  BY <1>7, <1>8, <1>9, <1>10, <1>12, <1>13, <1>14, <1>15 DEF JsCalls

\* What a block does to the statements.
Leaves(c, found) ==
  /\ found.stmt = call[Id(c, 1)].stmt
  /\ Op(c, 1) = "finalize" => c = Writer /\ map' = map /\ alive' = alive \ {found.stmt}
  /\ Op(c, 1) # "finalize" =>
       \/ UNCHANGED <<map, alive>>
       \/ /\ Op(c, 1) = "prepare" /\ c = Writer /\ Writer \notin gone /\ found.res = "ok"
          /\ map' = map \cup {Id(c, 1)} /\ alive' = alive \cup {Id(c, 1)}

LEMMA RunLeaves ==
  ASSUME Shape, NEW c \in Conns, RunBlock(c), ~RunOpen(c), ~RunClose(c), NEW found, RunStep(c, found)
  PROVE  Leaves(c, found)
<1> USE Sets
<1>1. /\ queue[c] # <<>> /\ It(c) = Id(c, 1) /\ It(c) \in Calls /\ call' = [call EXCEPT ![It(c)] = found]
      /\ Head(queue[c]).op = Op(c, 1) /\ call'[It(c)] = found
  BY HeadBlock DEF RunStep, Op, Shape
<1>2. PICK done, bad : done = [call[It(c)] EXCEPT !.res = "ok"] /\ bad = [call[It(c)] EXCEPT !.res = "error"]
  OBVIOUS
<1>3. /\ done.res = "ok" /\ done.stmt = call[It(c)].stmt /\ bad.stmt = call[It(c)].stmt
  BY <1>1, <1>2 DEF Shape, Call
<1>4. CASE RunWrite /\ c = Writer
  <2>1. Op(c, 1) = "write" /\ UNCHANGED <<map, alive>>  BY <1>1, <1>4 DEF RunWrite, Runs, stmtVars
  <2>2. found = done \/ found = bad  BY <1>1, <1>2, <1>4 DEF RunWrite, Completes, Shape
  <2> QED  BY <1>1, <1>3, <2>1, <2>2 DEF Leaves
<1>5. CASE RunRead(c)
  <2>1. Op(c, 1) = "read" /\ UNCHANGED <<map, alive>>  BY <1>1, <1>5 DEF RunRead, Runs, stmtVars
  <2>2. PICK saw, t : saw = Visible(c) /\ t = IF InTx(c) THEN span[c] ELSE None  OBVIOUS
  <2>3. PICK new : new = [call[It(c)] EXCEPT !.res = "ok", !.saw = saw, !.span = t]  OBVIOUS
  <2>4. found = new \/ found = bad  BY <1>1, <1>2, <1>5, <2>2, <2>3 DEF RunRead, Completes, Shape
  <2>5. new.stmt = call[It(c)].stmt  BY <1>1, <2>3 DEF Shape, Call
  <2> QED  BY <1>1, <1>3, <2>1, <2>4, <2>5 DEF Leaves
<1>6. CASE c \in Readers /\ RunBegin(c)
  <2>1. Op(c, 1) = "begin" /\ UNCHANGED <<map, alive>>  BY <1>1, <1>6 DEF RunBegin, Runs, stmtVars
  <2>2. found = done \/ found = bad  BY <1>1, <1>2, <1>6 DEF RunBegin, Completes, Shape
  <2> QED  BY <1>1, <1>3, <2>1, <2>2 DEF Leaves
<1>7. CASE c \in Readers /\ RunEnd(c)
  <2>1. Op(c, 1) = "end" /\ UNCHANGED <<map, alive>> /\ UNCHANGED call
    BY <1>1, <1>7 DEF RunEnd, Runs, stmtVars, jsVars
  <2> QED  BY <1>1, <2>1 DEF Leaves
<1>8. CASE RunPrepare /\ c = Writer
  <2>1. Op(c, 1) = "prepare"  BY <1>1, <1>8 DEF RunPrepare, Runs
  <2>2. \/ /\ found = done /\ Writer \notin gone
           /\ map' = map \cup {It(c)} /\ alive' = alive \cup {It(c)}
        \/ found = bad /\ UNCHANGED <<map, alive>>
    BY <1>1, <1>2, <1>8 DEF RunPrepare, Completes, Up, stmtVars, Shape
  <2> QED  BY <1>1, <1>3, <1>8, <2>1, <2>2 DEF Leaves
<1>9. CASE RunFinalize /\ c = Writer
  <2>1. Op(c, 1) = "finalize"  BY <1>1, <1>9 DEF RunFinalize, Runs
  <2>2. found = done /\ map' = map /\ alive' = alive \ {call[It(c)].stmt}
    BY <1>1, <1>2, <1>9 DEF RunFinalize, Completes, Shape
  <2> QED  BY <1>1, <1>3, <1>9, <2>1, <2>2 DEF Leaves
<1> QED  BY <1>4, <1>5, <1>6, <1>7, <1>8, <1>9 DEF RunBlock

\* A block that stays, with the same blocks before it, is no further behind the last one.
LEMMA BehindStays ==
  ASSUME NEW c, NEW i, NEW was, Stays(c, i, was), Behind(c, i)', c \in gone' => c \in gone
  PROVE  Behind(c, was) /\ was \in At(c) /\ Id(c, i)' = Id(c, was) /\ Op(c, i)' = Op(c, was)
<1>1. /\ was \in At(c) /\ queue'[c][i] = queue[c][was]
      /\ \A j \in 1..(i - 1) : \E e \in 1..(was - 1) : queue'[c][j] = queue[c][e]
  BY DEF Stays
<1>2. CASE c \in gone'  BY <1>1, <1>2 DEF Behind, Op, Id
<1>3. CASE c \notin gone'
  <2>1. PICK j \in 1..(i - 1) : Op(c, j)' = "close"  BY <1>3 DEF Behind
  <2>2. PICK e \in 1..(was - 1) : queue'[c][j] = queue[c][e]  BY <1>1, <2>1
  <2>3. Op(c, e) = "close"  BY <2>1, <2>2 DEF Op
  <2> QED  BY <1>1, <2>2, <2>3 DEF Behind, Op, Id
<1> QED  BY <1>2, <1>3

\* Until close() is called there is no last block.
LEMMA NothingBehind ==
  ASSUME Shape, Queued, Ends, closer = None, NEW c \in Conns
  PROVE  c \notin gone /\ \A i \in At(c) : Op(c, i) # "close"
<1>1. c \notin gone  BY DEF Ends
<1>2. ASSUME NEW i \in At(c) PROVE Op(c, i) # "close"
  <2>1. queue[c][i] \in Blocks(c)  BY DEF Blocks
  <2> QED  BY <2>1, BlockFacts DEF Placed, Op
<1> QED  BY <1>1, <1>2

\* A block is sent: to the writer, if close() has been called.
LEMMA EndsSent ==
  ASSUME Shape, Queued, Ends, NEW c \in Conns, NEW b \in Block, queue' = [queue EXCEPT ![c] = Append(@, b)],
         UNCHANGED <<gone, closer>>, b.op # "close", closer = None \/ (c = Writer /\ b.id > closer)
  PROVE  Ends'
<1> USE Sets
<1>1. ASSUME NEW d \in Conns, NEW i \in At(d)', Behind(d, i)'
      PROVE  d = Writer /\ Op(d, i)' # "close" /\ Id(d, i)' > closer
  <2>1. \/ Stays(d, i, i)
        \/ d = c /\ queue'[d][i] = b /\ Joins(d, i)
    BY AppendedPrefix
  <2>2. CASE Stays(d, i, i)
    <3>1. Behind(d, i) /\ i \in At(d) /\ Id(d, i)' = Id(d, i) /\ Op(d, i)' = Op(d, i)
      BY <1>1, <2>2, BehindStays
    <3> QED  BY <3>1 DEF Ends
  <2>3. CASE d = c /\ queue'[d][i] = b /\ Joins(d, i)
    <3>1. closer # None
      <4>1. ASSUME closer = None PROVE FALSE
        <5>1. d \notin gone /\ \A j \in At(d) : Op(d, j) # "close"  BY <4>1, NothingBehind
        <5>2. \A j \in 1..(i - 1) : Op(d, j)' # "close"  BY <2>3, <5>1 DEF Joins, Op
        <5> QED  BY <1>1, <5>1, <5>2 DEF Behind
      <4> QED  BY <4>1
    <3> QED  BY <2>3, <3>1 DEF Op, Id
  <2> QED  BY <2>1, <2>2, <2>3
<1>2. closer # None => \A d \in Conns : d \in gone \/ \E i \in At(d)' : Op(d, i)' = "close"
  <2> SUFFICES ASSUME closer # None, NEW d \in Conns, d \notin gone PROVE \E i \in At(d)' : Op(d, i)' = "close"
    OBVIOUS
  <2>1. PICK i \in At(d) : Op(d, i) = "close"  BY DEF Ends
  <2>2. i \in At(d)' /\ queue'[d][i] = queue[d][i]  BY DEF Shape, At
  <2> QED  BY <2>1, <2>2 DEF Op
<1> QED  BY <1>1, <1>2 DEF Ends

\* The last blocks are sent.
LEMMA EndsClosed ==
  ASSUME Shape, Queued, Ends, closer = None, closer' # None, UNCHANGED gone,
         queue' = [c \in Conns |-> Append(queue[c], [op |-> "close", id |-> None])]
  PROVE  Ends'
<1> USE Sets
<1>0. \A b \in {[op |-> "close", id |-> None]} : b \in Block /\ b.op = "close"  BY DEF Block
<1>1. PICK b : b = [op |-> "close", id |-> None]  OBVIOUS
<1>2. b \in Block /\ b.op = "close" /\ queue' = [c \in Conns |-> Append(queue[c], b)]  BY <1>0, <1>1
<1>3. ASSUME NEW d \in Conns, NEW i \in At(d)' PROVE ~Behind(d, i)'
  <2>1. d \notin gone /\ \A j \in At(d) : Op(d, j) # "close"  BY NothingBehind
  <2>2. \A j \in 1..(i - 1) : j \in At(d) /\ queue'[d][j] = queue[d][j]  BY <1>2, <1>3 DEF Shape, At
  <2>3. \A j \in 1..(i - 1) : Op(d, j)' # "close"  BY <2>1, <2>2 DEF Op
  <2> QED  BY <2>1, <2>3 DEF Behind
<1>4. ASSUME NEW d \in Conns PROVE \E i \in At(d)' : Op(d, i)' = "close"
  <2>1. Len(queue[d]) + 1 \in At(d)' /\ queue'[d][Len(queue[d]) + 1] = b  BY <1>2 DEF Shape, At
  <2> QED  BY <1>2, <2>1 DEF Op
<1> QED  BY <1>3, <1>4 DEF Ends

\* A block runs that is not the last of its connection,
LEMMA EndsRan ==
  ASSUME Shape, Ends, NEW c \in Conns, queue[c] # <<>>, queue' = [queue EXCEPT ![c] = Tail(@)],
         UNCHANGED <<gone, closer>>, Op(c, 1) # "close"
  PROVE  Ends'
<1> USE Sets
<1>1. ASSUME NEW d \in Conns, NEW i \in At(d)', Behind(d, i)'
      PROVE  d = Writer /\ Op(d, i)' # "close" /\ Id(d, i)' > closer
  <2>1. PICK was : Stays(d, i, was)  BY DroppedPrefix
  <2>2. Behind(d, was) /\ was \in At(d) /\ Id(d, i)' = Id(d, was) /\ Op(d, i)' = Op(d, was)
    BY <1>1, <2>1, BehindStays
  <2> QED  BY <2>2 DEF Ends
<1>2. ASSUME closer # None, NEW d \in Conns, d \notin gone PROVE \E i \in At(d)' : Op(d, i)' = "close"
  <2>1. PICK i \in At(d) : Op(d, i) = "close"  BY <1>2 DEF Ends
  <2>2. CASE d = c
    <3>1. i # 1  BY <2>1, <2>2
    <3>2. i - 1 \in At(d)' /\ queue'[d][i - 1] = queue[d][i]  BY <2>2, <3>1 DEF Shape, At
    <3> QED  BY <2>1, <3>2 DEF Op
  <2>3. CASE d # c
    <3>1. queue'[d] = queue[d]  BY <2>3 DEF Shape
    <3> QED  BY <2>1, <3>1 DEF Op, At
  <2> QED  BY <2>2, <2>3
<1> QED  BY <1>1, <1>2 DEF Ends

\* and the last one.
LEMMA EndsOver ==
  ASSUME Shape, Queued, Ends, NEW c \in Conns, RunClose(c)
  PROVE  Ends' /\ c \notin gone /\ closer # None /\ \A i \in At(c) : i # 1 => Behind(c, i)
<1> USE Sets
<1>1. queue[c] # <<>> /\ queue' = [queue EXCEPT ![c] = Tail(@)] /\ gone' = gone \cup {c} /\ UNCHANGED closer
      /\ Op(c, 1) = "close" /\ 1 \in At(c)
  BY HeadBlock DEF RunClose, Runs, Popped, Op
<1>2. c \notin gone /\ closer # None
  <2>1. ~Behind(c, 1)  BY <1>1 DEF Ends
  <2>2. closer # None  BY <1>1, NothingBehind
  <2> QED  BY <2>1, <2>2 DEF Behind
<1>3. \A i \in At(c) : i # 1 => Behind(c, i)
  <2> SUFFICES ASSUME NEW i \in At(c), i # 1 PROVE Behind(c, i)  OBVIOUS
  <2>1. i \in Nat  BY DEF Shape, At
  <2>2. 1 \in 1..(i - 1)  BY <2>1 DEF At
  <2> QED  BY <1>1, <2>2 DEF Behind
<1>4. ASSUME NEW d \in Conns, NEW i \in At(d)', Behind(d, i)'
      PROVE  d = Writer /\ Op(d, i)' # "close" /\ Id(d, i)' > closer
  <2>1. CASE d = c
    <3>0. queue[c] # <<>> /\ queue' = [queue EXCEPT ![c] = Tail(@)]  BY <1>1
    <3>4. i + 1 \in At(d) /\ queue'[d][i] = queue[d][i + 1]  BY <2>1, <3>0 DEF Shape, At
    <3>2. i + 1 # 1
      <4>1. queue'[d] \in Seq(Block)  BY <1>1, HeadBlock DEF Shape
      <4> QED  BY <4>1 DEF At
    <3>3. Behind(d, i + 1)  BY <1>3, <2>1, <3>4, <3>2
    <3> QED  BY <3>4, <3>3 DEF Ends, Op, Id
  <2>2. CASE d # c
    <3>1. Stays(d, i, i)  BY <1>1, <2>2, DroppedPrefix
    <3>2. Behind(d, i) /\ i \in At(d) /\ Id(d, i)' = Id(d, i) /\ Op(d, i)' = Op(d, i)
      BY <1>1, <1>4, <2>2, <3>1, BehindStays
    <3> QED  BY <3>2 DEF Ends
  <2> QED  BY <2>1, <2>2
<1>5. ASSUME NEW d \in Conns, d \notin gone' PROVE \E i \in At(d)' : Op(d, i)' = "close"
  <2>1. d # c /\ d \notin gone  BY <1>1, <1>5
  <2>2. PICK i \in At(d) : Op(d, i) = "close"  BY <1>2, <2>1 DEF Ends
  <2>3. queue'[d] = queue[d]  BY <1>1, <2>1 DEF Shape
  <2> QED  BY <2>2, <2>3 DEF Op, At
<1>6. Ends'  BY <1>1, <1>2, <1>4, <1>5 DEF Ends
<1> QED  BY <1>2, <1>3, <1>6

\* The calls that have been made come before the next one.
LEMMA Earlier ==
  ASSUME Shape, Numbered, This \in Calls
  PROVE  /\ call[This] = NoCall /\ call[This].kind = "none" /\ This > closer /\ This # closer
         /\ \A k \in Calls : call[k].kind # "none" => k < This /\ k # This
<1>1. made \in Nat /\ This = made + 1 /\ This > made  BY ReadersAssumption DEF Shape, This
<1>2. NoCall.kind = "none"  BY DEF NoCall
<1>3. call[This] = NoCall  BY <1>1 DEF Numbered
<1>4. \A k \in Calls : k \in Nat /\ k > 0  BY ReadersAssumption DEF Calls
<1>5. \A k \in Calls : k > made => call[k].kind = "none"  BY <1>2 DEF Numbered
<1>6. ASSUME NEW k \in Calls, call[k].kind # "none" PROVE k < This /\ k # This
  <2>1. ~(k > made) /\ k \in Nat  BY <1>4, <1>5, <1>6
  <2> QED  BY <1>1, <2>1
<1>7. closer # None => closer \in Calls /\ call[closer].kind # "none"  BY DEF Shape, Numbered
<1>8. This > closer /\ This # closer
  <2>1. CASE closer = None  BY <1>1, <2>1 DEF None
  <2>2. CASE closer # None
    <3>1. closer < This /\ closer # This /\ closer \in Nat  BY <1>4, <1>6, <1>7, <2>2
    <3> QED  BY <1>1, <3>1
  <2> QED  BY <2>1, <2>2
<1> QED  BY <1>2, <1>3, <1>6, <1>8

\* A step that moves no block and closes nothing.
LEMMA EndsKept == Ends /\ UNCHANGED <<queue, gone, closer>> => Ends'
BY DEF Ends, Behind, At, Op, Id

\* Behind the last block of a connection there is none but of later calls, on the writer.
LEMMA EndsStep ==
  ASSUME Shape, Numbered, Queued, Opening, Opened, Ends, [Next]_vars
  PROVE  Ends'
<1> USE Sets
<1>1. ASSUME NEW rec, JsMove(rec) PROVE Ends'
  <2>1. This \in Calls /\ UNCHANGED gone /\ (Asks(rec) \/ IsTold \/ Ending(rec))  BY <1>1 DEF JsMove
  <2>2. CASE Asks(rec)
    <3>1. PICK c \in Conns, op \in {"write", "read", "begin", "prepare", "finalize"} :
            /\ [op |-> op, id |-> This] \in Block
            /\ queue' = [queue EXCEPT ![c] = Append(@, [op |-> op, id |-> This])] /\ UNCHANGED closer
            /\ c # Writer => closer = None
      BY <2>2 DEF Asks
    <3>2. PICK b : b = [op |-> op, id |-> This]  OBVIOUS
    <3>3. b \in Block /\ b.op # "close" /\ b.id = This /\ queue' = [queue EXCEPT ![c] = Append(@, b)]
      BY <3>1, <3>2
    <3>4. This > closer  BY <2>1, Earlier
    <3> QED  BY <2>1, <3>1, <3>3, <3>4, EndsSent
  <2>3. CASE IsTold  BY <2>1, <2>3, EndsKept DEF IsTold
  <2>4. CASE Ending(rec)
    <3>1. closer = None /\ closer' # None
          /\ queue' = [c \in Conns |-> Append(queue[c], [op |-> "close", id |-> None])]
      BY <2>1, <2>4 DEF Ending
    <3> QED  BY <2>1, <3>1, EndsClosed
  <2> QED  BY <2>1, <2>2, <2>3, <2>4
<1>2. ASSUME NEW t \in Calls, EndRead(t) PROVE Ends'
  <2>1. UNCHANGED <<gone, closer>>  BY <1>2 DEF EndRead, openVars
  <2>2. CASE handle[t] = None  BY <1>2, <2>1, <2>2, EndsKept DEF EndRead
  <2>3. CASE handle[t] # None
    <3>1. PICK c \in Conns : c = handle[t]  BY <2>3 DEF Shape
    <3>2. PICK b : b = [op |-> "end", id |-> t]  OBVIOUS
    <3>3. b \in Block /\ b.op # "close"  BY <3>2 DEF Block
    <3>4. queue' = [queue EXCEPT ![c] = Append(@, b)]  BY <1>2, <2>3, <3>1, <3>2 DEF EndRead, Sent
    <3>5. closer = None  BY <2>3 DEF Numbered
    <3> QED  BY <2>1, <3>3, <3>4, <3>5, EndsSent
  <2> QED  BY <2>2, <2>3
<1>3. ASSUME NEW c, NEW found, RunStep(c, found) PROVE Ends'
  BY <1>3, EndsRan DEF RunStep, openVars
<1>4. ASSUME NEW c \in Conns, RunOpen(c) PROVE Ends'
  <2>1. queue[c] # <<>> /\ queue' = [queue EXCEPT ![c] = Tail(@)] /\ UNCHANGED <<gone, closer>> /\ Op(c, 1) # "close"
    BY <1>4, HeadBlock DEF RunOpen, Runs, Popped, Op
  <2> QED  BY <2>1, EndsRan
<1>5. ASSUME NEW c \in Conns, RunClose(c) PROVE Ends'  BY <1>5, EndsOver
<1>6. CASE OpenAsync \/ OpenSync
  <2>1. /\ closer = None /\ UNCHANGED <<gone, closer>>
        /\ \A c \in Conns : queue'[c] \in {<<>>, <<[op |-> "open", id |-> None]>>}
    BY <1>6 DEF OpenAsync, OpenSync, ReaderOpens, Opened
  <2>2. gone = {}  BY <2>1 DEF Ends
  <2>3. \A c \in Conns : \A i \in At(c)' : ~Behind(c, i)'
    <3> SUFFICES ASSUME NEW c \in Conns, NEW i \in At(c)', Behind(c, i)' PROVE FALSE  OBVIOUS
    <3>1. PICK q : q = queue'[c]  OBVIOUS
    <3>2. i = 1
      <4>1. PICK b : b = [op |-> "open", id |-> None]  OBVIOUS
      <4>2. q = <<>> \/ q = <<b>>  BY <2>1, <3>1, <4>1
      <4>3. i \in 1..Len(q)  BY <3>1 DEF At
      <4>4. Len(q) = 0 \/ Len(q) = 1
        <5>1. CASE q = <<>>  BY <5>1
        <5>2. CASE q = <<b>>  BY <5>2
        <5> QED  BY <4>2, <5>1, <5>2
      <4>5. PICK n : n = Len(q)  OBVIOUS
      <4>6. (n = 0 \/ n = 1) /\ i \in 1..n  BY <4>3, <4>4, <4>5
      <4>7. CASE n = 0  BY <4>6, <4>7
      <4>8. CASE n = 1  BY <4>6, <4>8
      <4> QED  BY <4>6, <4>7, <4>8
    <3> QED  BY <2>1, <2>2, <3>2 DEF Behind
  <2> QED  BY <2>1, <2>2, <2>3 DEF Ends
<1>7. CASE Deliver \/ UNCHANGED vars  BY <1>7, EndsKept DEF Deliver, vars, openVars
<1>8. CASE JsCalls  BY <1>1, <1>2, <1>6, <1>8, JsMoves
<1>9. ASSUME NEW c \in Conns, RunBlock(c) PROVE Ends'  BY <1>3, <1>4, <1>5, <1>9, RunSteps
<1> QED  BY <1>7, <1>8, <1>9 DEF Next

\* The head of a queue stays when a block is appended.
LEMMA HeadStays ==
  ASSUME Shape, NEW c \in Conns, queue[c] # <<>>,
         queue'[c] = queue[c] \/ \E b \in Block : queue'[c] = Append(queue[c], b)
  PROVE  queue'[c] # <<>> /\ Op(c, 1)' = Op(c, 1)
<1>1. PICK q \in Seq(Block) : q = queue[c]  BY DEF Shape
<1>2. q # <<>> /\ (queue'[c] = q \/ \E b \in Block : queue'[c] = Append(q, b))  BY <1>1
<1>3. queue'[c] # <<>> /\ queue'[c][1] = q[1]  BY <1>2
<1> QED  BY <1>1, <1>3 DEF Op

\* A connection whose open has not ended has nothing but its open to run.
LEMMA OpenedStep ==
  ASSUME Shape, Numbered, Queued, Opening, Opened, Ends, [Next]_vars
  PROVE  Opened'
<1> USE Sets
\* Blocks may be sent while the database is open,
<1>1. ASSUME phase = "opened", UNCHANGED <<phase, verdict, gone>>,
             \A c \in Conns : queue'[c] = queue[c] \/ \E b \in Block : queue'[c] = Append(queue[c], b)
      PROVE  Opened'
  <2>1. ASSUME NEW c \in Conns, verdict[c] = "none" PROVE c \notin gone /\ queue'[c] # <<>> /\ Op(c, 1)' = "open"
    <3>1. c \notin gone /\ queue[c] # <<>> /\ Op(c, 1) = "open"  BY <1>1, <2>1 DEF Opened
    <3> QED  BY <1>1, <3>1, HeadStays
  <2> QED  BY <1>1, <2>1 DEF Opened
\* and run on a connection that is open.
<1>2. ASSUME NEW c \in Conns, queue[c] # <<>>, queue' = [queue EXCEPT ![c] = Tail(@)], UNCHANGED phase,
             verdict'[c] # "none", \A d \in Conns : d # c => verdict'[d] = verdict[d] /\ (d \in gone' => d \in gone)
      PROVE  Opened'
  <2>1. phase = "opened"  BY <1>2 DEF Opened
  <2>2. ASSUME NEW d \in Conns, verdict'[d] = "none" PROVE d \notin gone' /\ queue'[d] # <<>> /\ Op(d, 1)' = "open"
    <3>1. d # c /\ verdict[d] = "none" /\ queue'[d] = queue[d]  BY <1>2, <2>2 DEF Shape
    <3>2. d \notin gone /\ queue[d] # <<>> /\ Op(d, 1) = "open"  BY <2>1, <3>1 DEF Opened
    <3> QED  BY <1>2, <3>1, <3>2 DEF Op
  <2> QED  BY <1>2, <2>1, <2>2 DEF Opened
<1>3. ASSUME NEW c \in Conns, queue[c] # <<>>, Op(c, 1) # "open" PROVE verdict[c] # "none"
  BY <1>3 DEF Opened
<1>4. ASSUME NEW rec, JsMove(rec) PROVE Opened'
  <2>1. phase = "opened" /\ UNCHANGED <<phase, verdict, gone>> /\ (Asks(rec) \/ IsTold \/ Ending(rec))
    BY <1>4 DEF JsMove
  <2>2. ASSUME NEW c \in Conns PROVE queue'[c] = queue[c] \/ \E b \in Block : queue'[c] = Append(queue[c], b)
    <3>1. CASE Asks(rec)
      <4>1. PICK d \in Conns, b \in Block : queue' = [queue EXCEPT ![d] = Append(@, b)]  BY <3>1 DEF Asks
      <4> QED  BY <4>1 DEF Shape
    <3>2. CASE IsTold  BY <3>2 DEF IsTold
    <3>3. CASE Ending(rec)
      <4>1. \A b \in {[op |-> "close", id |-> None]} : b \in Block  BY DEF Block
      <4>2. queue'[c] = Append(queue[c], [op |-> "close", id |-> None])  BY <3>3 DEF Ending
      <4> QED  BY <4>1, <4>2
    <3> QED  BY <2>1, <3>1, <3>2, <3>3
  <2> QED  BY <1>1, <2>1, <2>2
<1>5. ASSUME NEW t \in Calls, EndRead(t) PROVE Opened'
  <2>1. phase = "opened"
    <3>1. call[t].kind = "tx"  BY <1>5 DEF EndRead, Numbered
    <3>2. made # 0  BY <3>1 DEF Numbered, NoCall, Calls
    <3> QED  BY <3>2 DEF Opened
  <2>2. UNCHANGED <<phase, verdict, gone>>  BY <1>5 DEF EndRead, openVars
  <2>3. ASSUME NEW c \in Conns PROVE queue'[c] = queue[c] \/ \E b \in Block : queue'[c] = Append(queue[c], b)
    <3>1. CASE handle[t] = None  BY <1>5, <3>1 DEF EndRead
    <3>2. CASE handle[t] # None
      <4>1. [op |-> "end", id |-> t] \in Block  BY DEF Block
      <4>2. queue' = [queue EXCEPT ![handle[t]] = Append(@, [op |-> "end", id |-> t])]
        BY <1>5, <3>2 DEF EndRead, Sent
      <4> QED  BY <4>1, <4>2 DEF Shape
    <3> QED  BY <3>1, <3>2
  <2> QED  BY <1>1, <2>1, <2>2, <2>3
<1>6. ASSUME NEW c, NEW found, RunStep(c, found) PROVE Opened'
  <2>1. /\ c \in Conns /\ queue[c] # <<>> /\ Op(c, 1) # "open" /\ queue' = [queue EXCEPT ![c] = Tail(@)]
        /\ UNCHANGED <<phase, verdict, gone>>
    BY <1>6 DEF RunStep, openVars
  <2> QED  BY <1>2, <1>3, <2>1
<1>7. ASSUME NEW c \in Conns, RunOpen(c) PROVE Opened'
  <2>1. /\ queue[c] # <<>> /\ queue' = [queue EXCEPT ![c] = Tail(@)] /\ UNCHANGED <<phase, gone>>
        /\ \E ok \in BOOLEAN : OpenFinished(c, ok)
    BY <1>7 DEF RunOpen, Runs, Popped
  <2>2. verdict'[c] # "none" /\ \A d \in Conns : d # c => verdict'[d] = verdict[d]
    BY <2>1 DEF OpenFinished, Shape
  <2> QED  BY <1>2, <2>1, <2>2
<1>8. ASSUME NEW c \in Conns, RunClose(c) PROVE Opened'
  <2>1. /\ queue[c] # <<>> /\ Op(c, 1) # "open" /\ queue' = [queue EXCEPT ![c] = Tail(@)]
        /\ UNCHANGED <<phase, verdict>> /\ gone' = gone \cup {c}
    BY <1>8, HeadBlock DEF RunClose, Runs, Popped, Op
  <2> QED  BY <1>2, <1>3, <2>1
<1>9. CASE OpenAsync
  <2>1. phase' = "opened" /\ gone' = gone /\ \A c \in Conns : queue'[c] = <<[op |-> "open", id |-> None]>>
    BY <1>9 DEF OpenAsync, ReaderOpens
  <2>2. gone = {}  BY <1>9 DEF OpenAsync, Opened, Ends
  <2>3. ASSUME NEW c \in Conns PROVE queue'[c] # <<>> /\ Op(c, 1)' = "open"
    <3>1. PICK b : b = [op |-> "open", id |-> None]  OBVIOUS
    <3>2. queue'[c] = <<b>> /\ b.op = "open"  BY <2>1, <3>1
    <3>3. queue'[c] # <<>> /\ queue'[c][1] = b  BY <3>2
    <3> QED  BY <3>2, <3>3 DEF Op
  <2> QED  BY <2>1, <2>2, <2>3 DEF Opened
<1>10. CASE OpenSync
  <2>1. UNCHANGED <<made, closer, gone>> /\ gone = {}  BY <1>10 DEF OpenSync, Opened, Ends, jsVars
  <2>2. CASE phase' = "threw"
    <3>1. UNCHANGED queue /\ phase # "opened"  BY <1>10, <2>2 DEF OpenSync
    <3> QED  BY <2>1, <2>2, <3>1 DEF Opened
  <2>3. CASE phase' # "threw"
    <3>1. phase' = "opened" /\ verdict' = [verdict EXCEPT ![Writer] = "ok"]
          /\ \A c \in Conns : c # Writer => queue'[c] = <<[op |-> "open", id |-> None]>>
      BY <1>10, <2>3 DEF OpenSync, ReaderOpens
    <3>2. \A c \in Conns : c # Writer => queue'[c] # <<>> /\ Op(c, 1)' = "open"  BY <3>1 DEF Op
    <3> QED  BY <2>1, <3>1, <3>2 DEF Opened, Shape
  <2> QED  BY <2>2, <2>3
<1>11. CASE Deliver \/ UNCHANGED vars
  BY <1>11 DEF Deliver, vars, openVars, jsVars, Opened, Op
<1>12. CASE JsCalls  BY <1>4, <1>5, <1>9, <1>10, <1>12, JsMoves
<1>13. ASSUME NEW c \in Conns, RunBlock(c) PROVE Opened'  BY <1>6, <1>7, <1>8, <1>13, RunSteps
<1> QED  BY <1>11, <1>12, <1>13 DEF Next

-----------------------------------------------------------------------------
(* Statements.                                                             *)

\* A call keeps its statement, and a statement stays prepared.
StmtsStay ==
  /\ \A k \in Calls : call[k].kind # "none" => call'[k].stmt = call[k].stmt
  /\ \A s \in Calls : Prepared(s) => Prepared(s)'
  /\ \A k \in Calls : call'[k].stmt # None => Prepared(call'[k].stmt) /\ call'[k].kind # "tx"

LEMMA StmtsStayStep ==
  ASSUME Shape, Numbered, Queued, Opening, Opened, Statements, [Next]_vars
  PROVE  StmtsStay
<1> USE Sets
<1>1. NoCall.kind = "none" /\ NoCall.stmt = None  BY DEF NoCall
<1>2. ASSUME NEW s \in Calls, Prepared(s) PROVE Prepared(s)'
  <2>1. call[s].kind = "prepare" /\ call[s].res = "ok"  BY <1>2 DEF Prepared
  <2>2. call'[s].kind = call[s].kind /\ call'[s].res = call[s].res  BY <2>1, CallsKept
  <2> QED  BY <2>1, <2>2 DEF Prepared
<1>3. \A k \in Calls : call[k].stmt # None => Prepared(call[k].stmt) /\ call[k].kind # "tx"  BY DEF Statements, Bound
\* Most steps leave the statements and the kinds of all calls.
<1>4. ASSUME \A k \in Calls : call'[k].stmt = call[k].stmt /\ call'[k].kind = call[k].kind PROVE StmtsStay
  BY <1>2, <1>3, <1>4 DEF StmtsStay
<1>5. ASSUME NEW rec, JsMove(rec) PROVE StmtsStay
  <2>1. /\ This \in Calls /\ call' = [call EXCEPT ![This] = rec]
        /\ rec.stmt # None => Prepared(rec.stmt) /\ rec.kind # "tx"
    BY <1>5 DEF JsMove
  <2>2. \A k \in Calls : call[k].kind # "none" => k # This  BY <2>1, Earlier
  <2>3. \A k \in Calls : call'[k] = IF k = This THEN rec ELSE call[k]  BY <2>1 DEF Shape
  <2>4. \A k \in Calls : call'[k].stmt # None => Prepared(call'[k].stmt) /\ call'[k].kind # "tx"
    <3> SUFFICES ASSUME NEW k \in Calls, call'[k].stmt # None
                 PROVE  Prepared(call'[k].stmt) /\ call'[k].kind # "tx"
      OBVIOUS
    <3>1. CASE k = This
      <4>1. call'[k] = rec  BY <2>3, <3>1
      <4> QED  BY <2>1, <4>1
    <3>2. CASE k # This
      <4>1. call'[k] = call[k]  BY <2>3, <3>2
      <4> QED  BY <1>3, <4>1
    <3> QED  BY <3>1, <3>2
  <2> QED  BY <1>2, <2>2, <2>3, <2>4 DEF StmtsStay
<1>6. ASSUME NEW c \in Conns, RunBlock(c), ~RunOpen(c), ~RunClose(c) PROVE StmtsStay
  <2>1. PICK found : RunStep(c, found)  BY <1>6, RunSteps
  <2>2. /\ call' = [call EXCEPT ![Id(c, 1)] = found] /\ Id(c, 1) \in Calls
        /\ found.kind = call[Id(c, 1)].kind
    BY <2>1 DEF RunStep
  <2>3. found.stmt = call[Id(c, 1)].stmt  BY <1>6, <2>1, RunLeaves DEF Leaves
  <2> QED  BY <1>4, <2>2, <2>3 DEF Shape
<1>7. \A rec \in Call, res \in {"ok", "error"} : [rec EXCEPT !.res = res].stmt = rec.stmt /\ [rec EXCEPT !.res = res].kind = rec.kind
  BY DEF Call
<1>8. ASSUME NEW c \in Conns, RunOpen(c) PROVE StmtsStay
  <2>1. ASSUME NEW k \in Calls PROVE call'[k].stmt = call[k].stmt /\ call'[k].kind = call[k].kind
    <3>1. PICK res \in {"ok", "error"} : res = IF failed' THEN "error" ELSE "ok"  OBVIOUS
    <3>2. \/ call' = call
          \/ call' = [j \in Calls |-> IF call[j].kind = "init" /\ call[j].res = "none"
                                        THEN [call[j] EXCEPT !.res = res] ELSE call[j]]
      BY <1>8, <3>1 DEF RunOpen, OpenFinished
    <3>3. call[k] \in Call  BY DEF Shape
    <3>4. call'[k] \in {call[k], [call[k] EXCEPT !.res = res]}  BY <3>2
    <3> QED  BY <1>7, <3>3, <3>4
  <2> QED  BY <1>4, <2>1
<1>9. ASSUME NEW c \in Conns, RunClose(c) PROVE StmtsStay
  <2>1. closer \in Calls  BY <1>9, CloseTells
  <2>2. call' = call \/ call' = [call EXCEPT ![closer] = [call[closer] EXCEPT !.res = "ok"]]
    BY <1>9, <2>1 DEF RunClose, Shape
  <2>3. call[closer] \in Call  BY <2>1 DEF Shape
  <2> QED  BY <1>4, <1>7, <2>1, <2>2, <2>3 DEF Shape
<1>10. CASE Deliver
  <2>1. Head(main) \in Calls  BY <1>10, MainQueue DEF Deliver
  <2>2. call' = [call EXCEPT ![Head(main)] = [call[Head(main)] EXCEPT !.heard = TRUE]]
    BY <1>10, <2>1 DEF Deliver, Shape
  <2>3. PICK k \in Calls : k = Head(main)  BY <2>1
  <2>4. \A rec \in Call : [rec EXCEPT !.heard = TRUE].stmt = rec.stmt /\ [rec EXCEPT !.heard = TRUE].kind = rec.kind
    BY DEF Call
  <2> QED  BY <1>4, <2>2, <2>3, <2>4 DEF Shape
<1>11. CASE UNCHANGED call  BY <1>4, <1>11
<1>12. CASE JsCalls
  <2>1. (OpenAsync \/ OpenSync \/ \E t \in Calls : EndRead(t)) => UNCHANGED call
    BY DEF OpenAsync, OpenSync, EndRead, jsVars
  <2> QED  BY <1>5, <1>11, <1>12, <2>1, JsMoves
<1>13. ASSUME NEW c \in Conns, RunBlock(c) PROVE StmtsStay  BY <1>6, <1>8, <1>9, <1>13
<1> QED  BY <1>10, <1>11, <1>12, <1>13 DEF Next, vars, jsVars

\* A block that stays uses what it did.
LEMMA UsesStays ==
  ASSUME Shape, Queued, StmtsStay, NEW c \in Conns, NEW i, NEW was, Stays(c, i, was), NEW s
  PROVE  /\ was \in At(c) /\ Op(c, i)' = Op(c, was)
         /\ Uses(c, i, s)' => Uses(c, was, s)
         /\ Uses(c, was, s) => Uses(c, i, s)'
<1>1. was \in At(c) /\ queue'[c][i] = queue[c][was]  BY DEF Stays
<1>2. Op(c, i)' = Op(c, was) /\ Id(c, i)' = Id(c, was)  BY <1>1 DEF Op, Id
<1>3. ASSUME Id(c, was) # None PROVE call'[Id(c, was)].stmt = call[Id(c, was)].stmt
  <2>1. queue[c][was] \in Blocks(c)  BY <1>1 DEF Blocks
  <2>2. Id(c, was) \in Calls /\ call[Id(c, was)].kind # "none"  BY <1>3, <2>1, BlockFacts DEF Id
  <2> QED  BY <2>2 DEF StmtsStay
<1>4. Uses(c, i, s)' <=> Id(c, i)' # None /\ call'[Id(c, i)'].stmt = s  BY DEF Uses
<1>5. Uses(c, was, s) <=> Id(c, was) # None /\ call[Id(c, was)].stmt = s  BY DEF Uses
<1> QED  BY <1>1, <1>2, <1>3, <1>4, <1>5

\* What statements there are.
LEMMA PreparedStays ==
  ASSUME Statements, StmtsStay, Shape'
  PROVE  Bound' /\ \A s \in alive : s \in Calls /\ Prepared(s)'
<1>1. \A s \in Calls : Prepared(s) => Prepared(s)'  BY DEF StmtsStay
<1>2. ASSUME NEW k \in Calls, call'[k].stmt # None PROVE (Prepared(call[k].stmt) /\ call[k].kind # "tx")'
  <2>1. PICK s : s = call'[k].stmt  OBVIOUS
  <2>2. s \in Calls  BY <1>2, <2>1 DEF Shape, Call
  <2>3. Prepared(s) /\ call'[k].kind # "tx"  BY <1>2, <2>1 DEF StmtsStay
  <2>4. Prepared(s)'  BY <1>1, <2>2, <2>3
  <2> QED  BY <2>1, <2>3, <2>4 DEF Prepared
<1>3. ASSUME NEW s \in alive PROVE s \in Calls /\ Prepared(s)'  BY <1>1 DEF Statements
<1> QED  BY <1>2, <1>3 DEF Bound

\* A step that moves no block and leaves the statements alone.
LEMMA StatementsKept ==
  ASSUME Shape, Queued, Statements, StmtsStay, Shape', UNCHANGED <<queue, gone, map, alive>>
  PROVE  Statements'
<1> USE Sets
<1>1. Bound' /\ \A s \in alive' : s \in Calls /\ Prepared(s)'  BY PreparedStays
<1>2. \A c \in Conns : \A i \in At(c) : Stays(c, i, i)
  <2> SUFFICES ASSUME NEW c \in Conns, NEW i \in At(c) PROVE Stays(c, i, i)  OBVIOUS
  <2>1. i \in Nat \ {0}  BY DEF Shape, At
  <2> QED  BY <2>1, StaysPut
<1>3. \A c \in Conns : At(c)' = At(c)  BY DEF At
<1>4. \A c \in Conns : \A i \in At(c), s \in Calls : Uses(c, i, s)' <=> Uses(c, i, s)
  BY <1>2, UsesStays
<1>5. \A c \in Conns : \A i \in At(c) : Op(c, i)' = Op(c, i) /\ (Behind(c, i)' <=> Behind(c, i))
  BY DEF Behind, Op
<1>6. AllUsed'
  <2> SUFFICES ASSUME NEW c \in Conns, NEW i \in At(c), NEW s \in Calls, Uses(c, i, s)' PROVE Used(c, i, s)'
    BY <1>3 DEF AllUsed
  <2>1. Used(c, i, s)  BY <1>4 DEF Statements, AllUsed
  <2>2. \A j \in At(c)' : Uses(c, j, s)' => Uses(c, j, s)  BY <1>3, <1>4
  <2> QED  BY <1>3, <1>5, <2>1, <2>2 DEF Used
<1>7. ASSUME NEW s \in alive \ map PROVE \E i \in At(Writer)' : Finalizes(i, s)'
  <2>1. PICK i \in At(Writer) : Finalizes(i, s)  BY DEF Statements
  <2>2. s \in Calls  BY DEF Statements
  <2> QED  BY <1>3, <1>4, <1>5, <2>1, <2>2 DEF Finalizes
<1> QED  BY <1>1, <1>6, <1>7 DEF Statements

\* A block is sent: if it uses a statement, that is in the map.
LEMMA StatementsSent ==
  ASSUME Shape, Queued, Ends, Statements, StmtsStay, Shape', UNCHANGED <<gone, alive>>, map' \subseteq map,
         NEW c \in Conns, NEW b \in Block, queue' = [queue EXCEPT ![c] = Append(@, b)],
         \A s \in Calls : b.id # None /\ call'[b.id].stmt = s =>
           c = Writer /\ s \in map /\ IF b.op = "finalize" THEN s \notin map' ELSE closer = None,
         \A s \in map \ map' : c = Writer /\ b.op = "finalize" /\ b.id # None /\ call'[b.id].stmt = s
  PROVE  Statements'
<1> USE Sets
<1>1. Bound' /\ \A s \in alive' : s \in Calls /\ Prepared(s)'  BY PreparedStays
<1> DEFINE New(d, i) == d = c /\ i = Len(queue[c]) + 1 /\ queue'[d][i] = b
<1>2. ASSUME NEW d \in Conns, NEW i \in At(d)'
      PROVE  Stays(d, i, i) \/ (New(d, i) /\ Joins(d, i))
  <2>1. Stays(d, i, i) \/ (d = c /\ queue'[d][i] = b /\ Joins(d, i))  BY AppendedPrefix
  <2>2. (i \in At(d) /\ queue'[d][i] = queue[d][i]) \/ New(d, i)  BY Appended
  <2>3. ASSUME i \in At(d), d = c, Joins(d, i) PROVE Stays(d, i, i)
    <3>1. i \in Nat \ {0}  BY <2>3 DEF Shape, At
    <3>2. \A j \in 1..i : queue'[d][j] = queue[d][j]  BY <2>3 DEF Shape, At
    <3> QED  BY <2>3, <3>1, <3>2, StaysPut
  <2> QED  BY <2>1, <2>2, <2>3
<1>3. ASSUME NEW d \in Conns, NEW i \in At(d)', NEW s \in Calls, Uses(d, i, s)', New(d, i)
      PROVE  d = Writer /\ s \in map /\ IF b.op = "finalize" THEN s \notin map' ELSE closer = None
  <2>1. Id(d, i)' = b.id /\ d = c  BY <1>3 DEF Id
  <2>2. b.id # None /\ call'[b.id].stmt = s  BY <1>3, <2>1 DEF Uses
  <2> QED  BY <2>1, <2>2
<1>4. ASSUME NEW d \in Conns, NEW i \in At(d)', NEW s \in Calls, Uses(d, i, s)' PROVE Used(d, i, s)'
  <2>1. CASE Stays(d, i, i)
    <3>1. i \in At(d) /\ Op(d, i)' = Op(d, i) /\ Uses(d, i, s)  BY <1>4, <2>1, UsesStays
    <3>2. Used(d, i, s)  BY <3>1 DEF Statements, AllUsed
    <3>3. Behind(d, i)' => Behind(d, i)  BY <2>1, BehindStays
    <3>4. ASSUME Op(d, i) = "finalize", NEW j \in At(d)', Uses(d, j, s)' PROVE j <= i
      <4>1. CASE Stays(d, j, j)
        <5>1. j \in At(d) /\ Uses(d, j, s)  BY <3>4, <4>1, UsesStays
        <5> QED  BY <3>2, <3>4, <5>1 DEF Used
      <4>2. CASE New(d, j)  BY <1>3, <3>2, <3>4, <4>2 DEF Used
      <4> QED  BY <1>2, <4>1, <4>2
    <3> QED  BY <3>1, <3>2, <3>3, <3>4 DEF Used
  <2>2. CASE New(d, i) /\ Joins(d, i)
    <3>1. d = Writer /\ s \in map /\ IF b.op = "finalize" THEN s \notin map' ELSE closer = None
      BY <1>3, <1>4, <2>2
    <3>2. s \in alive /\ Op(d, i)' = b.op  BY <2>2, <3>1 DEF Statements, Op
    <3>3. ASSUME b.op # "finalize" PROVE ~Behind(d, i)'
      <4>1. d \notin gone /\ \A j \in At(d) : Op(d, j) # "close"  BY <3>1, <3>3, NothingBehind
      <4>2. \A j \in 1..(i - 1) : Op(d, j)' # "close"  BY <2>2, <4>1 DEF Joins, Op
      <4> QED  BY <4>1, <4>2 DEF Behind
    <3>4. \A j \in At(d)' : j <= i  BY <2>2 DEF Shape, At
    <3> QED  BY <3>1, <3>2, <3>3, <3>4 DEF Used
  <2> QED  BY <1>2, <2>1, <2>2
<1>5. ASSUME NEW s \in alive \ map' PROVE \E i \in At(Writer)' : Finalizes(i, s)'
  <2>1. CASE s \notin map
    <3>1. PICK i \in At(Writer) : Finalizes(i, s)  BY <2>1 DEF Statements
    <3>2. i \in At(Writer)' /\ Stays(Writer, i, i)
      <4>1. i \in At(Writer)' /\ \A j \in 1..i : queue'[Writer][j] = queue[Writer][j]
        <5>1. PICK q \in Seq(Block) : q = queue[Writer]  BY DEF Shape
        <5>2. i \in 1..Len(q)  BY <3>1, <5>1 DEF At
        <5>3. queue'[Writer] = q \/ queue'[Writer] = Append(q, b)  BY <5>1 DEF Shape
        <5>4. i \in 1..Len(Append(q, b)) /\ \A j \in 1..i : Append(q, b)[j] = q[j]  BY <5>2
        <5> QED  BY <5>1, <5>2, <5>3, <5>4 DEF At
      <4>2. i \in Nat \ {0}  BY DEF Shape, At
      <4> QED  BY <4>1, <4>2, StaysPut
    <3> QED  BY <3>1, <3>2, UsesStays DEF Finalizes
  <2>2. CASE s \in map
    <3>1. c = Writer /\ b.op = "finalize" /\ b.id # None /\ call'[b.id].stmt = s  BY <2>2
    <3>2. PICK i : i = Len(queue[c]) + 1  OBVIOUS
    <3>3. i \in At(c)' /\ queue'[c][i] = b  BY <3>2 DEF Shape, At
    <3> QED  BY <3>1, <3>3 DEF Finalizes, Uses, Op, Id
  <2> QED  BY <2>1, <2>2
<1> HIDE DEF New
<1>6. AllUsed'  BY <1>4 DEF AllUsed
<1> QED  BY <1>1, <1>5, <1>6 DEF Statements

\* The last blocks are sent.
LEMMA StatementsClosed ==
  ASSUME Shape, Queued, Ends, Statements, StmtsStay, Shape', UNCHANGED <<gone, map, alive>>, closer = None,
         queue' = [c \in Conns |-> Append(queue[c], [op |-> "close", id |-> None])]
  PROVE  Statements'
<1> USE Sets
<1>1. Bound' /\ \A s \in alive' : s \in Calls /\ Prepared(s)'  BY PreparedStays
<1>2. \A b \in {[op |-> "close", id |-> None]} : b \in Block /\ b.id = None  BY DEF Block
<1>3. PICK b : b = [op |-> "close", id |-> None]  OBVIOUS
<1>4. b \in Block /\ b.id = None /\ queue' = [c \in Conns |-> Append(queue[c], b)]  BY <1>2, <1>3
<1>5. ASSUME NEW d \in Conns, NEW i \in At(d)', NEW s, Uses(d, i, s)' PROVE Stays(d, i, i)
  <2>1. Stays(d, i, i) \/ queue'[d][i] = b  BY <1>4, ClosedPrefix
  <2> QED  BY <1>4, <1>5, <2>1 DEF Uses, Id
<1>6. ASSUME NEW d \in Conns, NEW i \in At(d)', NEW s \in Calls, Uses(d, i, s)' PROVE Used(d, i, s)'
  <2>1. Stays(d, i, i)  BY <1>5, <1>6
  <2>2. i \in At(d) /\ Op(d, i)' = Op(d, i) /\ Uses(d, i, s)  BY <1>6, <2>1, UsesStays
  <2>3. Used(d, i, s)  BY <2>2 DEF Statements, AllUsed
  <2>4. Behind(d, i)' => Behind(d, i)  BY <2>1, BehindStays
  <2>5. ASSUME Op(d, i) = "finalize", NEW j \in At(d)', Uses(d, j, s)' PROVE j <= i
    <3>1. j \in At(d) /\ Uses(d, j, s)  BY <1>5, <2>5, UsesStays
    <3> QED  BY <2>3, <2>5, <3>1 DEF Used
  <2> QED  BY <2>2, <2>3, <2>4, <2>5 DEF Used
<1>7. ASSUME NEW s \in alive \ map PROVE \E i \in At(Writer)' : Finalizes(i, s)'
  <2>1. PICK i \in At(Writer) : Finalizes(i, s)  BY DEF Statements
  <2>2. i \in At(Writer)' /\ Stays(Writer, i, i)
    <3>1. i \in At(Writer)' /\ \A j \in 1..i : queue'[Writer][j] = queue[Writer][j]  BY <1>4 DEF Shape, At
    <3>2. i \in Nat \ {0}  BY DEF Shape, At
    <3> QED  BY <3>1, <3>2, StaysPut
  <2> QED  BY <2>1, <2>2, UsesStays DEF Finalizes
<1>8. AllUsed'  BY <1>6 DEF AllUsed
<1> QED  BY <1>1, <1>7, <1>8 DEF Statements

\* Where the blocks are that stay when one has run.
LEMMA Moved ==
  ASSUME Shape, NEW c \in Conns, queue[c] # <<>>, queue' = [queue EXCEPT ![c] = Tail(@)], NEW d \in Conns
  PROVE  /\ \A i \in At(d)' : i \in Nat \ {0} /\ Stays(d, i, IF d = c THEN i + 1 ELSE i)
         /\ \A i \in At(d) : d = c /\ i # 1 => i - 1 \in At(d)' /\ Stays(d, i - 1, i)
         /\ \A i \in At(d) : d # c => i \in At(d)' /\ Stays(d, i, i)
<1> USE Sets
<1>1. ASSUME NEW i \in At(d)' PROVE i \in Nat \ {0} /\ Stays(d, i, IF d = c THEN i + 1 ELSE i)
  <2>1. queue'[d] \in Seq(Block)  BY HeadBlock DEF Shape
  <2>2. i \in Nat \ {0}  BY <2>1 DEF At
  <2>3. (d # c => Stays(d, i, i)) /\ (d = c => Stays(d, i, i + 1))  BY DroppedPrefix
  <2> QED  BY <2>2, <2>3
<1>2. ASSUME NEW i \in At(d), d = c, i # 1 PROVE i - 1 \in At(d)' /\ Stays(d, i - 1, i)
  <2>1. i \in Nat \ {0} /\ i - 1 \in At(d)'  BY <1>2 DEF Shape, At
  <2>2. Stays(d, i - 1, (i - 1) + 1)  BY <1>1, <1>2, <2>1
  <2>3. (i - 1) + 1 = i  BY <2>1
  <2> QED  BY <2>1, <2>2, <2>3
<1>3. ASSUME NEW i \in At(d), d # c PROVE i \in At(d)' /\ Stays(d, i, i)
  <2>1. i \in At(d)'  BY <1>3 DEF Shape, At
  <2> QED  BY <1>1, <1>3, <2>1
<1> QED  BY <1>1, <1>2, <1>3

\* What still uses a statement when a block has run.
LEMMA UsesRan ==
  ASSUME Shape, Queued, Statements, StmtsStay, NEW c \in Conns, queue[c] # <<>>,
         queue' = [queue EXCEPT ![c] = Tail(@)], c = Writer => Writer \notin gone' \/ Writer \in gone \/ Op(c, 1) = "close",
         \A d \in Conns : d # c => (d \in gone' => d \in gone),
         NEW d \in Conns, NEW i \in At(d)', NEW s \in Calls, Uses(d, i, s)'
  PROVE  /\ d = Writer /\ s \in alive
         /\ Op(d, i)' = "finalize" \/ ~Behind(d, i)'
         /\ Op(d, i)' = "finalize" => s \notin map /\ \A j \in At(d)' : Uses(d, j, s)' => j <= i
         /\ d = c /\ Op(c, 1) = "finalize" => ~Uses(c, 1, s)
<1> USE Sets
<1> DEFINE was(j) == IF d = c THEN j + 1 ELSE j
<1>1. \A j \in At(d)' : j \in Nat \ {0} /\ Stays(d, j, was(j))  BY Moved
<1>2. \A j \in At(d)' : was(j) \in At(d) /\ Op(d, j)' = Op(d, was(j)) /\ (Uses(d, j, s)' => Uses(d, was(j), s))
  <2> SUFFICES ASSUME NEW j \in At(d)'
               PROVE  was(j) \in At(d) /\ Op(d, j)' = Op(d, was(j)) /\ (Uses(d, j, s)' => Uses(d, was(j), s))
    OBVIOUS
  <2>1. PICK w : w = was(j)  OBVIOUS
  <2>2. Stays(d, j, w)  BY <1>1, <2>1
  <2>3. w \in At(d) /\ Op(d, j)' = Op(d, w) /\ (Uses(d, j, s)' => Uses(d, w, s))  BY <2>2, UsesStays
  <2> QED  BY <2>1, <2>3
<1>3. PICK w : w = was(i)  OBVIOUS
<1>4. w \in At(d) /\ Op(d, i)' = Op(d, w) /\ Uses(d, w, s) /\ Stays(d, i, w)  BY <1>1, <1>2, <1>3
<1>5. Used(d, w, s)  BY <1>4 DEF Statements, AllUsed
<1>6. ASSUME Op(d, w) = "finalize", NEW j \in At(d)', Uses(d, j, s)' PROVE j <= i
  <2>1. was(j) <= w /\ j \in Nat /\ i \in Nat  BY <1>1, <1>2, <1>5, <1>6 DEF Used
  <2> QED  BY <1>3, <2>1
<1>7. ASSUME Op(d, w) # "finalize" PROVE ~Behind(d, i)'
  <2>1. ~Behind(d, w)  BY <1>5, <1>7 DEF Used
  <2>2. d \in gone' => d \in gone
    <3>1. CASE d # c  BY <3>1
    <3>2. CASE d = c
      <4>1. ASSUME Op(c, 1) = "close" PROVE FALSE
        <5>1. 1 \in 1..(w - 1)
          <6>1. i \in Nat \ {0} /\ w = i + 1  BY <1>1, <1>3, <3>2
          <6> QED  BY <6>1
        <5> QED  BY <2>1, <3>2, <4>1, <5>1 DEF Behind
      <4> QED  BY <1>5, <3>2, <4>1 DEF Used
    <3> QED  BY <3>1, <3>2
  <2> QED  BY <1>4, <2>1, <2>2, BehindStays
<1>8. ASSUME d = c, Op(c, 1) = "finalize", Uses(c, 1, s) PROVE FALSE
  <2>1. 1 \in At(c) /\ w = i + 1 /\ i \in Nat \ {0}  BY <1>1, <1>3, <1>8, HeadBlock
  <2>2. Used(c, 1, s)  BY <1>8, <2>1 DEF Statements, AllUsed
  <2>3. w <= 1  BY <1>4, <1>8, <2>2 DEF Used
  <2> QED  BY <2>1, <2>3
<1> QED  BY <1>4, <1>5, <1>6, <1>7, <1>8 DEF Used

\* What will be finalized still when a block has run.
LEMMA FinalizesRan ==
  ASSUME Shape, Queued, Statements, StmtsStay, NEW c \in Conns, queue[c] # <<>>,
         queue' = [queue EXCEPT ![c] = Tail(@)], NEW s \in alive \ map,
         c = Writer => ~Finalizes(1, s)
  PROVE  \E i \in At(Writer)' : Finalizes(i, s)'
<1> USE Sets
<1>1. PICK i \in At(Writer) : Finalizes(i, s)  BY DEF Statements
<1>2. CASE c = Writer
  <2>1. i # 1  BY <1>1, <1>2
  <2>2. i - 1 \in At(Writer)' /\ Stays(Writer, i - 1, i)  BY <1>2, <2>1, Moved
  <2> QED  BY <1>1, <2>2, UsesStays DEF Finalizes
<1>3. CASE c # Writer
  <2>1. i \in At(Writer)' /\ Stays(Writer, i, i)  BY <1>3, Moved
  <2> QED  BY <1>1, <2>1, UsesStays DEF Finalizes
<1> QED  BY <1>2, <1>3


\* A statement in the map, and one that a block uses, has not been finalized.
LEMMA StatementsStep ==
  ASSUME Shape, Numbered, Queued, Opening, Opened, Ends, Statements, [Next]_vars
  PROVE  Statements'
<1> USE Sets
<1>1. Shape'  BY ShapeStep
<1>2. StmtsStay  BY StmtsStayStep
<1>3. Bound' /\ \A s \in alive : s \in Calls /\ Prepared(s)'  BY <1>1, <1>2, PreparedStays
<1>4. ASSUME NEW rec, JsMove(rec) PROVE Statements'
  <2>1. /\ This \in Calls /\ rec \in Call /\ UNCHANGED <<gone, alive>>
        /\ Asks(rec) \/ IsTold \/ Ending(rec)
    BY <1>4 DEF JsMove
  <2>2. call'[This] = rec  BY <1>4 DEF JsMove, Shape
  <2>3. CASE Asks(rec)
    <3>1. PICK c \in Conns, op \in {"write", "read", "begin", "prepare", "finalize"} :
            /\ [op |-> op, id |-> This] \in Block
            /\ queue' = [queue EXCEPT ![c] = Append(@, [op |-> op, id |-> This])]
            /\ c # Writer => closer = None /\ rec.stmt = None
            /\ IF op = "finalize" THEN rec.stmt \in map /\ map' = map \ {rec.stmt}
               ELSE map' = map /\ (rec.stmt # None => rec.stmt \in map /\ closer = None)
      BY <2>3 DEF Asks
    <3>2. PICK b : b = [op |-> op, id |-> This]  OBVIOUS
    <3>3. b \in Block /\ b.op = op /\ b.id = This /\ queue' = [queue EXCEPT ![c] = Append(@, b)]
      BY <3>1, <3>2
    <3>4. b.id # None /\ call'[b.id] = rec  BY <2>1, <2>2, <3>3
    <3>5. map' \subseteq map  BY <3>1
    <3>6. \A s \in map : s \in Calls  BY DEF Statements
    <3>7. ASSUME NEW s \in Calls, rec.stmt = s
          PROVE  c = Writer /\ s \in map /\ IF b.op = "finalize" THEN s \notin map' ELSE closer = None
      BY <3>1, <3>3, <3>7
    <3>8. ASSUME NEW s \in map \ map' PROVE c = Writer /\ b.op = "finalize" /\ rec.stmt = s
      BY <3>1, <3>3, <3>6, <3>8
    <3> QED  BY <1>1, <1>2, <2>1, <3>3, <3>4, <3>5, <3>7, <3>8, StatementsSent
  <2>4. CASE IsTold  BY <1>1, <1>2, <2>1, <2>4, StatementsKept DEF IsTold
  <2>5. CASE Ending(rec)  BY <1>1, <1>2, <2>1, <2>5, StatementsClosed DEF Ending
  <2> QED  BY <2>1, <2>3, <2>4, <2>5
<1>5. ASSUME NEW t \in Calls, EndRead(t) PROVE Statements'
  <2>1. UNCHANGED <<gone, map, alive, call>>  BY <1>5 DEF EndRead, openVars, stmtVars
  <2>2. CASE handle[t] = None
    <3>1. UNCHANGED queue  BY <1>5, <2>2 DEF EndRead
    <3> QED  BY <1>1, <1>2, <2>1, <3>1, StatementsKept
  <2>3. CASE handle[t] # None
    <3>1. PICK c \in Conns : c = handle[t]  BY <2>3 DEF Shape
    <3>2. PICK b : b = [op |-> "end", id |-> t]  OBVIOUS
    <3>3. b \in Block /\ b.id = t  BY <3>2 DEF Block
    <3>4. queue' = [queue EXCEPT ![c] = Append(@, b)]  BY <1>5, <2>3, <3>1, <3>2 DEF EndRead, Sent
    <3>5. call'[b.id].stmt = None
      <4>1. call[t].kind = "tx"  BY <1>5 DEF EndRead, Numbered
      <4> QED  BY <2>1, <3>3, <4>1 DEF Statements, Bound
    <3>6. \A s \in Calls : call'[b.id].stmt # s  BY <3>5
    <3> QED  BY <1>1, <1>2, <2>1, <3>3, <3>4, <3>6, StatementsSent
  <2> QED  BY <2>2, <2>3
\* A block runs that leaves the statements alone.
<1>6. ASSUME NEW c \in Conns, queue[c] # <<>>, queue' = [queue EXCEPT ![c] = Tail(@)], Op(c, 1) # "finalize",
             UNCHANGED <<map, alive>>, c = Writer => gone' = gone,
             \A d \in Conns : d # c => (d \in gone' => d \in gone)
      PROVE  Statements'
  <2>1. ASSUME NEW d \in Conns, NEW i \in At(d)', NEW s \in Calls, Uses(d, i, s)' PROVE Used(d, i, s)'
    BY <1>2, <1>6, <2>1, UsesRan DEF Used
  <2>2. ASSUME NEW s \in alive \ map PROVE \E i \in At(Writer)' : Finalizes(i, s)'
    BY <1>2, <1>6, FinalizesRan DEF Finalizes
  <2>3. map' \subseteq alive' /\ (Writer \in gone' => map' = {})  BY <1>6 DEF Statements
  <2>4. AllUsed'  BY <2>1 DEF AllUsed
  <2> QED  BY <1>3, <1>6, <2>2, <2>3, <2>4 DEF Statements
<1>7. ASSUME NEW c \in Conns, RunBlock(c), ~RunOpen(c), ~RunClose(c) PROVE Statements'
  <2>1. PICK found : RunStep(c, found)  BY <1>7, RunSteps
  <2>2. Leaves(c, found)  BY <1>7, <2>1, RunLeaves
  <2>3. /\ queue[c] # <<>> /\ queue' = [queue EXCEPT ![c] = Tail(@)] /\ UNCHANGED gone
        /\ Id(c, 1) \in Calls /\ found.kind = call[Id(c, 1)].kind /\ 1 \in At(c) /\ queue[c][1] \in Blocks(c)
        /\ call' = [call EXCEPT ![Id(c, 1)] = found]
    BY <2>1, HeadBlock DEF RunStep, openVars
  <2>4. PICK k \in Calls : k = Id(c, 1)  BY <2>3
  <2>5. call[k].kind = KindOf(Op(c, 1)) /\ (Op(c, 1) # "end" => call[k].res = "none")
    BY <2>3, <2>4, BlockFacts DEF Placed, Id, Op
  <2>6. CASE Op(c, 1) # "finalize" /\ UNCHANGED <<map, alive>>  BY <1>6, <2>3, <2>6
  <2>7. CASE Op(c, 1) = "prepare" /\ ~UNCHANGED <<map, alive>>
    <3>1. /\ c = Writer /\ Writer \notin gone /\ found.res = "ok"
          /\ map' = map \cup {k} /\ alive' = alive \cup {k}
      BY <2>2, <2>4, <2>7 DEF Leaves
    <3>2. ~Prepared(k) /\ k \notin alive  BY <2>5, <2>7 DEF Prepared, Statements
    <3>3. Prepared(k)'
      <4>1. call'[k] = found /\ found.kind = "prepare"  BY <2>3, <2>4, <2>5, <2>7 DEF Shape, KindOf
      <4> QED  BY <3>1, <4>1 DEF Prepared
    <3>4. ASSUME NEW d \in Conns, NEW i \in At(d)', NEW s \in Calls, Uses(d, i, s)' PROVE Used(d, i, s)'
      <4>1. /\ d = Writer /\ s \in alive
            /\ Op(d, i)' = "finalize" \/ ~Behind(d, i)'
            /\ Op(d, i)' = "finalize" => s \notin map /\ \A j \in At(d)' : Uses(d, j, s)' => j <= i
        BY <1>2, <2>3, <3>4, UsesRan
      <4>2. s \in alive' /\ (s \notin map => s \notin map')  BY <3>1, <3>2, <4>1
      <4> QED  BY <4>1, <4>2 DEF Used
    <3>5. ASSUME NEW s \in alive' \ map' PROVE \E i \in At(Writer)' : Finalizes(i, s)'
      <4>1. s \in alive \ map  BY <3>1
      <4> QED  BY <1>2, <2>3, <2>7, <4>1, FinalizesRan DEF Finalizes
    <3>6. map' \subseteq alive' /\ (Writer \in gone' => map' = {})  BY <2>3, <3>1 DEF Statements
    <3>7. \A s \in alive' : s \in Calls /\ Prepared(s)'  BY <1>3, <3>1, <3>3
    <3>8. AllUsed'  BY <3>4 DEF AllUsed
    <3> QED  BY <1>3, <3>5, <3>6, <3>7, <3>8 DEF Statements
  <2>8. CASE Op(c, 1) = "finalize"
    <3>1. c = Writer /\ map' = map /\ alive' = alive \ {call[k].stmt}  BY <2>2, <2>4, <2>8 DEF Leaves
    <3>2. \A s : Uses(c, 1, s) <=> call[k].stmt = s  BY <2>4 DEF Uses
    <3>3. call[k].stmt \notin map
      <4>1. PICK s : s = call[k].stmt  OBVIOUS
      <4>2. ASSUME s \in map PROVE FALSE
        <5>1. s \in Calls  BY <4>2 DEF Statements
        <5>2. Used(c, 1, s)  BY <2>3, <3>2, <4>1, <5>1 DEF Statements, AllUsed
        <5> QED  BY <2>8, <4>2, <5>2 DEF Used
      <4> QED  BY <4>1, <4>2
    <3>4. ASSUME NEW d \in Conns, NEW i \in At(d)', NEW s \in Calls, Uses(d, i, s)' PROVE Used(d, i, s)'
      <4>1. /\ d = Writer /\ s \in alive
            /\ Op(d, i)' = "finalize" \/ ~Behind(d, i)'
            /\ Op(d, i)' = "finalize" => s \notin map /\ \A j \in At(d)' : Uses(d, j, s)' => j <= i
            /\ ~Uses(c, 1, s)
        <5>1. c = Writer => Writer \notin gone' \/ Writer \in gone \/ Op(c, 1) = "close"  BY <2>3
        <5>2. \A e \in Conns : e # c => (e \in gone' => e \in gone)  BY <2>3
        <5> QED  BY <1>2, <2>3, <2>8, <3>1, <3>4, <5>1, <5>2, UsesRan
      <4>2. s \in alive'  BY <3>1, <3>2, <4>1
      <4> QED  BY <3>1, <4>1, <4>2 DEF Used
    <3>5. ASSUME NEW s \in alive' \ map' PROVE \E i \in At(Writer)' : Finalizes(i, s)'
      <4>1. s \in alive \ map /\ call[k].stmt # s  BY <3>1
      <4>2. ~Finalizes(1, s)  BY <3>1, <3>2, <4>1 DEF Finalizes
      <4> QED  BY <1>2, <2>3, <4>1, <4>2, FinalizesRan
    <3>6. map' \subseteq alive' /\ (Writer \in gone' => map' = {})  BY <2>3, <3>1, <3>3 DEF Statements
    <3>7. \A s \in alive' : s \in Calls /\ Prepared(s)'  BY <1>3, <3>1
    <3>8. AllUsed'  BY <3>4 DEF AllUsed
    <3> QED  BY <1>3, <3>5, <3>6, <3>7, <3>8 DEF Statements
  <2> QED  BY <2>2, <2>6, <2>7, <2>8 DEF Leaves
<1>8. ASSUME NEW c \in Conns, RunOpen(c) PROVE Statements'
  <2>1. /\ queue[c] # <<>> /\ queue' = [queue EXCEPT ![c] = Tail(@)] /\ Op(c, 1) # "finalize"
        /\ UNCHANGED <<gone, map, alive>>
    BY <1>8, HeadBlock DEF RunOpen, Runs, Popped, Op, stmtVars
  <2> QED  BY <1>6, <2>1
<1>9. ASSUME NEW c \in Conns, RunClose(c) PROVE Statements'
  <2>1. /\ queue[c] # <<>> /\ queue' = [queue EXCEPT ![c] = Tail(@)] /\ Op(c, 1) = "close"
        /\ gone' = gone \cup {c}
    BY <1>9, HeadBlock DEF RunClose, Runs, Popped, Op
  <2>2. CASE c # Writer
    <3>1. UNCHANGED <<map, alive>>  BY <1>9, <2>2 DEF RunClose, stmtVars
    <3> QED  BY <1>6, <2>1, <2>2, <3>1
  <2>3. CASE c = Writer
    <3>1. map' = {} /\ alive' = alive \ map  BY <1>9, <2>3 DEF RunClose
    <3>2. ASSUME NEW d \in Conns, NEW i \in At(d)', NEW s \in Calls, Uses(d, i, s)' PROVE Used(d, i, s)'
      <4>1. /\ d = Writer /\ s \in alive
            /\ Op(d, i)' = "finalize" \/ ~Behind(d, i)'
            /\ Op(d, i)' = "finalize" => s \notin map /\ \A j \in At(d)' : Uses(d, j, s)' => j <= i
        BY <1>2, <2>1, <3>2, UsesRan
      <4>2. Behind(d, i)'  BY <2>1, <2>3, <4>1 DEF Behind
      <4> QED  BY <3>1, <4>1, <4>2 DEF Used
    <3>3. ASSUME NEW s \in alive' \ map' PROVE \E i \in At(Writer)' : Finalizes(i, s)'
      <4>1. s \in alive \ map  BY <3>1
      <4> QED  BY <1>2, <2>1, <4>1, FinalizesRan DEF Finalizes
    <3>4. AllUsed'  BY <3>2 DEF AllUsed
    <3> QED  BY <1>3, <3>1, <3>3, <3>4 DEF Statements
  <2> QED  BY <2>2, <2>3
<1>10. CASE OpenAsync \/ OpenSync
  <2>1. /\ made = 0 /\ UNCHANGED <<map, alive>>
        /\ \A c \in Conns : queue'[c] \in {<<>>, <<[op |-> "open", id |-> None]>>}
    BY <1>10 DEF OpenAsync, OpenSync, ReaderOpens, Opened, stmtVars
  <2>2. \A k \in Calls : ~Prepared(k)
    <3>1. \A k \in Calls : k > made  BY <2>1 DEF Calls
    <3>2. NoCall.kind # "prepare"  BY DEF NoCall
    <3> QED  BY <3>1, <3>2 DEF Numbered, Prepared
  <2>3. alive = {} /\ map = {}  BY <2>2 DEF Statements
  <2>4. ASSUME NEW c \in Conns, NEW i \in At(c)' PROVE Id(c, i)' = None
    <3>1. PICK q : q = queue'[c]  OBVIOUS
    <3>2. PICK b : b = [op |-> "open", id |-> None]  OBVIOUS
    <3>3. q = <<>> \/ q = <<b>>  BY <2>1, <3>1, <3>2
    <3>4. i \in 1..Len(q)  BY <2>4, <3>1 DEF At
    <3>5. CASE q = <<>>
      <4>1. Len(q) = 0  BY <3>5
      <4> QED  BY <3>4, <4>1
    <3>6. CASE q = <<b>>
      <4>1. Len(q) = 1 /\ q[1] = b  BY <3>6
      <4>2. i = 1  BY <3>4, <4>1
      <4>3. q[i].id = None  BY <3>2, <4>1, <4>2
      <4> QED  BY <3>1, <4>3 DEF Id
    <3> QED  BY <3>3, <3>5, <3>6
  <2>5. AllUsed'  BY <2>4 DEF AllUsed, Uses
  <2> QED  BY <1>3, <2>1, <2>3, <2>5 DEF Statements
<1>11. CASE Deliver \/ UNCHANGED vars
  <2>1. UNCHANGED <<queue, gone, map, alive>>  BY <1>11 DEF Deliver, vars, openVars, stmtVars
  <2> QED  BY <1>1, <1>2, <2>1, StatementsKept
<1>12. CASE JsCalls  BY <1>4, <1>5, <1>10, <1>12, JsMoves
<1>13. ASSUME NEW c \in Conns, RunBlock(c) PROVE Statements'  BY <1>7, <1>8, <1>9, <1>13
<1> QED  BY <1>11, <1>12, <1>13 DEF Next

-----------------------------------------------------------------------------
(* Answers.                                                                *)

\* What is on its way stays so when more is sent.
LEMMA ExpectedGrows ==
  ASSUME Shape, NEW new \in Calls, NEW k \in Calls, Expected(k), UNCHANGED gone, closer' = closer \/ closer = None,
         \A c \in Conns : queue'[c] = queue[c] \/ \E b \in Block : queue'[c] = Append(queue[c], b),
         main' = main \/ main' = Append(main, new), inits' = inits \/ inits' = Append(inits, new)
  PROVE  Expected(k)'
<1> USE Sets
<1>1. ASSUME NEW c \in Conns, NEW i \in At(c), Id(c, i) = k PROVE Expected(k)'
  <2>1. PICK q \in Seq(Block) : q = queue[c]  BY DEF Shape
  <2>2. i \in 1..Len(q) /\ q[i].id = k  BY <1>1, <2>1 DEF At, Id
  <2>3. i \in 1..Len(queue'[c]) /\ queue'[c][i] = q[i]
    <3>1. CASE queue'[c] = queue[c]  BY <2>1, <2>2, <3>1
    <3>2. ASSUME NEW b \in Block, queue'[c] = Append(queue[c], b) PROVE i \in 1..Len(queue'[c]) /\ queue'[c][i] = q[i]
      BY <2>1, <2>2, <3>2
    <3> QED  BY <3>1, <3>2
  <2> QED  BY <2>2, <2>3 DEF Expected, At, Id
<1>2. ASSUME NEW m \in 1..Len(main), main[m] = k PROVE Expected(k)'
  <2>1. PICK s \in Seq(Calls) : s = main  BY DEF Shape
  <2>2. m \in 1..Len(s) /\ s[m] = k /\ (main' = s \/ main' = Append(s, new))  BY <1>2, <2>1
  <2>3. m \in 1..Len(main') /\ main'[m] = k
    <3>1. CASE main' = s  BY <2>2, <3>1
    <3>2. CASE main' = Append(s, new)  BY <2>2, <3>2
    <3> QED  BY <2>2, <3>1, <3>2
  <2> QED  BY <2>3 DEF Expected
<1>3. ASSUME NEW m \in 1..Len(inits), inits[m] = k PROVE Expected(k)'
  <2>1. PICK s \in Seq(Calls) : s = inits  BY DEF Shape
  <2>2. m \in 1..Len(s) /\ s[m] = k /\ (inits' = s \/ inits' = Append(s, new))  BY <1>3, <2>1
  <2>3. m \in 1..Len(inits') /\ inits'[m] = k
    <3>1. CASE inits' = s  BY <2>2, <3>1
    <3>2. CASE inits' = Append(s, new)  BY <2>2, <3>2
    <3> QED  BY <2>2, <3>1, <3>2
  <2> QED  BY <2>3 DEF Expected
<1>4. CASE k = closer /\ gone # Conns  BY <1>4 DEF Expected
<1> QED  BY <1>1, <1>2, <1>3, <1>4 DEF Expected

\* or when a block has run, but for its own call.
LEMMA ExpectedRan ==
  ASSUME Shape, NEW c \in Conns, queue[c] # <<>>, queue' = [queue EXCEPT ![c] = Tail(@)],
         NEW k \in Calls, Expected(k), UNCHANGED closer,
         \A m \in 1..Len(main) : m \in 1..Len(main') /\ main'[m] = main[m],
         \A m \in 1..Len(inits) : inits[m] = k => (\E n \in 1..Len(inits') : inits'[n] = k) \/ (\E n \in 1..Len(main') : main'[n] = k),
         k = Id(c, 1) => \E n \in 1..Len(main') : main'[n] = k,
         k = closer /\ gone # Conns => gone' # Conns \/ \E n \in 1..Len(main') : main'[n] = k
  PROVE  Expected(k)'
<1> USE Sets
<1>1. ASSUME NEW d \in Conns, NEW i \in At(d), Id(d, i) = k, k # Id(c, 1) PROVE Expected(k)'
  <2>1. PICK j \in At(d)' : Stays(d, j, i)  BY <1>1, Moved
  <2>2. Id(d, j)' = k  BY <1>1, <2>1 DEF Stays, Id
  <2> QED  BY <2>2 DEF Expected
<1>2. ASSUME NEW n \in 1..Len(main'), main'[n] = k PROVE Expected(k)'  BY <1>2 DEF Expected
<1>3. ASSUME NEW n \in 1..Len(inits'), inits'[n] = k PROVE Expected(k)'  BY <1>3 DEF Expected
<1>4. CASE k = closer /\ gone' # Conns  BY <1>4 DEF Expected
<1> QED  BY <1>1, <1>2, <1>3, <1>4 DEF Expected

\* A completion that is not of close() makes no difference to what came before that.
LEMMA CloseLastKept ==
  ASSUME Shape, Numbered, CloseLast, UNCHANGED <<gone, closer>>,
         \A m \in 1..Len(main) : m \in 1..Len(main') /\ main'[m] = main[m],
         \A m \in 1..Len(main') : (m \in 1..Len(main) /\ main'[m] = main[m]) \/ main'[m] # closer,
         \A k \in Calls : k <= closer => call'[k].heard = call[k].heard
  PROVE  CloseLast'
<1> USE Sets
<1>1. ASSUME closer # None
      PROVE  /\ closer \in Calls /\ closer \in Nat /\ closer <= closer
             /\ \A k \in 1..(closer - 1) : k \in Calls /\ k <= closer /\ call'[k].heard = call[k].heard
  <2>1. closer \in 1..MaxCalls /\ MaxCalls \in Nat  BY <1>1, ReadersAssumption DEF Shape, Calls
  <2> QED  BY <2>1 DEF Calls
<1>2. ASSUME closer # None, NEW m \in 1..Len(main'), main'[m] = closer
      PROVE  gone = Conns /\ \A k \in 1..(closer - 1) : Heard(m, k)'
  <2>1. m \in 1..Len(main) /\ main[m] = closer  BY <1>2
  <2>2. gone = Conns /\ \A k \in 1..(closer - 1) : Heard(m, k)  BY <1>2, <2>1 DEF CloseLast
  <2>3. \A n \in 1..(m - 1) : main'[n] = main[n]
    <3>1. PICK l \in Nat : l = Len(main)  BY DEF Shape
    <3>2. \A n \in 1..(m - 1) : n \in 1..l  BY <2>1, <3>1
    <3> QED  BY <3>1, <3>2
  <2>4. ASSUME NEW k \in 1..(closer - 1) PROVE Heard(m, k)'
    <3>1. call'[k].heard = call[k].heard  BY <1>1, <1>2
    <3>2. Heard(m, k)  BY <2>2
    <3>3. CASE call[k].heard  BY <3>1, <3>3 DEF Heard
    <3>4. CASE \E n \in 1..(m - 1) : main[n] = k  BY <2>3, <3>4 DEF Heard
    <3> QED  BY <3>2, <3>3, <3>4 DEF Heard
  <2> QED  BY <2>2, <2>4
<1>3. closer # None => call'[closer].heard = call[closer].heard  BY <1>1
<1> QED  BY <1>1, <1>2, <1>3 DEF CloseLast

\* A call of JS is answered later, and one made after close() after that.
LEMMA AnsweringJs ==
  ASSUME Shape, Numbered, Ends, Answering, NEW rec, JsMove(rec)
  PROVE  Answering'
<1> USE Sets
<1>1. /\ This \in Calls /\ rec.kind # "none" /\ ~rec.heard /\ UNCHANGED <<pending, gone>>
      /\ Asks(rec) \/ IsTold \/ Ending(rec)
      /\ \A k \in Calls : call'[k] = IF k = This THEN rec ELSE call[k]
  BY DEF JsMove, Shape
<1>2. /\ This > closer /\ This # closer
      /\ \A k \in Calls : call[k].kind # "none" => k < This /\ k # This
  BY <1>1, Earlier
<1>3. /\ main' = main \/ main' = Append(main, This)
      /\ inits' = inits \/ (inits' = Append(inits, This) /\ pending # 0)
      /\ Ending(rec) => UNCHANGED <<main, tx>> /\ closer = None /\ closer' = This
      /\ ~Ending(rec) => UNCHANGED closer
  BY <1>1 DEF Asks, IsTold, Ending
<1>4. ASSUME NEW c \in Conns PROVE queue'[c] = queue[c] \/ \E b \in Block : queue'[c] = Append(queue[c], b)
  <2>1. CASE Asks(rec)
    <3>1. PICK d \in Conns, b \in Block : queue' = [queue EXCEPT ![d] = Append(@, b)]  BY <2>1 DEF Asks
    <3> QED  BY <3>1 DEF Shape
  <2>2. CASE IsTold  BY <2>2 DEF IsTold
  <2>3. CASE Ending(rec)
    <3>1. \A b \in {[op |-> "close", id |-> None]} : b \in Block  BY DEF Block
    <3>2. queue'[c] = Append(queue[c], [op |-> "close", id |-> None])  BY <2>3 DEF Ending
    <3> QED  BY <3>1, <3>2
  <2> QED  BY <1>1, <2>1, <2>2, <2>3
<1>5. pending' = 0 => inits' = <<>>  BY <1>1, <1>3 DEF Answering
<1>6. ASSUME NEW t \in Calls, t = This PROVE Expected(t)'
  <2>1. CASE Asks(rec)
    <3>1. PICK c \in Conns, op \in {"write", "read", "begin", "prepare", "finalize"} :
            /\ [op |-> op, id |-> This] \in Block
            /\ queue' = [queue EXCEPT ![c] = Append(@, [op |-> op, id |-> This])]
      BY <2>1 DEF Asks
    <3>2. PICK b : b = [op |-> op, id |-> This]  OBVIOUS
    <3>3. b \in Block /\ b.id = t /\ queue' = [queue EXCEPT ![c] = Append(@, b)]  BY <1>6, <3>1, <3>2
    <3>4. PICK i : i = Len(queue[c]) + 1  OBVIOUS
    <3>5. i \in At(c)' /\ queue'[c][i] = b  BY <3>3, <3>4 DEF Shape, At
    <3> QED  BY <3>3, <3>5 DEF Expected, Id
  <2>2. CASE IsTold
    <3>1. ASSUME main' = Append(main, t) PROVE \E m \in 1..Len(main') : main'[m] = t
      <4>1. Len(main) + 1 \in 1..Len(main') /\ main'[Len(main) + 1] = t  BY <3>1 DEF Shape
      <4> QED  BY <4>1
    <3>2. ASSUME inits' = Append(inits, t) PROVE \E m \in 1..Len(inits') : inits'[m] = t
      <4>1. Len(inits) + 1 \in 1..Len(inits') /\ inits'[Len(inits) + 1] = t  BY <3>2 DEF Shape
      <4> QED  BY <4>1
    <3> QED  BY <1>6, <2>2, <3>1, <3>2 DEF IsTold, Expected
  <2>3. CASE Ending(rec)
    <3>1. gone' # Conns  BY <1>1, <1>3, <2>3 DEF Ends
    <3> QED  BY <1>3, <1>6, <2>3, <3>1 DEF Expected
  <2> QED  BY <1>1, <2>1, <2>2, <2>3
<1>7. Awaited'
  <2> SUFFICES ASSUME NEW k \in Calls, call'[k].kind # "none", ~call'[k].heard PROVE Expected(k)'
    BY DEF Awaited
  <2>1. CASE k = This  BY <1>6, <2>1
  <2>2. CASE k # This
    <3>1. Expected(k)  BY <1>1, <2>2 DEF Answering, Awaited
    <3> QED  BY <1>1, <1>3, <1>4, <3>1, ExpectedGrows
  <2> QED  BY <2>1, <2>2
<1>8. Beginnings'
  <2> SUFFICES ASSUME NEW t \in Calls, tx'[t] = "begin"
               PROVE  ~call'[t].heard /\ (closer' # None => t < closer')
    BY DEF Beginnings
  <2>1. CASE tx[t] = "begin" /\ t # This
    <3>1. ~call'[t].heard /\ (closer # None => t < closer) /\ call[t].kind # "none"
      BY <1>1, <2>1 DEF Answering, Beginnings, Numbered
    <3> QED  BY <1>2, <1>3, <3>1
  <2>2. CASE ~(tx[t] = "begin" /\ t # This)
    <3>1. tx[This] # "begin"  BY <1>1, <1>2 DEF Numbered
    <3>2. t = This /\ closer = None /\ ~UNCHANGED tx  BY <2>2, <3>1 DEF JsMove, Shape
    <3> QED  BY <1>1, <1>3, <3>2
  <2> QED  BY <2>1, <2>2
<1>9. CloseLast'
  <2>1. CASE Ending(rec)
    <3>1. \A m \in 1..Len(main') : main'[m] # closer'
      <4>1. \A m \in 1..Len(main) : main[m] # This  BY <1>1, <1>2 DEF Numbered, Shape
      <4> QED  BY <1>3, <2>1, <4>1
    <3>2. ~call'[closer'].heard  BY <1>1, <1>3, <2>1
    <3> QED  BY <3>1, <3>2 DEF CloseLast
  <2>2. CASE ~Ending(rec)
    <3>1. \A m \in 1..Len(main) : m \in 1..Len(main') /\ main'[m] = main[m]
      <4>1. CASE main' = main  BY <4>1
      <4>2. CASE main' = Append(main, This)  BY <1>1, <4>2 DEF Shape
      <4> QED  BY <1>3, <4>1, <4>2
    <3>2. \A m \in 1..Len(main') : (m \in 1..Len(main) /\ main'[m] = main[m]) \/ main'[m] # closer
      <4>1. CASE main' = main  BY <4>1
      <4>2. CASE main' = Append(main, This)  BY <1>1, <1>2, <4>2, AppendedMain
      <4> QED  BY <1>3, <4>1, <4>2
    <3>3. \A k \in Calls : k <= closer => call'[k].heard = call[k].heard
      <4>1. closer \in Nat /\ This \in Nat  BY <1>1 DEF Shape, None
      <4>2. \A k \in Calls : k <= closer => k # This  BY <1>2, <4>1
      <4> QED  BY <1>1, <4>2
    <3> QED  BY <1>1, <1>3, <2>2, <3>1, <3>2, <3>3, CloseLastKept DEF Answering
  <2> QED  BY <2>1, <2>2
<1> QED  BY <1>5, <1>7, <1>8, <1>9 DEF Answering

\* The end of a transaction is sent, or heard of soon.
LEMMA AnsweringEnd ==
  ASSUME Shape, Numbered, Ends, Answering, NEW t \in Calls, EndRead(t)
  PROVE  Answering'
<1> USE Sets
<1>1. UNCHANGED <<gone, closer, pending, inits, call>> /\ tx' = [tx EXCEPT ![t] = "ending"] /\ call[t].kind = "tx"
  BY DEF EndRead, openVars, Numbered
<1>2. main' = main \/ main' = Append(main, t)  BY DEF EndRead
<1>3. ASSUME NEW c \in Conns PROVE queue'[c] = queue[c] \/ \E b \in Block : queue'[c] = Append(queue[c], b)
  <2>1. CASE handle[t] = None  BY <2>1 DEF EndRead
  <2>2. CASE handle[t] # None
    <3>1. [op |-> "end", id |-> t] \in Block  BY DEF Block
    <3>2. queue' = [queue EXCEPT ![handle[t]] = Append(@, [op |-> "end", id |-> t])]  BY <2>2 DEF EndRead, Sent
    <3> QED  BY <3>1, <3>2 DEF Shape
  <2> QED  BY <2>1, <2>2
<1>4. \A k \in Calls : Expected(k) => Expected(k)'  BY <1>1, <1>2, <1>3, ExpectedGrows
<1>5. Awaited'  BY <1>1, <1>4 DEF Awaited, Answering
<1>6. Beginnings'  BY <1>1 DEF Beginnings, Answering, Shape
<1>7. closer # t  BY <1>1 DEF Numbered
<1>8. CloseLast'
  <2>1. \A m \in 1..Len(main) : m \in 1..Len(main') /\ main'[m] = main[m]
    <3>1. CASE main' = main  BY <3>1
    <3>2. CASE main' = Append(main, t)  BY <3>2 DEF Shape
    <3> QED  BY <1>2, <3>1, <3>2
  <2>2. \A m \in 1..Len(main') : (m \in 1..Len(main) /\ main'[m] = main[m]) \/ main'[m] # closer
    <3>1. CASE main' = main  BY <3>1
    <3>2. CASE main' = Append(main, t)  BY <1>7, <3>2, AppendedMain
    <3> QED  BY <1>2, <3>1, <3>2
  <2> QED  BY <1>1, <2>1, <2>2, CloseLastKept DEF Answering
<1> QED  BY <1>1, <1>5, <1>6, <1>8 DEF Answering

\* A block's completion is not of close(),
LEMMA AnsweringRun ==
  ASSUME Shape, Numbered, Queued, Answering, NEW c, NEW found, RunStep(c, found)
  PROVE  Answering'
<1> USE Sets
<1>1. /\ c \in Conns /\ queue[c] # <<>> /\ queue' = [queue EXCEPT ![c] = Tail(@)] /\ main' = Append(main, Id(c, 1))
      /\ UNCHANGED <<gone, closer, pending, inits, tx>> /\ Id(c, 1) \in Calls
      /\ call' = [call EXCEPT ![Id(c, 1)] = found] /\ found.heard = call[Id(c, 1)].heard
      /\ found.kind = call[Id(c, 1)].kind /\ queue[c][1] \in Blocks(c)
  BY HeadBlock DEF RunStep, openVars
<1>2. PICK k \in Calls : k = Id(c, 1)  BY <1>1
<1>3. k # closer
  <2>1. call[k].kind # "close"  BY <1>1, <1>2, BlockFacts DEF Id
  <2> QED  BY <2>1 DEF Numbered
<1>4. \A j \in Calls : call'[j].heard = call[j].heard /\ call'[j].kind = call[j].kind  BY <1>1, <1>2 DEF Shape
<1>5. \A m \in 1..Len(main) : m \in 1..Len(main') /\ main'[m] = main[m]  BY <1>1 DEF Shape
<1>6. \E n \in 1..Len(main') : main'[n] = k
  <2>1. Len(main) + 1 \in 1..Len(main') /\ main'[Len(main) + 1] = k  BY <1>1, <1>2 DEF Shape
  <2> QED  BY <2>1
<1>7. \A m \in 1..Len(main') : (m \in 1..Len(main) /\ main'[m] = main[m]) \/ main'[m] # closer
  BY <1>1, <1>2, <1>3, AppendedMain
<1>8. \A j \in Calls : Expected(j) => Expected(j)'  BY <1>1, <1>2, <1>5, <1>6, ExpectedRan
<1>9. Awaited'  BY <1>4, <1>8 DEF Awaited, Answering
<1>10. Beginnings'  BY <1>1, <1>4 DEF Beginnings, Answering
<1>11. CloseLast'  BY <1>1, <1>4, <1>5, <1>7, CloseLastKept DEF Answering
<1> QED  BY <1>1, <1>9, <1>10, <1>11 DEF Answering

\* nor are those of initialized().
LEMMA AnsweringOpen ==
  ASSUME Shape, Numbered, Queued, Answering, NEW c \in Conns, RunOpen(c)
  PROVE  Answering'
<1> USE Sets
<1>1. /\ queue[c] # <<>> /\ queue' = [queue EXCEPT ![c] = Tail(@)] /\ UNCHANGED <<gone, closer, tx>>
      /\ Op(c, 1) = "open" /\ queue[c][1] \in Block
  BY HeadBlock DEF RunOpen, Runs, Popped, Op
<1>2. Id(c, 1) = None
  <2>1. PICK b \in Block : b = queue[c][1]  BY <1>1
  <2>2. b.op = "open"  BY <1>1, <2>1 DEF Op
  <2>3. b.id = None  BY <2>2 DEF Block
  <2> QED  BY <2>1, <2>3 DEF Id
<1>3. \/ pending' = 0 /\ main' = main \o inits /\ inits' = <<>>
      \/ pending' # 0 /\ UNCHANGED <<main, inits>>
  BY DEF RunOpen, OpenFinished
<1>4. \A k \in Calls : call'[k].heard = call[k].heard /\ call'[k].kind = call[k].kind  BY OpenAnswers
<1>5. PICK s \in Seq(Calls), t \in Seq(Calls) : s = main /\ t = inits  BY DEF Shape
<1>6. \A m \in 1..Len(main) : m \in 1..Len(main') /\ main'[m] = main[m]
  <2>1. CASE main' = main  BY <2>1
  <2>2. CASE main' = s \o t
    <3>1. \A m \in 1..Len(s) : m \in 1..Len(s \o t) /\ (s \o t)[m] = s[m]  OBVIOUS
    <3> QED  BY <1>5, <2>2, <3>1
  <2> QED  BY <1>3, <1>5, <2>1, <2>2
<1>7. \A m \in 1..Len(main') : (m \in 1..Len(main) /\ main'[m] = main[m]) \/ main'[m] # closer
  <2> SUFFICES ASSUME NEW m \in 1..Len(main'), main'[m] = closer
               PROVE  m \in 1..Len(main) /\ main'[m] = main[m]
    OBVIOUS
  <2>1. closer \in Calls => call[closer].kind # "init"  BY DEF Numbered
  <2> QED  BY <2>1, OpenTells
<1>8. ASSUME NEW k \in Calls, Expected(k) PROVE Expected(k)'
  <2>1. ASSUME NEW m \in 1..Len(inits), inits[m] = k
        PROVE  (\E n \in 1..Len(inits') : inits'[n] = k) \/ (\E n \in 1..Len(main') : main'[n] = k)
    <3>1. CASE inits' = inits  BY <2>1, <3>1
    <3>2. CASE main' = s \o t
      <4>1. m \in 1..Len(t) /\ t[m] = k  BY <1>5, <2>1
      <4>2. Len(s) + m \in 1..Len(s \o t) /\ (s \o t)[Len(s) + m] = t[m]  BY <4>1
      <4> QED  BY <3>2, <4>1, <4>2
    <3> QED  BY <1>3, <1>5, <3>1, <3>2
  <2> QED  BY <1>1, <1>2, <1>6, <1>8, <2>1, ExpectedRan
<1>9. Awaited'  BY <1>4, <1>8 DEF Awaited, Answering
<1>10. Beginnings'  BY <1>1, <1>4 DEF Beginnings, Answering
<1>11. CloseLast'  BY <1>1, <1>4, <1>6, <1>7, CloseLastKept DEF Answering
<1> QED  BY <1>3, <1>9, <1>10, <1>11 DEF Answering

\* The last block of all finds every earlier call answered.
LEMMA AnsweringClose ==
  ASSUME Shape, Numbered, Queued, Opening, Opened, Ends, Answering, NEW c \in Conns, RunClose(c)
  PROVE  Answering'
<1> USE Sets
<1>1. /\ queue[c] # <<>> /\ queue' = [queue EXCEPT ![c] = Tail(@)] /\ gone' = gone \cup {c}
      /\ UNCHANGED <<closer, pending, inits, tx>> /\ Op(c, 1) = "close" /\ queue[c][1] \in Block
      /\ IF gone' = Conns THEN main' = Append(main, closer) ELSE main' = main
  BY HeadBlock DEF RunClose, Runs, Popped, Op
<1>2. Id(c, 1) = None
  <2>1. PICK b \in Block : b = queue[c][1]  BY <1>1
  <2>2. b.op = "close"  BY <1>1, <2>1 DEF Op
  <2>3. b.id = None  BY <2>2 DEF Block
  <2> QED  BY <2>1, <2>3 DEF Id
<1>3. c \notin gone /\ closer # None /\ gone # Conns /\ \A i \in At(c) : i # 1 => Behind(c, i)  BY EndsOver
<1>4. closer \in Calls /\ \A k \in Calls : call'[k].heard = call[k].heard /\ call'[k].kind = call[k].kind
  <2>1. closer \in Calls /\ \A k \in Calls : call'[k].kind = call[k].kind  BY CloseTells
  <2>2. call' = call \/ call' = [call EXCEPT ![closer] = [call[closer] EXCEPT !.res = "ok"]]
    BY <2>1 DEF RunClose, Shape
  <2>3. \A rec \in Call : [rec EXCEPT !.res = "ok"].heard = rec.heard  BY DEF Call
  <2>4. PICK new : new = [call[closer] EXCEPT !.res = "ok"]  OBVIOUS
  <2>5. new.heard = call[closer].heard  BY <2>1, <2>3, <2>4 DEF Shape
  <2>6. call' = call \/ call' = [call EXCEPT ![closer] = new]  BY <2>2, <2>4
  <2> QED  BY <2>1, <2>5, <2>6 DEF Shape
<1>5. \A m \in 1..Len(main) : m \in 1..Len(main') /\ main'[m] = main[m]
  <2>1. CASE main' = main  BY <2>1
  <2>2. CASE main' = Append(main, closer)  BY <1>4, <2>2 DEF Shape
  <2> QED  BY <1>1, <2>1, <2>2
<1>6. ASSUME gone' = Conns PROVE \E n \in 1..Len(main') : main'[n] = closer
  <2>1. main' = Append(main, closer)  BY <1>1, <1>6
  <2>2. Len(main) + 1 \in 1..Len(main') /\ main'[Len(main) + 1] = closer  BY <1>4, <2>1 DEF Shape
  <2> QED  BY <2>2
<1>7. \A k \in Calls : Expected(k) => Expected(k)'  BY <1>1, <1>2, <1>5, <1>6, ExpectedRan
<1>8. Awaited'  BY <1>4, <1>7 DEF Awaited, Answering
<1>9. Beginnings'  BY <1>1, <1>4 DEF Beginnings, Answering
<1>10. ASSUME gone' = Conns, NEW k \in 1..(closer - 1), ~call[k].heard PROVE \E n \in 1..Len(main) : main[n] = k
  <2>1. k \in Calls /\ k < closer /\ k # closer
    <3>1. closer \in 1..MaxCalls /\ MaxCalls \in Nat  BY <1>4, ReadersAssumption DEF Calls
    <3> QED  BY <3>1 DEF Calls
  <2>2. call[k].kind # "none"
    <3>1. made \in Nat /\ closer \in Nat /\ k \in Nat  BY <1>4, <2>1, ReadersAssumption DEF Shape
    <3>2. call[closer].kind # "none"  BY <1>3 DEF Numbered
    <3>3. ~(closer > made)  BY <1>4, <3>2 DEF Numbered, NoCall
    <3>4. ~(k > made)  BY <2>1, <3>1, <3>3
    <3> QED  BY <2>1, <3>4 DEF Numbered
  <2>3. Expected(k)  BY <1>10, <2>1, <2>2 DEF Answering, Awaited
  <2>4. ASSUME NEW d \in Conns, NEW i \in At(d), Id(d, i) = k PROVE FALSE
    <3>1. Behind(d, i)
      <4>1. CASE d = c
        <5>1. i # 1  BY <1>2, <2>1, <2>4, <4>1
        <5> QED  BY <1>3, <4>1, <5>1
      <4>2. CASE d # c
        <5>1. d \in gone  BY <1>1, <1>10, <4>2
        <5> QED  BY <5>1 DEF Behind
      <4> QED  BY <4>1, <4>2
    <3>2. k > closer /\ closer \in Nat /\ k \in Nat  BY <1>4, <2>1, <2>4, <3>1 DEF Ends
    <3> QED  BY <2>1, <3>2
  <2>5. inits = <<>>
    <3>1. phase = "opened"  BY <1>1 DEF Opened
    <3>2. \A d \in Conns : verdict[d] # "none"
      <4> SUFFICES ASSUME NEW d \in Conns, verdict[d] = "none" PROVE FALSE  OBVIOUS
      <4>1. d \notin gone /\ Op(d, 1) = "open"  BY <3>1 DEF Opened
      <4>2. d \in gone \/ d = c  BY <1>1, <1>10
      <4> QED  BY <1>1, <4>1, <4>2
    <3>3. Unopened = {}  BY <3>2 DEF Unopened
    <3>4. pending = 0  BY <3>3, CountOfOpens DEF Opening
    <3> QED  BY <3>4 DEF Answering
  <2>6. \A n \in 1..Len(inits) : FALSE
    <3>1. Len(inits) = 0  BY <2>5
    <3> QED  BY <3>1
  <2> QED  BY <1>3, <2>1, <2>3, <2>4, <2>6 DEF Expected
<1>11. ~call[closer].heard  BY <1>3 DEF Answering, CloseLast
<1>12. ASSUME NEW m \in 1..Len(main'), main'[m] = closer
       PROVE  gone' = Conns /\ \A k \in 1..(closer - 1) : Heard(m, k)'
  <2>1. \A n \in 1..Len(main) : main[n] # closer  BY <1>3 DEF Answering, CloseLast
  <2>2. gone' = Conns /\ main' = Append(main, closer) /\ m = Len(main) + 1
    <3>1. CASE main' = main  BY <1>12, <2>1, <3>1
    <3>2. CASE gone' = Conns /\ main' = Append(main, closer)
      <4>1. (m \in 1..Len(main) /\ main'[m] = main[m]) \/ m = Len(main) + 1  BY <1>4, <3>2, AppendedMain
      <4> QED  BY <1>12, <2>1, <3>2, <4>1
    <3> QED  BY <1>1, <3>1, <3>2
  <2>3. ASSUME NEW k \in 1..(closer - 1) PROVE Heard(m, k)'
    <3>1. k \in Calls
      <4>1. closer \in 1..MaxCalls /\ MaxCalls \in Nat  BY <1>4, ReadersAssumption DEF Calls
      <4> QED  BY <4>1 DEF Calls
    <3>2. CASE call[k].heard  BY <1>4, <3>1, <3>2 DEF Heard
    <3>3. CASE ~call[k].heard
      <4>1. PICK n \in 1..Len(main) : main[n] = k  BY <1>10, <2>2, <3>3
      <4>2. n \in 1..(m - 1)
        <5>1. PICK l \in Nat : l = Len(main)  BY DEF Shape
        <5> QED  BY <2>2, <4>1, <5>1
      <4>3. main'[n] = k  BY <1>5, <4>1
      <4> QED  BY <4>2, <4>3 DEF Heard
    <3> QED  BY <3>2, <3>3
  <2> QED  BY <2>2, <2>3
<1>13. CloseLast'  BY <1>1, <1>4, <1>11, <1>12 DEF CloseLast
<1> QED  BY <1>1, <1>8, <1>9, <1>13 DEF Answering

\* JS hears of a call: of close() after all the earlier ones.
LEMMA AnsweringDeliver ==
  ASSUME Shape, Numbered, Queued, Answering, Deliver
  PROVE  Answering'
<1> USE Sets
<1>1. /\ main # <<>> /\ main' = Tail(main) /\ Head(main) = main[1] /\ Head(main) \in Calls
      /\ UNCHANGED <<queue, gone, closer, pending, inits>>
  BY MainQueue DEF Deliver, openVars
<1>2. PICK k0 \in Calls : k0 = main[1]  BY <1>1
<1>3. /\ call'[k0].heard /\ \A k \in Calls : k # k0 => call'[k] = call[k]
      /\ tx'[k0] # "begin" /\ \A t \in Calls : t # k0 => tx'[t] = tx[t]
  <2>1. call' = [call EXCEPT ![k0] = [call[k0] EXCEPT !.heard = TRUE]]  BY <1>1, <1>2 DEF Deliver, Shape
  <2>2. \A rec \in Call : [rec EXCEPT !.heard = TRUE].heard  BY DEF Call
  <2>3. PICK new : new = [call[k0] EXCEPT !.heard = TRUE]  OBVIOUS
  <2>4. new.heard  BY <2>2, <2>3 DEF Shape
  <2>5. call' = [call EXCEPT ![k0] = new]  BY <2>1, <2>3
  <2>6. call'[k0].heard /\ \A k \in Calls : k # k0 => call'[k] = call[k]  BY <2>4, <2>5 DEF Shape
  <2>7. tx' = [tx EXCEPT ![k0] = IF @ = "begin" /\ call[k0].res = "ok" THEN "body"
                                   ELSE IF @ \in {"begin", "ending"} THEN "over"
                                   ELSE @]
    BY <1>1, <1>2 DEF Deliver
  <2>8. tx'[k0] # "begin" /\ \A t \in Calls : t # k0 => tx'[t] = tx[t]  BY <2>7 DEF Shape
  <2> QED  BY <2>6, <2>8
<1>4. \A k \in Calls : call'[k].kind = call[k].kind  BY DeliverAnswers
<1>5. PICK s \in Seq(Calls) : s = main  BY DEF Shape
<1>6. ASSUME NEW n \in 1..Len(main), n # 1 PROVE n - 1 \in 1..Len(main') /\ main'[n - 1] = main[n]
  <2>1. s # <<>> /\ main' = Tail(s) /\ n \in 1..Len(s) /\ n # 1  BY <1>1, <1>5, <1>6
  <2>2. n - 1 \in 1..Len(Tail(s)) /\ Tail(s)[n - 1] = s[n]  BY <2>1
  <2> QED  BY <1>5, <2>1, <2>2
<1>7. ASSUME NEW m \in 1..Len(main') PROVE m \in Nat \ {0} /\ m + 1 \in 1..Len(main) /\ main'[m] = main[m + 1]
  <2>1. s # <<>> /\ main' = Tail(s) /\ m \in 1..Len(Tail(s))  BY <1>1, <1>5, <1>7
  <2>2. m \in Nat \ {0} /\ m + 1 \in 1..Len(s) /\ Tail(s)[m] = s[m + 1]  BY <2>1
  <2> QED  BY <1>5, <2>1, <2>2
<1>8. Awaited'
  <2> SUFFICES ASSUME NEW k \in Calls, call'[k].kind # "none", ~call'[k].heard PROVE Expected(k)'
    BY DEF Awaited
  <2>1. k # k0 /\ Expected(k)  BY <1>3, <1>4 DEF Awaited, Answering
  <2>2. ASSUME NEW n \in 1..Len(main), main[n] = k PROVE \E m \in 1..Len(main') : main'[m] = k
    <3>1. n # 1  BY <1>2, <2>1, <2>2
    <3> QED  BY <1>6, <2>2, <3>1
  <2> QED  BY <1>1, <2>1, <2>2 DEF Expected, At, Id
<1>9. Beginnings'  BY <1>1, <1>3 DEF Beginnings, Answering
<1>10. ASSUME NEW m \in Nat \ {0}, NEW k \in Calls, Heard(m + 1, k), m + 1 \in 1..Len(main) PROVE Heard(m, k)'
  <2>1. CASE call[k].heard  BY <1>3, <2>1 DEF Heard
  <2>2. ASSUME NEW n \in 1..m, main[n] = k PROVE Heard(m, k)'
    <3>1. CASE n = 1  BY <1>2, <1>3, <2>2, <3>1 DEF Heard
    <3>2. CASE n # 1
      <4>1. n \in 1..Len(main) /\ n - 1 \in 1..(m - 1)
        <5>1. PICK l \in Nat : l = Len(main)  BY <1>5
        <5> QED  BY <1>10, <3>2, <5>1
      <4>2. main'[n - 1] = k  BY <1>6, <2>2, <3>2, <4>1
      <4> QED  BY <4>1, <4>2 DEF Heard
    <3> QED  BY <3>1, <3>2
  <2>3. (m + 1) - 1 = m  OBVIOUS
  <2> QED  BY <1>10, <2>1, <2>2, <2>3 DEF Heard
<1>11. closer # None => closer \in Calls /\ \A k \in 1..(closer - 1) : k \in Calls /\ k # closer
  <2> SUFFICES ASSUME closer # None PROVE closer \in Calls /\ \A k \in 1..(closer - 1) : k \in Calls /\ k # closer
    OBVIOUS
  <2>1. closer \in 1..MaxCalls /\ MaxCalls \in Nat  BY ReadersAssumption DEF Shape, Calls
  <2> QED  BY <2>1 DEF Calls
<1>12. ASSUME closer # None, NEW m \in 1..Len(main'), main'[m] = closer
       PROVE  gone = Conns /\ \A k \in 1..(closer - 1) : Heard(m, k)'
  <2>1. m \in Nat \ {0} /\ m + 1 \in 1..Len(main) /\ main[m + 1] = closer  BY <1>7, <1>12
  <2>2. gone = Conns /\ \A k \in 1..(closer - 1) : Heard(m + 1, k)  BY <1>12, <2>1 DEF Answering, CloseLast
  <2> QED  BY <1>10, <1>11, <1>12, <2>1, <2>2
<1>13. ASSUME closer # None, call'[closer].heard PROVE gone = Conns /\ \A k \in 1..(closer - 1) : call'[k].heard
  <2>1. gone = Conns /\ \A k \in 1..(closer - 1) : call[k].heard
    <3>1. CASE closer # k0  BY <1>3, <1>11, <1>13, <3>1 DEF Answering, CloseLast
    <3>2. CASE closer = k0
      <4>1. 1 \in 1..Len(main) /\ main[1] = closer
        <5>1. s # <<>>  BY <1>1, <1>5
        <5>2. 1 \in 1..Len(s)  BY <5>1
        <5> QED  BY <1>2, <1>5, <3>2, <5>2
      <4>2. gone = Conns /\ \A k \in 1..(closer - 1) : Heard(1, k)  BY <1>13, <4>1 DEF Answering, CloseLast
      <4> QED  BY <4>2 DEF Heard
    <3> QED  BY <3>1, <3>2
  <2> QED  BY <1>3, <1>11, <1>13, <2>1
<1>14. CloseLast'  BY <1>1, <1>12, <1>13 DEF CloseLast
<1> QED  BY <1>1, <1>8, <1>9, <1>14 DEF Answering

\* Every call is answered or has something on its way, and close() comes after all before it.
LEMMA AnsweringStep ==
  ASSUME Shape, Numbered, Queued, Opening, Opened, Ends, Answering, [Next]_vars
  PROVE  Answering'
<1> USE Sets
<1>1. CASE OpenAsync \/ OpenSync
  <2>1. made = 0 /\ closer = None /\ UNCHANGED <<closer, inits, main, call, tx>>
    BY <1>1 DEF OpenAsync, OpenSync, Opened, jsVars
  <2>2. \A k \in Calls : call[k] = NoCall
    <3>1. \A k \in Calls : k > made  BY <2>1 DEF Calls
    <3> QED  BY <3>1 DEF Numbered
  <2>3. NoCall.kind = "none"  BY DEF NoCall
  <2>4. \A k \in Calls : call[k].kind = "none" /\ tx[k] = "none"  BY <2>2, <2>3 DEF Numbered
  <2>5. inits = <<>>
    <3>1. PICK t \in Seq(Calls) : t = inits  BY DEF Shape
    <3>2. ASSUME t # <<>> PROVE FALSE
      <4>1. 1 \in 1..Len(t) /\ t[1] \in Calls  BY <3>2
      <4>2. call[t[1]].kind = "init"  BY <3>1, <4>1 DEF Numbered
      <4> QED  BY <2>4, <4>1, <4>2
    <3> QED  BY <3>1, <3>2
  <2>6. Awaited'  BY <2>1, <2>4 DEF Awaited
  <2>7. Beginnings'  BY <2>1, <2>4 DEF Beginnings
  <2>8. CloseLast'  BY <2>1 DEF CloseLast
  <2> QED  BY <2>1, <2>5, <2>6, <2>7, <2>8 DEF Answering
<1>2. CASE UNCHANGED vars
  BY <1>2 DEF vars, openVars, jsVars, Answering, Awaited, Beginnings, CloseLast, Expected, Heard, At, Id
<1>3. CASE JsCalls  BY <1>1, <1>3, AnsweringJs, AnsweringEnd, JsMoves
<1>4. ASSUME NEW c \in Conns, RunBlock(c) PROVE Answering'
  BY <1>4, AnsweringRun, AnsweringOpen, AnsweringClose, RunSteps
<1>5. CASE Deliver  BY <1>5, AnsweringDeliver
<1> QED  BY <1>2, <1>3, <1>4, <1>5 DEF Next

-----------------------------------------------------------------------------
(* The invariant.                                                          *)

\* It holds before the database is opened,
LEMMA LifecycleInit == Init => LifecycleInv
<1> SUFFICES ASSUME Init PROVE LifecycleInv  OBVIOUS
<1> USE Sets, ReadersAssumption
<1>1. ReadersInv  BY ReadersInit
<1>2. /\ phase = "none" /\ closer = None /\ made = 0 /\ gone = {} /\ map = {} /\ alive = {}
      /\ main = <<>> /\ inits = <<>> /\ pending = 1 + PoolSize
      /\ \A k \in Calls : call[k] = NoCall /\ tx[k] = "none"
      /\ \A c \in Conns : queue[c] = <<>>
  BY DEF Init, None
<1>3. NoCall.kind = "none" /\ NoCall.stmt = None  BY DEF NoCall
<1>4. \A c \in Conns : At(c) = {}
  <2>1. \A c \in Conns : Len(queue[c]) = 0  BY <1>2
  <2> QED  BY <2>1 DEF At
<1>5. Ends  BY <1>2, <1>4 DEF Ends
<1>6. Opened  BY <1>2 DEF Opened
<1>7. Statements  BY <1>2, <1>3, <1>4 DEF Statements, Bound, AllUsed
<1>8. Answering  BY <1>2, <1>3 DEF Answering, Awaited, Beginnings, CloseLast
<1> QED  BY <1>1, <1>5, <1>6, <1>7, <1>8 DEF LifecycleInv

\* and every step keeps it.
LEMMA LifecycleStep == LifecycleInv /\ [Next]_vars => LifecycleInv'
<1> SUFFICES ASSUME LifecycleInv, [Next]_vars PROVE LifecycleInv'  OBVIOUS
<1>1. ReadersInv /\ Ends /\ Opened /\ Statements /\ Answering  BY DEF LifecycleInv
<1>2. Shape /\ Numbered /\ Queued /\ Opening  BY <1>1 DEF ReadersInv
<1>3. ReadersInv'  BY <1>1, ReadersStep
<1>4. Ends'  BY <1>1, <1>2, EndsStep
<1>5. Opened'  BY <1>1, <1>2, OpenedStep
<1>6. Statements'  BY <1>1, <1>2, StatementsStep
<1>7. Answering'  BY <1>1, <1>2, AnsweringStep
<1> QED  BY <1>3, <1>4, <1>5, <1>6, <1>7 DEF LifecycleInv

\* The database that has answered close() is down, and until then blocks find what they use.
LEMMA LifecycleFollows == LifecycleInv => LifecycleIsHonest
<1> SUFFICES ASSUME LifecycleInv PROVE LifecycleIsHonest  OBVIOUS
<1> USE Sets
<1>1. Shape /\ Numbered /\ Queued /\ Opening /\ Ends /\ Opened /\ Statements /\ Answering
  BY DEF LifecycleInv, ReadersInv
<1>2. InitializedIsTrue  BY <1>1 DEF Opening
<1>3. CloseIsFinal
  <2> SUFFICES ASSUME Cleared
               PROVE  /\ gone = Conns
                      /\ \A s \in alive : \E k \in Calls : k > closer /\ call[k].kind = "finalize" /\ call[k].stmt = s
                      /\ \A k \in 1..(closer - 1) : call[k].heard
                      /\ \A t \in Calls : tx[t] # "begin"
    BY DEF CloseIsFinal
  <2>1. closer # None /\ call[closer].heard  BY DEF Cleared, None
  <2>2. gone = Conns /\ \A k \in 1..(closer - 1) : call[k].heard  BY <1>1, <2>1 DEF Answering, CloseLast
  <2>3. map = {}  BY <1>1, <2>2 DEF Statements
  <2>4. ASSUME NEW s \in alive PROVE \E k \in Calls : k > closer /\ call[k].kind = "finalize" /\ call[k].stmt = s
    <3>1. PICK i \in At(Writer) : Finalizes(i, s)  BY <1>1, <2>3 DEF Statements
    <3>2. Op(Writer, i) = "finalize" /\ Id(Writer, i) # None /\ call[Id(Writer, i)].stmt = s
      BY <3>1 DEF Finalizes, Uses
    <3>3. Id(Writer, i) > closer  BY <1>1, <2>2 DEF Ends, Behind
    <3>4. PICK b \in Blocks(Writer) : b = queue[Writer][i]  BY DEF Blocks
    <3>5. b.id \in Calls /\ call[b.id].kind = KindOf(b.op)  BY <1>1, <3>2, <3>4, BlockFacts DEF Id
    <3>6. call[b.id].kind = "finalize"  BY <3>2, <3>4, <3>5 DEF Op, KindOf
    <3> QED  BY <3>2, <3>3, <3>4, <3>5, <3>6 DEF Id
  <2>5. ASSUME NEW t \in Calls, tx[t] = "begin" PROVE FALSE
    <3>1. ~call[t].heard /\ t < closer  BY <1>1, <2>1, <2>5 DEF Answering, Beginnings
    <3>2. t \in 1..(closer - 1)
      <4>1. t \in Nat /\ t > 0 /\ closer \in Nat  BY <1>1, <2>1, ReadersAssumption DEF Shape, Calls, None
      <4> QED  BY <3>1, <4>1
    <3> QED  BY <2>2, <3>1, <3>2
  <2> QED  BY <2>2, <2>4, <2>5
<1>4. BlocksFindTheirs
  <2> SUFFICES ASSUME NEW c \in Conns, queue[c] # <<>>, Head(queue[c]).op # "open"
               PROVE  /\ verdict[c] # "none"
                      /\ c \in Readers => c \notin gone
                      /\ It(c) # None /\ call[It(c)].stmt # None => call[It(c)].stmt \in alive
    BY DEF BlocksFindTheirs
  <2>1. Head(queue[c]) = queue[c][1] /\ 1 \in At(c)  BY <1>1, HeadBlock
  <2>2. Op(c, 1) # "open" /\ It(c) = Id(c, 1)  BY <2>1 DEF Op, It, Id
  <2>3. verdict[c] # "none"  BY <1>1, <2>2 DEF Opened
  <2>4. c \in Readers => c \notin gone  BY <1>1, <2>1 DEF Ends, Behind
  <2>5. ASSUME It(c) # None, call[It(c)].stmt # None PROVE call[It(c)].stmt \in alive
    <3>1. PICK s : s = call[It(c)].stmt  OBVIOUS
    <3>2. It(c) \in Calls
      <4>1. queue[c][1] \in Blocks(c)  BY <2>1 DEF Blocks
      <4> QED  BY <1>1, <2>2, <2>5, <4>1, BlockFacts DEF Id
    <3>3. s \in Calls  BY <1>1, <2>5, <3>1, <3>2 DEF Shape, Call
    <3>4. Uses(c, 1, s)  BY <2>2, <2>5, <3>1 DEF Uses
    <3> QED  BY <1>1, <2>1, <3>1, <3>3, <3>4 DEF Statements, AllUsed, Used
  <2> QED  BY <2>3, <2>4, <2>5
<1> QED  BY <1>2, <1>3, <1>4 DEF LifecycleIsHonest

\* Every connection that has opened is closed once, after what was sent to it, and
\* what waits finds its statement.
THEOREM LifecycleInvariant == Spec => []LifecycleInv
<1> QED  BY LifecycleInit, LifecycleStep, PTL DEF Spec

\* When close() resolves every connection is closed, every statement finalized but one
\* whose finalize() came later, and every earlier call answered; until then no block finds
\* its reader deleted or its statement finalized; and initialized() tells how the
\* connections opened (close, finalizePrepared, initialized and _connectionOpenFinished of
\* NSSQLiteDatabase.mm).
THEOREM LifecycleHonest == Spec => []LifecycleIsHonest
<1>1. Spec => []LifecycleInv  BY LifecycleInvariant
<1> QED  BY <1>1, LifecycleFollows, PTL
=============================================================================
