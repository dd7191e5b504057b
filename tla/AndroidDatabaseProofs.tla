------------------------ MODULE AndroidDatabaseProofs ------------------------
(***************************************************************************)
(* Proofs about AndroidDatabase, for any number of readers and of calls,   *)
(* with opens that fail, and a close() or a collection at any point.       *)
(*                                                                         *)
(* A task is on its way three times: due at its dispatcher, then as a      *)
(* completion that is done, then in the batch of a drain.  The proof takes *)
(* the three together as one line per connection and speaks of its places: *)
(* what is in it (Toks), in which order (InLine), what is due (Due) and    *)
(* what is answered (Answered).  Running a task moves nothing in the line, *)
(* gathering a queue moves nothing either, running a completion takes the  *)
(* first place off, and a dispatch adds places at the end.  So the         *)
(* invariant Inv is about lines: an open comes first and a close last;     *)
(* before close() there is no close in any line, afterwards the latch      *)
(* counts the lines that have one, and the writer gets its own when no     *)
(* reader has; the opens on their way are counted by openPending; a call   *)
(* is pending exactly while it is in the line of its connection.           *)
(*                                                                         *)
(* All of it is for MayPump = FALSE: a continuation that runs the looper   *)
(* itself drains what comes later before the rest of the running batch.    *)
(***************************************************************************)
EXTENDS AndroidDatabase, FiniteSetTheorems, TLAPS

-----------------------------------------------------------------------------
(* The way of a task: from the work of its dispatcher to the completions    *)
(* done, to the batch that a drain runs.  b is the batch, d and w are what  *)
(* is done and what is to do for connection c.                              *)

Size(b, d, w) == Len(b) + Len(d) + Len(w)

Item(b, d, w, n) ==
  IF n <= Len(b) THEN b[n]
  ELSE IF n <= Len(b) + Len(d) THEN d[n - Len(b)]
  ELSE w[n - Len(b) - Len(d)]

Places(b, d, w, c) == {n \in 1..Size(b, d, w) : n <= Len(b) => b[n].conn = c}

\* What a task is, whether it has run or not.
Token(x) == [kind |-> x.kind, id |-> x.id]
At(b, d, w, n) == Token(Item(b, d, w, n))
Tokens(b, d, w, c) == {At(b, d, w, n) : n \in Places(b, d, w, c)}

\* An open is first, a close is last, and calls go in the order they were made.
Before(t, u) ==
  /\ u.kind # "open" /\ t.kind # "close"
  /\ t.kind = "call" /\ u.kind = "call" => t.id < u.id

InOrder(b, d, w, c) ==
  \A m, n \in Places(b, d, w, c) : m < n => Before(At(b, d, w, m), At(b, d, w, n))

\* The tasks to do, and the completions there are.
Tasks(w) == {Token(w[i]) : i \in DOMAIN w}
Answers(b, d, c) ==
  {d[i] : i \in DOMAIN d} \cup {b[i] : i \in {j \in DOMAIN b : b[j].conn = c}}

\* A task runs: its entry does not move.
LEMMA RunPlaces ==
  ASSUME NEW B, NEW T, NEW b \in Seq(B), NEW d \in Seq(B), NEW w \in Seq(T), NEW x \in B,
         w # <<>>, NEW c
  PROVE  /\ Places(b, Append(d, x), Tail(w), c) = Places(b, d, w, c)
         /\ \A n \in Places(b, d, w, c) :
              Item(b, Append(d, x), Tail(w), n) =
                IF n = Len(b) + Len(d) + 1 THEN x ELSE Item(b, d, w, n)
         /\ Len(b) + Len(d) + 1 \in Places(b, d, w, c)
         /\ Item(b, d, w, Len(b) + Len(d) + 1) = Head(w)
<1> DEFINE e == Append(d, x)
           v == Tail(w)
<1>1. /\ Len(b) \in Nat /\ Len(d) \in Nat /\ Len(w) \in Nat /\ Len(w) > 0
      /\ Len(e) = Len(d) + 1 /\ Len(v) = Len(w) - 1
      /\ \A i \in 1..Len(v) : v[i] = w[i + 1]
      /\ \A i \in 1..Len(e) : e[i] = IF i = Len(d) + 1 THEN x ELSE d[i]
      /\ Head(w) = w[1]
  OBVIOUS
<1> HIDE DEF e, v
<1>2. Places(b, e, v, c) = Places(b, d, w, c)  BY <1>1 DEF Places, Size
<1>3. ASSUME NEW n \in Places(b, d, w, c)
      PROVE  Item(b, e, v, n) = IF n = Len(b) + Len(d) + 1 THEN x ELSE Item(b, d, w, n)
  <2>1. n \in Nat /\ n >= 1 /\ n <= Len(b) + Len(d) + Len(w)  BY <1>1 DEF Places, Size
  <2>2. CASE n <= Len(b)  BY <1>1, <2>1, <2>2 DEF Item
  <2>3. CASE n > Len(b) /\ n <= Len(b) + Len(d)
    <3>1. e[n - Len(b)] = d[n - Len(b)]  BY <1>1, <2>1, <2>3
    <3> QED  BY <1>1, <2>1, <2>3, <3>1 DEF Item
  <2>4. CASE n = Len(b) + Len(d) + 1
    <3>1. e[n - Len(b)] = x  BY <1>1, <2>1, <2>4
    <3> QED  BY <1>1, <2>1, <2>4, <3>1 DEF Item
  <2>5. CASE n > Len(b) + Len(d) + 1
    <3>1. n - Len(b) - Len(e) \in 1..Len(v)  BY <1>1, <2>1, <2>5
    <3>2. (n - Len(b) - Len(e)) + 1 = n - Len(b) - Len(d)  BY <1>1, <2>1
    <3>3. v[n - Len(b) - Len(e)] = w[n - Len(b) - Len(d)]  BY <1>1, <3>1, <3>2
    <3> QED  BY <1>1, <2>1, <2>5, <3>3 DEF Item
  <2> QED  BY <1>1, <2>1, <2>2, <2>3, <2>4, <2>5
<1>4. Len(b) + Len(d) + 1 \in Places(b, d, w, c)  BY <1>1 DEF Places, Size
<1>5. Item(b, d, w, Len(b) + Len(d) + 1) = Head(w)  BY <1>1 DEF Item
<1> QED  BY <1>2, <1>3, <1>4, <1>5 DEF e, v

LEMMA RunOrder ==
  ASSUME NEW B, NEW T, NEW b \in Seq(B), NEW d \in Seq(B), NEW w \in Seq(T), NEW x \in B,
         w # <<>>, NEW c, Token(x) = Token(Head(w)), InOrder(b, d, w, c)
  PROVE  /\ InOrder(b, Append(d, x), Tail(w), c)
         /\ Tokens(b, Append(d, x), Tail(w), c) = Tokens(b, d, w, c)
<1>1. /\ Places(b, Append(d, x), Tail(w), c) = Places(b, d, w, c)
      /\ \A n \in Places(b, d, w, c) :
           Item(b, Append(d, x), Tail(w), n) =
             IF n = Len(b) + Len(d) + 1 THEN x ELSE Item(b, d, w, n)
      /\ Item(b, d, w, Len(b) + Len(d) + 1) = Head(w)
  BY RunPlaces
<1>2. \A n \in Places(b, d, w, c) : At(b, Append(d, x), Tail(w), n) = At(b, d, w, n)
  BY <1>1 DEF At
<1> QED  BY <1>1, <1>2 DEF InOrder, Tokens

\* What is behind a task that runs.
LEMMA RunTasks ==
  ASSUME NEW B, NEW T, NEW b \in Seq(B), NEW d \in Seq(B), NEW w \in Seq(T),
         w # <<>>, NEW c, InOrder(b, d, w, c)
  PROVE  /\ Tasks(w) = {Token(Head(w))} \cup Tasks(Tail(w))
         /\ \A t \in Tasks(Tail(w)) : Before(Token(Head(w)), t)
<1>1. /\ Len(b) \in Nat /\ Len(d) \in Nat /\ Len(w) \in Nat /\ Len(w) > 0
      /\ Len(Tail(w)) = Len(w) - 1 /\ DOMAIN Tail(w) = 1..(Len(w) - 1)
      /\ \A i \in 1..(Len(w) - 1) : Tail(w)[i] = w[i + 1]
      /\ Head(w) = w[1] /\ DOMAIN w = 1..Len(w)
  OBVIOUS
<1> DEFINE k == Len(b) + Len(d)
<1>2. \A i \in DOMAIN w : k + i \in Places(b, d, w, c) /\ At(b, d, w, k + i) = Token(w[i])
  <2> TAKE i \in DOMAIN w
  <2>1. i \in 1..Len(w)  BY <1>1
  <2>2. k + i \in Places(b, d, w, c)  BY <1>1, <2>1 DEF Places, Size
  <2>3. Item(b, d, w, k + i) = w[i]  BY <1>1, <2>1 DEF Item
  <2> QED  BY <2>2, <2>3 DEF At
<1>3. \A i \in 1..(Len(w) - 1) : Before(Token(w[1]), Token(w[i + 1]))
  <2> TAKE i \in 1..(Len(w) - 1)
  <2>1. k + 1 < k + (i + 1) /\ 1 \in DOMAIN w /\ i + 1 \in DOMAIN w  BY <1>1
  <2> QED  BY <1>2, <2>1 DEF InOrder
<1>4. \A t \in Tasks(Tail(w)) : Before(Token(Head(w)), t)  BY <1>1, <1>3 DEF Tasks
<1>5. Tasks(w) = {Token(Head(w))} \cup Tasks(Tail(w))
  <2>1. \A i \in DOMAIN w : i = 1 \/ (i - 1 \in DOMAIN Tail(w) /\ Tail(w)[i - 1] = w[i])
    BY <1>1
  <2>2. \A i \in DOMAIN Tail(w) : i + 1 \in DOMAIN w /\ Tail(w)[i] = w[i + 1]  BY <1>1
  <2>3. 1 \in DOMAIN w  BY <1>1
  <2> QED  BY <1>1, <2>1, <2>2, <2>3 DEF Tasks
<1> QED  BY <1>4, <1>5

LEMMA RunAnswers ==
  ASSUME NEW B, NEW b, NEW d \in Seq(B), NEW x \in B, NEW c
  PROVE  Answers(b, Append(d, x), c) = Answers(b, d, c) \cup {x}
<1>1. /\ DOMAIN d = 1..Len(d) /\ DOMAIN Append(d, x) = 1..(Len(d) + 1) /\ Len(d) \in Nat
      /\ \A i \in 1..Len(d) : Append(d, x)[i] = d[i]
      /\ Append(d, x)[Len(d) + 1] = x
  OBVIOUS
<1>2. {Append(d, x)[i] : i \in DOMAIN Append(d, x)} = {d[i] : i \in DOMAIN d} \cup {x}
  <2>1. \A i \in DOMAIN Append(d, x) : i \in DOMAIN d \/ i = Len(d) + 1  BY <1>1
  <2>2. DOMAIN d \subseteq DOMAIN Append(d, x) /\ Len(d) + 1 \in DOMAIN Append(d, x)  BY <1>1
  <2> QED  BY <1>1, <2>1, <2>2
<1> QED  BY <1>2 DEF Answers

\* A drain takes what is done: on this connection nothing moves ...
LEMMA GatherPlaces ==
  ASSUME NEW B, NEW T, NEW b \in Seq(B), NEW d \in Seq(B), NEW w \in Seq(T), NEW c,
         \A i \in DOMAIN d : d[i].conn = c
  PROVE  /\ Places(b \o d, <<>>, w, c) = Places(b, d, w, c)
         /\ \A n \in Places(b, d, w, c) : Item(b \o d, <<>>, w, n) = Item(b, d, w, n)
<1> DEFINE g == b \o d
<1>1. /\ Len(b) \in Nat /\ Len(d) \in Nat /\ Len(w) \in Nat /\ Len(g) = Len(b) + Len(d)
      /\ \A i \in 1..Len(b) : g[i] = b[i]
      /\ \A i \in 1..Len(d) : g[Len(b) + i] = d[i] /\ d[i].conn = c
  OBVIOUS
<1>2. \A n \in 1..Len(g) : g[n] = IF n <= Len(b) THEN b[n] ELSE d[n - Len(b)]
  <2> TAKE n \in 1..Len(g)
  <2>1. CASE n <= Len(b)  BY <1>1, <2>1
  <2>2. CASE n > Len(b)
    <3>1. n - Len(b) \in 1..Len(d) /\ n = Len(b) + (n - Len(b))  BY <1>1, <2>2
    <3>2. g[Len(b) + (n - Len(b))] = d[n - Len(b)]  BY <1>1, <3>1
    <3> QED  BY <2>2, <3>1, <3>2
  <2> QED  BY <1>1, <2>1, <2>2
<1>3. Len(<<>>) = 0  OBVIOUS
<1> HIDE DEF g
<1>4. \A n \in 1..Len(g) : g[n].conn = c <=> (n <= Len(b) => b[n].conn = c)
  <2> TAKE n \in 1..Len(g)
  <2>1. n > Len(b) => n - Len(b) \in 1..Len(d)  BY <1>1
  <2> QED  BY <1>1, <1>2, <2>1
<1>5. Places(g, <<>>, w, c) = Places(b, d, w, c)
  BY <1>1, <1>3, <1>4 DEF Places, Size
<1>6. ASSUME NEW n \in Places(b, d, w, c)  PROVE Item(g, <<>>, w, n) = Item(b, d, w, n)
  <2>1. n \in Nat /\ n >= 1 /\ n <= Len(b) + Len(d) + Len(w)  BY <1>1 DEF Places, Size
  <2>2. CASE n <= Len(b)  BY <1>1, <1>2, <2>1, <2>2 DEF Item
  <2>3. CASE n > Len(b) /\ n <= Len(g)  BY <1>1, <1>2, <2>1, <2>3 DEF Item
  <2>4. CASE n > Len(g)
    <3>1. n - Len(g) - 0 = n - Len(b) - Len(d)  BY <1>1, <2>1
    <3> QED  BY <1>1, <1>3, <2>1, <2>4, <3>1 DEF Item
  <2> QED  BY <1>1, <2>1, <2>2, <2>3, <2>4
<1> QED  BY <1>5, <1>6 DEF g

LEMMA GatherOrder ==
  ASSUME NEW B, NEW T, NEW b \in Seq(B), NEW d \in Seq(B), NEW w \in Seq(T), NEW c,
         \A i \in DOMAIN d : d[i].conn = c
  PROVE  /\ InOrder(b, d, w, c) => InOrder(b \o d, <<>>, w, c)
         /\ Tokens(b \o d, <<>>, w, c) = Tokens(b, d, w, c)
<1>1. /\ Places(b \o d, <<>>, w, c) = Places(b, d, w, c)
      /\ \A n \in Places(b, d, w, c) : Item(b \o d, <<>>, w, n) = Item(b, d, w, n)
  BY GatherPlaces
<1>2. \A n \in Places(b, d, w, c) : At(b \o d, <<>>, w, n) = At(b, d, w, n)  BY <1>1 DEF At
<1> QED  BY <1>1, <1>2 DEF InOrder, Tokens

\* ... and what is taken is none of the others'.
LEMMA OthersGathered ==
  ASSUME NEW B, NEW T, NEW b \in Seq(B), NEW a \in Seq(B), NEW d \in Seq(B), NEW w \in Seq(T),
         NEW c, \A i \in DOMAIN a : a[i].conn # c
  PROVE  /\ InOrder(b, d, w, c) => InOrder(b \o a, d, w, c)
         /\ Tokens(b \o a, d, w, c) = Tokens(b, d, w, c)
<1> DEFINE g == b \o a
<1>1. /\ Len(b) \in Nat /\ Len(d) \in Nat /\ Len(w) \in Nat /\ Len(a) \in Nat
      /\ Len(g) = Len(b) + Len(a)
      /\ \A i \in 1..Len(b) : g[i] = b[i]
      /\ \A i \in 1..Len(a) : g[Len(b) + i] = a[i] /\ a[i].conn # c
  OBVIOUS
<1>2. \A n \in 1..Len(g) : n > Len(b) => g[n].conn # c
  <2> TAKE n \in 1..Len(g)
  <2>1. n > Len(b) => n - Len(b) \in 1..Len(a) /\ n = Len(b) + (n - Len(b))  BY <1>1
  <2> QED  BY <1>1, <2>1
<1> HIDE DEF g
<1> DEFINE f == [n \in Places(g, d, w, c) |-> IF n <= Len(b) THEN n ELSE n - Len(a)]
<1>3. ASSUME NEW n \in Places(g, d, w, c)
      PROVE  /\ n \in Nat /\ n >= 1 /\ n <= Len(b) + Len(a) + Len(d) + Len(w)
             /\ n <= Len(b) \/ n > Len(b) + Len(a)
  BY <1>1, <1>2 DEF Places, Size
<1>4. ASSUME NEW n \in Places(g, d, w, c)
      PROVE  f[n] \in Places(b, d, w, c) /\ Item(g, d, w, n) = Item(b, d, w, f[n])
  <2>1. CASE n <= Len(b)
    <3>1. f[n] = n /\ n \in Places(b, d, w, c)  BY <1>1, <1>3, <2>1 DEF Places, Size
    <3> QED  BY <1>1, <1>3, <2>1, <3>1 DEF Item
  <2>2. CASE n > Len(b) + Len(a)
    <3>1. f[n] = n - Len(a) /\ f[n] \in Places(b, d, w, c)
      BY <1>1, <1>3, <2>2 DEF Places, Size
    <3>2. /\ n - Len(g) = f[n] - Len(b) /\ n - Len(g) - Len(d) = f[n] - Len(b) - Len(d)
          /\ f[n] > Len(b) /\ (n <= Len(g) + Len(d) <=> f[n] <= Len(b) + Len(d))
      BY <1>1, <1>3, <2>2, <3>1
    <3> QED  BY <1>1, <1>3, <2>2, <3>1, <3>2 DEF Item
  <2> QED  BY <1>3, <2>1, <2>2
<1>5. \A m, n \in Places(g, d, w, c) : m < n => f[m] < f[n]  BY <1>1, <1>3
<1>6. \A n \in Places(g, d, w, c) : At(g, d, w, n) = At(b, d, w, f[n])  BY <1>4 DEF At
<1>7. ASSUME NEW n \in Places(b, d, w, c)
      PROVE  \E m \in Places(g, d, w, c) : f[m] = n
  <2>1. n \in Nat /\ n >= 1 /\ n <= Len(b) + Len(d) + Len(w)  BY <1>1 DEF Places, Size
  <2>2. CASE n <= Len(b)
    <3>1. n \in Places(g, d, w, c)  BY <1>1, <2>1, <2>2 DEF Places, Size
    <3> QED  BY <2>2, <3>1
  <2>3. CASE n > Len(b)
    <3>1. n + Len(a) \in Places(g, d, w, c)  BY <1>1, <2>1, <2>3 DEF Places, Size
    <3>2. f[n + Len(a)] = n  BY <1>1, <2>1, <2>3, <3>1
    <3> QED  BY <3>1, <3>2
  <2> QED  BY <1>1, <2>1, <2>2, <2>3
<1>8. Tokens(g, d, w, c) = Tokens(b, d, w, c)  BY <1>4, <1>6, <1>7 DEF Tokens
<1> HIDE DEF f
<1>9. InOrder(b, d, w, c) => InOrder(g, d, w, c)  BY <1>4, <1>5, <1>6 DEF InOrder
<1> QED  BY <1>8, <1>9 DEF g

LEMMA GatherAnswers ==
  ASSUME NEW B, NEW b \in Seq(B), NEW a \in Seq(B), NEW d, NEW c
  PROVE  /\ (\A i \in DOMAIN a : a[i].conn = c) => Answers(b \o a, <<>>, c) = Answers(b, a, c)
         /\ (\A i \in DOMAIN a : a[i].conn # c) => Answers(b \o a, d, c) = Answers(b, d, c)
<1> DEFINE g == b \o a
           mine(s) == {s[i] : i \in {j \in DOMAIN s : s[j].conn = c}}
<1>1. /\ Len(b) \in Nat /\ Len(a) \in Nat /\ DOMAIN g = 1..(Len(b) + Len(a))
      /\ DOMAIN b = 1..Len(b) /\ DOMAIN a = 1..Len(a)
      /\ \A i \in 1..Len(b) : g[i] = b[i]
      /\ \A i \in 1..Len(a) : g[Len(b) + i] = a[i]
  OBVIOUS
<1> HIDE DEF g
<1>2. \A n \in DOMAIN g : \/ n \in DOMAIN b /\ g[n] = b[n]
                          \/ n - Len(b) \in DOMAIN a /\ g[n] = a[n - Len(b)]
  <2> TAKE n \in DOMAIN g
  <2>1. n > Len(b) => n - Len(b) \in 1..Len(a) /\ n = Len(b) + (n - Len(b))  BY <1>1
  <2> QED  BY <1>1, <2>1
<1>3. \A i \in DOMAIN b : i \in DOMAIN g /\ g[i] = b[i]  BY <1>1
<1>4. \A i \in DOMAIN a : Len(b) + i \in DOMAIN g /\ g[Len(b) + i] = a[i]  BY <1>1
<1>5. mine(g) = mine(b) \cup mine(a)
  <2>1. mine(g) \subseteq mine(b) \cup mine(a)  BY <1>2
  <2>2. mine(b) \subseteq mine(g)  BY <1>3
  <2>3. mine(a) \subseteq mine(g)  BY <1>4
  <2> QED  BY <2>1, <2>2, <2>3
<1>6. (\A i \in DOMAIN a : a[i].conn = c) => mine(a) = {a[i] : i \in DOMAIN a}  OBVIOUS
<1>7. (\A i \in DOMAIN a : a[i].conn # c) => mine(a) = {}  OBVIOUS
<1>8. {<<>>[i] : i \in DOMAIN <<>>} = {}  OBVIOUS
<1> QED  BY <1>5, <1>6, <1>7, <1>8 DEF Answers, g

\* A completion runs: the entries of the batch move up.
LEMMA RunsOrder ==
  ASSUME NEW B, NEW T, NEW b \in Seq(B), NEW d \in Seq(B), NEW w \in Seq(T), NEW c, b # <<>>
  PROVE  /\ InOrder(b, d, w, c) => InOrder(Tail(b), d, w, c)
         /\ Head(b).conn # c => Tokens(Tail(b), d, w, c) = Tokens(b, d, w, c)
         /\ Head(b).conn = c =>
              /\ Tokens(b, d, w, c) = {Token(Head(b))} \cup Tokens(Tail(b), d, w, c)
              /\ InOrder(b, d, w, c) =>
                   \A t \in Tokens(Tail(b), d, w, c) : Before(Token(Head(b)), t)
<1> DEFINE g == Tail(b)
<1>1. /\ Len(b) \in Nat /\ Len(d) \in Nat /\ Len(w) \in Nat /\ Len(b) > 0
      /\ Len(g) = Len(b) - 1 /\ \A i \in 1..Len(g) : g[i] = b[i + 1]
      /\ Head(b) = b[1]
  OBVIOUS
<1> HIDE DEF g
<1> DEFINE f == [n \in Places(g, d, w, c) |-> n + 1]
<1>2. ASSUME NEW n \in Places(g, d, w, c)
      PROVE  /\ n \in Nat /\ n >= 1 /\ n <= Len(g) + Len(d) + Len(w)
             /\ n + 1 \in Places(b, d, w, c) /\ Item(g, d, w, n) = Item(b, d, w, n + 1)
  <2>1. n \in Nat /\ n >= 1 /\ n <= Len(g) + Len(d) + Len(w)  BY <1>1 DEF Places, Size
  <2>2. CASE n <= Len(g)  BY <1>1, <2>1, <2>2 DEF Places, Size, Item
  <2>3. CASE n > Len(g)
    <3>1. /\ (n + 1) - Len(b) = n - Len(g)
          /\ (n + 1) - Len(b) - Len(d) = n - Len(g) - Len(d)
          /\ n + 1 > Len(b) /\ (n + 1 <= Len(b) + Len(d) <=> n <= Len(g) + Len(d))
          /\ n + 1 \in 1..(Len(b) + Len(d) + Len(w))
      BY <1>1, <2>1, <2>3
    <3> QED  BY <2>1, <2>3, <3>1 DEF Places, Size, Item
  <2> QED  BY <1>1, <2>1, <2>2, <2>3
<1>3. \A n \in Places(g, d, w, c) : At(g, d, w, n) = At(b, d, w, n + 1)  BY <1>2 DEF At
<1>4. InOrder(b, d, w, c) => InOrder(g, d, w, c)
  <2> SUFFICES ASSUME InOrder(b, d, w, c), NEW m \in Places(g, d, w, c), NEW n \in Places(g, d, w, c), m < n
               PROVE  Before(At(g, d, w, m), At(g, d, w, n))
    BY DEF InOrder
  <2>1. m + 1 < n + 1  BY <1>2
  <2> QED  BY <1>2, <1>3, <2>1 DEF InOrder
<1>5. ASSUME NEW n \in Places(b, d, w, c), n # 1  PROVE n - 1 \in Places(g, d, w, c)
  <2>1. n \in Nat /\ n > 1 /\ n <= Len(b) + Len(d) + Len(w)  BY <1>1, <1>5 DEF Places, Size
  <2>2. CASE n <= Len(b)
    <3>1. n - 1 \in 1..Len(g) /\ (n - 1) + 1 = n  BY <1>1, <2>1, <2>2
    <3>2. g[n - 1] = b[n]  BY <1>1, <3>1
    <3> QED  BY <1>1, <2>1, <2>2, <3>1, <3>2 DEF Places, Size
  <2>3. CASE n > Len(b)  BY <1>1, <2>1, <2>3 DEF Places, Size
  <2> QED  BY <1>1, <2>1, <2>2, <2>3
<1>6. ASSUME NEW n \in Places(b, d, w, c), n # 1
      PROVE  At(b, d, w, n) = At(g, d, w, n - 1) /\ n - 1 \in Places(g, d, w, c)
  <2>1. n \in Nat  BY <1>1 DEF Places, Size
  <2>2. (n - 1) + 1 = n  BY <2>1
  <2> QED  BY <1>3, <1>5, <1>6, <2>2
<1>7. ASSUME Head(b).conn # c  PROVE Tokens(g, d, w, c) = Tokens(b, d, w, c)
  <2>1. 1 \notin Places(b, d, w, c)  BY <1>1, <1>7 DEF Places
  <2>2. Tokens(b, d, w, c) \subseteq Tokens(g, d, w, c)  BY <1>6, <2>1 DEF Tokens
  <2>3. Tokens(g, d, w, c) \subseteq Tokens(b, d, w, c)  BY <1>2, <1>3 DEF Tokens
  <2> QED  BY <2>2, <2>3
<1>8. ASSUME Head(b).conn = c
      PROVE  /\ Tokens(b, d, w, c) = {Token(Head(b))} \cup Tokens(g, d, w, c)
             /\ InOrder(b, d, w, c) => \A t \in Tokens(g, d, w, c) : Before(Token(Head(b)), t)
  <2>1. 1 \in Places(b, d, w, c) /\ At(b, d, w, 1) = Token(Head(b))
    BY <1>1, <1>8 DEF Places, Size, At, Item
  <2>2. Tokens(b, d, w, c) \subseteq {Token(Head(b))} \cup Tokens(g, d, w, c)
    BY <1>6, <2>1 DEF Tokens
  <2>3. {Token(Head(b))} \cup Tokens(g, d, w, c) \subseteq Tokens(b, d, w, c)
    BY <1>2, <1>3, <2>1 DEF Tokens
  <2>4. ASSUME InOrder(b, d, w, c), NEW n \in Places(g, d, w, c)
        PROVE  Before(Token(Head(b)), At(g, d, w, n))
    <3>1. 1 < n + 1  BY <1>2
    <3> QED  BY <1>2, <1>3, <2>1, <2>4, <3>1 DEF InOrder
  <2>5. InOrder(b, d, w, c) => \A t \in Tokens(g, d, w, c) : Before(Token(Head(b)), t)
    BY <2>4 DEF Tokens
  <2> QED  BY <2>2, <2>3, <2>5
<1> QED  BY <1>4, <1>7, <1>8 DEF g

LEMMA RunsAnswers ==
  ASSUME NEW B, NEW b \in Seq(B), NEW d, NEW c, b # <<>>
  PROVE  /\ Head(b).conn # c => Answers(Tail(b), d, c) = Answers(b, d, c)
         /\ Answers(Tail(b), d, c) \subseteq Answers(b, d, c)
         /\ Head(b).conn = c => Answers(b, d, c) = {Head(b)} \cup Answers(Tail(b), d, c)
<1> DEFINE g == Tail(b)
           mine(s) == {s[i] : i \in {j \in DOMAIN s : s[j].conn = c}}
<1>1. /\ Len(b) \in Nat /\ Len(b) > 0 /\ DOMAIN b = 1..Len(b) /\ DOMAIN g = 1..(Len(b) - 1)
      /\ \A i \in 1..(Len(b) - 1) : g[i] = b[i + 1]
      /\ Head(b) = b[1]
  OBVIOUS
<1> HIDE DEF g
<1>2. \A n \in DOMAIN b : n = 1 \/ (n - 1 \in DOMAIN g /\ g[n - 1] = b[n])
  <2> TAKE n \in DOMAIN b
  <2>1. n # 1 => n - 1 \in 1..(Len(b) - 1) /\ (n - 1) + 1 = n  BY <1>1
  <2> QED  BY <1>1, <2>1
<1>3. \A n \in DOMAIN g : n + 1 \in DOMAIN b /\ g[n] = b[n + 1]  BY <1>1
<1>4. mine(g) \subseteq mine(b)  BY <1>3
<1>5. Head(b).conn # c => mine(b) \subseteq mine(g)  BY <1>1, <1>2
<1>6. Head(b).conn = c => mine(b) = {Head(b)} \cup mine(g)
  <2>1. 1 \in DOMAIN b  BY <1>1
  <2>2. mine(b) \subseteq {Head(b)} \cup mine(g)  BY <1>1, <1>2
  <2>3. Head(b).conn = c => Head(b) \in mine(b)  BY <1>1, <2>1
  <2> QED  BY <1>4, <2>2, <2>3
<1> QED  BY <1>4, <1>5, <1>6 DEF Answers, g

\* Tasks are dispatched.
LEMMA DispatchOrder ==
  ASSUME NEW B, NEW T, NEW b \in Seq(B), NEW d \in Seq(B), NEW w \in Seq(T), NEW u \in Seq(T),
         NEW c
  PROVE  /\ Tokens(b, d, w \o u, c) = Tokens(b, d, w, c) \cup Tasks(u)
         /\ Tasks(w \o u) = Tasks(w) \cup Tasks(u)
         /\ /\ InOrder(b, d, w, c)
            /\ \A t \in Tokens(b, d, w, c), i \in DOMAIN u : Before(t, Token(u[i]))
            /\ \A i, j \in DOMAIN u : i < j => Before(Token(u[i]), Token(u[j]))
            => InOrder(b, d, w \o u, c)
<1> DEFINE g == w \o u
           k == Len(b) + Len(d) + Len(w)
<1>1. /\ Len(b) \in Nat /\ Len(d) \in Nat /\ Len(w) \in Nat /\ Len(u) \in Nat
      /\ Len(g) = Len(w) + Len(u)
      /\ DOMAIN g = 1..(Len(w) + Len(u)) /\ DOMAIN w = 1..Len(w) /\ DOMAIN u = 1..Len(u)
      /\ \A i \in 1..Len(w) : g[i] = w[i]
      /\ \A i \in 1..Len(u) : g[Len(w) + i] = u[i]
  OBVIOUS
<1> HIDE DEF g
<1>2. ASSUME NEW n \in Places(b, d, w, c)
      PROVE  n \in Nat /\ n <= k /\ n \in Places(b, d, g, c) /\ At(b, d, g, n) = At(b, d, w, n)
  <2>1. n \in Nat /\ n >= 1 /\ n <= k  BY <1>1 DEF Places, Size
  <2>2. n \in Places(b, d, g, c)  BY <1>1, <2>1 DEF Places, Size
  <2>3. CASE n <= Len(b)  BY <1>1, <2>1, <2>2, <2>3 DEF Item, At
  <2>4. CASE n > Len(b) /\ n <= Len(b) + Len(d)  BY <1>1, <2>1, <2>2, <2>4 DEF Item, At
  <2>5. CASE n > Len(b) + Len(d)
    <3>1. n - Len(b) - Len(d) \in 1..Len(w)  BY <1>1, <2>1, <2>5
    <3>2. g[n - Len(b) - Len(d)] = w[n - Len(b) - Len(d)]  BY <1>1, <3>1
    <3>3. ~(n <= Len(b)) /\ ~(n <= Len(b) + Len(d))  BY <1>1, <2>1, <2>5
    <3> QED  BY <2>1, <2>2, <3>2, <3>3 DEF Item, At
  <2> QED  BY <1>1, <2>1, <2>3, <2>4, <2>5
<1>3. ASSUME NEW i \in DOMAIN u
      PROVE  k + i \in Places(b, d, g, c) /\ At(b, d, g, k + i) = Token(u[i])
  <2>1. i \in Nat /\ i >= 1 /\ i <= Len(u)  BY <1>1
  <2>2. k + i \in Places(b, d, g, c)  BY <1>1, <2>1 DEF Places, Size
  <2>3. (k + i) - Len(b) - Len(d) = Len(w) + i  BY <1>1, <2>1
  <2>4. Item(b, d, g, k + i) = u[i]  BY <1>1, <2>1, <2>3 DEF Item
  <2> QED  BY <2>2, <2>4 DEF At
<1>4. ASSUME NEW n \in Places(b, d, g, c)
      PROVE  n \in Nat /\ (n \in Places(b, d, w, c) \/ (n > k /\ n - k \in DOMAIN u))
  BY <1>1 DEF Places, Size
<1>5. ASSUME NEW n \in Places(b, d, g, c), n > k
      PROVE  n - k \in DOMAIN u /\ At(b, d, g, n) = Token(u[n - k])
  <2>1. n - k \in DOMAIN u  BY <1>2, <1>4, <1>5
  <2>2. k + (n - k) = n  BY <1>1, <1>4
  <2> QED  BY <1>3, <2>1, <2>2
<1>6. Tokens(b, d, g, c) = Tokens(b, d, w, c) \cup Tasks(u)
  <2>1. ASSUME NEW t \in Tokens(b, d, g, c)  PROVE t \in Tokens(b, d, w, c) \cup Tasks(u)
    <3>1. PICK n \in Places(b, d, g, c) : t = At(b, d, g, n)  BY DEF Tokens
    <3>2. CASE n \in Places(b, d, w, c)  BY <1>2, <3>1, <3>2 DEF Tokens
    <3>3. CASE n > k /\ n - k \in DOMAIN u  BY <1>5, <3>1, <3>3 DEF Tasks
    <3> QED  BY <1>4, <3>2, <3>3
  <2>2. Tokens(b, d, w, c) \subseteq Tokens(b, d, g, c)  BY <1>2 DEF Tokens
  <2>3. Tasks(u) \subseteq Tokens(b, d, g, c)  BY <1>3 DEF Tokens, Tasks
  <2> QED  BY <2>1, <2>2, <2>3
<1>7. Tasks(g) = Tasks(w) \cup Tasks(u)
  <2>1. \A n \in DOMAIN g : \/ n \in DOMAIN w /\ g[n] = w[n]
                            \/ n - Len(w) \in DOMAIN u /\ g[n] = u[n - Len(w)]
    <3> TAKE n \in DOMAIN g
    <3>1. n > Len(w) => n - Len(w) \in 1..Len(u) /\ n = Len(w) + (n - Len(w))  BY <1>1
    <3> QED  BY <1>1, <3>1
  <2>2. \A i \in DOMAIN w : i \in DOMAIN g /\ g[i] = w[i]  BY <1>1
  <2>3. \A i \in DOMAIN u : Len(w) + i \in DOMAIN g /\ g[Len(w) + i] = u[i]  BY <1>1
  <2>4. Tasks(g) \subseteq Tasks(w) \cup Tasks(u)  BY <2>1 DEF Tasks
  <2>5. Tasks(w) \subseteq Tasks(g)  BY <2>2 DEF Tasks
  <2>6. Tasks(u) \subseteq Tasks(g)  BY <2>3 DEF Tasks
  <2> QED  BY <2>4, <2>5, <2>6
<1>8. ASSUME InOrder(b, d, w, c),
             \A t \in Tokens(b, d, w, c), i \in DOMAIN u : Before(t, Token(u[i])),
             \A i, j \in DOMAIN u : i < j => Before(Token(u[i]), Token(u[j]))
      PROVE  InOrder(b, d, g, c)
  <2> SUFFICES ASSUME NEW m \in Places(b, d, g, c), NEW n \in Places(b, d, g, c), m < n
               PROVE  Before(At(b, d, g, m), At(b, d, g, n))
    BY DEF InOrder
  <2>1. CASE n \in Places(b, d, w, c)
    <3>1. m \in Places(b, d, w, c)  BY <1>1, <1>2, <1>4, <2>1
    <3> QED  BY <1>2, <1>8, <2>1, <3>1 DEF InOrder
  <2>2. CASE n > k /\ m \in Places(b, d, w, c)
    <3>1. At(b, d, w, m) \in Tokens(b, d, w, c)  BY <2>2 DEF Tokens
    <3> QED  BY <1>2, <1>5, <1>8, <2>2, <3>1
  <2>3. CASE n > k /\ m > k
    <3>1. m - k < n - k  BY <1>1, <1>4
    <3> QED  BY <1>5, <1>8, <2>3, <3>1
  <2> QED  BY <1>4, <2>1, <2>2, <2>3
<1> QED  BY <1>6, <1>7, <1>8 DEF g
-----------------------------------------------------------------------------
(* The same of a state: what is on its way for a connection.                *)

Batch == IF frames = <<>> THEN <<>> ELSE Top.batch

Toks(c)     == Tokens(Batch, done[c], work[c], c)
Due(c)      == Tasks(work[c])
Answered(c) == Answers(Batch, done[c], c)
InLine(c)   == InOrder(Batch, done[c], work[c], c)

\* No drain runs inside another one, and what has run is gone.
OneFrame ==
  frames = <<>> \/ \E f \in Frame : frames = <<f>> /\ (f.pc = "after" => f.batch = <<>>)

Typed ==
  /\ poolSize \in PoolSizes
  /\ inst \in {"none", "live", "freed", "threw"}
  /\ handle \in {"none", "valid", "closed", "lost"}
  /\ closing \in BOOLEAN /\ ready \in BOOLEAN
  /\ conn \in [Conns -> {"new", "open", "failed", "closed"}]
  /\ parked \in [Readers -> Seq(Calls)]
  /\ openPending \in Int /\ failedOrder \in Conns \cup {NoOrder} /\ latch \in Int
  /\ nextReader \in 0..poolSize /\ (poolSize > 0 => nextReader < poolSize)
  /\ work \in [Conns -> Seq(Task)] /\ done \in [Conns -> Seq(Completion)]
  /\ signalling \in [Conns -> BOOLEAN] /\ efd \in [Conns -> BOOLEAN]
  /\ responses \subseteq Conns /\ OneFrame /\ fed \subseteq Conns
  /\ outcome \in [Calls -> Outcome] /\ target \in [Calls -> Conns]
  /\ init \in {"none", "waiting", "resolved", "rejected", "dropped"}
  /\ closed \in {"none", "pending", "resolved"}

\* A queue holds the completions of its own connection.
OwnQueue(c) == \A i \in DOMAIN done[c] : done[c][i].conn = c
OwnQueues == \A c \in Conns : OwnQueue(c)

LEMMA PoolSizeNat == ASSUME Typed PROVE poolSize \in Nat /\ Writer \in Conns /\ Readers \subseteq Conns
BY DatabaseAssumption DEF Typed, Writer, Readers, Conns

LEMMA TopFrame ==
  ASSUME OneFrame, Draining
  PROVE  /\ Top \in Frame /\ frames = <<Top>> /\ Len(frames) = 1 /\ Batch = Top.batch
         /\ Top.pc = "after" => Top.batch = <<>>
<1>1. PICK f \in Frame : frames = <<f>> /\ (f.pc = "after" => f.batch = <<>>)
  BY DEF OneFrame, Draining
<1>2. Top = f /\ Len(frames) = 1  BY <1>1 DEF Top
<1> QED  BY <1>1, <1>2 DEF Batch, Draining

LEMMA TopSet ==
  ASSUME OneFrame, Draining, NEW g, SetTop(g)
  PROVE  frames' = <<g>> /\ Batch' = g.batch
<1>1. PICK f \in Frame : frames = <<f>>  BY DEF OneFrame, Draining
<1>2. Tail(frames) = <<>>  BY <1>1
<1>3. <<g>> \o <<>> = <<g>>  OBVIOUS
<1>4. frames' = <<g>>  BY <1>2, <1>3 DEF SetTop
<1> QED  BY <1>4 DEF Batch, Top

LEMMA TopEnds ==
  ASSUME OneFrame, Draining, EndDrain
  PROVE  frames' = <<>> /\ Batch' = <<>> /\ fed' = {}
<1>1. PICK f \in Frame : frames = <<f>>  BY DEF OneFrame, Draining
<1>2. Tail(frames) = <<>> /\ Len(frames) = 1  BY <1>1
<1> QED  BY <1>2 DEF EndDrain, Batch

LEMMA BatchTyped == ASSUME OneFrame PROVE Batch \in Seq(Completion)
<1>1. CASE frames = <<>>  BY <1>1 DEF Batch
<1>2. CASE Draining
  <2>1. Top \in Frame /\ Batch = Top.batch  BY <1>2, TopFrame
  <2> QED  BY <2>1 DEF Frame
<1> QED  BY <1>1, <1>2 DEF Draining

\* Steps that leave what is on its way as it is.
LEMMA Quiet ==
  ASSUME Batch' = Batch, UNCHANGED <<done, work>>, NEW c
  PROVE  /\ Toks(c)' = Toks(c) /\ Due(c)' = Due(c) /\ Answered(c)' = Answered(c)
         /\ InLine(c)' <=> InLine(c)
BY DEF Toks, Due, Answered, InLine

\* What is due or answered is in line.
LEMMA InToks ==
  ASSUME Typed, NEW c \in Conns, OwnQueue(c)
  PROVE  /\ Due(c) \subseteq Toks(c)
         /\ \A a \in Answered(c) : a \in Completion /\ a.conn = c /\ Token(a) \in Toks(c)
<1> DEFINE b == Batch
           d == done[c]
           w == work[c]
<1>1. b \in Seq(Completion) /\ d \in Seq(Completion) /\ w \in Seq(Task)
  BY BatchTyped DEF Typed
<1>2. \A i \in DOMAIN d : d[i].conn = c  BY DEF OwnQueue
<1>3. Toks(c) = Tokens(b, d, w, c) /\ Due(c) = Tasks(w) /\ Answered(c) = Answers(b, d, c)
  BY DEF Toks, Due, Answered
<1> HIDE DEF b, d, w
<1>4. /\ Len(b) \in Nat /\ Len(d) \in Nat /\ Len(w) \in Nat
      /\ DOMAIN b = 1..Len(b) /\ DOMAIN d = 1..Len(d) /\ DOMAIN w = 1..Len(w)
      /\ \A i \in DOMAIN b : b[i] \in Completion
      /\ \A i \in DOMAIN d : d[i] \in Completion
  BY <1>1
<1>5. ASSUME NEW i \in DOMAIN w  PROVE Token(w[i]) \in Tokens(b, d, w, c)
  <2>1. Len(b) + Len(d) + i \in Places(b, d, w, c)  BY <1>4 DEF Places, Size
  <2>2. Item(b, d, w, Len(b) + Len(d) + i) = w[i]  BY <1>4 DEF Item
  <2> QED  BY <2>1, <2>2 DEF Tokens, At
<1>6. ASSUME NEW i \in DOMAIN d  PROVE Token(d[i]) \in Tokens(b, d, w, c)
  <2>1. Len(b) + i \in Places(b, d, w, c)  BY <1>4 DEF Places, Size
  <2>2. Item(b, d, w, Len(b) + i) = d[i]  BY <1>4 DEF Item
  <2> QED  BY <2>1, <2>2 DEF Tokens, At
<1>7. ASSUME NEW i \in DOMAIN b, b[i].conn = c  PROVE Token(b[i]) \in Tokens(b, d, w, c)
  <2>1. i \in Places(b, d, w, c)  BY <1>4, <1>7 DEF Places, Size
  <2>2. Item(b, d, w, i) = b[i]  BY <1>4 DEF Item
  <2> QED  BY <2>1, <2>2 DEF Tokens, At
<1>8. Due(c) \subseteq Toks(c)  BY <1>3, <1>5 DEF Tasks
<1>9. ASSUME NEW a \in Answered(c)
      PROVE  a \in Completion /\ a.conn = c /\ Token(a) \in Toks(c)
  <2>1. (\E i \in DOMAIN d : a = d[i]) \/ (\E i \in DOMAIN b : b[i].conn = c /\ a = b[i])
    BY <1>3 DEF Answers
  <2>2. CASE \E i \in DOMAIN d : a = d[i]  BY <1>2, <1>3, <1>4, <1>6, <2>2
  <2>3. CASE \E i \in DOMAIN b : b[i].conn = c /\ a = b[i]  BY <1>3, <1>4, <1>7, <2>3
  <2> QED  BY <2>1, <2>2, <2>3
<1> QED  BY <1>8, <1>9

\* A worker runs its next task.
LEMMA RunEffect ==
  ASSUME Typed, NEW c \in Conns, InLine(c), work[c] # <<>>, NEW x \in Completion,
         Token(x) = Head(work[c]), UNCHANGED <<frames, poolSize>>,
         done' = [done EXCEPT ![c] = Append(@, x)],
         work' = [work EXCEPT ![c] = Tail(@)]
  PROVE  /\ InLine(c)' /\ Toks(c)' = Toks(c)
         /\ Due(c) = {Token(x)} \cup Due(c)' /\ \A t \in Due(c)' : Before(Token(x), t)
         /\ Answered(c)' = Answered(c) \cup {x}
         /\ \A e \in Conns : e # c =>
              /\ Toks(e)' = Toks(e) /\ Due(e)' = Due(e) /\ Answered(e)' = Answered(e)
              /\ InLine(e)' <=> InLine(e)
<1>1. Batch \in Seq(Completion) /\ done[c] \in Seq(Completion) /\ work[c] \in Seq(Task)
  BY BatchTyped DEF Typed
<1>2. Batch' = Batch  BY DEF Batch, Top
<1>3. /\ done'[c] = Append(done[c], x) /\ work'[c] = Tail(work[c])
      /\ \A e \in Conns : e # c => done'[e] = done[e] /\ work'[e] = work[e]
  BY DEF Typed
<1>4. Token(Head(work[c])) = Head(work[c])
  <2>1. Head(work[c]) \in Task  BY <1>1
  <2> QED  BY <2>1 DEF Task, Token, Open_, Close_, Call_
<1>5. InOrder(Batch, done[c], work[c], c)  BY DEF InLine
<1>6. /\ InOrder(Batch, Append(done[c], x), Tail(work[c]), c)
      /\ Tokens(Batch, Append(done[c], x), Tail(work[c]), c) = Tokens(Batch, done[c], work[c], c)
  BY <1>1, <1>4, <1>5, RunOrder
<1>7. /\ Tasks(work[c]) = {Token(Head(work[c]))} \cup Tasks(Tail(work[c]))
      /\ \A t \in Tasks(Tail(work[c])) : Before(Token(Head(work[c])), t)
  BY <1>1, <1>5, RunTasks
<1>8. Answers(Batch, Append(done[c], x), c) = Answers(Batch, done[c], c) \cup {x}
  BY <1>1, RunAnswers
<1>9. InLine(c)' /\ Toks(c)' = Toks(c)  BY <1>2, <1>3, <1>6 DEF InLine, Toks
<1>10. Due(c) = {Token(x)} \cup Due(c)' /\ \A t \in Due(c)' : Before(Token(x), t)
  BY <1>3, <1>4, <1>7 DEF Due
<1>11. Answered(c)' = Answered(c) \cup {x}  BY <1>2, <1>3, <1>8 DEF Answered
<1>12. \A e \in Conns : e # c =>
         /\ Toks(e)' = Toks(e) /\ Due(e)' = Due(e) /\ Answered(e)' = Answered(e)
         /\ InLine(e)' <=> InLine(e)
  BY <1>2, <1>3 DEF Toks, Due, Answered, InLine
<1> QED  BY <1>9, <1>10, <1>11, <1>12

\* A drain takes what is done.
LEMMA GatherEffect ==
  ASSUME Typed, OwnQueues, NEW c \in Conns, Batch' = Batch \o done[c],
         done' = [done EXCEPT ![c] = <<>>], work' = work, poolSize' = poolSize
  PROVE  \A e \in Conns :
           /\ Toks(e)' = Toks(e) /\ Due(e)' = Due(e) /\ Answered(e)' = Answered(e)
           /\ InLine(e) => InLine(e)'
<1> DEFINE b == Batch
           a == done[c]
<1>1. b \in Seq(Completion) /\ a \in Seq(Completion)
  BY BatchTyped DEF Typed
<1>2. \A i \in DOMAIN a : a[i].conn = c  BY DEF OwnQueues, OwnQueue
<1>3. /\ done'[c] = <<>> /\ \A e \in Conns : e # c => done'[e] = done[e]
      /\ Batch' = b \o a
  BY DEF Typed
<1>4. ASSUME NEW e \in Conns
      PROVE  /\ Toks(e) = Tokens(b, done[e], work[e], e) /\ Answered(e) = Answers(b, done[e], e)
             /\ InLine(e) <=> InOrder(b, done[e], work[e], e)
  BY DEF Toks, Answered, InLine
<1>5. ASSUME NEW e \in Conns
      PROVE  /\ Toks(e)' = Tokens(b \o a, done'[e], work[e], e)
             /\ Answered(e)' = Answers(b \o a, done'[e], e)
             /\ InLine(e)' <=> InOrder(b \o a, done'[e], work[e], e)
             /\ Due(e)' = Due(e)
  BY DEF Toks, Answered, InLine, Due
<1>6. a = done[c]  OBVIOUS
<1> HIDE DEF a, b
<1>7. /\ Toks(c)' = Toks(c) /\ Due(c)' = Due(c) /\ Answered(c)' = Answered(c)
      /\ InLine(c) => InLine(c)'
  <2> DEFINE w == work[c]
  <2>1. w \in Seq(Task)  BY DEF Typed
  <2> HIDE DEF w
  <2>2. /\ InOrder(b, a, w, c) => InOrder(b \o a, <<>>, w, c)
        /\ Tokens(b \o a, <<>>, w, c) = Tokens(b, a, w, c)
    BY <1>1, <1>2, <2>1, GatherOrder
  <2>3. Answers(b \o a, <<>>, c) = Answers(b, a, c)
    BY <1>1, <1>2, GatherAnswers
  <2> QED  BY <1>3, <1>4, <1>5, <1>6, <2>2, <2>3 DEF w
<1>8. ASSUME NEW e \in Conns, e # c
      PROVE  /\ Toks(e)' = Toks(e) /\ Due(e)' = Due(e) /\ Answered(e)' = Answered(e)
             /\ InLine(e) => InLine(e)'
  <2> DEFINE w == work[e]
             d == done[e]
  <2>1. d \in Seq(Completion) /\ w \in Seq(Task)  BY DEF Typed
  <2> HIDE DEF w, d
  <2>2. \A i \in DOMAIN a : a[i].conn # e  BY <1>2, <1>8
  <2>3. /\ InOrder(b, d, w, e) => InOrder(b \o a, d, w, e)
        /\ Tokens(b \o a, d, w, e) = Tokens(b, d, w, e)
    BY <1>1, <2>1, <2>2, OthersGathered
  <2>4. Answers(b \o a, d, e) = Answers(b, d, e)
    BY <1>1, <2>2, GatherAnswers
  <2> QED  BY <1>3, <1>4, <1>5, <1>8, <2>3, <2>4 DEF w, d
<1> QED  BY <1>7, <1>8

\* A completion runs: what is left then.
Left(c)         == Tokens(Tail(Batch), done[c], work[c], c)
LeftAnswered(c) == Answers(Tail(Batch), done[c], c)
LeftInLine(c)   == InOrder(Tail(Batch), done[c], work[c], c)

LEMMA Consumed ==
  ASSUME Typed, \A c \in Conns : InLine(c), Draining, Top.batch # <<>>
  PROVE  /\ Message \in Completion /\ Message.conn \in Conns /\ Message \in Answered(Message.conn)
         /\ Token(Message) \in Toks(Message.conn)
         /\ \A t \in Left(Message.conn) : Before(Token(Message), t)
         /\ \A c \in Conns :
              /\ LeftInLine(c) /\ LeftAnswered(c) \subseteq Answered(c)
              /\ Left(c) = IF c = Message.conn THEN Toks(c) \ {Token(Message)} ELSE Toks(c)
              /\ IF c = Message.conn THEN Answered(c) = {Message} \cup LeftAnswered(c)
                 ELSE LeftAnswered(c) = Answered(c)
<1> DEFINE b == Batch
           m == Message
<1>1. b \in Seq(Completion) /\ b # <<>> /\ m = Head(b)
  BY TopFrame, BatchTyped DEF Typed, Message
<1>2. ASSUME NEW c \in Conns
      PROVE  /\ Toks(c) = Tokens(b, done[c], work[c], c) /\ InOrder(b, done[c], work[c], c)
             /\ Answered(c) = Answers(b, done[c], c)
             /\ Left(c) = Tokens(Tail(b), done[c], work[c], c)
             /\ LeftAnswered(c) = Answers(Tail(b), done[c], c)
             /\ LeftInLine(c) <=> InOrder(Tail(b), done[c], work[c], c)
             /\ done[c] \in Seq(Completion) /\ work[c] \in Seq(Task)
  BY DEF Toks, Answered, InLine, Left, LeftAnswered, LeftInLine, Typed
<1>3. m = Message  OBVIOUS
<1> HIDE DEF b, m
<1>4. m \in Completion /\ m.conn \in Conns
  <2>1. m \in Completion  BY <1>1
  <2> QED  BY <2>1 DEF Completion
<1>5. ~Before(Token(m), Token(m))
  <2>1. m.id \in Int /\ m.kind \in {"open", "call", "close"}
    BY <1>4, DatabaseAssumption DEF Completion, Kinds, Calls, Typed
  <2>2. Token(m).kind = m.kind /\ Token(m).id = m.id  BY DEF Token
  <2> QED  BY <2>1, <2>2 DEF Before
<1>6. ASSUME NEW c \in Conns, c = m.conn
      PROVE  /\ Toks(c) = {Token(m)} \cup Left(c)
             /\ \A t \in Left(c) : Before(Token(m), t)
             /\ Answered(c) = {m} \cup LeftAnswered(c) /\ LeftInLine(c)
  <2> DEFINE d == done[c]
             w == work[c]
  <2>1. d \in Seq(Completion) /\ w \in Seq(Task) /\ InOrder(b, d, w, c)  BY <1>2
  <2> HIDE DEF d, w
  <2>2. /\ InOrder(b, d, w, c) => InOrder(Tail(b), d, w, c)
        /\ Head(b).conn = c =>
             /\ Tokens(b, d, w, c) = {Token(Head(b))} \cup Tokens(Tail(b), d, w, c)
             /\ InOrder(b, d, w, c) =>
                  \A t \in Tokens(Tail(b), d, w, c) : Before(Token(Head(b)), t)
    BY <1>1, <2>1, RunsOrder
  <2>3. Head(b).conn = c => Answers(b, d, c) = {Head(b)} \cup Answers(Tail(b), d, c)
    BY <1>1, RunsAnswers
  <2> QED  BY <1>1, <1>2, <1>6, <2>1, <2>2, <2>3 DEF d, w
<1>7. ASSUME NEW c \in Conns, c # m.conn
      PROVE  Toks(c) = Left(c) /\ LeftAnswered(c) = Answered(c) /\ LeftInLine(c)
  <2> DEFINE d == done[c]
             w == work[c]
  <2>1. d \in Seq(Completion) /\ w \in Seq(Task) /\ InOrder(b, d, w, c)  BY <1>2
  <2> HIDE DEF d, w
  <2>2. /\ InOrder(b, d, w, c) => InOrder(Tail(b), d, w, c)
        /\ Head(b).conn # c => Tokens(Tail(b), d, w, c) = Tokens(b, d, w, c)
    BY <1>1, <2>1, RunsOrder
  <2>3. Head(b).conn # c => Answers(Tail(b), d, c) = Answers(b, d, c)
    BY <1>1, RunsAnswers
  <2> QED  BY <1>1, <1>2, <1>7, <2>1, <2>2, <2>3 DEF d, w
<1>8. Token(m) \notin Left(m.conn)  BY <1>4, <1>5, <1>6
<1>9. Left(m.conn) = Toks(m.conn) \ {Token(m)}  BY <1>4, <1>6, <1>8
<1> QED  BY <1>3, <1>4, <1>6, <1>7, <1>9

LEMMA ConsumeEffect ==
  ASSUME Typed, Draining, Consume, UNCHANGED <<done, work>>, NEW c
  PROVE  /\ Toks(c)' = Left(c) /\ Due(c)' = Due(c) /\ Answered(c)' = LeftAnswered(c)
         /\ InLine(c)' <=> LeftInLine(c)
<1>1. Top \in Frame /\ Batch = Top.batch  BY TopFrame DEF Typed
<1>2. Batch' = [Top EXCEPT !.batch = Tail(@)].batch  BY TopSet DEF Typed, Consume
<1>3. Batch' = Tail(Batch)  BY <1>1, <1>2 DEF Frame
<1> QED  BY <1>3 DEF Toks, Due, Answered, InLine, Left, LeftAnswered, LeftInLine

\* Tasks that may be queued behind those on their way.
Fits(S, u) ==
  /\ \A t \in S, i \in DOMAIN u : Before(t, Token(u[i]))
  /\ \A i, j \in DOMAIN u : i < j => Before(Token(u[i]), Token(u[j]))

LEMMA FitsNone == Tasks(<<>>) = {} /\ \A S : Fits(S, <<>>)
BY DEF Tasks, Fits

LEMMA TokenOfTask == \A t \in Task : Token(t) = t
BY DEF Task, Token, Open_, Close_, Call_

LEMMA FitsOne ==
  ASSUME NEW t \in Task
  PROVE  /\ Tasks(<<t>>) = {t} /\ <<t>> \in Seq(Task)
         /\ \A S : (\A s \in S : Before(s, t)) => Fits(S, <<t>>)
<1>1. DOMAIN <<t>> = {1} /\ <<t>>[1] = t /\ Token(t) = t  BY TokenOfTask
<1>2. Tasks(<<t>>) = {t}  BY <1>1 DEF Tasks
<1>3. \A i, j \in DOMAIN <<t>> : ~(i < j)
  <2>1. ~(1 < 1)  OBVIOUS
  <2> QED  BY <1>1, <2>1
<1>4. ASSUME NEW S, \A s \in S : Before(s, t)  PROVE Fits(S, <<t>>)
  BY <1>1, <1>3, <1>4 DEF Fits
<1> QED  BY <1>2, <1>4

LEMMA DispatchEffect ==
  ASSUME Typed, NEW b \in Seq(Completion), Batch' = b, UNCHANGED <<done, poolSize>>,
         NEW tasks \in [Conns -> Seq(Task)], work' = Queued(tasks), NEW c \in Conns
  PROVE  /\ Toks(c)' = Tokens(b, done[c], work[c], c) \cup Tasks(tasks[c])
         /\ Due(c)' = Due(c) \cup Tasks(tasks[c])
         /\ Answered(c)' = Answers(b, done[c], c)
         /\ InOrder(b, done[c], work[c], c) /\ Fits(Tokens(b, done[c], work[c], c), tasks[c])
              => InLine(c)'
<1> DEFINE d == done[c]
           w == work[c]
           u == tasks[c]
<1>1. d \in Seq(Completion) /\ w \in Seq(Task) /\ u \in Seq(Task)  BY DEF Typed
<1>2. work'[c] = w \o u /\ done'[c] = d  BY DEF Queued
<1>3. /\ Toks(c)' = Tokens(b, d, w \o u, c) /\ Due(c)' = Tasks(w \o u) /\ Due(c) = Tasks(w)
      /\ Answered(c)' = Answers(b, d, c)
      /\ InLine(c)' <=> InOrder(b, d, w \o u, c)
  BY <1>2 DEF Toks, Due, Answered, InLine
<1> HIDE DEF d, w, u
<1>4. /\ Tokens(b, d, w \o u, c) = Tokens(b, d, w, c) \cup Tasks(u)
      /\ Tasks(w \o u) = Tasks(w) \cup Tasks(u)
      /\ /\ InOrder(b, d, w, c)
         /\ \A t \in Tokens(b, d, w, c), i \in DOMAIN u : Before(t, Token(u[i]))
         /\ \A i, j \in DOMAIN u : i < j => Before(Token(u[i]), Token(u[j]))
         => InOrder(b, d, w \o u, c)
  BY <1>1, DispatchOrder
<1>5. InOrder(b, d, w, c) /\ Fits(Tokens(b, d, w, c), u) => InOrder(b, d, w \o u, c)
  BY <1>4 DEF Fits
<1> QED  BY <1>3, <1>4, <1>5 DEF d, w, u

-----------------------------------------------------------------------------
(* The invariant.                                                           *)

Lines == \A c \in Conns : InLine(c) /\ Toks(c) \subseteq Task

\* Before the constructor is through nothing is on its way.
Unborn ==
  inst \in {"none", "threw"} =>
    /\ handle = "none" /\ openPending = 0 /\ init = "none" /\ failedOrder = NoOrder /\ ~ready
    /\ \A c \in Conns : Toks(c) = {} /\ conn[c] = "new"
    /\ \A k \in Calls : outcome[k] = "none"

\* The readers whose close is on its way.
Closers == {r \in Readers : Close_ \in Toks(r)}

\* The database is not closed ...
NotClosing ==
  ~closing => /\ handle \notin {"closed", "lost"} /\ inst # "freed" /\ latch = poolSize
              /\ \A c \in Conns : Close_ \notin Toks(c)

\* ... or it is: the latch counts the readers that are not, a reader is idle behind
\* its close, and the writer's comes behind all of theirs.
Closing ==
  closing =>
    /\ handle \in {"closed", "lost"} /\ latch = Cardinality(Closers)
    /\ Close_ \in Toks(Writer) => Closers = {}
    /\ \A r \in Readers :
         /\ Close_ \notin Toks(r) => Toks(r) = {}
         /\ Close_ \notin Due(r) => Due(r) = {} /\ conn[r] # "open"

\* The instance is freed behind everything.
Freed == inst = "freed" => closing /\ \A c \in Conns : Toks(c) = {}

Phase == Unborn /\ NotClosing /\ Closing /\ Freed

\* Once it is, the workers have been joined, and the descriptors are closed.
Joins ==
  inst = "freed" =>
    /\ \A c \in Conns : ~signalling[c] /\ ~efd[c]
    /\ LateCallbacks \/ responses = {}

\* The readers wait for the writer's open.
WriterFirst ==
  /\ Open_ \in Toks(Writer) => ~ready /\ \A r \in Readers : conn[r] = "new" /\ Open_ \notin Toks(r)
  /\ ~ready => \A r \in Readers : Toks(r) \subseteq {Close_}
  /\ \A r \in Readers : Open_ \in Due(r) \/ conn[r] = "open" => conn[Writer] = "open"

\* A connection is new as long as its open is due, and what an open found stays so.
OpenOnce ==
  \A c \in Conns :
    /\ Open_ \in Due(c) => conn[c] = "new"
    /\ \A a \in Answered(c) : a.kind = "open" =>
         IF a.res = "ok" THEN conn[c] \in {"open", "closed"} ELSE conn[c] = "failed"

\* An open is due, or waits for the writer's.
OpenIsDue ==
  inst \in {"live", "freed"} =>
    /\ conn[Writer] = "new" => Open_ \in Due(Writer)
    /\ \A r \in Readers : conn[r] = "new" => Open_ \in Due(r) \/ ~ready
    /\ ~ready /\ ~closing => Open_ \in Toks(Writer)

\* A connection is closed when there is nothing left to do for it.
ClosedLast ==
  \A c \in Conns : conn[c] = "closed" =>
    closing /\ Due(c) = {} /\ (c = Writer => Closers = {})

\* The first failure known, and those that are not known yet.
FailureKnown ==
  /\ failedOrder # NoOrder => conn[failedOrder] = "failed"
  /\ \A c \in Conns : conn[c] = "failed" =>
       \/ \E a \in Answered(c) : a.kind = "open" /\ a.res # "ok"
       \/ failedOrder # NoOrder /\ failedOrder <= c

\* The opens on their way are counted, and initialized() settles when there are none.
Opening == {c \in Conns : Open_ \in Toks(c)}

OpensCounted ==
  /\ openPending = Cardinality(Opening)
  /\ init = "resolved" => openPending = 0 /\ failedOrder = NoOrder
  /\ init = "rejected" => openPending = 0 /\ failedOrder # NoOrder

Opens == WriterFirst /\ OpenOnce /\ OpenIsDue /\ ClosedLast /\ FailureKnown /\ OpensCounted

\* Calls are numbered as they are made.
Numbered == \A j, k \in Calls : j < k /\ outcome[k] # "none" => outcome[j] # "none"

\* A call on its way is pending at its connection, and the other way around.
PendingInLine ==
  /\ \A c \in Conns, k \in Calls : Call_(k) \in Toks(c) => outcome[k] = "pending" /\ target[k] = c
  /\ \A k \in Calls : outcome[k] = "pending" => Call_(k) \in Toks(target[k])

\* The reads parked for a reader, in order, while it has not been opened.
ParkedAt(r) == {parked[r][i] : i \in DOMAIN parked[r]}
Sorted(r) == \A i, j \in DOMAIN parked[r] : i < j => parked[r][i] < parked[r][j]

ParkedInOrder ==
  /\ \A r \in Readers : Sorted(r) /\ (ready => ParkedAt(r) = {})
  /\ \A r \in Readers : \A k \in ParkedAt(r) : outcome[k] = "parked" /\ target[k] = r
  /\ \A k \in Calls : outcome[k] = "parked" => target[k] \in Readers /\ k \in ParkedAt(target[k])

\* A call finds its connection open, or failed.
AnswersKnown ==
  \A c \in Conns : \A a \in Answered(c) : a.kind = "call" => a.res \in {"ok", "openError"}

\* Calls are answered in the order they were made.
OrderKept ==
  \A j, k \in Calls :
    j < k /\ target[j] = target[k] /\ outcome[k] \in {"ok", "openError"}
      => outcome[j] \notin {"pending", "parked"}

ClosedByClose == \A k \in Calls : outcome[k] = "closed" => handle = "closed"

Answering ==
  Numbered /\ PendingInLine /\ ParkedInOrder /\ AnswersKnown /\ OrderKept /\ ClosedByClose

Inv == Typed /\ OwnQueues /\ Lines /\ Phase /\ Joins /\ Opens /\ Answering

-----------------------------------------------------------------------------
(* Lemmas about the pool, tasks and counts.                                 *)

LEMMA Pool ==
  ASSUME Typed
  PROVE  /\ poolSize \in Nat /\ Writer \in Conns /\ Writer \notin Readers /\ Readers \subseteq Conns
         /\ \A c \in Conns : c \in Int /\ (c = Writer \/ c \in Readers) /\ Writer <= c
         /\ \A k \in Calls : k \in Int /\ k > 0
         /\ poolSize = 0 <=> Readers = {}
<1>1. poolSize \in Nat /\ MaxWork \in Nat  BY DatabaseAssumption DEF Typed
<1>2. /\ Writer \in Conns /\ Writer \notin Readers /\ Readers \subseteq Conns
      /\ \A c \in Conns : c \in Int /\ (c = Writer \/ c \in Readers) /\ Writer <= c
  BY <1>1 DEF Writer, Readers, Conns
<1>3. \A k \in Calls : k \in Int /\ k > 0  BY <1>1 DEF Calls
<1>4. poolSize = 0 <=> Readers = {}
  <2>1. poolSize = 0 => Readers = {}  BY <1>1 DEF Readers
  <2>2. poolSize # 0 => 1 \in Readers  BY <1>1 DEF Readers
  <2> QED  BY <2>1, <2>2
<1> QED  BY <1>1, <1>2, <1>3, <1>4

LEMMA SamePool ==
  ASSUME poolSize' = poolSize
  PROVE  /\ Conns' = Conns /\ Readers' = Readers /\ Calls' = Calls /\ Task' = Task
         /\ Completion' = Completion /\ Frame' = Frame
BY DEF Conns, Readers, Calls, Task, Completion, Frame

LEMMA PoolCounts ==
  ASSUME Typed
  PROVE  /\ IsFiniteSet(Conns) /\ Cardinality(Conns) = poolSize + 1
         /\ IsFiniteSet(Readers) /\ Cardinality(Readers) = poolSize
<1>1. poolSize \in Nat  BY Pool
<1>2. IsFiniteSet(Conns) /\ Cardinality(Conns) = poolSize + 1
  BY <1>1, FS_Interval DEF Conns
<1>3. IsFiniteSet(Readers) /\ Cardinality(Readers) = poolSize
  BY <1>1, FS_Interval DEF Readers
<1> QED  BY <1>2, <1>3

LEMMA TaskKinds ==
  ASSUME Typed
  PROVE  /\ Open_ \in Task /\ Close_ \in Task /\ \A k \in Calls : Call_(k) \in Task
         /\ Open_ # Close_ /\ \A k \in Calls : Call_(k) # Open_ /\ Call_(k) # Close_
         /\ \A j, k \in Calls : Call_(j) = Call_(k) => j = k
         /\ \A t \in Task : \/ t = Open_ \/ t = Close_ \/ \E k \in Calls : t = Call_(k)
         /\ \A t : ~Before(t, Open_) /\ ~Before(Close_, t)
         /\ \A t \in Task : t # Close_ => Before(t, Close_)
         /\ \A k \in Calls : Before(Open_, Call_(k))
         /\ \A j, k \in Calls : Before(Call_(j), Call_(k)) <=> j < k
         /\ Open_.kind = "open" /\ Close_.kind = "close"
         /\ \A k \in Calls : Call_(k).kind = "call" /\ Call_(k).id = k
<1>1. /\ Open_ \in Task /\ Close_ \in Task /\ \A k \in Calls : Call_(k) \in Task
      /\ \A t \in Task : t = Open_ \/ t = Close_ \/ \E k \in Calls : t = Call_(k)
  BY DEF Task
<1>2. /\ Open_.kind = "open" /\ Close_.kind = "close"
      /\ \A k \in Calls : Call_(k).kind = "call" /\ Call_(k).id = k
  BY DEF Open_, Close_, Call_
<1>3. /\ Open_ # Close_ /\ \A k \in Calls : Call_(k) # Open_ /\ Call_(k) # Close_
      /\ \A j, k \in Calls : Call_(j) = Call_(k) => j = k
  BY <1>2
<1>4. \A t : ~Before(t, Open_) /\ ~Before(Close_, t)  BY <1>2 DEF Before
<1>5. \A t \in Task : t # Close_ => t.kind # "close" /\ Before(t, Close_)
  BY <1>1, <1>2 DEF Before
<1>6. /\ \A k \in Calls : Before(Open_, Call_(k))
      /\ \A j, k \in Calls : Before(Call_(j), Call_(k)) <=> j < k
  BY <1>2 DEF Before
<1> QED  BY <1>1, <1>2, <1>3, <1>4, <1>5, <1>6

\* What is next in line.
LEMMA TokenKinds ==
  ASSUME Typed, NEW m \in Completion, Token(m) \in Task
  PROVE  /\ m.kind = "open" <=> Token(m) = Open_
         /\ m.kind = "close" <=> Token(m) = Close_
         /\ m.kind = "call" => m.id \in Calls /\ Token(m) = Call_(m.id)
         /\ m.kind \in Kinds /\ m.res \in Results /\ m.id \in {0} \cup Calls /\ m.conn \in Conns
BY DEF Task, Open_, Close_, Call_, Token, Completion, Kinds

LEMMA Counts ==
  ASSUME NEW S, IsFiniteSet(S), NEW R, R \subseteq S
  PROVE  /\ Cardinality(R) \in Nat /\ IsFiniteSet(R)
         /\ Cardinality(R) = 0 <=> R = {}
         /\ Cardinality(R) <= Cardinality(S)
         /\ \A x \in R : Cardinality(R \ {x}) = Cardinality(R) - 1
         /\ \A x \in S : x \notin R => Cardinality(R \cup {x}) = Cardinality(R) + 1
<1>1. IsFiniteSet(R) /\ Cardinality(R) <= Cardinality(S)  BY FS_Subset
<1>2. Cardinality(R) \in Nat  BY <1>1, FS_CardinalityType
<1>3. Cardinality(R) = 0 <=> R = {}  BY <1>1, FS_EmptySet
<1>4. \A x \in R : Cardinality(R \ {x}) = Cardinality(R) - 1  BY <1>1, FS_RemoveElement
<1>5. \A x \in S : x \notin R => Cardinality(R \cup {x}) = Cardinality(R) + 1
  BY <1>1, FS_AddElement
<1> QED  BY <1>1, <1>2, <1>3, <1>4, <1>5

-----------------------------------------------------------------------------
(* The steps that move nothing.                                             *)

LEMMA Aside ==
  ASSUME Inv, UNCHANGED <<bindingVars, conn, promiseVars>>,
         \A c \in Conns : /\ Toks(c)' = Toks(c) /\ Due(c)' = Due(c) /\ Answered(c)' = Answered(c)
                          /\ InLine(c) => InLine(c)'
  PROVE  Lines' /\ Phase' /\ Opens' /\ Answering'
<1>1. UNCHANGED <<inst, handle, closing, ready, parked, openPending, failedOrder, latch,
                  nextReader, poolSize, conn, outcome, target, init, closed>>
  BY DEF bindingVars, promiseVars
<1>2. Conns' = Conns /\ Readers' = Readers /\ Calls' = Calls /\ Task' = Task
  BY <1>1, SamePool
<1>3. Readers \subseteq Conns /\ Writer \in Conns  BY Pool DEF Inv
<1>4. Closers' = Closers  BY <1>2, <1>3 DEF Closers
<1>5. Opening' = Opening  BY <1>2 DEF Opening
<1>6. Lines'  BY <1>2 DEF Lines, Inv
<1>7. Phase'
  <2>1. Unborn'  BY <1>1, <1>2 DEF Inv, Phase, Unborn
  <2>2. NotClosing'  BY <1>1, <1>2 DEF Inv, Phase, NotClosing
  <2>3. Closing'  BY <1>1, <1>2, <1>3, <1>4 DEF Inv, Phase, Closing, Writer
  <2>4. Freed'  BY <1>1, <1>2 DEF Inv, Phase, Freed
  <2> QED  BY <2>1, <2>2, <2>3, <2>4 DEF Phase
<1>8. Opens'
  <2>1. WriterFirst'  BY <1>1, <1>2, <1>3 DEF Inv, Opens, WriterFirst, Writer
  <2>2. OpenOnce'  BY <1>1, <1>2 DEF Inv, Opens, OpenOnce
  <2>3. OpenIsDue'  BY <1>1, <1>2, <1>3 DEF Inv, Opens, OpenIsDue, Writer
  <2>4. ClosedLast'  BY <1>1, <1>2, <1>4 DEF Inv, Opens, ClosedLast, Writer
  <2>5. FailureKnown'  BY <1>1, <1>2 DEF Inv, Opens, FailureKnown, NoOrder
  <2>6. OpensCounted'  BY <1>1, <1>5 DEF Inv, Opens, OpensCounted, NoOrder
  <2> QED  BY <2>1, <2>2, <2>3, <2>4, <2>5, <2>6 DEF Opens
<1>9. Answering'
  <2>1. Numbered'  BY <1>1, <1>2 DEF Inv, Answering, Numbered
  <2>2. PendingInLine'
    <3>1. \A k \in Calls : target[k] \in Conns  BY DEF Inv, Typed
    <3> QED  BY <1>1, <1>2, <3>1 DEF Inv, Answering, PendingInLine, Call_
  <2>3. ParkedInOrder'  BY <1>1, <1>2 DEF Inv, Answering, ParkedInOrder, ParkedAt, Sorted
  <2>4. AnswersKnown'  BY <1>1, <1>2 DEF Inv, Answering, AnswersKnown
  <2>5. OrderKept'  BY <1>1, <1>2 DEF Inv, Answering, OrderKept
  <2>6. ClosedByClose'  BY <1>1, <1>2 DEF Inv, Answering, ClosedByClose
  <2> QED  BY <2>1, <2>2, <2>3, <2>4, <2>5, <2>6 DEF Answering
<1> QED  BY <1>6, <1>7, <1>8, <1>9

LEMMA AsideKeeps ==
  ASSUME Inv, UNCHANGED <<bindingVars, conn, work, promiseVars>>,
         OneFrame', fed' \subseteq Conns, responses' \subseteq Conns,
         signalling' \in [Conns -> BOOLEAN], efd' \in [Conns -> BOOLEAN],
         done' \in [Conns -> Seq(Completion)], OwnQueues', Joins',
         \A c \in Conns : /\ Toks(c)' = Toks(c) /\ Due(c)' = Due(c) /\ Answered(c)' = Answered(c)
                          /\ InLine(c) => InLine(c)'
  PROVE  Inv'
<1>1. UNCHANGED <<inst, handle, closing, ready, parked, openPending, failedOrder, latch,
                  nextReader, poolSize, conn, work, outcome, target, init, closed>>
  BY DEF bindingVars, promiseVars
<1>2. /\ Conns' = Conns /\ Readers' = Readers /\ Calls' = Calls /\ Task' = Task
      /\ Completion' = Completion
  BY <1>1, SamePool
<1>3. Typed'  BY <1>1, <1>2 DEF Inv, Typed, NoOrder, Outcome
<1>4. Lines' /\ Phase' /\ Opens' /\ Answering'
  <2>1. UNCHANGED <<bindingVars, conn, promiseVars>>  OBVIOUS
  <2> QED  BY <2>1, Aside
<1> QED  BY <1>3, <1>4 DEF Inv

\* The steps of the looper and of a drain that run nothing, and those of a worker that
\* signals.
LEMMA LooperKeeps ==
  ASSUME Inv, ~MayPump,
         \/ \E c \in Conns : Signal(c) \/ Callback(c)
         \/ Poll \/ RunBatch \/ GatherNothing \/ BatchDone \/ KeepPolling \/ Return
  PROVE  Inv'
<1>1. UNCHANGED <<bindingVars, conn, work, done, promiseVars>>
  BY DEF Signal, Callback, Poll, RunBatch, GatherNothing, BatchDone, KeepPolling, Return, threadVars
<1>2. UNCHANGED <<inst, closing, poolSize, conn, work, done>>
  BY <1>1 DEF bindingVars
<1>3. Conns' = Conns /\ Frame' = Frame /\ Completion' = Completion  BY <1>2, SamePool
<1>4. /\ OneFrame /\ fed \subseteq Conns /\ responses \subseteq Conns
      /\ signalling \in [Conns -> BOOLEAN] /\ efd \in [Conns -> BOOLEAN]
      /\ done \in [Conns -> Seq(Completion)] /\ OwnQueues /\ Joins
  BY DEF Inv, Typed
<1>5. ASSUME frames' = frames  PROVE OneFrame' /\ Batch' = Batch
  BY <1>3, <1>4, <1>5 DEF OneFrame, Batch, Top
<1>6. ASSUME NEW f \in Frame, frames' = <<f>>, f.pc = "after" => f.batch = <<>>
      PROVE  OneFrame' /\ Batch' = f.batch
  BY <1>3, <1>6 DEF OneFrame, Batch, Top
<1>7. ASSUME frames' = <<>>  PROVE OneFrame' /\ Batch' = <<>>
  BY <1>7 DEF OneFrame, Batch
<1>8. OneFrame' /\ Batch' = Batch
  <2>1. CASE \E c \in Conns : Signal(c)  BY <1>5, <2>1 DEF Signal, looperVars
  <2>2. CASE \E c \in Conns : Callback(c)
    <3>1. PICK c \in Conns : Callback(c)  BY <2>2
    <3> DEFINE f == [pc |-> "gather", polled |-> {c}, batch |-> <<>>]
    <3>2. frames = <<>> /\ frames' = <<f>> \o frames  BY <3>1 DEF Callback, Draining
    <3>3. f \in Frame /\ f.batch = <<>> /\ f.pc # "after"  BY DEF Frame
    <3> HIDE DEF f
    <3>4. frames' = <<f>>  BY <3>2
    <3>5. Batch = <<>>  BY <3>2 DEF Batch
    <3> QED  BY <1>6, <3>3, <3>4, <3>5
  <2>3. CASE Poll  BY <1>5, <2>3 DEF Poll
  <2>4. CASE RunBatch
    <3> DEFINE f == [Top EXCEPT !.pc = "run", !.polled = {}]
    <3>1. Draining /\ SetTop(f)  BY <2>4 DEF RunBatch
    <3>2. Top \in Frame /\ Batch = Top.batch  BY <1>4, <3>1, TopFrame
    <3>3. f \in Frame /\ f.batch = Top.batch /\ f.pc # "after"  BY <3>2 DEF Frame
    <3> HIDE DEF f
    <3>4. frames' = <<f>>  BY <1>4, <3>1, TopSet
    <3> QED  BY <1>6, <3>2, <3>3, <3>4
  <2>5. CASE GatherNothing
    <3>1. Draining /\ EndDrain /\ Top.batch = <<>>  BY <2>5 DEF GatherNothing
    <3>2. frames' = <<>> /\ Batch = <<>>  BY <1>4, <3>1, TopFrame, TopEnds
    <3> QED  BY <1>7, <3>2
  <2>6. CASE BatchDone
    <3> DEFINE f == [Top EXCEPT !.pc = "after"]
    <3>1. Draining /\ SetTop(f) /\ Top.batch = <<>>  BY <2>6 DEF BatchDone
    <3>2. Top \in Frame /\ Batch = Top.batch  BY <1>4, <3>1, TopFrame
    <3>3. f \in Frame /\ f.batch = <<>>  BY <3>1, <3>2 DEF Frame
    <3> HIDE DEF f
    <3>4. frames' = <<f>>  BY <1>4, <3>1, TopSet
    <3> QED  BY <1>6, <3>1, <3>2, <3>3, <3>4
  <2>7. CASE KeepPolling
    <3> DEFINE f == [pc |-> "gather", polled |-> fed, batch |-> <<>>]
    <3>1. Draining /\ SetTop(f) /\ Top.pc = "after"  BY <2>7 DEF KeepPolling
    <3>2. Batch = <<>>  BY <1>4, <3>1, TopFrame
    <3>3. f \in Frame /\ f.batch = <<>> /\ f.pc # "after"  BY <1>4 DEF Frame
    <3> HIDE DEF f
    <3>4. frames' = <<f>>  BY <1>4, <3>1, TopSet
    <3> QED  BY <1>6, <3>2, <3>3, <3>4
  <2>8. CASE Return
    <3>1. Draining /\ EndDrain /\ Top.pc = "after"  BY <2>8 DEF Return
    <3>2. frames' = <<>> /\ Batch = <<>>  BY <1>4, <3>1, TopFrame, TopEnds
    <3> QED  BY <1>7, <3>2
  <2> QED  BY <2>1, <2>2, <2>3, <2>4, <2>5, <2>6, <2>7, <2>8
<1>9. fed' \subseteq Conns
  BY <1>4 DEF Signal, Callback, Poll, RunBatch, GatherNothing, BatchDone, KeepPolling, Return,
              EndDrain, looperVars
<1>10. responses' \subseteq Conns
  BY <1>4 DEF Signal, Callback, Poll, RunBatch, GatherNothing, BatchDone, KeepPolling, Return,
              looperVars, Readable
<1>11. signalling' \in [Conns -> BOOLEAN] /\ efd' \in [Conns -> BOOLEAN]
  BY <1>4 DEF Signal, Callback, Poll, RunBatch, GatherNothing, BatchDone, KeepPolling, Return,
              threadVars
<1>12. OwnQueues'
  <2>1. \A c : OwnQueue(c)' <=> OwnQueue(c)  BY <1>2 DEF OwnQueue
  <2> QED  BY <1>3, <1>4, <2>1 DEF OwnQueues
<1>13. Joins'
  <2> SUFFICES ASSUME inst = "freed"
               PROVE  /\ \A c \in Conns : ~signalling'[c] /\ ~efd'[c]
                      /\ LateCallbacks \/ responses' = {}
    BY <1>2, <1>3 DEF Joins
  <2>1. /\ \A c \in Conns : ~signalling[c] /\ ~efd[c]
        /\ LateCallbacks \/ responses = {}
    BY <1>4 DEF Joins
  <2>2. ~Poll /\ \A c \in Conns : ~Signal(c) /\ ~Callback(c)
    BY <2>1 DEF Poll, Signal, Callback, Readable
  <2>3. UNCHANGED <<signalling, efd, responses>>
    BY <2>2 DEF RunBatch, GatherNothing, BatchDone, KeepPolling, Return, threadVars
  <2> QED  BY <2>1, <2>3
<1>14. \A c \in Conns :
         /\ Toks(c)' = Toks(c) /\ Due(c)' = Due(c) /\ Answered(c)' = Answered(c)
         /\ InLine(c) => InLine(c)'
  BY <1>2, <1>8, Quiet
<1>15. UNCHANGED <<bindingVars, conn, work, promiseVars>> /\ done' \in [Conns -> Seq(Completion)]
  BY <1>1, <1>2, <1>4
<1> QED  BY <1>8, <1>9, <1>10, <1>11, <1>12, <1>13, <1>14, <1>15, AsideKeeps

LEMMA GatherKeeps ==
  ASSUME Inv, NEW c \in Conns, Gather(c)
  PROVE  Inv'
<1>1. /\ UNCHANGED <<bindingVars, conn, work, signalling, efd, responses, fed, promiseVars>>
      /\ done' = [done EXCEPT ![c] = <<>>] /\ Draining /\ Top.pc = "gather"
      /\ SetTop([Top EXCEPT !.polled = @ \ {c}, !.batch = @ \o done[c]])
  BY DEF Gather
<1>2. poolSize' = poolSize /\ inst' = inst  BY <1>1 DEF bindingVars
<1>3. Conns' = Conns /\ Frame' = Frame /\ Completion' = Completion  BY <1>2, SamePool
<1>4. /\ OneFrame /\ Typed /\ OwnQueues /\ Joins /\ fed \subseteq Conns /\ responses \subseteq Conns
      /\ signalling \in [Conns -> BOOLEAN] /\ efd \in [Conns -> BOOLEAN]
      /\ done \in [Conns -> Seq(Completion)]
  BY DEF Inv, Typed
<1> DEFINE f == [Top EXCEPT !.polled = @ \ {c}, !.batch = @ \o done[c]]
<1>5. Top \in Frame /\ Batch = Top.batch  BY <1>1, <1>4, TopFrame
<1>6. f.batch = Batch \o done[c] /\ f.pc = "gather" /\ f \in Frame
  <2>1. done[c] \in Seq(Completion)  BY <1>4
  <2>2. Top.batch \o done[c] \in Seq(Completion)  BY <1>5, <2>1 DEF Frame
  <2> QED  BY <1>1, <1>5, <2>2 DEF Frame
<1>7. frames' = <<f>> /\ Batch' = f.batch  BY <1>1, <1>4, TopSet
<1> HIDE DEF f
<1>8. OneFrame'  BY <1>3, <1>6, <1>7 DEF OneFrame
<1>9. done' \in [Conns -> Seq(Completion)]
  BY <1>1, <1>4
<1>10. OwnQueues'
  <2>1. ASSUME NEW e \in Conns  PROVE OwnQueue(e)'
    <3>1. CASE e = c
      <4>1. done'[e] = <<>>  BY <1>1, <1>4, <3>1
      <4> QED  BY <4>1 DEF OwnQueue
    <3>2. CASE e # c
      <4>1. done'[e] = done[e] /\ OwnQueue(e)  BY <1>1, <1>4, <3>2 DEF OwnQueues
      <4> QED  BY <4>1 DEF OwnQueue
    <3> QED  BY <3>1, <3>2
  <2> QED  BY <1>3, <2>1 DEF OwnQueues
<1>11. Joins'  BY <1>1, <1>2, <1>3, <1>4 DEF Joins
<1>12. \A e \in Conns :
         /\ Toks(e)' = Toks(e) /\ Due(e)' = Due(e) /\ Answered(e)' = Answered(e)
         /\ InLine(e) => InLine(e)'
  BY <1>1, <1>2, <1>4, <1>6, <1>7, GatherEffect
<1> QED  BY <1>1, <1>4, <1>8, <1>9, <1>10, <1>11, <1>12, AsideKeeps

-----------------------------------------------------------------------------
(* A worker runs a task.                                                    *)

LEMMA RunKeeps ==
  ASSUME Inv, NEW c \in Conns, RunTask(c)
  PROVE  Inv'
<1> DEFINE t == Head(work[c])
<1>1. PICK res \in Results :
        /\ done' = [done EXCEPT ![c] =
             Append(@, [kind |-> t.kind, conn |-> c, id |-> t.id, res |-> res])]
        /\ \/ t.kind = "open" /\ conn' = Opened(c) /\ res = "ok"
           \/ t.kind = "open" /\ conn' = Failed(c) /\ res = "openError"
           \/ t.kind = "call" /\ res = CallResult(c) /\ conn' = conn
           \/ t.kind = "close" /\ conn' = ClosedC(c) /\ res = "ok"
  BY DEF RunTask, Results, CallResult
<1> DEFINE x == [kind |-> t.kind, conn |-> c, id |-> t.id, res |-> res]
<1>2. Typed /\ OwnQueues /\ Lines /\ Phase /\ Joins /\ Opens /\ Answering  BY DEF Inv
<1>3. /\ UNCHANGED <<inst, handle, closing, ready, parked, openPending, failedOrder, latch,
                     nextReader, poolSize, efd, responses, frames, fed, outcome, target,
                     init, closed>>
      /\ work[c] # <<>> /\ work' = [work EXCEPT ![c] = Tail(@)]
      /\ signalling' = [signalling EXCEPT ![c] = TRUE]
  BY DEF RunTask, bindingVars, looperVars, promiseVars
<1>4. t \in Task /\ t.kind \in Kinds /\ t.id \in {0} \cup Calls
  <2>1. work[c] \in Seq(Task)  BY <1>2 DEF Typed
  <2>2. t \in Task  BY <1>3, <2>1
  <2>3. \A u \in Task : u.kind \in Kinds /\ u.id \in {0} \cup Calls
    BY DEF Task, Open_, Close_, Call_, Kinds
  <2> QED  BY <2>2, <2>3
<1>5. /\ x \in Completion /\ x.conn = c /\ Token(x) = t /\ x.kind = t.kind /\ x.res = res
      /\ done' = [done EXCEPT ![c] = Append(@, x)]
  <2>1. Token(x) = Token(t)  BY DEF Token
  <2> QED  BY <1>1, <1>4, <2>1, TokenOfTask DEF Completion
<1>6. \/ t = Open_ /\ x.kind = "open" /\ conn' = [conn EXCEPT ![c] = "open"] /\ x.res = "ok"
      \/ t = Open_ /\ x.kind = "open" /\ conn' = [conn EXCEPT ![c] = "failed"] /\ x.res # "ok"
      \/ /\ t = Close_ /\ x.kind = "close"
         /\ conn' = IF conn[c] = "open" THEN [conn EXCEPT ![c] = "closed"] ELSE conn
      \/ \E k \in Calls : t = Call_(k) /\ x.kind = "call" /\ x.res = CallResult(c) /\ conn' = conn
  <2>1. /\ t.kind = "open" => t = Open_
        /\ t.kind = "close" => t = Close_
        /\ t.kind = "call" => \E k \in Calls : t = Call_(k)
    BY <1>4 DEF Task, Open_, Close_, Call_
  <2> QED  BY <1>1, <1>5, <2>1 DEF Opened, Failed, ClosedC
<1> HIDE DEF t, x
<1>7. /\ Conns' = Conns /\ Readers' = Readers /\ Calls' = Calls /\ Task' = Task
      /\ Completion' = Completion /\ Frame' = Frame
  BY <1>3, SamePool
<1>8. /\ Writer \in Conns /\ Writer \notin Readers /\ Readers \subseteq Conns
      /\ \A e \in Conns : e = Writer \/ e \in Readers
  BY <1>2, Pool
<1>9. /\ InLine(c)' /\ Toks(c)' = Toks(c)
      /\ Due(c) = {t} \cup Due(c)' /\ \A u \in Due(c)' : Before(t, u)
      /\ Answered(c)' = Answered(c) \cup {x}
      /\ \A e \in Conns : e # c =>
           /\ Toks(e)' = Toks(e) /\ Due(e)' = Due(e) /\ Answered(e)' = Answered(e)
           /\ InLine(e)' <=> InLine(e)
  <2>1. Token(x) = Head(work[c])  BY <1>5 DEF t
  <2>2. InLine(c)  BY <1>2 DEF Lines
  <2> QED  BY <1>2, <1>3, <1>5, <2>1, <2>2, RunEffect
<1>10. /\ \A e \in Conns : Toks(e)' = Toks(e) /\ Due(e)' \subseteq Due(e)
       /\ \A e \in Conns : e # c => Due(e)' = Due(e) /\ Answered(e)' = Answered(e)
  BY <1>9
<1>11. \A e \in Conns :
         Due(e) \subseteq Toks(e) /\ \A a \in Answered(e) : Token(a) \in Toks(e)
  BY <1>2, InToks DEF OwnQueues
<1>12. t \in Due(c) /\ t \in Toks(c)  BY <1>8, <1>9, <1>11
<1>13. /\ Closers' = Closers /\ Opening' = Opening
  BY <1>7, <1>8, <1>10 DEF Closers, Opening
<1>14. conn' \in [Conns -> {"new", "open", "failed", "closed"}] /\ \A e \in Conns : e # c => conn'[e] = conn[e]
  BY <1>2, <1>6 DEF Typed
<1>15. /\ t = Open_ => Open_ \notin Due(c)'
       /\ t = Close_ => Due(c)' = {}
       /\ t # Close_ => (Close_ \notin Due(c)' => Close_ \notin Due(c))
       /\ t # Open_ => Open_ \notin Due(c)' /\ Open_ \notin Due(c)
  BY <1>2, <1>4, <1>9, TaskKinds
<1>16. inst # "freed" /\ inst \in {"live"}
  BY <1>2, <1>12 DEF Typed, Phase, Unborn, Freed
<1>17. Typed'
  <2>1. work' \in [Conns -> Seq(Task)]
    <3>1. work[c] \in Seq(Task)  BY <1>2 DEF Typed
    <3>2. Tail(work[c]) \in Seq(Task)  BY <1>3, <3>1
    <3> QED  BY <1>2, <1>3, <3>2 DEF Typed
  <2>2. done' \in [Conns -> Seq(Completion)]
    <3>1. done[c] \in Seq(Completion)  BY <1>2 DEF Typed
    <3>2. Append(done[c], x) \in Seq(Completion)  BY <1>5, <3>1
    <3> QED  BY <1>2, <1>5, <3>2 DEF Typed
  <2>3. signalling' \in [Conns -> BOOLEAN]  BY <1>2, <1>3 DEF Typed
  <2>4. OneFrame'  BY <1>2, <1>3, <1>7 DEF Typed, OneFrame
  <2> QED  BY <1>2, <1>3, <1>7, <1>14, <2>1, <2>2, <2>3, <2>4 DEF Typed, NoOrder, Outcome
<1>18. OwnQueues'
  <2>1. ASSUME NEW e \in Conns  PROVE OwnQueue(e)'
    <3>1. CASE e = c
      <4> DEFINE d == done[c]
      <4>1. done'[c] = Append(d, x) /\ d \in Seq(Completion) /\ \A i \in DOMAIN d : d[i].conn = c
        BY <1>2, <1>5 DEF Typed, OwnQueues, OwnQueue
      <4> HIDE DEF d
      <4>2. \A i \in DOMAIN Append(d, x) : i \in DOMAIN d \/ i = Len(d) + 1  BY <4>1
      <4>3. \A i \in DOMAIN d : Append(d, x)[i] = d[i]  BY <4>1
      <4>4. Append(d, x)[Len(d) + 1] = x  BY <4>1
      <4>5. \A i \in DOMAIN Append(d, x) : Append(d, x)[i].conn = c
        BY <1>5, <4>1, <4>2, <4>3, <4>4
      <4> QED  BY <3>1, <4>1, <4>5 DEF OwnQueue
    <3>2. CASE e # c
      <4>1. done'[e] = done[e] /\ OwnQueue(e)  BY <1>2, <1>5, <3>2 DEF OwnQueues, Typed
      <4> QED  BY <4>1 DEF OwnQueue
    <3> QED  BY <3>1, <3>2
  <2> QED  BY <1>7, <2>1 DEF OwnQueues
<1>19. Lines'  BY <1>2, <1>7, <1>9, <1>10 DEF Lines
<1>20. Joins'  BY <1>3, <1>16 DEF Joins
<1>21. Phase'
  <2>1. Unborn'  BY <1>3, <1>16 DEF Unborn
  <2>2. NotClosing'  BY <1>2, <1>3, <1>7, <1>10 DEF Phase, NotClosing
  <2>3. Closing'
    <3> SUFFICES ASSUME closing  PROVE Closing'  BY <1>3 DEF Closing
    <3>1. /\ handle \in {"closed", "lost"} /\ latch = Cardinality(Closers)
          /\ Close_ \in Toks(Writer) => Closers = {}
          /\ \A r \in Readers : /\ Close_ \notin Toks(r) => Toks(r) = {}
                                /\ Close_ \notin Due(r) => Due(r) = {} /\ conn[r] # "open"
      BY <1>2 DEF Phase, Closing
    <3>2. ASSUME NEW r \in Readers, Close_ \notin Due(r)'
          PROVE  Due(r)' = {} /\ conn'[r] # "open"
      <4>1. CASE r # c  BY <1>8, <1>10, <1>14, <3>1, <3>2, <4>1
      <4>2. CASE r = c /\ t = Close_  BY <1>2, <1>6, <1>15, <4>2, TaskKinds DEF Typed
      <4>3. CASE r = c /\ t # Close_  BY <1>12, <1>15, <3>1, <3>2, <4>3
      <4> QED  BY <4>1, <4>2, <4>3
    <3> QED  BY <1>3, <1>7, <1>8, <1>10, <1>13, <3>1, <3>2 DEF Closing
  <2>4. Freed'  BY <1>3, <1>16 DEF Freed
  <2> QED  BY <2>1, <2>2, <2>3, <2>4 DEF Phase
<1>22. Opens'
  <2>0. WriterFirst /\ OpenOnce /\ OpenIsDue /\ ClosedLast /\ FailureKnown /\ OpensCounted
    BY <1>2 DEF Opens
  <2>1. WriterFirst'
    <3>1. Open_ \in Toks(Writer) => ~ready /\ \A r \in Readers : conn'[r] = "new" /\ Open_ \notin Toks(r)
      <4> SUFFICES ASSUME Open_ \in Toks(Writer)
                   PROVE  ~ready /\ \A r \in Readers : conn'[r] = "new" /\ Open_ \notin Toks(r)
        OBVIOUS
      <4>1. ~ready /\ \A r \in Readers : conn[r] = "new" /\ Open_ \notin Toks(r) /\ Toks(r) \subseteq {Close_}
        BY <2>0 DEF WriterFirst
      <4>2. ASSUME NEW r \in Readers  PROVE conn'[r] = "new"
        <5>1. CASE r # c  BY <1>8, <1>14, <4>1, <5>1
        <5>2. CASE r = c
          <6>1. t = Close_  BY <1>12, <4>1, <5>2
          <6> QED  BY <1>2, <1>6, <4>1, <5>2, <6>1, TaskKinds
        <5> QED  BY <5>1, <5>2
      <4> QED  BY <4>1, <4>2
    <3>2. \A r \in Readers : Open_ \in Due(r)' \/ conn'[r] = "open" => conn'[Writer] = "open"
      <4> SUFFICES ASSUME NEW r \in Readers, Open_ \in Due(r)' \/ conn'[r] = "open"
                   PROVE  conn'[Writer] = "open"
        OBVIOUS
      <4>1. conn[Writer] = "open"
        <5>1. Open_ \in Due(r) \/ conn[r] = "open"
          <6>1. CASE Open_ \in Due(r)'  BY <1>8, <1>10, <6>1
          <6>2. CASE conn'[r] = "open" /\ r # c  BY <1>8, <1>14, <6>2
          <6>3. CASE conn'[r] = "open" /\ r = c
            BY <1>2, <1>6, <1>12, <6>3 DEF Typed
          <6> QED  BY <6>1, <6>2, <6>3
        <5> QED  BY <2>0, <5>1 DEF WriterFirst
      <4>2. CASE c # Writer  BY <1>8, <1>14, <4>1, <4>2
      <4>3. CASE c = Writer /\ t = Close_
        <5>1. Close_ \in Toks(Writer) /\ closing
          BY <1>2, <1>12, <4>3 DEF Phase, NotClosing
        <5>2. Close_ \notin Toks(r) /\ Due(r) = {} /\ conn[r] # "open"
          BY <1>2, <1>8, <1>11, <5>1 DEF Phase, Closing, Closers
        <5>3. conn'[r] = conn[r] /\ Due(r)' = {}  BY <1>8, <1>10, <1>14, <4>3, <5>2
        <5> QED  BY <5>2, <5>3
      <4>4. CASE c = Writer /\ t = Open_
        BY <1>12, <2>0, <4>1, <4>4 DEF OpenOnce
      <4>5. CASE c = Writer /\ \E k \in Calls : t = Call_(k)
        <5>1. t # Open_ /\ t # Close_  BY <1>2, <4>5, TaskKinds
        <5> QED  BY <1>6, <4>1, <5>1
      <4> QED  BY <1>6, <4>2, <4>3, <4>4, <4>5
    <3> QED  BY <1>3, <1>7, <1>8, <1>10, <2>0, <3>1, <3>2 DEF WriterFirst
  <2>2. OpenOnce'
    <3>1. ASSUME NEW e \in Conns, Open_ \in Due(e)'  PROVE conn'[e] = "new"
      <4>1. e # c  BY <1>15, <3>1
      <4> QED  BY <1>10, <1>14, <2>0, <3>1, <4>1 DEF OpenOnce
    <3>2. ASSUME NEW e \in Conns, NEW a \in Answered(e)', a.kind = "open"
          PROVE  IF a.res = "ok" THEN conn'[e] \in {"open", "closed"} ELSE conn'[e] = "failed"
      <4>1. CASE e # c  BY <1>10, <1>14, <2>0, <3>2, <4>1 DEF OpenOnce
      <4>2. CASE e = c /\ a = x  BY <1>2, <1>6, <3>2, <4>2, TaskKinds DEF Typed
      <4>3. CASE e = c /\ a \in Answered(c)
        <5>1. IF a.res = "ok" THEN conn[c] \in {"open", "closed"} ELSE conn[c] = "failed"
          BY <2>0, <3>2, <4>3 DEF OpenOnce
        <5>2. conn[c] # "new"  BY <5>1
        <5>3. t # Open_  BY <1>12, <2>0, <5>2 DEF OpenOnce
        <5> QED  BY <1>2, <1>6, <4>3, <5>1, <5>3 DEF Typed
      <4> QED  BY <1>9, <3>2, <4>1, <4>2, <4>3
    <3> QED  BY <1>7, <3>1, <3>2 DEF OpenOnce
  <2>3. OpenIsDue'
    <3>1. ASSUME NEW e \in Conns, conn'[e] = "new"
          PROVE  conn[e] = "new" /\ (Open_ \in Due(e) => Open_ \in Due(e)')
      <4>1. CASE e # c  BY <1>10, <1>14, <3>1, <4>1
      <4>2. CASE e = c /\ t = Open_  BY <1>2, <1>6, <3>1, <4>2, TaskKinds DEF Typed
      <4>3. CASE e = c /\ t # Open_
        <5>1. conn[c] = "new"  BY <1>2, <1>6, <3>1, <4>3 DEF Typed
        <5> QED  BY <1>9, <4>3, <5>1
      <4> QED  BY <4>1, <4>2, <4>3
    <3> QED  BY <1>3, <1>7, <1>8, <1>10, <2>0, <3>1 DEF OpenIsDue
  <2>4. ClosedLast'
    <3> SUFFICES ASSUME NEW e \in Conns, conn'[e] = "closed"
                 PROVE  closing /\ Due(e)' = {} /\ (e = Writer => Closers = {})
      BY <1>3, <1>7, <1>13 DEF ClosedLast
    <3>1. CASE conn[e] = "closed"
      BY <1>10, <2>0, <3>1 DEF ClosedLast
    <3>2. CASE conn[e] # "closed"
      <4>1. e = c /\ t = Close_  BY <1>2, <1>6, <1>14, <3>2 DEF Typed
      <4>2. closing  BY <1>2, <1>12, <4>1 DEF Phase, NotClosing
      <4> QED  BY <1>2, <1>12, <1>15, <4>1, <4>2 DEF Phase, Closing
    <3> QED  BY <3>1, <3>2
  <2>5. FailureKnown'
    <3>1. \A e \in Conns : conn[e] = "failed" => conn'[e] = "failed"
      <4> TAKE e \in Conns
      <4>1. CASE e # c  BY <1>14, <4>1
      <4>2. CASE e = c /\ t = Open_  BY <1>12, <2>0, <4>2 DEF OpenOnce
      <4>3. CASE e = c /\ t # Open_  BY <1>6, <4>3
      <4> QED  BY <4>1, <4>2, <4>3
    <3>2. ASSUME NEW e \in Conns, conn'[e] = "failed"
          PROVE  \/ \E a \in Answered(e)' : a.kind = "open" /\ a.res # "ok"
                 \/ failedOrder # NoOrder /\ failedOrder <= e
      <4>1. CASE conn[e] = "failed"
        BY <1>9, <2>0, <4>1 DEF FailureKnown
      <4>2. CASE conn[e] # "failed"
        <5>1. e = c /\ x.kind = "open" /\ x.res # "ok"
          BY <1>2, <1>6, <1>14, <3>2, <4>2 DEF Typed
        <5> QED  BY <1>9, <5>1
      <4> QED  BY <4>1, <4>2
    <3>3. failedOrder # NoOrder => failedOrder \in Conns  BY <1>2 DEF Typed
    <3> QED  BY <1>3, <1>7, <2>0, <3>1, <3>2, <3>3 DEF FailureKnown, NoOrder
  <2>6. OpensCounted'  BY <1>3, <1>13, <2>0 DEF OpensCounted, NoOrder
  <2> QED  BY <2>1, <2>2, <2>3, <2>4, <2>5, <2>6 DEF Opens
<1>23. Answering'
  <2>0. /\ Numbered /\ PendingInLine /\ ParkedInOrder /\ AnswersKnown /\ OrderKept /\ ClosedByClose
    BY <1>2 DEF Answering
  <2>1. Numbered'  BY <1>3, <1>7, <2>0 DEF Numbered
  <2>2. PendingInLine'
    <3>1. \A k \in Calls : target[k] \in Conns  BY <1>2 DEF Typed
    <3> QED  BY <1>3, <1>7, <1>10, <2>0, <3>1 DEF PendingInLine, Call_
  <2>3. ParkedInOrder'
    <3>1. \A r : (Sorted(r)' <=> Sorted(r)) /\ ParkedAt(r)' = ParkedAt(r)
      BY <1>3 DEF Sorted, ParkedAt
    <3>2. UNCHANGED <<ready, outcome, target>>  BY <1>3
    <3> QED  BY <1>7, <2>0, <3>1, <3>2 DEF ParkedInOrder
  <2>4. AnswersKnown'
    <3> SUFFICES ASSUME NEW e \in Conns, NEW a \in Answered(e)', a.kind = "call"
                 PROVE  a.res \in {"ok", "openError"}
      BY <1>7 DEF AnswersKnown
    <3>1. CASE a \in Answered(e)  BY <2>0, <3>1 DEF AnswersKnown
    <3>2. CASE e = c /\ a = x
      <4>1. x.res = CallResult(c) /\ t # Open_ /\ t # Close_
        BY <1>2, <1>6, <3>2, TaskKinds
      <4>2. conn[c] # "closed"  BY <1>12, <2>0, <1>2 DEF Opens, ClosedLast
      <4>3. Open_ \notin Due(c)  BY <1>15, <4>1
      <4>4. c \in Readers => ready  BY <1>2, <1>12, <4>1 DEF Opens, WriterFirst
      <4>5. conn[c] # "new"
        BY <1>2, <1>8, <1>16, <4>3, <4>4 DEF Opens, OpenIsDue
      <4>6. conn[c] = "open" \/ conn[c] = "failed"  BY <1>2, <4>2, <4>5 DEF Typed
      <4> QED  BY <3>2, <4>1, <4>6 DEF CallResult
    <3> QED  BY <1>9, <3>1, <3>2
  <2>5. OrderKept'  BY <1>3, <1>7, <2>0 DEF OrderKept
  <2>6. ClosedByClose'  BY <1>3, <1>7, <2>0 DEF ClosedByClose
  <2> QED  BY <2>1, <2>2, <2>3, <2>4, <2>5, <2>6 DEF Answering
<1> QED  BY <1>17, <1>18, <1>19, <1>20, <1>21, <1>22, <1>23 DEF Inv

-----------------------------------------------------------------------------
(* Calls from JS.                                                           *)

LEMMA Still ==
  ASSUME UNCHANGED <<frames, done, work>>
  PROVE  \A c : /\ Toks(c)' = Toks(c) /\ Due(c)' = Due(c) /\ Answered(c)' = Answered(c)
                /\ InLine(c)' <=> InLine(c)
                /\ OwnQueue(c)' <=> OwnQueue(c)
<1>1. Batch' = Batch  BY DEF Batch, Top
<1> QED  BY <1>1 DEF Toks, Due, Answered, InLine, OwnQueue

LEMMA Dispatched ==
  ASSUME Typed, OwnQueues, Lines, UNCHANGED <<frames, done, poolSize>>,
         NEW tasks \in [Conns -> Seq(Task)], Dispatch(tasks)
  PROVE  /\ work' \in [Conns -> Seq(Task)] /\ fed' \subseteq Conns /\ OneFrame' /\ OwnQueues'
         /\ \A c \in Conns :
              /\ Toks(c)' = Toks(c) \cup Tasks(tasks[c]) /\ Due(c)' = Due(c) \cup Tasks(tasks[c])
              /\ Answered(c)' = Answered(c)
              /\ Fits(Toks(c), tasks[c]) => InLine(c)'
<1>1. Conns' = Conns /\ Frame' = Frame  BY SamePool
<1>2. work' = Queued(tasks) /\ fed' = FedBy(tasks)  BY DEF Dispatch
<1>3. work' \in [Conns -> Seq(Task)]
  <2>1. \A c \in Conns : work[c] \o tasks[c] \in Seq(Task)
    <3> TAKE c \in Conns
    <3>1. work[c] \in Seq(Task) /\ tasks[c] \in Seq(Task)  BY DEF Typed
    <3> QED  BY <3>1
  <2> QED  BY <1>2, <2>1 DEF Queued
<1>4. fed' \subseteq Conns  BY <1>2 DEF FedBy, Typed
<1>5. OneFrame'  BY <1>1 DEF Typed, OneFrame
<1>6. OwnQueues'  BY <1>1 DEF OwnQueues, OwnQueue
<1>7. Batch \in Seq(Completion) /\ Batch' = Batch  BY BatchTyped DEF Typed, Batch, Top
<1>8. ASSUME NEW c \in Conns
      PROVE  /\ Toks(c)' = Toks(c) \cup Tasks(tasks[c]) /\ Due(c)' = Due(c) \cup Tasks(tasks[c])
             /\ Answered(c)' = Answered(c)
             /\ Fits(Toks(c), tasks[c]) => InLine(c)'
  <2>1. InOrder(Batch, done[c], work[c], c)  BY DEF Lines, InLine
  <2>2. /\ Toks(c)' = Tokens(Batch, done[c], work[c], c) \cup Tasks(tasks[c])
        /\ Due(c)' = Due(c) \cup Tasks(tasks[c])
        /\ Answered(c)' = Answers(Batch, done[c], c)
        /\ InOrder(Batch, done[c], work[c], c) /\ Fits(Tokens(Batch, done[c], work[c], c), tasks[c])
             => InLine(c)'
    BY <1>2, <1>7, DispatchEffect
  <2> QED  BY <2>1, <2>2 DEF Toks, Answered
<1> QED  BY <1>3, <1>4, <1>5, <1>6, <1>8

LEMMA OnlyTyped ==
  ASSUME NEW c \in Conns, NEW t \in Task
  PROVE  /\ Only(c, t) \in [Conns -> Seq(Task)]
         /\ Tasks(Only(c, t)[c]) = {t}
         /\ \A S : (\A s \in S : Before(s, t)) => Fits(S, Only(c, t)[c])
         /\ \A e \in Conns : e # c => Tasks(Only(c, t)[e]) = {} /\ \A S : Fits(S, Only(c, t)[e])
<1>1. <<t>> \in Seq(Task) /\ <<>> \in Seq(Task)  OBVIOUS
<1>2. Only(c, t)[c] = <<t>> /\ \A e \in Conns : e # c => Only(c, t)[e] = <<>>  BY DEF Only
<1>3. Only(c, t) \in [Conns -> Seq(Task)]  BY <1>1 DEF Only
<1> QED  BY <1>2, <1>3, FitsOne, FitsNone

\* A call that is dispatched is the last in line.
LEMMA CallKeeps ==
  ASSUME Inv, NEW c \in Conns, NEW k \in Calls, handle = "valid", Fresh(k),
         c = Writer \/ ready, Dispatch(Only(c, Call_(k))),
         outcome' = [outcome EXCEPT ![k] = "pending"], target' = [target EXCEPT ![k] = c],
         nextReader' \in 0..poolSize, poolSize > 0 => nextReader' < poolSize,
         UNCHANGED <<inst, handle, closing, ready, parked, openPending, failedOrder, latch, poolSize,
                     conn, signalling, done, efd, responses, frames, init, closed>>
  PROVE  Inv'
<1>1. Typed /\ OwnQueues /\ Lines /\ Phase /\ Joins /\ Opens /\ Answering  BY DEF Inv
<1>2. /\ Conns' = Conns /\ Readers' = Readers /\ Calls' = Calls /\ Task' = Task
      /\ Completion' = Completion /\ Frame' = Frame
  BY SamePool
<1>3. /\ Writer \in Conns /\ Writer \notin Readers /\ Readers \subseteq Conns
      /\ \A e \in Conns : e = Writer \/ e \in Readers
      /\ \A j \in Calls : j \in Int
  BY <1>1, Pool
<1>4. ~closing /\ inst = "live" /\ \A e \in Conns : Close_ \notin Toks(e)
  BY <1>1 DEF Typed, Phase, NotClosing, Unborn, Closing, Freed
<1>5. Call_(k) \in Task /\ Call_(k) # Open_ /\ Call_(k) # Close_  BY <1>1, TaskKinds
<1>6. /\ work' \in [Conns -> Seq(Task)] /\ fed' \subseteq Conns /\ OneFrame' /\ OwnQueues'
      /\ Toks(c)' = Toks(c) \cup {Call_(k)} /\ Due(c)' = Due(c) \cup {Call_(k)}
      /\ \A e \in Conns : e # c => Toks(e)' = Toks(e) /\ Due(e)' = Due(e) /\ InLine(e)'
      /\ \A e \in Conns : Answered(e)' = Answered(e)
      /\ (\A s \in Toks(c) : Before(s, Call_(k))) => InLine(c)'
  <2> DEFINE tasks == Only(c, Call_(k))
  <2>1. /\ tasks \in [Conns -> Seq(Task)] /\ Tasks(tasks[c]) = {Call_(k)}
        /\ \A S : (\A s \in S : Before(s, Call_(k))) => Fits(S, tasks[c])
        /\ \A e \in Conns : e # c => Tasks(tasks[e]) = {} /\ \A S : Fits(S, tasks[e])
    BY <1>5, OnlyTyped
  <2>2. Dispatch(tasks)  OBVIOUS
  <2> HIDE DEF tasks
  <2>3. /\ work' \in [Conns -> Seq(Task)] /\ fed' \subseteq Conns /\ OneFrame' /\ OwnQueues'
        /\ \A e \in Conns :
             /\ Toks(e)' = Toks(e) \cup Tasks(tasks[e]) /\ Due(e)' = Due(e) \cup Tasks(tasks[e])
             /\ Answered(e)' = Answered(e)
             /\ Fits(Toks(e), tasks[e]) => InLine(e)'
    BY <1>1, <2>1, <2>2, Dispatched
  <2> QED  BY <2>1, <2>3
<1>7. \A j \in Calls : outcome[j] # "none" => j < k
  BY <1>1, <1>3 DEF Fresh, Answering, Numbered
<1>8. \A s \in Toks(c) : Before(s, Call_(k))
  <2> TAKE s \in Toks(c)
  <2>1. s \in Task /\ s # Close_  BY <1>1, <1>4 DEF Lines
  <2>2. CASE s = Open_  BY <1>1, <2>2, TaskKinds
  <2>3. CASE \E j \in Calls : s = Call_(j)
    <3>1. PICK j \in Calls : s = Call_(j)  BY <2>3
    <3>2. outcome[j] = "pending"  BY <1>1, <3>1 DEF Answering, PendingInLine
    <3>3. j < k  BY <1>7, <3>2
    <3> QED  BY <1>1, <3>1, <3>3, TaskKinds
  <2> QED  BY <1>1, <2>1, <2>2, <2>3, TaskKinds
<1>9. \A e \in Conns : /\ InLine(e)' /\ Toks(e)' \subseteq Toks(e) \cup {Call_(k)}
                       /\ Toks(e) \subseteq Toks(e)'
                       /\ Due(e)' \subseteq Due(e) \cup {Call_(k)} /\ Due(e) \subseteq Due(e)'
  BY <1>6, <1>8
<1>10. outcome[k] = "none" /\ outcome'[k] = "pending" /\ target'[k] = c
       /\ \A j \in Calls : j # k => outcome'[j] = outcome[j] /\ target'[j] = target[j]
  BY <1>1 DEF Fresh, Typed
<1>11. \A e \in Conns : (Open_ \in Toks(e)' <=> Open_ \in Toks(e)) /\ (Open_ \in Due(e)' <=> Open_ \in Due(e))
  BY <1>5, <1>9
<1>12. Opening' = Opening  BY <1>2, <1>11 DEF Opening
<1>13. Typed'
  <2>1. outcome' \in [Calls -> Outcome] /\ target' \in [Calls -> Conns]
    BY <1>1 DEF Typed, Outcome
  <2>2. nextReader' \in 0..poolSize' /\ (poolSize' > 0 => nextReader' < poolSize')  OBVIOUS
  <2> QED  BY <1>1, <1>2, <1>6, <2>1, <2>2 DEF Typed, NoOrder, Outcome
<1>14. Lines'  BY <1>1, <1>2, <1>5, <1>9 DEF Lines
<1>15. Joins'  BY <1>4 DEF Joins
<1>16. Phase'
  <2>1. Unborn' /\ Closing' /\ Freed'  BY <1>4 DEF Unborn, Closing, Freed
  <2>2. NotClosing'  BY <1>1, <1>2, <1>4, <1>5, <1>9 DEF Phase, NotClosing
  <2> QED  BY <2>1, <2>2 DEF Phase
<1>17. Opens'
  <2>0. WriterFirst /\ OpenOnce /\ OpenIsDue /\ ClosedLast /\ FailureKnown /\ OpensCounted
    BY <1>1 DEF Opens
  <2>1. WriterFirst'
    <3>1. ~ready => \A r \in Readers : Toks(r)' = Toks(r)  BY <1>3, <1>6
    <3> QED  BY <1>2, <1>3, <1>11, <2>0, <3>1 DEF WriterFirst
  <2>2. OpenOnce'  BY <1>2, <1>6, <1>11, <2>0 DEF OpenOnce
  <2>3. OpenIsDue'  BY <1>2, <1>3, <1>11, <2>0 DEF OpenIsDue
  <2>4. ClosedLast'  BY <1>2, <1>4, <2>0 DEF ClosedLast
  <2>5. FailureKnown'  BY <1>2, <1>6, <2>0 DEF FailureKnown, NoOrder
  <2>6. OpensCounted'  BY <1>12, <2>0 DEF OpensCounted, NoOrder
  <2> QED  BY <2>1, <2>2, <2>3, <2>4, <2>5, <2>6 DEF Opens
<1>18. Answering'
  <2>0. Numbered /\ PendingInLine /\ ParkedInOrder /\ AnswersKnown /\ OrderKept /\ ClosedByClose
    BY <1>1 DEF Answering
  <2>1. Numbered'
    <3> SUFFICES ASSUME NEW i \in Calls, NEW j \in Calls, i < j, outcome'[j] # "none", outcome'[i] = "none"
                 PROVE  FALSE
      BY <1>2 DEF Numbered
    <3>1. i # k /\ outcome[i] = "none"  BY <1>10
    <3>2. CASE j = k  BY <3>1, <3>2 DEF Fresh
    <3>3. CASE j # k  BY <1>10, <2>0, <3>1, <3>3 DEF Numbered
    <3> QED  BY <3>2, <3>3
  <2>2. PendingInLine'
    <3>1. ASSUME NEW e \in Conns, NEW j \in Calls, Call_(j) \in Toks(e)'
          PROVE  outcome'[j] = "pending" /\ target'[j] = e
      <4>1. CASE Call_(j) \in Toks(e)
        <5>1. outcome[j] = "pending" /\ target[j] = e  BY <2>0, <4>1 DEF PendingInLine
        <5> QED  BY <1>10, <5>1
      <4>2. CASE Call_(j) \notin Toks(e)
        <5>1. Call_(j) = Call_(k) /\ e = c  BY <1>6, <1>9, <3>1, <4>2
        <5>2. j = k  BY <1>1, <5>1, TaskKinds
        <5> QED  BY <1>10, <5>1, <5>2
      <4> QED  BY <4>1, <4>2
    <3>2. ASSUME NEW j \in Calls, outcome'[j] = "pending"
          PROVE  \E e \in Conns : target'[j] = e /\ Call_(j) \in Toks(e)'
      <4>1. CASE j = k  BY <1>6, <1>10, <4>1
      <4>2. CASE j # k
        <5>1. target[j] \in Conns /\ Call_(j) \in Toks(target[j])
          BY <1>1, <1>10, <2>0, <3>2, <4>2 DEF PendingInLine, Typed
        <5> QED  BY <1>9, <1>10, <4>2, <5>1
      <4> QED  BY <4>1, <4>2
    <3> QED  BY <1>2, <3>1, <3>2 DEF PendingInLine, Call_
  <2>3. ParkedInOrder'
    <3>1. \A r : (Sorted(r)' <=> Sorted(r)) /\ ParkedAt(r)' = ParkedAt(r)
      BY DEF Sorted, ParkedAt
    <3>2. \A r \in Readers : \A j \in ParkedAt(r) : j \in Calls /\ j # k
      <4> TAKE r \in Readers
      <4> TAKE j \in ParkedAt(r)
      <4>1. j \in Calls  BY <1>1 DEF Typed, ParkedAt
      <4> QED  BY <1>10, <2>0, <4>1 DEF ParkedInOrder
    <3>3. \A r \in Readers : Sorted(r)' /\ (ready' => ParkedAt(r)' = {})
      BY <2>0, <3>1 DEF ParkedInOrder
    <3>4. \A r \in Readers : \A j \in ParkedAt(r)' : outcome'[j] = "parked" /\ target'[j] = r
      BY <1>10, <2>0, <3>1, <3>2 DEF ParkedInOrder
    <3>5. \A j \in Calls : outcome'[j] = "parked" => target'[j] \in Readers /\ j \in ParkedAt(target[j])
                                                    /\ target'[j] = target[j]
      BY <1>10, <2>0 DEF ParkedInOrder
    <3> QED  BY <1>2, <3>1, <3>3, <3>4, <3>5 DEF ParkedInOrder
  <2>4. AnswersKnown'  BY <1>2, <1>6, <2>0 DEF AnswersKnown
  <2>5. OrderKept'
    <3> SUFFICES ASSUME NEW i \in Calls, NEW j \in Calls, i < j, target'[i] = target'[j],
                        outcome'[j] \in {"ok", "openError"}
                 PROVE  outcome'[i] \notin {"pending", "parked"}
      BY <1>2 DEF OrderKept
    <3>1. j # k /\ outcome[j] = outcome'[j] /\ target'[j] = target[j]  BY <1>10
    <3>2. i # k  BY <1>3, <1>7, <3>1
    <3> QED  BY <1>10, <2>0, <3>1, <3>2 DEF OrderKept
  <2>6. ClosedByClose'  BY <1>2, <1>10, <2>0 DEF ClosedByClose
  <2> QED  BY <2>1, <2>2, <2>3, <2>4, <2>5, <2>6 DEF Answering
<1> QED  BY <1>6, <1>13, <1>14, <1>15, <1>16, <1>17, <1>18 DEF Inv

LEMMA ExecuteKeeps ==
  ASSUME Inv, NEW k \in Calls, Execute(k)
  PROVE  Inv'
<1>1. Writer \in Conns  BY Pool DEF Inv
<1>2. nextReader \in 0..poolSize /\ (poolSize > 0 => nextReader < poolSize)  BY DEF Inv, Typed
<1> QED  BY <1>1, <1>2, CallKeeps DEF Execute, bindingVars

\* A read that cannot be dispatched is parked, the last for its reader.
LEMMA ParkKeeps ==
  ASSUME Inv, NEW c \in Readers, NEW k \in Calls, handle = "valid", Fresh(k), ~ready,
         parked' = [parked EXCEPT ![c] = Append(@, k)],
         outcome' = [outcome EXCEPT ![k] = "parked"], target' = [target EXCEPT ![k] = c],
         nextReader' \in 0..poolSize, poolSize > 0 => nextReader' < poolSize,
         UNCHANGED <<inst, handle, closing, ready, openPending, failedOrder, latch, poolSize,
                     work, fed, conn, signalling, done, efd, responses, frames, init, closed>>
  PROVE  Inv'
<1>1. Typed /\ OwnQueues /\ Lines /\ Phase /\ Joins /\ Opens /\ Answering  BY DEF Inv
<1>2. /\ Conns' = Conns /\ Readers' = Readers /\ Calls' = Calls /\ Task' = Task
      /\ Completion' = Completion /\ Frame' = Frame
  BY SamePool
<1>3. /\ Writer \in Conns /\ Writer \notin Readers /\ Readers \subseteq Conns
      /\ \A j \in Calls : j \in Int
  BY <1>1, Pool
<1>4. ~closing /\ inst = "live"
  BY <1>1 DEF Typed, Phase, Unborn, Closing, Freed
<1>5. \A e \in Conns : /\ Toks(e)' = Toks(e) /\ Due(e)' = Due(e) /\ Answered(e)' = Answered(e)
                       /\ InLine(e)' <=> InLine(e)
                       /\ OwnQueue(e)' <=> OwnQueue(e)
  BY Still
<1>6. Opening' = Opening  BY <1>2, <1>5 DEF Opening
<1>7. \A j \in Calls : outcome[j] # "none" => j < k
  BY <1>1, <1>3 DEF Fresh, Answering, Numbered
<1>8. /\ outcome[k] = "none" /\ outcome'[k] = "parked" /\ target'[k] = c
      /\ \A j \in Calls : j # k => outcome'[j] = outcome[j] /\ target'[j] = target[j]
  BY <1>1, <1>3 DEF Fresh, Typed
<1> DEFINE p == parked[c]
<1>9. p \in Seq(Calls) /\ parked'[c] = Append(p, k) /\ \A r \in Readers : r # c => parked'[r] = parked[r]
  BY <1>1 DEF Typed
<1>10. ParkedAt(c) = {p[i] : i \in DOMAIN p}  BY DEF ParkedAt
<1>11. Sorted(c) <=> \A i, j \in DOMAIN p : i < j => p[i] < p[j]  BY DEF Sorted
<1> HIDE DEF p
<1>12. /\ DOMAIN p = 1..Len(p) /\ Len(p) \in Nat /\ DOMAIN Append(p, k) = 1..(Len(p) + 1)
       /\ \A i \in DOMAIN p : Append(p, k)[i] = p[i] /\ p[i] \in Calls
       /\ Append(p, k)[Len(p) + 1] = k /\ Append(p, k) \in Seq(Calls)
  BY <1>9
<1>13. ParkedAt(c)' = ParkedAt(c) \cup {k}
  <2>1. \A i \in DOMAIN Append(p, k) : i \in DOMAIN p \/ i = Len(p) + 1  BY <1>12
  <2>2. DOMAIN p \subseteq DOMAIN Append(p, k) /\ Len(p) + 1 \in DOMAIN Append(p, k)  BY <1>12
  <2>3. {Append(p, k)[i] : i \in DOMAIN Append(p, k)} = {p[i] : i \in DOMAIN p} \cup {k}
    BY <1>12, <2>1, <2>2
  <2>4. ParkedAt(c)' = {parked'[c][i] : i \in DOMAIN parked'[c]}  BY DEF ParkedAt
  <2>5. ParkedAt(c)' = {Append(p, k)[i] : i \in DOMAIN Append(p, k)}  BY <1>9, <2>4, Zenon
  <2> QED  BY <1>10, <2>3, <2>5, Zenon
<1>14. ASSUME NEW r \in Readers, r # c  PROVE ParkedAt(r)' = ParkedAt(r) /\ (Sorted(r)' <=> Sorted(r))
  BY <1>9, <1>14 DEF ParkedAt, Sorted
<1>15. Sorted(c)'
  <2>1. \A i \in DOMAIN p : p[i] < k
    <3> TAKE i \in DOMAIN p
    <3>1. p[i] \in ParkedAt(c) /\ p[i] \in Calls  BY <1>10, <1>12
    <3>2. outcome[p[i]] = "parked"  BY <1>1, <3>1 DEF Answering, ParkedInOrder
    <3> QED  BY <1>7, <3>1, <3>2
  <2>2. \A i, j \in DOMAIN p : i < j => p[i] < p[j]
    BY <1>1, <1>11 DEF Answering, ParkedInOrder
  <2> SUFFICES ASSUME NEW i \in DOMAIN Append(p, k), NEW j \in DOMAIN Append(p, k), i < j
               PROVE  Append(p, k)[i] < Append(p, k)[j]
    BY <1>9 DEF Sorted
  <2>3. i \in DOMAIN p  BY <1>12
  <2>4. CASE j \in DOMAIN p  BY <1>12, <2>2, <2>3, <2>4
  <2>5. CASE j = Len(p) + 1  BY <1>12, <2>1, <2>3, <2>5
  <2> QED  BY <1>12, <2>4, <2>5
<1>16. Typed'
  <2>1. outcome' \in [Calls -> Outcome] /\ target' \in [Calls -> Conns]
    BY <1>1, <1>3 DEF Typed, Outcome
  <2>2. parked' \in [Readers -> Seq(Calls)]  BY <1>1, <1>9, <1>12 DEF Typed
  <2>3. OneFrame'  BY <1>1, <1>2 DEF Typed, OneFrame
  <2>4. nextReader' \in 0..poolSize' /\ (poolSize' > 0 => nextReader' < poolSize')  OBVIOUS
  <2> QED  BY <1>1, <1>2, <2>1, <2>2, <2>3, <2>4 DEF Typed, NoOrder, Outcome
<1>17. OwnQueues' /\ Lines' /\ Joins'
  BY <1>1, <1>2, <1>4, <1>5 DEF OwnQueues, Lines, Joins
<1>18. Phase'
  <2>1. Unborn' /\ Closing' /\ Freed'  BY <1>4 DEF Unborn, Closing, Freed
  <2>2. NotClosing'  BY <1>1, <1>2, <1>5 DEF Phase, NotClosing
  <2> QED  BY <2>1, <2>2 DEF Phase
<1>19. Opens'
  <2>0. WriterFirst /\ OpenOnce /\ OpenIsDue /\ ClosedLast /\ FailureKnown /\ OpensCounted
    BY <1>1 DEF Opens
  <2>1. WriterFirst'  BY <1>2, <1>3, <1>5, <2>0 DEF WriterFirst
  <2>2. OpenOnce'  BY <1>2, <1>5, <2>0 DEF OpenOnce
  <2>3. OpenIsDue'  BY <1>2, <1>3, <1>5, <2>0 DEF OpenIsDue
  <2>4. ClosedLast'  BY <1>2, <1>4, <2>0 DEF ClosedLast
  <2>5. FailureKnown'  BY <1>2, <1>5, <2>0 DEF FailureKnown, NoOrder
  <2>6. OpensCounted'  BY <1>6, <2>0 DEF OpensCounted, NoOrder
  <2> QED  BY <2>1, <2>2, <2>3, <2>4, <2>5, <2>6 DEF Opens
<1>20. Answering'
  <2>0. Numbered /\ PendingInLine /\ ParkedInOrder /\ AnswersKnown /\ OrderKept /\ ClosedByClose
    BY <1>1 DEF Answering
  <2>1. Numbered'
    <3> SUFFICES ASSUME NEW i \in Calls, NEW j \in Calls, i < j, outcome'[j] # "none", outcome'[i] = "none"
                 PROVE  FALSE
      BY <1>2 DEF Numbered
    <3>1. i # k /\ outcome[i] = "none"  BY <1>8
    <3>2. CASE j = k  BY <3>1, <3>2 DEF Fresh
    <3>3. CASE j # k  BY <1>8, <2>0, <3>1, <3>3 DEF Numbered
    <3> QED  BY <3>2, <3>3
  <2>2. PendingInLine'
    <3>1. ASSUME NEW e \in Conns, NEW j \in Calls, Call_(j) \in Toks(e)'
          PROVE  outcome'[j] = "pending" /\ target'[j] = e
      <4>1. outcome[j] = "pending" /\ target[j] = e  BY <1>5, <2>0, <3>1 DEF PendingInLine
      <4> QED  BY <1>8, <4>1
    <3>2. ASSUME NEW j \in Calls, outcome'[j] = "pending"
          PROVE  \E e \in Conns : target'[j] = e /\ Call_(j) \in Toks(e)'
      <4>1. j # k  BY <1>8, <3>2
      <4>2. target[j] \in Conns /\ Call_(j) \in Toks(target[j])
        BY <1>1, <1>8, <2>0, <3>2, <4>1 DEF PendingInLine, Typed
      <4> QED  BY <1>5, <1>8, <4>1, <4>2
    <3> QED  BY <1>2, <3>1, <3>2 DEF PendingInLine, Call_
  <2>3. ParkedInOrder'
    <3>1. \A r \in Readers : Sorted(r)'  BY <1>14, <1>15, <2>0 DEF ParkedInOrder
    <3>2. ASSUME NEW r \in Readers, NEW j \in ParkedAt(r)'
          PROVE  outcome'[j] = "parked" /\ target'[j] = r
      <4>1. CASE j \in ParkedAt(r)
        <5>1. j \in Calls  BY <1>1, <4>1 DEF Typed, ParkedAt
        <5>2. outcome[j] = "parked" /\ target[j] = r  BY <2>0, <4>1 DEF ParkedInOrder
        <5> QED  BY <1>8, <5>1, <5>2
      <4>2. CASE j \notin ParkedAt(r)
        <5>1. r = c /\ j = k  BY <1>13, <1>14, <3>2, <4>2
        <5> QED  BY <1>8, <5>1
      <4> QED  BY <4>1, <4>2
    <3>3. ASSUME NEW j \in Calls, outcome'[j] = "parked"
          PROVE  target'[j] \in Readers /\ \E r \in Readers : r = target'[j] /\ j \in ParkedAt(r)'
      <4>1. CASE j = k  BY <1>8, <1>13, <4>1
      <4>2. CASE j # k
        <5>1. target[j] \in Readers /\ j \in ParkedAt(target[j]) /\ target'[j] = target[j]
          BY <1>8, <2>0, <3>3, <4>2 DEF ParkedInOrder
        <5>2. PICK r \in Readers : r = target[j]  BY <5>1
        <5>3. j \in ParkedAt(r)'  BY <1>13, <1>14, <5>1, <5>2
        <5> QED  BY <5>1, <5>2, <5>3
      <4> QED  BY <4>1, <4>2
    <3> QED  BY <1>2, <3>1, <3>2, <3>3 DEF ParkedInOrder, ParkedAt
  <2>4. AnswersKnown'  BY <1>2, <1>5, <2>0 DEF AnswersKnown
  <2>5. OrderKept'
    <3> SUFFICES ASSUME NEW i \in Calls, NEW j \in Calls, i < j, target'[i] = target'[j],
                        outcome'[j] \in {"ok", "openError"}
                 PROVE  outcome'[i] \notin {"pending", "parked"}
      BY <1>2 DEF OrderKept
    <3>1. j # k /\ outcome[j] = outcome'[j] /\ target'[j] = target[j]  BY <1>8
    <3>2. i # k  BY <1>3, <1>7, <3>1
    <3> QED  BY <1>8, <2>0, <3>1, <3>2 DEF OrderKept
  <2>6. ClosedByClose'  BY <1>2, <1>8, <2>0 DEF ClosedByClose
  <2> QED  BY <2>1, <2>2, <2>3, <2>4, <2>5, <2>6 DEF Answering
<1> QED  BY <1>16, <1>17, <1>18, <1>19, <1>20 DEF Inv

LEMMA SelectKeeps ==
  ASSUME Inv, NEW k \in Calls, Select(k)
  PROVE  Inv'
<1>1. /\ poolSize \in Nat /\ Writer \in Conns /\ Readers \subseteq Conns
      /\ nextReader \in 0..poolSize /\ (poolSize > 0 => nextReader < poolSize)
  BY Pool DEF Inv, Typed
<1>2. nextReader' \in 0..poolSize /\ (poolSize > 0 => nextReader' < poolSize)
  <2>1. nextReader' = IF poolSize = 0 THEN 0 ELSE (nextReader + 1) % poolSize  BY DEF Select
  <2>2. CASE poolSize = 0  BY <1>1, <2>1, <2>2
  <2>3. CASE poolSize > 0
    <3>1. (nextReader + 1) % poolSize \in 0..(poolSize - 1)  BY <1>1, <2>3
    <3> QED  BY <1>1, <2>1, <2>3, <3>1
  <2> QED  BY <1>1, <2>2, <2>3
<1>3. IF poolSize = 0 THEN ReadTarget = Writer ELSE ReadTarget \in Readers
  BY <1>1 DEF ReadTarget, Readers
<1>4. CASE MayRead
  <2>1. PICK c \in Conns : c = ReadTarget  BY <1>1, <1>3
  <2>2. c = Writer \/ ready  BY <1>3, <1>4, <2>1 DEF MayRead
  <2> QED  BY <1>2, <1>4, <2>1, <2>2, CallKeeps DEF Select
<1>5. CASE ~MayRead
  <2>1. PICK c \in Readers : c = ReadTarget  BY <1>3, <1>5 DEF MayRead
  <2> QED  BY <1>2, <1>5, <2>1, ParkKeeps DEF Select, MayRead
<1> QED  BY <1>4, <1>5

\* The constructor: the first opens are on their way.
LEMMA BornKeeps ==
  ASSUME Inv, inst = "none", inst' = "live", handle' = "valid",
         NEW tasks \in [Conns -> Seq(Task)], Dispatch(tasks), NEW S \in SUBSET Conns,
         \A c \in Conns : /\ Tasks(tasks[c]) = IF c \in S THEN {Open_} ELSE {}
                          /\ Fits({}, tasks[c]),
         openPending' = Cardinality(S),
         \/ ready' = FALSE /\ S = {Writer} /\ conn' = conn
         \/ ready' = TRUE /\ S = Readers /\ conn' = [conn EXCEPT ![Writer] = "open"],
         UNCHANGED <<closing, parked, failedOrder, latch, nextReader, poolSize,
                     signalling, done, efd, responses, frames, promiseVars>>
  PROVE  Inv'
<1>1. Typed /\ OwnQueues /\ Lines /\ Phase /\ Joins /\ Opens /\ Answering  BY DEF Inv
<1>2. /\ Conns' = Conns /\ Readers' = Readers /\ Calls' = Calls /\ Task' = Task
      /\ Completion' = Completion /\ Frame' = Frame
  BY SamePool
<1>3. /\ Writer \in Conns /\ Writer \notin Readers /\ Readers \subseteq Conns
      /\ \A e \in Conns : e = Writer \/ e \in Readers
  BY <1>1, Pool
<1>4. UNCHANGED <<outcome, target, init, closed>>  BY DEF promiseVars
<1>5. /\ handle = "none" /\ init = "none" /\ failedOrder = NoOrder /\ ~ready
      /\ \A c \in Conns : Toks(c) = {} /\ conn[c] = "new"
      /\ \A k \in Calls : outcome[k] = "none"
  BY <1>1 DEF Phase, Unborn
<1>6. ~closing /\ latch = poolSize  BY <1>1, <1>5 DEF Phase, Closing, NotClosing
<1>7. \A c \in Conns : Due(c) = {} /\ Answered(c) = {}
  BY <1>1, <1>5, InToks DEF OwnQueues
<1>8. /\ work' \in [Conns -> Seq(Task)] /\ fed' \subseteq Conns /\ OneFrame' /\ OwnQueues'
      /\ \A c \in Conns :
           /\ Toks(c)' = IF c \in S THEN {Open_} ELSE {}
           /\ Due(c)' = IF c \in S THEN {Open_} ELSE {}
           /\ Answered(c)' = {} /\ InLine(c)'
  <2>1. /\ work' \in [Conns -> Seq(Task)] /\ fed' \subseteq Conns /\ OneFrame' /\ OwnQueues'
        /\ \A c \in Conns :
             /\ Toks(c)' = Toks(c) \cup Tasks(tasks[c]) /\ Due(c)' = Due(c) \cup Tasks(tasks[c])
             /\ Answered(c)' = Answered(c)
             /\ Fits(Toks(c), tasks[c]) => InLine(c)'
    BY <1>1, Dispatched
  <2> QED  BY <1>5, <1>7, <2>1
<1>9. Open_ \in Task /\ Open_ # Close_ /\ \A k \in Calls : Call_(k) # Open_  BY <1>1, TaskKinds
<1>10. \A r \in Readers : ParkedAt(r) = {} /\ ParkedAt(r)' = {} /\ (Sorted(r)' <=> Sorted(r))
  <2> TAKE r \in Readers
  <2>1. \A k \in ParkedAt(r) : k \in Calls /\ outcome[k] = "parked"
    BY <1>1 DEF Typed, ParkedAt, Answering, ParkedInOrder
  <2>2. ParkedAt(r) = {}  BY <1>5, <2>1
  <2> QED  BY <2>2 DEF ParkedAt, Sorted
<1>11. conn' \in [Conns -> {"new", "open", "failed", "closed"}] /\ ready' \in BOOLEAN
       /\ \A c \in Conns : conn'[c] = IF c = Writer /\ ready' THEN "open" ELSE "new"
  BY <1>1, <1>3, <1>5 DEF Typed
<1>12. Typed'
  <2>1. openPending' \in Int
    <3>1. IsFiniteSet(Conns)  BY <1>1, PoolCounts
    <3>2. Cardinality(S) \in Nat  BY <3>1, Counts
    <3> QED  BY <3>2
  <2> QED  BY <1>1, <1>2, <1>4, <1>8, <1>11, <2>1 DEF Typed, NoOrder, Outcome
<1>13. Lines'  BY <1>2, <1>8, <1>9 DEF Lines
<1>14. Joins'  BY DEF Joins
<1>15. Phase'
  <2>1. Unborn' /\ Closing' /\ Freed'  BY <1>6 DEF Unborn, Closing, Freed
  <2>2. NotClosing'  BY <1>2, <1>6, <1>8, <1>9 DEF NotClosing
  <2> QED  BY <2>1, <2>2 DEF Phase
<1>16. Opens'
  <2>1. WriterFirst'  BY <1>2, <1>3, <1>8, <1>9, <1>11 DEF WriterFirst
  <2>2. OpenOnce'  BY <1>2, <1>3, <1>8, <1>11 DEF OpenOnce
  <2>3. OpenIsDue'  BY <1>2, <1>3, <1>8, <1>11 DEF OpenIsDue
  <2>4. ClosedLast'  BY <1>2, <1>11 DEF ClosedLast
  <2>5. FailureKnown'  BY <1>2, <1>5, <1>11 DEF FailureKnown, NoOrder
  <2>6. OpensCounted'
    <3>1. Opening' = S  BY <1>2, <1>8 DEF Opening
    <3> QED  BY <1>4, <1>5, <3>1 DEF OpensCounted
  <2> QED  BY <2>1, <2>2, <2>3, <2>4, <2>5, <2>6 DEF Opens
<1>17. Answering'
  <2>1. Numbered' /\ OrderKept' /\ ClosedByClose'
    BY <1>2, <1>4, <1>5 DEF Numbered, OrderKept, ClosedByClose
  <2>2. PendingInLine'  BY <1>2, <1>4, <1>5, <1>8, <1>9 DEF PendingInLine, Call_
  <2>3. ParkedInOrder'
    BY <1>1, <1>2, <1>4, <1>5, <1>10 DEF ParkedInOrder, Answering
  <2>4. AnswersKnown'  BY <1>2, <1>8 DEF AnswersKnown
  <2> QED  BY <2>1, <2>2, <2>3, <2>4 DEF Answering
<1> QED  BY <1>8, <1>12, <1>13, <1>14, <1>15, <1>16, <1>17 DEF Inv

LEMMA OpenKeeps ==
  ASSUME Inv, OpenAsync \/ OpenSync \/ OpenThrows
  PROVE  Inv'
<1>1. Typed  BY DEF Inv
<1>2. Writer \in Conns /\ Writer \notin Readers /\ Readers \subseteq Conns  BY <1>1, Pool
<1>3. Open_ \in Task  BY <1>1, TaskKinds
<1>4. CASE OpenAsync
  <2> DEFINE tasks == Only(Writer, Open_)
  <2>1. /\ tasks \in [Conns -> Seq(Task)] /\ Tasks(tasks[Writer]) = {Open_}
        /\ \A T : (\A s \in T : Before(s, Open_)) => Fits(T, tasks[Writer])
        /\ \A e \in Conns : e # Writer => Tasks(tasks[e]) = {} /\ \A T : Fits(T, tasks[e])
    BY <1>2, <1>3, OnlyTyped
  <2>2. Dispatch(tasks)  BY <1>4 DEF OpenAsync
  <2> HIDE DEF tasks
  <2>3. \A c \in Conns : /\ Tasks(tasks[c]) = IF c \in {Writer} THEN {Open_} ELSE {}
                         /\ Fits({}, tasks[c])
    BY <2>1
  <2>4. Cardinality({Writer}) = 1 /\ {Writer} \in SUBSET Conns  BY <1>2, FS_Singleton
  <2>5. ready = FALSE  BY <1>1, <1>4 DEF OpenAsync, Inv, Phase, Unborn, Typed
  <2>6. /\ inst = "none" /\ inst' = "live" /\ handle' = "valid" /\ openPending' = 1
        /\ UNCHANGED <<closing, conn, ready, parked, failedOrder, latch, nextReader, poolSize,
                       signalling, done, efd, responses, frames, promiseVars>>
    BY <1>4 DEF OpenAsync
  <2> QED  BY <2>1, <2>2, <2>3, <2>4, <2>5, <2>6, BornKeeps
<1>5. CASE OpenSync
  <2>1. /\ ReaderOpens \in [Conns -> Seq(Task)]
        /\ \A c \in Conns : /\ Tasks(ReaderOpens[c]) = IF c \in Readers THEN {Open_} ELSE {}
                            /\ Fits({}, ReaderOpens[c])
    <3>1. <<Open_>> \in Seq(Task) /\ <<>> \in Seq(Task)  BY <1>3
    <3>2. ReaderOpens \in [Conns -> Seq(Task)]  BY <3>1 DEF ReaderOpens
    <3>3. \A c \in Conns : ReaderOpens[c] = IF c \in Readers THEN <<Open_>> ELSE <<>>
      BY DEF ReaderOpens
    <3> QED  BY <1>3, <3>2, <3>3, FitsOne, FitsNone
  <2>2. Cardinality(Readers) = poolSize /\ Readers \in SUBSET Conns  BY <1>1, <1>2, PoolCounts
  <2>3. /\ inst = "none" /\ inst' = "live" /\ handle' = "valid" /\ openPending' = poolSize
        /\ ready' = TRUE /\ conn' = [conn EXCEPT ![Writer] = "open"] /\ Dispatch(ReaderOpens)
        /\ UNCHANGED <<closing, parked, failedOrder, latch, nextReader, poolSize,
                       signalling, done, efd, responses, frames, promiseVars>>
    BY <1>5 DEF OpenSync
  <2> QED  BY <2>1, <2>2, <2>3, BornKeeps
<1>6. CASE OpenThrows
  <2>1. /\ inst = "none" /\ inst' = "threw"
        /\ UNCHANGED <<handle, closing, ready, parked, openPending, failedOrder, latch, nextReader,
                       poolSize, conn, work, signalling, done, efd, responses, frames, fed,
                       outcome, target, init, closed>>
    BY <1>6 DEF OpenThrows, threadVars, looperVars, promiseVars
  <2>2. /\ Conns' = Conns /\ Readers' = Readers /\ Calls' = Calls /\ Task' = Task
        /\ Completion' = Completion /\ Frame' = Frame
    BY <2>1, SamePool
  <2>3. \A e \in Conns : /\ Toks(e)' = Toks(e) /\ Due(e)' = Due(e) /\ Answered(e)' = Answered(e)
                         /\ InLine(e)' <=> InLine(e)
                         /\ OwnQueue(e)' <=> OwnQueue(e)
    BY <2>1, Still
  <2>4. Closers' = Closers /\ Opening' = Opening  BY <1>2, <2>2, <2>3 DEF Closers, Opening
  <2>5. Typed'
    <3>1. OneFrame'  BY <1>1, <2>1, <2>2 DEF Typed, OneFrame
    <3> QED  BY <1>1, <2>1, <2>2, <3>1 DEF Typed, NoOrder, Outcome
  <2>6. OwnQueues' /\ Lines' /\ Joins'
    BY <2>1, <2>2, <2>3 DEF Inv, OwnQueues, Lines, Joins
  <2>7. Phase'
    <3>1. Unborn'  BY <2>1, <2>2, <2>3 DEF Inv, Phase, Unborn, NoOrder
    <3>2. ~closing  BY <2>1 DEF Inv, Phase, Unborn, Closing
    <3>3. NotClosing'  BY <2>1, <2>2, <2>3 DEF Inv, Phase, NotClosing
    <3>4. Closing' /\ Freed'  BY <2>1, <3>2 DEF Closing, Freed
    <3> QED  BY <3>1, <3>3, <3>4 DEF Phase
  <2>8. Opens'
    <3>1. WriterFirst /\ OpenOnce /\ OpenIsDue /\ ClosedLast /\ FailureKnown /\ OpensCounted
      BY DEF Inv, Opens
    <3>2. WriterFirst' /\ OpenOnce'  BY <1>2, <2>1, <2>2, <2>3, <3>1 DEF WriterFirst, OpenOnce
    <3>3. OpenIsDue'  BY <2>1 DEF OpenIsDue
    <3>4. ClosedLast'  BY <2>1, <2>2, <2>3, <2>4, <3>1 DEF ClosedLast
    <3>5. FailureKnown' /\ OpensCounted'
      BY <2>1, <2>2, <2>3, <2>4, <3>1 DEF FailureKnown, OpensCounted, NoOrder
    <3> QED  BY <3>2, <3>3, <3>4, <3>5 DEF Opens
  <2>9. Answering'
    <3>1. \A k \in Calls : outcome[k] = "none"  BY <2>1 DEF Inv, Phase, Unborn
    <3>2. Numbered' /\ OrderKept' /\ ClosedByClose'
      BY <2>1, <2>2, <3>1 DEF Numbered, OrderKept, ClosedByClose
    <3>3. PendingInLine'
      BY <2>1, <2>2, <2>3, <3>1 DEF Inv, Answering, PendingInLine, Call_
    <3>4. ParkedInOrder'
      <4>1. \A r : (Sorted(r)' <=> Sorted(r)) /\ ParkedAt(r)' = ParkedAt(r)
        BY <2>1 DEF Sorted, ParkedAt
      <4> QED  BY <2>1, <2>2, <3>1, <4>1 DEF Inv, Answering, ParkedInOrder
    <3>5. AnswersKnown'  BY <2>2, <2>3 DEF Inv, Answering, AnswersKnown
    <3> QED  BY <3>2, <3>3, <3>4, <3>5 DEF Answering
  <2> QED  BY <2>5, <2>6, <2>7, <2>8, <2>9 DEF Inv
<1> QED  BY <1>4, <1>5, <1>6

LEMMA InitializedKeeps ==
  ASSUME Inv, Initialized
  PROVE  Inv'
<1>1. /\ handle = "valid" /\ init = "none" /\ init' = IF openPending = 0 THEN Settled ELSE "waiting"
      /\ UNCHANGED <<inst, handle, closing, ready, parked, openPending, failedOrder, latch,
                     nextReader, poolSize, conn, work, signalling, done, efd, responses, frames,
                     fed, outcome, target, closed>>
  BY DEF Initialized, bindingVars, threadVars, looperVars
<1>2. Typed /\ OwnQueues /\ Lines /\ Phase /\ Joins /\ Opens /\ Answering  BY DEF Inv
<1>3. /\ Conns' = Conns /\ Readers' = Readers /\ Calls' = Calls /\ Task' = Task
      /\ Completion' = Completion /\ Frame' = Frame
  BY <1>1, SamePool
<1>4. \A e \in Conns : /\ Toks(e)' = Toks(e) /\ Due(e)' = Due(e) /\ Answered(e)' = Answered(e)
                       /\ InLine(e)' <=> InLine(e)
                       /\ OwnQueue(e)' <=> OwnQueue(e)
  BY <1>1, Still
<1>5. Writer \in Conns /\ Readers \subseteq Conns  BY <1>2, Pool
<1>6. Closers' = Closers /\ Opening' = Opening  BY <1>3, <1>4, <1>5 DEF Closers, Opening
<1>7. Typed'
  <2>1. OneFrame'  BY <1>1, <1>2, <1>3 DEF Typed, OneFrame
  <2>2. init' \in {"none", "waiting", "resolved", "rejected", "dropped"}  BY <1>1 DEF Settled
  <2> QED  BY <1>1, <1>2, <1>3, <2>1, <2>2 DEF Typed, NoOrder, Outcome
<1>8. OwnQueues' /\ Lines' /\ Joins'
  BY <1>1, <1>2, <1>3, <1>4 DEF OwnQueues, Lines, Joins
<1>9. Phase'
  <2>1. Unborn'  BY <1>1, <1>2 DEF Phase, Unborn
  <2>2. NotClosing' /\ Freed'  BY <1>1, <1>2, <1>3, <1>4 DEF Phase, NotClosing, Freed
  <2>3. ~closing  BY <1>1, <1>2 DEF Phase, Closing
  <2>4. Closing'  BY <1>1, <2>3 DEF Closing
  <2> QED  BY <2>1, <2>2, <2>4 DEF Phase
<1>10. Opens'
  <2>1. WriterFirst /\ OpenOnce /\ OpenIsDue /\ ClosedLast /\ FailureKnown /\ OpensCounted
    BY <1>2 DEF Opens
  <2>2. WriterFirst'  BY <1>1, <1>3, <1>4, <1>5, <2>1 DEF WriterFirst
  <2>3. OpenOnce'  BY <1>1, <1>3, <1>4, <2>1 DEF OpenOnce
  <2>4. OpenIsDue'  BY <1>1, <1>3, <1>4, <1>5, <2>1 DEF OpenIsDue
  <2>5. ClosedLast'  BY <1>1, <1>3, <1>4, <1>6, <2>1 DEF ClosedLast
  <2>6. FailureKnown'  BY <1>1, <1>3, <1>4, <2>1 DEF FailureKnown, NoOrder
  <2>7. OpensCounted'  BY <1>1, <1>6, <2>1 DEF OpensCounted, NoOrder, Settled
  <2> QED  BY <2>2, <2>3, <2>4, <2>5, <2>6, <2>7 DEF Opens
<1>11. Answering'
  <2>1. Numbered /\ PendingInLine /\ ParkedInOrder /\ AnswersKnown /\ OrderKept /\ ClosedByClose
    BY <1>2 DEF Answering
  <2>2. Numbered' /\ OrderKept' /\ ClosedByClose'
    BY <1>1, <1>3, <2>1 DEF Numbered, OrderKept, ClosedByClose
  <2>3. PendingInLine'
    <3>1. \A k \in Calls : target[k] \in Conns  BY <1>2 DEF Typed
    <3> QED  BY <1>1, <1>3, <1>4, <2>1, <3>1 DEF PendingInLine, Call_
  <2>4. ParkedInOrder'
    <3>1. \A r : (Sorted(r)' <=> Sorted(r)) /\ ParkedAt(r)' = ParkedAt(r)
      BY <1>1 DEF Sorted, ParkedAt
    <3>2. UNCHANGED <<ready, outcome, target>>  BY <1>1
    <3> QED  BY <1>3, <2>1, <3>1, <3>2 DEF ParkedInOrder
  <2>5. AnswersKnown'  BY <1>3, <1>4, <2>1 DEF AnswersKnown
  <2> QED  BY <2>2, <2>3, <2>4, <2>5 DEF Answering
<1> QED  BY <1>7, <1>8, <1>9, <1>10, <1>11 DEF Inv

LEMMA ParkedIsParked ==
  ASSUME Typed, ParkedInOrder
  PROVE  \A k \in Calls : Parked(k) <=> outcome[k] = "parked"
<1> TAKE k \in Calls
<1>1. Parked(k) <=> \E r \in Readers : k \in ParkedAt(r)  BY DEF Parked, ParkedAt
<1>2. ASSUME NEW r \in Readers, k \in ParkedAt(r)  PROVE outcome[k] = "parked"
  BY <1>2 DEF ParkedInOrder
<1>3. ASSUME outcome[k] = "parked"  PROVE \E r \in Readers : k \in ParkedAt(r)
  BY <1>3 DEF ParkedInOrder
<1> QED  BY <1>1, <1>2, <1>3

\* Parked calls settle: their numbers stay, and nothing is parked.
LEMMA NoneParkedNow ==
  ASSUME Readers' = Readers, parked' = NoneParked
  PROVE  \A r \in Readers : ParkedAt(r)' = {} /\ Sorted(r)'
<1> TAKE r \in Readers
<1>1. parked'[r] = <<>>  BY DEF NoneParked
<1> QED  BY <1>1 DEF ParkedAt, Sorted

\* close(), or the end of an object nobody can reach: the closes are dispatched.
LEMMA ShutKeeps ==
  ASSUME Inv, handle = "valid", closing' = TRUE, Dispatch(CloseTasks),
         \/ handle' = "lost" /\ UNCHANGED <<outcome, parked, closed>>
         \/ /\ handle' = "closed" /\ outcome' = SettleParked("closed")
            /\ parked' = NoneParked /\ closed' = "pending",
         UNCHANGED <<inst, ready, openPending, failedOrder, latch, nextReader, poolSize, conn,
                     signalling, done, efd, responses, frames, target, init>>
  PROVE  Inv'
<1>1. Typed /\ OwnQueues /\ Lines /\ Phase /\ Joins /\ Opens /\ Answering  BY DEF Inv
<1>2. /\ Conns' = Conns /\ Readers' = Readers /\ Calls' = Calls /\ Task' = Task
      /\ Completion' = Completion /\ Frame' = Frame
  BY SamePool
<1>3. /\ Writer \in Conns /\ Writer \notin Readers /\ Readers \subseteq Conns
      /\ \A e \in Conns : e = Writer \/ e \in Readers
      /\ (poolSize = 0 <=> Readers = {})
  BY <1>1, Pool
<1>4. ~closing /\ inst = "live" /\ latch = poolSize /\ \A e \in Conns : Close_ \notin Toks(e)
  BY <1>1 DEF Typed, Phase, NotClosing, Unborn, Closing, Freed
<1> DEFINE closes(c) == IF poolSize = 0 THEN c = Writer ELSE c \in Readers
<1>5. Close_ \in Task /\ Close_ # Open_ /\ \A k \in Calls : Call_(k) # Close_  BY <1>1, TaskKinds
<1>6. /\ CloseTasks \in [Conns -> Seq(Task)]
      /\ \A c \in Conns :
           /\ Tasks(CloseTasks[c]) = IF closes(c) THEN {Close_} ELSE {}
           /\ \A S : (\A s \in S : Before(s, Close_)) => Fits(S, CloseTasks[c])
  <2>1. <<Close_>> \in Seq(Task) /\ <<>> \in Seq(Task)  BY <1>5
  <2>2. CASE poolSize = 0  BY <1>3, <1>5, <2>2, OnlyTyped DEF CloseTasks
  <2>3. CASE poolSize # 0
    <3>1. CloseTasks = ReaderCloses  BY <2>3 DEF CloseTasks
    <3>2. ReaderCloses \in [Conns -> Seq(Task)]  BY <2>1 DEF ReaderCloses
    <3>3. \A c \in Conns : ReaderCloses[c] = IF c \in Readers THEN <<Close_>> ELSE <<>>
      BY DEF ReaderCloses
    <3> QED  BY <1>5, <2>3, <3>1, <3>2, <3>3, FitsOne, FitsNone
  <2> QED  BY <2>2, <2>3
<1>7. \A c \in Conns : \A s \in Toks(c) : Before(s, Close_)
  BY <1>1, <1>4, TaskKinds DEF Lines
<1>8. /\ work' \in [Conns -> Seq(Task)] /\ fed' \subseteq Conns /\ OneFrame' /\ OwnQueues'
      /\ \A c \in Conns :
           /\ Toks(c)' = Toks(c) \cup (IF closes(c) THEN {Close_} ELSE {})
           /\ Due(c)' = Due(c) \cup (IF closes(c) THEN {Close_} ELSE {})
           /\ Answered(c)' = Answered(c) /\ InLine(c)'
  <2>1. /\ work' \in [Conns -> Seq(Task)] /\ fed' \subseteq Conns /\ OneFrame' /\ OwnQueues'
        /\ \A c \in Conns :
             /\ Toks(c)' = Toks(c) \cup Tasks(CloseTasks[c])
             /\ Due(c)' = Due(c) \cup Tasks(CloseTasks[c])
             /\ Answered(c)' = Answered(c)
             /\ Fits(Toks(c), CloseTasks[c]) => InLine(c)'
    BY <1>1, <1>6, Dispatched
  <2> QED  BY <1>6, <1>7, <2>1
<1>9. \A c \in Conns :
        /\ Toks(c) \subseteq Toks(c)' /\ Toks(c)' \subseteq Toks(c) \cup {Close_}
        /\ Due(c) \subseteq Due(c)' /\ Due(c)' \subseteq Due(c) \cup {Close_}
        /\ c \in Readers => Close_ \in Toks(c)' /\ Close_ \in Due(c)'
  BY <1>3, <1>8
<1>10. Closers' = Readers  BY <1>2, <1>3, <1>9 DEF Closers
<1>11. Opening' = Opening  BY <1>2, <1>5, <1>9 DEF Opening
<1>12. \A k \in Calls : IF outcome'[k] = outcome[k] THEN TRUE ELSE
         outcome[k] = "parked" /\ outcome'[k] = "closed" /\ handle' = "closed"
  BY <1>1, ParkedIsParked DEF SettleParked, Answering
<1>13. handle' = "closed" => \A k \in Calls : outcome'[k] # "parked"
  <2> SUFFICES ASSUME handle' = "closed", NEW k \in Calls  PROVE outcome'[k] # "parked"
    OBVIOUS
  <2>1. outcome'[k] = IF Parked(k) THEN "closed" ELSE outcome[k]  BY DEF SettleParked
  <2> QED  BY <1>1, <2>1, ParkedIsParked DEF Answering
<1>14. Typed'
  <2>1. outcome' \in [Calls -> Outcome]  BY <1>1 DEF Typed, SettleParked, Outcome, Results
  <2>2. parked' \in [Readers -> Seq(Calls)]
    <3>1. <<>> \in Seq(Calls)  OBVIOUS
    <3> QED  BY <1>1, <3>1 DEF Typed, NoneParked
  <2>3. closed' \in {"none", "pending", "resolved"}  BY <1>1 DEF Typed
  <2> QED  BY <1>1, <1>2, <1>8, <2>1, <2>2, <2>3 DEF Typed, NoOrder, Outcome
<1>15. Lines'  BY <1>1, <1>2, <1>5, <1>8, <1>9 DEF Lines
<1>16. Joins'  BY <1>4 DEF Joins
<1>17. Phase'
  <2>1. Unborn' /\ NotClosing' /\ Freed'  BY <1>4 DEF Unborn, NotClosing, Freed
  <2>2. Cardinality(Readers) = poolSize  BY <1>1, PoolCounts
  <2>3. Close_ \in Toks(Writer)' => Readers = {}  BY <1>3, <1>4, <1>8
  <2>4. Closing'  BY <1>2, <1>4, <1>9, <1>3, <1>10, <2>2, <2>3 DEF Closing, Writer
  <2> QED  BY <2>1, <2>4 DEF Phase
<1>18. Opens'
  <2>0. WriterFirst /\ OpenOnce /\ OpenIsDue /\ ClosedLast /\ FailureKnown /\ OpensCounted
    BY <1>1 DEF Opens
  <2>00. \A c \in Conns : (Open_ \in Toks(c)' <=> Open_ \in Toks(c)) /\ (Open_ \in Due(c)' <=> Open_ \in Due(c))
    BY <1>5, <1>9
  <2>1. WriterFirst'
    <3>1. ~ready => \A r \in Readers : Toks(r)' \subseteq {Close_}  BY <1>3, <1>9, <2>0 DEF WriterFirst
    <3> QED  BY <1>2, <1>3, <2>00, <2>0, <3>1 DEF WriterFirst
  <2>2. OpenOnce'  BY <1>2, <1>8, <2>00, <2>0 DEF OpenOnce
  <2>3. OpenIsDue'  BY <1>2, <1>3, <2>00, <2>0 DEF OpenIsDue
  <2>4. ClosedLast'  BY <1>2, <1>4, <2>0 DEF ClosedLast
  <2>5. FailureKnown'  BY <1>2, <1>8, <2>0 DEF FailureKnown, NoOrder
  <2>6. OpensCounted'  BY <1>11, <2>0 DEF OpensCounted, NoOrder
  <2> QED  BY <2>1, <2>2, <2>3, <2>4, <2>5, <2>6 DEF Opens
<1>19. Answering'
  <2>0. Numbered /\ PendingInLine /\ ParkedInOrder /\ AnswersKnown /\ OrderKept /\ ClosedByClose
    BY <1>1 DEF Answering
  <2>1. Numbered'  BY <1>2, <1>12, <2>0 DEF Numbered
  <2>2. PendingInLine'
    <3>1. ASSUME NEW e \in Conns, NEW j \in Calls, Call_(j) \in Toks(e)'
          PROVE  outcome'[j] = "pending" /\ target'[j] = e
      <4>1. Call_(j) \in Toks(e)  BY <1>5, <1>9, <3>1
      <4>2. outcome[j] = "pending" /\ target[j] = e  BY <2>0, <4>1 DEF PendingInLine
      <4> QED  BY <1>12, <4>2
    <3>2. ASSUME NEW j \in Calls, outcome'[j] = "pending"
          PROVE  \E e \in Conns : target'[j] = e /\ Call_(j) \in Toks(e)'
      <4>1. outcome[j] = "pending"  BY <1>12, <3>2
      <4>2. target[j] \in Conns /\ Call_(j) \in Toks(target[j])
        BY <1>1, <2>0, <4>1 DEF PendingInLine, Typed
      <4> QED  BY <1>9, <4>2
    <3> QED  BY <1>2, <3>1, <3>2 DEF PendingInLine, Call_
  <2>3. ParkedInOrder'
    <3>1. CASE handle' = "closed"
      <4>1. parked' = NoneParked  BY <3>1
      <4>2. \A r \in Readers : ParkedAt(r)' = {} /\ Sorted(r)'  BY <1>2, <4>1, NoneParkedNow
      <4> QED  BY <1>2, <1>13, <3>1, <4>2 DEF ParkedInOrder
    <3>2. CASE handle' # "closed"
      <4>1. UNCHANGED <<ready, outcome, target, parked>>  BY <3>2
      <4>2. \A r : (Sorted(r)' <=> Sorted(r)) /\ ParkedAt(r)' = ParkedAt(r)
        BY <4>1 DEF Sorted, ParkedAt
      <4> QED  BY <1>2, <2>0, <4>1, <4>2 DEF ParkedInOrder
    <3> QED  BY <3>1, <3>2
  <2>4. AnswersKnown'  BY <1>2, <1>8, <2>0 DEF AnswersKnown
  <2>5. OrderKept'
    <3> SUFFICES ASSUME NEW i \in Calls, NEW j \in Calls, i < j, target'[i] = target'[j],
                        outcome'[j] \in {"ok", "openError"}
                 PROVE  outcome'[i] \notin {"pending", "parked"}
      BY <1>2 DEF OrderKept
    <3>1. outcome[j] \in {"ok", "openError"}  BY <1>12
    <3> QED  BY <1>12, <2>0, <3>1 DEF OrderKept
  <2>6. ClosedByClose'  BY <1>2, <1>12, <2>0 DEF ClosedByClose
  <2> QED  BY <2>1, <2>2, <2>3, <2>4, <2>5, <2>6 DEF Answering
<1> QED  BY <1>8, <1>14, <1>15, <1>16, <1>17, <1>18, <1>19 DEF Inv

LEMMA CloseKeeps ==
  ASSUME Inv, Close \/ Collect
  PROVE  Inv'
BY ShutKeeps DEF Close, Collect, ParkedAtClose, threadVars, promiseVars

-----------------------------------------------------------------------------
(* A drain runs a completion.                                               *)

LEMMA ConsumeTyped ==
  ASSUME Typed, Draining, Top.pc = "run", Top.batch # <<>>, Consume, poolSize' = poolSize
  PROVE  OneFrame' /\ Batch' = Tail(Batch) /\ Tail(Batch) \in Seq(Completion)
<1> DEFINE f == [Top EXCEPT !.batch = Tail(@)]
<1>1. Top \in Frame /\ Batch = Top.batch  BY TopFrame DEF Typed
<1>2. Tail(Top.batch) \in Seq(Completion)
  <2>1. Top.batch \in Seq(Completion)  BY <1>1 DEF Frame
  <2> QED  BY <2>1
<1>3. f \in Frame /\ f.batch = Tail(Batch) /\ f.pc # "after"  BY <1>1, <1>2 DEF Frame
<1>4. frames' = <<f>> /\ Batch' = f.batch  BY TopSet DEF Typed, Consume
<1> HIDE DEF f
<1>5. Frame' = Frame  BY SamePool
<1>6. OneFrame'  BY <1>3, <1>4, <1>5 DEF OneFrame
<1> QED  BY <1>1, <1>2, <1>3, <1>4, <1>6

LEMMA Served ==
  ASSUME Inv, NEW kind, Runs(kind), NEW m, m = Message, NEW c, c = m.conn
  PROVE  /\ m \in Completion /\ c \in Conns /\ m \in Answered(c) /\ Token(m) \in Toks(c)
         /\ Token(m) \in Task /\ m.kind = kind
         /\ Typed /\ OwnQueues /\ Lines /\ Phase /\ Joins /\ Opens /\ Answering
         /\ inst = "live" /\ Draining /\ Top.pc = "run" /\ Top.batch # <<>>
         /\ \A t \in Left(c) : Before(Token(m), t)
         /\ \A e \in Conns :
              /\ LeftInLine(e) /\ LeftAnswered(e) \subseteq Answered(e)
              /\ Left(e) = IF e = c THEN Toks(e) \ {Token(m)} ELSE Toks(e)
              /\ IF e = c THEN Answered(e) = {m} \cup LeftAnswered(e)
                 ELSE LeftAnswered(e) = Answered(e)
<1>1. /\ Draining /\ Top.pc = "run" /\ Top.batch # <<>> /\ inst = "live" /\ Message.kind = kind
      /\ Typed /\ OwnQueues /\ Lines /\ Phase /\ Joins /\ Opens /\ Answering
  BY DEF Runs, Inv
<1>2. \A e \in Conns : InLine(e)  BY <1>1 DEF Lines
<1>3. /\ Message \in Completion /\ Message.conn \in Conns /\ Message \in Answered(Message.conn)
      /\ Token(Message) \in Toks(Message.conn)
      /\ \A t \in Left(Message.conn) : Before(Token(Message), t)
      /\ \A e \in Conns :
           /\ LeftInLine(e) /\ LeftAnswered(e) \subseteq Answered(e)
           /\ Left(e) = IF e = Message.conn THEN Toks(e) \ {Token(Message)} ELSE Toks(e)
           /\ IF e = Message.conn THEN Answered(e) = {Message} \cup LeftAnswered(e)
              ELSE LeftAnswered(e) = Answered(e)
  BY <1>1, <1>2, Consumed
<1>4. Token(m) \in Task  BY <1>1, <1>3 DEF Lines
<1> QED  BY <1>1, <1>3, <1>4

LEMMA ServedOnly ==
  ASSUME Inv, NEW kind, Runs(kind), NEW m, m = Message, NEW c, c = m.conn,
         Consume, UNCHANGED <<done, work, poolSize>>
  PROVE  /\ OneFrame' /\ OwnQueues' /\ Lines'
         /\ \A t \in Toks(c)' : Before(Token(m), t)
         /\ \A e \in Conns :
              /\ Toks(e)' = IF e = c THEN Toks(e) \ {Token(m)} ELSE Toks(e)
              /\ Due(e)' = Due(e) /\ Answered(e)' \subseteq Answered(e)
              /\ IF e = c THEN Answered(e) = {m} \cup Answered(e)'
                 ELSE Answered(e)' = Answered(e)
<1>1. /\ Typed /\ OwnQueues /\ Lines /\ Draining /\ Top.pc = "run" /\ Top.batch # <<>>
      /\ \A t \in Left(c) : Before(Token(m), t)
      /\ \A e \in Conns :
           /\ LeftInLine(e) /\ LeftAnswered(e) \subseteq Answered(e)
           /\ Left(e) = IF e = c THEN Toks(e) \ {Token(m)} ELSE Toks(e)
           /\ IF e = c THEN Answered(e) = {m} \cup LeftAnswered(e)
              ELSE LeftAnswered(e) = Answered(e)
  BY Served
<1>2. Conns' = Conns /\ Task' = Task  BY SamePool
<1>3. \A e : /\ Toks(e)' = Left(e) /\ Due(e)' = Due(e) /\ Answered(e)' = LeftAnswered(e)
             /\ InLine(e)' <=> LeftInLine(e)
  BY <1>1, ConsumeEffect
<1>4. OneFrame'  BY <1>1, ConsumeTyped
<1>5. OwnQueues'  BY <1>1, <1>2 DEF OwnQueues, OwnQueue
<1>6. Lines'  BY <1>1, <1>2, <1>3 DEF Lines
<1> QED  BY <1>1, <1>3, <1>4, <1>5, <1>6

LEMMA CallDoneKeeps ==
  ASSUME Inv, CallDone
  PROVE  Inv'
<1>1. PICK m \in Completion : m = Message /\ m.conn \in Conns
  <2>1. Runs("call")  BY DEF CallDone
  <2> QED  BY <2>1, Served
<1>2. PICK c \in Conns : c = m.conn  BY <1>1
<1>3. Runs("call") /\ Consume /\ outcome' = [outcome EXCEPT ![m.id] = m.res]
  BY <1>1 DEF CallDone
<1>4. UNCHANGED <<inst, handle, closing, ready, parked, openPending, failedOrder, latch, nextReader,
                  poolSize, conn, work, signalling, done, efd, responses, fed, target, init, closed>>
  BY DEF CallDone, bindingVars, threadVars
<1>5. /\ m \in Answered(c) /\ Token(m) \in Toks(c) /\ Token(m) \in Task /\ m.kind = "call"
      /\ Typed /\ OwnQueues /\ Lines /\ Phase /\ Joins /\ Opens /\ Answering
      /\ inst = "live"
  BY <1>1, <1>2, <1>3, Served
<1>6. /\ OneFrame' /\ OwnQueues' /\ Lines'
      /\ \A t \in Toks(c)' : Before(Token(m), t)
      /\ \A e \in Conns :
           /\ Toks(e)' = IF e = c THEN Toks(e) \ {Token(m)} ELSE Toks(e)
           /\ Due(e)' = Due(e) /\ Answered(e)' \subseteq Answered(e)
           /\ IF e = c THEN Answered(e) = {m} \cup Answered(e)'
              ELSE Answered(e)' = Answered(e)
  BY <1>1, <1>2, <1>3, <1>4, ServedOnly
<1>7. PICK k \in Calls : k = m.id /\ Token(m) = Call_(k)  BY <1>5, TokenKinds
<1>8. /\ Conns' = Conns /\ Readers' = Readers /\ Calls' = Calls /\ Task' = Task
      /\ Completion' = Completion /\ Frame' = Frame
  BY <1>4, SamePool
<1>9. /\ Writer \in Conns /\ Writer \notin Readers /\ Readers \subseteq Conns
      /\ \A e \in Conns : e = Writer \/ e \in Readers
      /\ \A j \in Calls : j \in Int
  BY <1>5, Pool
<1>10. /\ Call_(k) # Open_ /\ Call_(k) # Close_ /\ \A j \in Calls : Call_(j) = Call_(k) => j = k
  BY <1>5, TaskKinds
<1>11. \A e \in Conns : /\ Open_ \in Toks(e)' <=> Open_ \in Toks(e)
                        /\ Close_ \in Toks(e)' <=> Close_ \in Toks(e)
                        /\ Toks(e)' \subseteq Toks(e)
  BY <1>6, <1>7, <1>10
<1>12. Closers' = Closers /\ Opening' = Opening  BY <1>8, <1>9, <1>11 DEF Closers, Opening
<1>13. m.res \in {"ok", "openError"}  BY <1>5 DEF Answering, AnswersKnown
<1>14. outcome[k] = "pending" /\ target[k] = c /\ outcome'[k] = m.res
       /\ \A j \in Calls : j # k => outcome'[j] = outcome[j]
  BY <1>3, <1>5, <1>7 DEF Answering, PendingInLine, Typed
<1>15. Typed'
  <2>1. outcome' \in [Calls -> Outcome]  BY <1>3, <1>5, <1>13 DEF Typed, Outcome, Results
  <2> QED  BY <1>4, <1>5, <1>6, <1>8, <2>1 DEF Typed, NoOrder, Outcome
<1>16. Joins'  BY <1>4, <1>5 DEF Joins
<1>17. Phase'
  <2>1. Unborn' /\ Freed'  BY <1>4, <1>5 DEF Unborn, Freed
  <2>2. NotClosing'  BY <1>4, <1>5, <1>8, <1>11 DEF Phase, NotClosing
  <2>3. Closing'
    <3>1. ASSUME closing, NEW r \in Readers, Close_ \notin Toks(r)'  PROVE Toks(r)' = {}
      BY <1>5, <1>9, <1>11, <3>1 DEF Phase, Closing
    <3> QED  BY <1>4, <1>5, <1>6, <1>8, <1>9, <1>11, <1>12, <3>1 DEF Phase, Closing, Writer
  <2> QED  BY <2>1, <2>2, <2>3 DEF Phase
<1>18. Opens'
  <2>0. WriterFirst /\ OpenOnce /\ OpenIsDue /\ ClosedLast /\ FailureKnown /\ OpensCounted
    BY <1>5 DEF Opens
  <2>1. WriterFirst'  BY <1>4, <1>6, <1>8, <1>9, <1>11, <2>0 DEF WriterFirst, Writer
  <2>2. OpenOnce'  BY <1>4, <1>6, <1>8, <2>0 DEF OpenOnce
  <2>3. OpenIsDue'  BY <1>4, <1>6, <1>8, <1>9, <1>11, <2>0 DEF OpenIsDue, Writer
  <2>4. ClosedLast'  BY <1>4, <1>6, <1>8, <1>12, <2>0 DEF ClosedLast, Writer
  <2>5. FailureKnown'
    <3>1. \A e \in Conns : \A a \in Answered(e) : a.kind = "open" => a \in Answered(e)'
      BY <1>5, <1>6
    <3> QED  BY <1>4, <1>8, <2>0, <3>1 DEF FailureKnown, NoOrder
  <2>6. OpensCounted'  BY <1>4, <1>12, <2>0 DEF OpensCounted, NoOrder
  <2> QED  BY <2>1, <2>2, <2>3, <2>4, <2>5, <2>6 DEF Opens
<1>19. Answering'
  <2>0. Numbered /\ PendingInLine /\ ParkedInOrder /\ AnswersKnown /\ OrderKept /\ ClosedByClose
    BY <1>5 DEF Answering
  <2>1. Numbered'
    <3>1. \A j \in Calls : outcome'[j] = "none" <=> outcome[j] = "none"  BY <1>13, <1>14
    <3> QED  BY <1>8, <2>0, <3>1 DEF Numbered
  <2>2. PendingInLine'
    <3>1. ASSUME NEW e \in Conns, NEW j \in Calls, Call_(j) \in Toks(e)'
          PROVE  outcome'[j] = "pending" /\ target'[j] = e
      <4>1. outcome[j] = "pending" /\ target[j] = e  BY <1>11, <2>0, <3>1 DEF PendingInLine
      <4>2. j # k
        <5> SUFFICES ASSUME j = k  PROVE FALSE  OBVIOUS
        <5>1. e = c  BY <1>14, <4>1
        <5> QED  BY <1>6, <1>7, <3>1, <5>1
      <4> QED  BY <1>4, <1>14, <4>1, <4>2
    <3>2. ASSUME NEW j \in Calls, outcome'[j] = "pending"
          PROVE  \E e \in Conns : target'[j] = e /\ Call_(j) \in Toks(e)'
      <4>1. j # k  BY <1>13, <1>14, <3>2
      <4>2. target[j] \in Conns /\ Call_(j) \in Toks(target[j])
        BY <1>5, <1>14, <2>0, <3>2, <4>1 DEF PendingInLine, Typed
      <4>3. PICK e \in Conns : e = target[j]  BY <4>2
      <4>4. Call_(j) \in Toks(e)'  BY <1>6, <1>7, <1>10, <4>1, <4>2, <4>3
      <4> QED  BY <1>4, <4>3, <4>4
    <3> QED  BY <1>8, <3>1, <3>2 DEF PendingInLine, Call_
  <2>3. ParkedInOrder'
    <3>1. \A r : (Sorted(r)' <=> Sorted(r)) /\ ParkedAt(r)' = ParkedAt(r)
      BY <1>4 DEF Sorted, ParkedAt
    <3>2. UNCHANGED <<ready, target>>  BY <1>4
    <3>3. \A r \in Readers : \A j \in ParkedAt(r) : j \in Calls
      BY <1>5 DEF Typed, ParkedAt
    <3>4. \A j \in Calls : outcome'[j] = "parked" <=> outcome[j] = "parked"  BY <1>13, <1>14
    <3>5. \A r \in Readers : \A j \in ParkedAt(r) : outcome'[j] = "parked" /\ target[j] = r
      BY <2>0, <3>3, <3>4 DEF ParkedInOrder
    <3> QED  BY <1>8, <2>0, <3>1, <3>2, <3>4, <3>5 DEF ParkedInOrder
  <2>4. AnswersKnown'  BY <1>6, <1>8, <2>0 DEF AnswersKnown
  <2>5. OrderKept'
    <3> SUFFICES ASSUME NEW i \in Calls, NEW j \in Calls, i < j, target[i] = target[j],
                        outcome'[j] \in {"ok", "openError"}, outcome'[i] \in {"pending", "parked"}
                 PROVE  FALSE
      BY <1>4, <1>8 DEF OrderKept
    <3>1. i # k /\ outcome[i] \in {"pending", "parked"}  BY <1>13, <1>14
    <3>2. CASE j # k  BY <1>14, <2>0, <3>1, <3>2 DEF OrderKept
    <3>3. CASE j = k
      <4>1. target[i] = c  BY <1>14, <3>3
      <4>2. outcome[i] # "pending"
        <5> SUFFICES ASSUME outcome[i] = "pending"  PROVE FALSE  OBVIOUS
        <5>1. Call_(i) \in Toks(c)  BY <2>0, <4>1 DEF PendingInLine
        <5>2. Call_(i) \in Toks(c)'  BY <1>6, <1>7, <1>10, <3>1, <5>1
        <5>3. k < i  BY <1>5, <1>6, <1>7, <5>2, TaskKinds
        <5> QED  BY <1>9, <3>3, <5>3
      <4>3. outcome[i] # "parked"
        <5> SUFFICES ASSUME outcome[i] = "parked"  PROVE FALSE  OBVIOUS
        <5>1. c \in Readers /\ i \in ParkedAt(c)  BY <2>0, <4>1 DEF ParkedInOrder
        <5>2. ~ready  BY <2>0, <5>1 DEF ParkedInOrder
        <5>3. Token(m) = Close_  BY <1>5, <5>1, <5>2 DEF Opens, WriterFirst
        <5> QED  BY <1>7, <1>10, <5>3
      <4> QED  BY <3>1, <4>2, <4>3
    <3> QED  BY <3>2, <3>3
  <2>6. ClosedByClose'
    <3>1. \A j \in Calls : outcome'[j] = "closed" => outcome[j] = "closed"  BY <1>13, <1>14
    <3> QED  BY <1>4, <1>8, <2>0, <3>1 DEF ClosedByClose
  <2> QED  BY <2>1, <2>2, <2>3, <2>4, <2>5, <2>6 DEF Answering
<1> QED  BY <1>6, <1>15, <1>16, <1>17, <1>18, <1>19 DEF Inv

\* The open of a connection reports back: what is known of the failures.
LEMMA FirstKnown ==
  ASSUME Inv, Runs("open"), NEW m, m = Message, NEW c, c = m.conn, NEW f, f = FirstFailure(c, m.res)
  PROVE  /\ f \in Conns \cup {NoOrder}
         /\ f # NoOrder => conn[f] = "failed"
         /\ \A e \in Conns : conn[e] = "failed" =>
              \/ \E a \in LeftAnswered(e) : a.kind = "open" /\ a.res # "ok"
              \/ f # NoOrder /\ f <= e
         /\ m.res # "ok" => f # NoOrder /\ f <= c /\ conn[c] = "failed"
         /\ m.res = "ok" => conn[c] \in {"open", "closed"} /\ f = failedOrder
<1>1. /\ m \in Completion /\ c \in Conns /\ m \in Answered(c) /\ Typed /\ Opens /\ m.kind = "open"
      /\ \A e \in Conns :
           IF e = c THEN Answered(e) = {m} \cup LeftAnswered(e) ELSE LeftAnswered(e) = Answered(e)
  BY Served
<1>2. IF m.res = "ok" THEN conn[c] \in {"open", "closed"} ELSE conn[c] = "failed"
  BY <1>1 DEF Opens, OpenOnce
<1>3. /\ failedOrder \in Conns \cup {NoOrder} /\ \A e \in Conns : e \in Int
      /\ failedOrder # NoOrder => conn[failedOrder] = "failed"
      /\ \A e \in Conns : conn[e] = "failed" =>
           \/ \E a \in Answered(e) : a.kind = "open" /\ a.res # "ok"
           \/ failedOrder # NoOrder /\ failedOrder <= e
  BY <1>1, Pool DEF Typed, Opens, FailureKnown
<1>4. c # NoOrder /\ \A e \in Conns : e # NoOrder
  <2>1. Typed  BY <1>1
  <2>2. \A e \in Conns : 0 <= e /\ e \in Int  BY <2>1, Pool DEF Writer
  <2> QED  BY <1>1, <2>2 DEF NoOrder
<1>5. f = IF m.res # "ok" /\ (failedOrder = NoOrder \/ c < failedOrder) THEN c ELSE failedOrder
  BY DEF FirstFailure
<1>6. f \in Conns \cup {NoOrder} /\ (f # NoOrder => conn[f] = "failed")
  BY <1>1, <1>2, <1>3, <1>5
<1>7. /\ m.res # "ok" => f # NoOrder /\ f <= c
      /\ failedOrder # NoOrder => f # NoOrder /\ f <= failedOrder
  BY <1>1, <1>3, <1>4, <1>5
<1>8. ASSUME NEW e \in Conns, conn[e] = "failed",
             ~\E a \in LeftAnswered(e) : a.kind = "open" /\ a.res # "ok"
      PROVE  f # NoOrder /\ f <= e
  <2>1. CASE failedOrder # NoOrder /\ failedOrder <= e
    BY <1>3, <1>6, <1>7, <2>1
  <2>2. CASE \E a \in Answered(e) : a.kind = "open" /\ a.res # "ok"
    <3>1. e = c /\ m.res # "ok"  BY <1>1, <1>8, <2>2
    <3> QED  BY <1>7, <3>1
  <2> QED  BY <1>3, <1>8, <2>1, <2>2
<1> QED  BY <1>2, <1>5, <1>6, <1>7, <1>8

\* ... and the count.
LEMMA OpenNoted ==
  ASSUME Inv, Runs("open"), NEW m, m = Message, NEW c, c = m.conn
  PROVE  /\ Token(m) = Open_ /\ c \in Opening /\ openPending > 0
         /\ init \notin {"resolved", "rejected"}
         /\ Cardinality(Opening \ {c}) = openPending - 1
<1>1. /\ m \in Completion /\ c \in Conns /\ Token(m) \in Toks(c) /\ Token(m) \in Task
      /\ m.kind = "open" /\ Typed /\ Opens
  BY Served
<1>2. Token(m) = Open_  BY <1>1, TokenKinds
<1>3. c \in Opening /\ Opening \subseteq Conns  BY <1>1, <1>2 DEF Opening
<1>4. IsFiniteSet(Conns) /\ openPending = Cardinality(Opening)
  BY <1>1, PoolCounts DEF Opens, OpensCounted
<1>5. openPending \in Nat /\ openPending # 0 /\ Cardinality(Opening \ {c}) = openPending - 1
  BY <1>3, <1>4, Counts
<1>6. init \notin {"resolved", "rejected"}  BY <1>1, <1>5 DEF Opens, OpensCounted
<1> QED  BY <1>2, <1>3, <1>5, <1>6

LEMMA OpenDoneKeeps ==
  ASSUME Inv, OpenDone
  PROVE  Inv'
<1>1. PICK m \in Completion : m = Message /\ m.conn \in Conns
  <2>1. Runs("open")  BY DEF OpenDone
  <2> QED  BY <2>1, Served
<1>2. PICK c \in Conns : c = m.conn  BY <1>1
<1>3. Runs("open") /\ Consume /\ NoteOpen(openPending - 1) /\ (c = Writer => m.res = "ok" /\ closing)
  BY <1>1, <1>2 DEF OpenDone, StartsReaders
<1>4. UNCHANGED <<inst, handle, closing, ready, parked, latch, nextReader, poolSize, conn, work,
                  signalling, done, efd, responses, fed, outcome, target, closed>>
  BY DEF OpenDone, threadVars
<1>5. /\ Typed /\ OwnQueues /\ Lines /\ Phase /\ Joins /\ Opens /\ Answering /\ inst = "live"
      /\ m.kind = "open"
  BY <1>1, <1>2, <1>3, Served
<1>6. /\ Token(m) = Open_ /\ c \in Opening /\ openPending > 0 /\ init \notin {"resolved", "rejected"}
      /\ Cardinality(Opening \ {c}) = openPending - 1
  BY <1>1, <1>2, <1>3, OpenNoted
<1>7. /\ OneFrame' /\ OwnQueues' /\ Lines'
      /\ \A e \in Conns :
           /\ Toks(e)' = IF e = c THEN Toks(e) \ {Open_} ELSE Toks(e)
           /\ Due(e)' = Due(e) /\ Answered(e)' \subseteq Answered(e)
           /\ Answered(e)' = LeftAnswered(e)
  <2>1. /\ OneFrame' /\ OwnQueues' /\ Lines'
        /\ \A e \in Conns :
             /\ Toks(e)' = IF e = c THEN Toks(e) \ {Token(m)} ELSE Toks(e)
             /\ Due(e)' = Due(e) /\ Answered(e)' \subseteq Answered(e)
    BY <1>1, <1>2, <1>3, <1>4, ServedOnly
  <2>2. \A e : Answered(e)' = LeftAnswered(e)
    BY <1>3, <1>4, <1>5, ConsumeEffect DEF Runs
  <2> QED  BY <1>6, <2>1, <2>2
<1>8. PICK f : f = FirstFailure(c, m.res)  OBVIOUS
<1>9. /\ f \in Conns \cup {NoOrder}
      /\ f # NoOrder => conn[f] = "failed"
      /\ \A e \in Conns : conn[e] = "failed" =>
           \/ \E a \in Answered(e)' : a.kind = "open" /\ a.res # "ok"
           \/ f # NoOrder /\ f <= e
  BY <1>1, <1>2, <1>3, <1>7, <1>8, FirstKnown
<1>10. /\ failedOrder' = f /\ openPending' = openPending - 1
       /\ init' = IF init = "waiting" /\ openPending - 1 = 0
                    THEN IF f = NoOrder THEN "resolved" ELSE "rejected" ELSE init
  BY <1>1, <1>2, <1>3, <1>8 DEF NoteOpen, Waiters
<1>11. /\ Conns' = Conns /\ Readers' = Readers /\ Calls' = Calls /\ Task' = Task
       /\ Completion' = Completion /\ Frame' = Frame
  BY <1>4, SamePool
<1>12. /\ Writer \in Conns /\ Writer \notin Readers /\ Readers \subseteq Conns
       /\ \A e \in Conns : e = Writer \/ e \in Readers
  BY <1>5, Pool
<1>13. Open_ # Close_ /\ \A j \in Calls : Call_(j) # Open_  BY <1>5, TaskKinds
<1>14. \A e \in Conns : /\ Close_ \in Toks(e)' <=> Close_ \in Toks(e)
                        /\ Toks(e)' \subseteq Toks(e)
                        /\ \A j \in Calls : Call_(j) \in Toks(e)' <=> Call_(j) \in Toks(e)
  BY <1>7, <1>13
<1>15. Closers' = Closers  BY <1>11, <1>12, <1>14 DEF Closers
<1>16. Opening' = Opening \ {c}  BY <1>7, <1>11 DEF Opening
<1>17. Typed'
  <2>1. openPending' \in Int  BY <1>5, <1>10 DEF Typed
  <2>2. init' \in {"none", "waiting", "resolved", "rejected", "dropped"}  BY <1>5, <1>10 DEF Typed
  <2> QED  BY <1>4, <1>5, <1>7, <1>9, <1>10, <1>11, <2>1, <2>2 DEF Typed, NoOrder, Outcome
<1>18. Joins'  BY <1>4, <1>5 DEF Joins
<1>19. Phase'
  <2>1. Unborn' /\ Freed'  BY <1>4, <1>5 DEF Unborn, Freed
  <2>2. NotClosing'  BY <1>4, <1>5, <1>11, <1>14 DEF Phase, NotClosing
  <2>3. Closing'
    <3>1. ASSUME closing, NEW r \in Readers, Close_ \notin Toks(r)'  PROVE Toks(r)' = {}
      BY <1>5, <1>12, <1>14, <3>1 DEF Phase, Closing
    <3> QED  BY <1>4, <1>5, <1>7, <1>11, <1>12, <1>14, <1>15, <3>1 DEF Phase, Closing, Writer
  <2> QED  BY <2>1, <2>2, <2>3 DEF Phase
<1>20. Opens'
  <2>0. WriterFirst /\ OpenOnce /\ OpenIsDue /\ ClosedLast /\ FailureKnown /\ OpensCounted
    BY <1>5 DEF Opens
  <2>1. WriterFirst'  BY <1>4, <1>7, <1>11, <1>12, <1>14, <2>0 DEF WriterFirst
  <2>2. OpenOnce'  BY <1>4, <1>7, <1>11, <2>0 DEF OpenOnce
  <2>3. OpenIsDue'
    <3>1. ~closing => Toks(Writer)' = Toks(Writer)  BY <1>3, <1>7, <1>12
    <3> QED  BY <1>4, <1>7, <1>11, <1>12, <2>0, <3>1 DEF OpenIsDue
  <2>4. ClosedLast'  BY <1>4, <1>7, <1>11, <1>15, <2>0 DEF ClosedLast
  <2>5. FailureKnown'  BY <1>4, <1>9, <1>10, <1>11 DEF FailureKnown, NoOrder
  <2>6. OpensCounted'  BY <1>6, <1>10, <1>16 DEF OpensCounted, NoOrder
  <2> QED  BY <2>1, <2>2, <2>3, <2>4, <2>5, <2>6 DEF Opens
<1>21. Answering'
  <2>0. Numbered /\ PendingInLine /\ ParkedInOrder /\ AnswersKnown /\ OrderKept /\ ClosedByClose
    BY <1>5 DEF Answering
  <2>1. Numbered'  BY <1>4, <1>11, <2>0 DEF Numbered
  <2>2. PendingInLine'
    <3>1. \A k \in Calls : target[k] \in Conns  BY <1>5 DEF Typed
    <3>2. \A e \in Conns, j \in Calls : Call_(j) \in Toks(e)' <=> Call_(j) \in Toks(e)  BY <1>14
    <3> QED  BY <1>4, <1>11, <2>0, <3>1, <3>2 DEF PendingInLine, Call_
  <2>3. ParkedInOrder'
    <3>1. \A r : (Sorted(r)' <=> Sorted(r)) /\ ParkedAt(r)' = ParkedAt(r)
      BY <1>4 DEF Sorted, ParkedAt
    <3>2. UNCHANGED <<ready, outcome, target>>  BY <1>4
    <3> QED  BY <1>11, <2>0, <3>1, <3>2 DEF ParkedInOrder
  <2>4. AnswersKnown'  BY <1>7, <1>11, <2>0 DEF AnswersKnown
  <2>5. OrderKept'  BY <1>4, <1>11, <2>0 DEF OrderKept
  <2>6. ClosedByClose'  BY <1>4, <1>11, <2>0 DEF ClosedByClose
  <2> QED  BY <2>1, <2>2, <2>3, <2>4, <2>5, <2>6 DEF Answering
<1> QED  BY <1>7, <1>17, <1>18, <1>19, <1>20, <1>21 DEF Inv

LEMMA WriterOpenFailedKeeps ==
  ASSUME Inv, WriterOpenFailed
  PROVE  Inv'
<1>1. PICK m \in Completion : m = Message /\ m.conn = Writer /\ m.res # "ok"
  <2>1. Runs("open")  BY DEF WriterOpenFailed
  <2> QED  BY <2>1, Served DEF WriterOpenFailed
<1>2. /\ Runs("open") /\ Consume /\ NoteOpen(openPending - 1)
      /\ conn' = [c \in Conns |-> IF c \in Readers THEN "failed" ELSE conn[c]]
      /\ ready' = TRUE /\ outcome' = SettleParked("openError") /\ parked' = NoneParked
  BY DEF WriterOpenFailed
<1>3. UNCHANGED <<inst, handle, closing, latch, nextReader, poolSize, work,
                  signalling, done, efd, responses, fed, target, closed>>
  BY DEF WriterOpenFailed
<1>4. /\ Typed /\ OwnQueues /\ Lines /\ Phase /\ Joins /\ Opens /\ Answering /\ inst = "live"
      /\ m.kind = "open"
  BY <1>1, <1>2, Served
<1>5. /\ Token(m) = Open_ /\ Writer \in Opening /\ openPending > 0
      /\ init \notin {"resolved", "rejected"}
      /\ Cardinality(Opening \ {Writer}) = openPending - 1
  BY <1>1, <1>2, OpenNoted
<1>6. /\ OneFrame' /\ OwnQueues' /\ Lines'
      /\ \A e \in Conns :
           /\ Toks(e)' = IF e = Writer THEN Toks(e) \ {Open_} ELSE Toks(e)
           /\ Due(e)' = Due(e) /\ Answered(e)' \subseteq Answered(e)
  <2>1. Writer = m.conn  BY <1>1
  <2> QED  BY <1>1, <1>2, <1>3, <1>5, <2>1, ServedOnly
<1>7. PICK f : f = FirstFailure(Writer, m.res)  OBVIOUS
<1>8. f # NoOrder /\ f <= Writer /\ conn[Writer] = "failed" /\ f \in Conns \cup {NoOrder}
  BY <1>1, <1>2, <1>7, FirstKnown
<1>9. /\ Writer \in Conns /\ Writer \notin Readers /\ Readers \subseteq Conns
      /\ \A e \in Conns : (e = Writer \/ e \in Readers) /\ Writer <= e /\ e \in Int
  BY <1>4, Pool
<1>10. f = Writer  BY <1>8, <1>9
<1>11. /\ failedOrder' = Writer /\ openPending' = openPending - 1 /\ Writer # NoOrder
       /\ init' = IF init = "waiting" /\ openPending - 1 = 0 THEN "rejected" ELSE init
  BY <1>1, <1>2, <1>7, <1>8, <1>10 DEF NoteOpen, Waiters
<1>12. /\ Conns' = Conns /\ Readers' = Readers /\ Calls' = Calls /\ Task' = Task
       /\ Completion' = Completion /\ Frame' = Frame
  BY <1>3, SamePool
<1>13. Open_ # Close_ /\ \A j \in Calls : Call_(j) # Open_ /\ Call_(j) # Close_  BY <1>4, TaskKinds
<1>14. \A e \in Conns : /\ Close_ \in Toks(e)' <=> Close_ \in Toks(e)
                        /\ Toks(e)' \subseteq Toks(e)
                        /\ \A j \in Calls : Call_(j) \in Toks(e)' <=> Call_(j) \in Toks(e)
  BY <1>6, <1>13
<1>15. Closers' = Closers  BY <1>12, <1>9, <1>14 DEF Closers
<1>16. Opening' = Opening \ {Writer}  BY <1>6, <1>12 DEF Opening
<1>17. /\ ~ready /\ \A r \in Readers : conn[r] = "new" /\ Open_ \notin Toks(r) /\ Toks(r) \subseteq {Close_}
  BY <1>4, <1>5 DEF Opens, WriterFirst, Opening
<1>18. \A e \in Conns : Due(e) \subseteq Toks(e)  BY <1>4, InToks DEF OwnQueues
<1>19. \A e \in Conns : Open_ \notin Due(e)
  <2> TAKE e \in Conns
  <2>1. Open_ \in Due(e) => conn[e] = "new"  BY <1>4 DEF Opens, OpenOnce
  <2> QED  BY <1>8, <1>9, <1>17, <1>18, <2>1
<1>20. \A e \in Conns : conn'[e] = "failed"  BY <1>2, <1>8, <1>9
<1>21. \A k \in Calls : outcome'[k] = IF outcome[k] = "parked" THEN "openError" ELSE outcome[k]
  BY <1>2, <1>4, ParkedIsParked DEF SettleParked, Answering
<1>22. \A r \in Readers : ParkedAt(r)' = {} /\ Sorted(r)'  BY <1>2, <1>12, NoneParkedNow
<1>23. Typed'
  <2>1. openPending' \in Int  BY <1>4, <1>11 DEF Typed
  <2>2. init' \in {"none", "waiting", "resolved", "rejected", "dropped"}  BY <1>4, <1>11 DEF Typed
  <2>3. outcome' \in [Calls -> Outcome]  BY <1>2, <1>4 DEF Typed, SettleParked, Outcome, Results
  <2>4. parked' \in [Readers -> Seq(Calls)]
    <3>1. <<>> \in Seq(Calls)  OBVIOUS
    <3> QED  BY <1>2, <3>1 DEF NoneParked
  <2>5. conn' \in [Conns -> {"new", "open", "failed", "closed"}]  BY <1>2, <1>4 DEF Typed
  <2>6. failedOrder' \in Conns  BY <1>9, <1>11
  <2> QED  BY <1>2, <1>3, <1>4, <1>6, <1>12, <2>1, <2>2, <2>3, <2>4, <2>5, <2>6 DEF Typed, NoOrder, Outcome
<1>24. Joins'  BY <1>3, <1>4 DEF Joins
<1>25. Phase'
  <2>1. Unborn' /\ Freed'  BY <1>3, <1>4 DEF Unborn, Freed
  <2>2. NotClosing'  BY <1>3, <1>4, <1>12, <1>14 DEF Phase, NotClosing
  <2>3. Closing'
    <3>1. ASSUME closing, NEW r \in Readers, Close_ \notin Toks(r)'  PROVE Toks(r)' = {}
      BY <1>4, <1>9, <1>14, <3>1 DEF Phase, Closing
    <3>2. \A r \in Readers : conn'[r] # "open"  BY <1>9, <1>20
    <3> QED  BY <1>3, <1>4, <1>6, <1>9, <1>12, <1>14, <1>15, <3>1, <3>2 DEF Phase, Closing, Writer
  <2> QED  BY <2>1, <2>2, <2>3 DEF Phase
<1>26. Opens'
  <2>1. WriterFirst'  BY <1>2, <1>6, <1>9, <1>12, <1>19, <1>20 DEF WriterFirst
  <2>2. OpenOnce'
    <3>1. ASSUME NEW e \in Conns, NEW a \in Answered(e)', a.kind = "open"  PROVE a.res # "ok"
      <4>1. a \in Answered(e)  BY <1>6, <3>1
      <4>2. a.res = "ok" => conn[e] \in {"open", "closed"}  BY <1>4, <3>1, <4>1 DEF Opens, OpenOnce
      <4> QED  BY <1>8, <1>9, <1>17, <4>2
    <3> QED  BY <1>6, <1>12, <1>19, <1>20, <3>1 DEF OpenOnce
  <2>3. OpenIsDue'  BY <1>2, <1>9, <1>12, <1>20 DEF OpenIsDue
  <2>4. ClosedLast'  BY <1>12, <1>20 DEF ClosedLast
  <2>5. FailureKnown'  BY <1>9, <1>11, <1>12, <1>20 DEF FailureKnown, NoOrder
  <2>6. OpensCounted'  BY <1>5, <1>11, <1>16 DEF OpensCounted, NoOrder
  <2> QED  BY <2>1, <2>2, <2>3, <2>4, <2>5, <2>6 DEF Opens
<1>27. Answering'
  <2>0. Numbered /\ PendingInLine /\ ParkedInOrder /\ AnswersKnown /\ OrderKept /\ ClosedByClose
    BY <1>4 DEF Answering
  <2>1. Numbered'  BY <1>12, <1>21, <2>0 DEF Numbered
  <2>2. PendingInLine'
    <3>1. \A k \in Calls : target[k] \in Conns  BY <1>4 DEF Typed
    <3>2. \A e \in Conns, j \in Calls : Call_(j) \in Toks(e)' <=> Call_(j) \in Toks(e)  BY <1>14
    <3>3. \A j \in Calls : outcome'[j] = "pending" <=> outcome[j] = "pending"  BY <1>21
    <3> QED  BY <1>3, <1>12, <2>0, <3>1, <3>2, <3>3 DEF PendingInLine, Call_
  <2>3. ParkedInOrder'
    <3>1. \A j \in Calls : outcome'[j] # "parked"  BY <1>21
    <3> QED  BY <1>12, <1>22, <3>1 DEF ParkedInOrder
  <2>4. AnswersKnown'  BY <1>6, <1>12, <2>0 DEF AnswersKnown
  <2>5. OrderKept'
    <3> SUFFICES ASSUME NEW i \in Calls, NEW j \in Calls, i < j, target[i] = target[j],
                        outcome'[j] \in {"ok", "openError"}, outcome'[i] \in {"pending", "parked"}
                 PROVE  FALSE
      BY <1>3, <1>12 DEF OrderKept
    <3>1. outcome[i] = "pending"  BY <1>21
    <3>2. outcome[j] = "parked"  BY <1>21, <2>0, <3>1 DEF OrderKept
    <3>3. target[j] \in Readers  BY <2>0, <3>2 DEF ParkedInOrder
    <3>4. Call_(i) \in Toks(target[i])  BY <2>0, <3>1 DEF PendingInLine
    <3> QED  BY <1>13, <1>17, <3>3, <3>4
  <2>6. ClosedByClose'
    <3>1. \A j \in Calls : outcome'[j] = "closed" => outcome[j] = "closed"  BY <1>21
    <3> QED  BY <1>3, <1>12, <2>0, <3>1 DEF ClosedByClose
  <2> QED  BY <2>1, <2>2, <2>3, <2>4, <2>5, <2>6 DEF Answering
<1> QED  BY <1>6, <1>23, <1>24, <1>25, <1>26, <1>27 DEF Inv

\* A completion that dispatches tasks.
LEMMA ServedAndDispatched ==
  ASSUME Inv, NEW kind, Runs(kind), Consume, UNCHANGED <<done, poolSize>>,
         NEW tasks \in [Conns -> Seq(Task)], Dispatch(tasks)
  PROVE  /\ OneFrame' /\ OwnQueues' /\ work' \in [Conns -> Seq(Task)] /\ fed' \subseteq Conns
         /\ \A e \in Conns :
              /\ Toks(e)' = Left(e) \cup Tasks(tasks[e]) /\ Due(e)' = Due(e) \cup Tasks(tasks[e])
              /\ Answered(e)' = LeftAnswered(e)
              /\ LeftInLine(e) /\ Fits(Left(e), tasks[e]) => InLine(e)'
<1>1. Draining /\ Top.pc = "run" /\ Top.batch # <<>> /\ Typed /\ OwnQueues  BY DEF Runs, Inv
<1>2. OneFrame' /\ Batch' = Tail(Batch) /\ Tail(Batch) \in Seq(Completion)
  BY <1>1, ConsumeTyped
<1>3. Conns' = Conns  BY SamePool
<1>4. OwnQueues'  BY <1>1, <1>3 DEF OwnQueues, OwnQueue
<1>5. work' = Queued(tasks) /\ fed' = FedBy(tasks)  BY DEF Dispatch
<1>6. work' \in [Conns -> Seq(Task)]
  <2>1. \A c \in Conns : work[c] \o tasks[c] \in Seq(Task)
    <3> TAKE c \in Conns
    <3>1. work[c] \in Seq(Task) /\ tasks[c] \in Seq(Task)  BY <1>1 DEF Typed
    <3> QED  BY <3>1
  <2> QED  BY <1>5, <2>1 DEF Queued
<1>7. fed' \subseteq Conns  BY <1>1, <1>5 DEF FedBy, Typed
<1>8. ASSUME NEW e \in Conns
      PROVE  /\ Toks(e)' = Left(e) \cup Tasks(tasks[e]) /\ Due(e)' = Due(e) \cup Tasks(tasks[e])
             /\ Answered(e)' = LeftAnswered(e)
             /\ LeftInLine(e) /\ Fits(Left(e), tasks[e]) => InLine(e)'
  <2> DEFINE b == Tail(Batch)
  <2>1. /\ Left(e) = Tokens(b, done[e], work[e], e) /\ LeftAnswered(e) = Answers(b, done[e], e)
        /\ LeftInLine(e) <=> InOrder(b, done[e], work[e], e)
    BY DEF Left, LeftAnswered, LeftInLine
  <2>2. b \in Seq(Completion) /\ Batch' = b  BY <1>2
  <2> HIDE DEF b
  <2>3. /\ Toks(e)' = Tokens(b, done[e], work[e], e) \cup Tasks(tasks[e])
        /\ Due(e)' = Due(e) \cup Tasks(tasks[e])
        /\ Answered(e)' = Answers(b, done[e], e)
        /\ InOrder(b, done[e], work[e], e) /\ Fits(Tokens(b, done[e], work[e], e), tasks[e])
             => InLine(e)'
    BY <1>1, <1>5, <2>2, DispatchEffect
  <2> QED  BY <2>1, <2>3
<1> QED  BY <1>2, <1>4, <1>6, <1>7, <1>8

\* What is dispatched to a reader when the writer is open: its open, and the reads
\* parked for it.
LEMMA ParkedBehindOpen ==
  ASSUME Typed, NEW r \in Readers, Sorted(r)
  PROVE  /\ <<Open_>> \o ParkedTasks(r) \in Seq(Task)
         /\ Tasks(<<Open_>> \o ParkedTasks(r)) = {Open_} \cup {Call_(k) : k \in ParkedAt(r)}
         /\ Fits({}, <<Open_>> \o ParkedTasks(r))
<1> DEFINE p == parked[r]
           q == ParkedTasks(r)
           u == <<Open_>> \o q
<1>1. p \in Seq(Calls) /\ q = [i \in 1..Len(p) |-> Call_(p[i])] /\ ParkedAt(r) = {p[i] : i \in DOMAIN p}
  BY DEF Typed, ParkedTasks, ParkedAt
<1>2. \A i, j \in DOMAIN p : i < j => p[i] < p[j]  BY DEF Sorted
<1> HIDE DEF p, q
<1>3. Len(p) \in Nat /\ DOMAIN p = 1..Len(p) /\ \A i \in 1..Len(p) : p[i] \in Calls  BY <1>1
<1>4. q \in Seq(Task) /\ Len(q) = Len(p)
  <2>1. q \in [1..Len(p) -> Task]  BY <1>1, <1>3, TaskKinds
  <2> QED  BY <1>3, <2>1
<1>5. Open_ \in Task /\ Len(<<Open_>>) = 1 /\ <<Open_>>[1] = Open_  BY TaskKinds
<1>6. /\ u \in Seq(Task) /\ Len(u) = Len(p) + 1 /\ DOMAIN u = 1..(Len(p) + 1)
      /\ u[1] = Open_
  BY <1>3, <1>4, <1>5
<1>7. ASSUME NEW i \in 1..Len(p)  PROVE u[i + 1] = Call_(p[i]) /\ i + 1 \in DOMAIN u
  <2>1. u[1 + i] = q[i]  BY <1>3, <1>4, <1>5
  <2>2. 1 + i = i + 1 /\ i + 1 \in 1..(Len(p) + 1)  BY <1>3
  <2> QED  BY <1>1, <1>6, <2>1, <2>2
<1> HIDE DEF u
<1>8. \A n \in DOMAIN u : n = 1 \/ (n - 1 \in 1..Len(p) /\ u[n] = Call_(p[n - 1]))
  <2> TAKE n \in DOMAIN u
  <2>1. n # 1 => n - 1 \in 1..Len(p) /\ (n - 1) + 1 = n  BY <1>3, <1>6
  <2>2. n # 1 => u[(n - 1) + 1] = Call_(p[n - 1])  BY <1>7, <2>1
  <2> QED  BY <2>1, <2>2
<1>9. \A i \in DOMAIN u : Token(u[i]) = u[i]
  <2> TAKE i \in DOMAIN u
  <2>1. u[i] \in Task  BY <1>6
  <2> QED  BY <2>1, TokenOfTask
<1>10. Tasks(u) = {Open_} \cup {Call_(k) : k \in ParkedAt(r)}
  <2>1. Tasks(u) = {u[i] : i \in DOMAIN u}  BY <1>9 DEF Tasks
  <2>2. {u[i] : i \in DOMAIN u} \subseteq {Open_} \cup {Call_(k) : k \in ParkedAt(r)}
    BY <1>1, <1>3, <1>6, <1>8
  <2>3. \A k \in ParkedAt(r) : Call_(k) \in {u[i] : i \in DOMAIN u}  BY <1>1, <1>3, <1>7
  <2>4. Open_ \in {u[i] : i \in DOMAIN u}
    <3>1. 1 \in DOMAIN u  BY <1>3, <1>6
    <3> QED  BY <1>6, <3>1
  <2> QED  BY <2>1, <2>2, <2>3, <2>4
<1>11. ASSUME NEW i \in DOMAIN u, NEW j \in DOMAIN u, i < j  PROVE Before(u[i], u[j])
  <2>1. j # 1 /\ j - 1 \in 1..Len(p) /\ u[j] = Call_(p[j - 1])
    <3>1. j # 1  BY <1>3, <1>6, <1>11
    <3> QED  BY <1>8, <3>1
  <2>2. CASE i = 1  BY <1>3, <1>6, <2>1, <2>2, TaskKinds
  <2>3. CASE i # 1
    <3>1. i - 1 \in 1..Len(p) /\ u[i] = Call_(p[i - 1])  BY <1>8, <2>3
    <3>2. i - 1 < j - 1  BY <1>3, <1>6, <1>11
    <3>3. p[i - 1] < p[j - 1]  BY <1>2, <1>3, <2>1, <3>1, <3>2
    <3> QED  BY <1>3, <2>1, <3>1, <3>3, TaskKinds
  <2> QED  BY <2>2, <2>3
<1>12. Fits({}, u)  BY <1>9, <1>11 DEF Fits
<1> QED  BY <1>6, <1>10, <1>12 DEF u, q

LEMMA WriterOpenedKeeps ==
  ASSUME Inv, WriterOpened
  PROVE  Inv'
<1> DEFINE tasks == [d \in Conns |-> ReaderOpens[d] \o (IF d \in Readers THEN ParkedTasks(d) ELSE <<>>)]
<1>1. PICK m \in Completion : m = Message /\ m.conn = Writer /\ m.res = "ok"
  <2>1. Runs("open")  BY DEF WriterOpened
  <2> QED  BY <2>1, Served DEF WriterOpened
<1>2. /\ Runs("open") /\ Consume /\ NoteOpen(OpensLeft) /\ ~closing
      /\ ready' = TRUE /\ outcome' = SettleParked("pending") /\ parked' = NoneParked
      /\ Dispatch(tasks)
  BY DEF WriterOpened, StartsReaders
<1>3. UNCHANGED <<inst, handle, closing, latch, nextReader, poolSize, conn, signalling, done,
                  efd, responses, target, closed>>
  BY DEF WriterOpened
<1>4. /\ Typed /\ OwnQueues /\ Lines /\ Phase /\ Joins /\ Opens /\ Answering /\ inst = "live"
      /\ \A e \in Conns :
           /\ LeftInLine(e) /\ LeftAnswered(e) \subseteq Answered(e)
           /\ Left(e) = IF e = Writer THEN Toks(e) \ {Token(m)} ELSE Toks(e)
  <2>1. Writer = m.conn  BY <1>1
  <2> QED  BY <1>1, <1>2, <2>1, Served
<1>5. /\ Token(m) = Open_ /\ Writer \in Opening /\ openPending > 0
      /\ init \notin {"resolved", "rejected"}
      /\ Cardinality(Opening \ {Writer}) = openPending - 1
  BY <1>1, <1>2, OpenNoted
<1>6. /\ Writer \in Conns /\ Writer \notin Readers /\ Readers \subseteq Conns /\ poolSize \in Nat
      /\ \A e \in Conns : e = Writer \/ e \in Readers
  BY <1>4, Pool
<1>7. /\ ~ready /\ \A r \in Readers : conn[r] = "new" /\ Open_ \notin Toks(r) /\ Toks(r) \subseteq {Close_}
  BY <1>4, <1>5 DEF Opens, WriterFirst, Opening
<1>8. \A e \in Conns : Close_ \notin Toks(e)  BY <1>2, <1>4 DEF Phase, NotClosing
<1>9. \A r \in Readers : Toks(r) = {} /\ Left(r) = {}  BY <1>4, <1>6, <1>7, <1>8
<1>10. \A e \in Conns : Due(e) \subseteq Toks(e) /\ \A a \in Answered(e) : Token(a) \in Toks(e)
  BY <1>4, InToks DEF OwnQueues
<1>11. \A r \in Readers : Due(r) = {} /\ Answered(r) = {}  BY <1>6, <1>9, <1>10
<1>12. ASSUME NEW e \in Conns
       PROVE  /\ tasks[e] \in Seq(Task)
              /\ Tasks(tasks[e]) = IF e \in Readers THEN {Open_} \cup {Call_(k) : k \in ParkedAt(e)} ELSE {}
              /\ Fits(Left(e), tasks[e])
  <2>1. CASE e \in Readers
    <3>1. tasks[e] = <<Open_>> \o ParkedTasks(e)  BY <1>6, <2>1 DEF ReaderOpens
    <3>2. Sorted(e)  BY <1>4, <2>1 DEF Answering, ParkedInOrder
    <3> HIDE DEF tasks
    <3> QED  BY <1>4, <1>9, <2>1, <3>1, <3>2, ParkedBehindOpen
  <2>2. CASE e \notin Readers
    <3>1. tasks[e] = <<>> \o <<>>  BY <2>2 DEF ReaderOpens
    <3>2. tasks[e] = <<>> /\ <<>> \in Seq(Task)  BY <3>1
    <3> HIDE DEF tasks
    <3> QED  BY <2>2, <3>2, FitsNone
  <2> QED  BY <2>1, <2>2
<1>13. tasks \in [Conns -> Seq(Task)]  BY <1>12
<1> HIDE DEF tasks
<1>14. /\ OneFrame' /\ OwnQueues' /\ work' \in [Conns -> Seq(Task)] /\ fed' \subseteq Conns
       /\ \A e \in Conns :
            /\ Toks(e)' = Left(e) \cup Tasks(tasks[e]) /\ Due(e)' = Due(e) \cup Tasks(tasks[e])
            /\ Answered(e)' = LeftAnswered(e)
            /\ LeftInLine(e) /\ Fits(Left(e), tasks[e]) => InLine(e)'
  BY <1>2, <1>3, <1>13, ServedAndDispatched
<1>15. \A e \in Conns : InLine(e)' /\ Answered(e)' \subseteq Answered(e)  BY <1>4, <1>12, <1>14
<1>16. \A r \in Readers : /\ Toks(r)' = {Open_} \cup {Call_(k) : k \in ParkedAt(r)}
                          /\ Due(r)' = {Open_} \cup {Call_(k) : k \in ParkedAt(r)}
                          /\ Answered(r)' = {}
  BY <1>6, <1>9, <1>11, <1>12, <1>14, <1>15
<1>17. Toks(Writer)' = Toks(Writer) \ {Open_} /\ Due(Writer)' = Due(Writer)
  BY <1>4, <1>5, <1>6, <1>12, <1>14
<1>18. /\ Conns' = Conns /\ Readers' = Readers /\ Calls' = Calls /\ Task' = Task
       /\ Completion' = Completion /\ Frame' = Frame
  BY <1>3, SamePool
<1>19. /\ Open_ # Close_ /\ Open_ \in Task
       /\ \A j \in Calls : Call_(j) # Open_ /\ Call_(j) # Close_ /\ Call_(j) \in Task
       /\ \A i, j \in Calls : Call_(i) = Call_(j) => i = j
  BY <1>4, TaskKinds
<1>20. \A r \in Readers : \A k \in ParkedAt(r) : k \in Calls /\ outcome[k] = "parked" /\ target[k] = r
  <2> TAKE r \in Readers
  <2> TAKE k \in ParkedAt(r)
  <2>1. k \in Calls  BY <1>4 DEF Typed, ParkedAt
  <2> QED  BY <1>4, <2>1 DEF Answering, ParkedInOrder
<1>21. \A r \in Readers : \A j \in Calls : Call_(j) \in Toks(r)' <=> j \in ParkedAt(r)
  BY <1>16, <1>19, <1>20
<1>22. conn[Writer] = "open" /\ failedOrder' = failedOrder
  <2>1. PICK f : f = FirstFailure(Writer, m.res)  OBVIOUS
  <2>2. Writer = m.conn  BY <1>1
  <2>3. conn[Writer] \in {"open", "closed"} /\ f = failedOrder
    BY <1>1, <1>2, <2>1, <2>2, FirstKnown
  <2>4. conn[Writer] # "closed"  BY <1>2, <1>4, <1>6 DEF Opens, ClosedLast
  <2>5. failedOrder' = f  BY <1>1, <1>2, <2>1 DEF NoteOpen
  <2> QED  BY <2>3, <2>4, <2>5
<1>23. /\ openPending' = openPending + poolSize - 1
       /\ init' = IF init = "waiting" /\ openPending + poolSize - 1 = 0
                    THEN IF failedOrder = NoOrder THEN "resolved" ELSE "rejected" ELSE init
  BY <1>2, <1>22 DEF NoteOpen, Waiters, OpensLeft
<1>24. \A k \in Calls : outcome'[k] = IF outcome[k] = "parked" THEN "pending" ELSE outcome[k]
  BY <1>2, <1>4, ParkedIsParked DEF SettleParked, Answering
<1>25. \A r \in Readers : ParkedAt(r)' = {} /\ Sorted(r)'  BY <1>2, <1>18, NoneParkedNow
<1>26. Typed'
  <2>1. openPending' \in Int  BY <1>4, <1>6, <1>23 DEF Typed
  <2>2. init' \in {"none", "waiting", "resolved", "rejected", "dropped"}  BY <1>4, <1>23 DEF Typed
  <2>3. outcome' \in [Calls -> Outcome]  BY <1>2, <1>4 DEF Typed, SettleParked, Outcome, Results
  <2>4. parked' \in [Readers -> Seq(Calls)]
    <3>1. <<>> \in Seq(Calls)  OBVIOUS
    <3> QED  BY <1>2, <3>1 DEF NoneParked
  <2> QED  BY <1>2, <1>3, <1>4, <1>14, <1>18, <1>22, <2>1, <2>2, <2>3, <2>4 DEF Typed, NoOrder, Outcome
<1>27. Lines'
  <2>1. \A e \in Conns : Toks(e)' \subseteq Task
    <3>1. Toks(Writer)' \subseteq Task  BY <1>4, <1>6, <1>17 DEF Lines
    <3>2. \A r \in Readers : Toks(r)' \subseteq Task  BY <1>16, <1>19, <1>20
    <3> QED  BY <1>6, <3>1, <3>2
  <2> QED  BY <1>15, <1>18, <2>1 DEF Lines
<1>28. Joins'  BY <1>3, <1>4 DEF Joins
<1>29. Phase'
  <2>1. Unborn' /\ Freed' /\ Closing'  BY <1>2, <1>3, <1>4 DEF Unborn, Freed, Closing
  <2>2. \A e \in Conns : Close_ \notin Toks(e)'
    <3>1. \A r \in Readers : Close_ \notin Toks(r)'  BY <1>16, <1>19, <1>20
    <3> QED  BY <1>6, <1>8, <1>17, <3>1
  <2>3. NotClosing'  BY <1>3, <1>4, <1>18, <2>2 DEF Phase, NotClosing
  <2> QED  BY <2>1, <2>3 DEF Phase
<1>30. Opens'
  <2>0. WriterFirst /\ OpenOnce /\ OpenIsDue /\ ClosedLast /\ FailureKnown /\ OpensCounted
    BY <1>4 DEF Opens
  <2>1. WriterFirst'  BY <1>2, <1>3, <1>6, <1>17, <1>18, <1>22 DEF WriterFirst
  <2>2. OpenOnce'
    <3>1. \A r \in Readers : conn'[r] = "new" /\ Answered(r)' = {}  BY <1>3, <1>7, <1>16
    <3>2. Open_ \notin Due(Writer)'
      <4>1. conn[Writer] # "new"  BY <1>22
      <4> QED  BY <1>6, <1>17, <2>0, <4>1 DEF OpenOnce
    <3>3. \A a \in Answered(Writer)' : a.kind = "open" =>
            IF a.res = "ok" THEN conn'[Writer] \in {"open", "closed"} ELSE conn'[Writer] = "failed"
      BY <1>3, <1>6, <1>15, <2>0 DEF OpenOnce
    <3> QED  BY <1>6, <1>18, <3>1, <3>2, <3>3 DEF OpenOnce
  <2>3. OpenIsDue'  BY <1>2, <1>3, <1>16, <1>18, <1>22 DEF OpenIsDue
  <2>4. ClosedLast'
    <3>1. \A e \in Conns : conn[e] # "closed"  BY <1>2, <2>0 DEF ClosedLast
    <3> QED  BY <1>3, <1>18, <3>1 DEF ClosedLast
  <2>5. FailureKnown'
    <3>1. \A e \in Conns : conn[e] # "failed"  BY <1>6, <1>7, <1>22
    <3>2. failedOrder # NoOrder => conn[failedOrder] = "failed"  BY <2>0 DEF FailureKnown
    <3> QED  BY <1>3, <1>18, <1>22, <3>1, <3>2 DEF FailureKnown, NoOrder
  <2>6. OpensCounted'
    <3>1. Opening' = Readers
      <4>1. \A r \in Readers : Open_ \in Toks(r)'  BY <1>16
      <4>2. Open_ \notin Toks(Writer)'  BY <1>17
      <4> QED  BY <1>6, <1>18, <4>1, <4>2 DEF Opening
    <3>2. Opening \ {Writer} = {}  BY <1>6, <1>7 DEF Opening
    <3>3. Cardinality({}) = 0  BY FS_EmptySet
    <3>4. openPending - 1 = 0  BY <1>5, <3>2, <3>3
    <3>5. openPending \in Int  BY <1>4 DEF Typed
    <3>6. openPending' = poolSize  BY <1>6, <1>23, <3>4, <3>5
    <3>7. Cardinality(Readers) = poolSize  BY <1>4, PoolCounts
    <3>8. openPending + poolSize - 1 = openPending'  BY <1>23
    <3> QED  BY <1>5, <1>22, <1>23, <3>1, <3>6, <3>7, <3>8 DEF OpensCounted, NoOrder
  <2> QED  BY <2>1, <2>2, <2>3, <2>4, <2>5, <2>6 DEF Opens
<1>31. Answering'
  <2>0. Numbered /\ PendingInLine /\ ParkedInOrder /\ AnswersKnown /\ OrderKept /\ ClosedByClose
    BY <1>4 DEF Answering
  <2>1. Numbered'  BY <1>18, <1>24, <2>0 DEF Numbered
  <2>2. PendingInLine'
    <3>1. ASSUME NEW e \in Conns, NEW j \in Calls, Call_(j) \in Toks(e)'
          PROVE  outcome'[j] = "pending" /\ target'[j] = e
      <4>1. CASE e = Writer
        <5>1. Call_(j) \in Toks(e)  BY <1>17, <3>1, <4>1
        <5>2. outcome[j] = "pending" /\ target[j] = e  BY <2>0, <5>1 DEF PendingInLine
        <5> QED  BY <1>3, <1>24, <5>2
      <4>2. CASE e \in Readers
        <5>1. outcome[j] = "parked" /\ target[j] = e  BY <1>20, <1>21, <3>1, <4>2
        <5> QED  BY <1>3, <1>24, <5>1
      <4> QED  BY <1>6, <4>1, <4>2
    <3>2. ASSUME NEW j \in Calls, outcome'[j] = "pending"
          PROVE  \E e \in Conns : target'[j] = e /\ Call_(j) \in Toks(e)'
      <4>1. CASE outcome[j] = "parked"
        <5>1. target[j] \in Readers /\ j \in ParkedAt(target[j])  BY <2>0, <4>1 DEF ParkedInOrder
        <5>2. PICK r \in Readers : r = target[j]  BY <5>1
        <5>3. Call_(j) \in Toks(r)'  BY <1>21, <5>1, <5>2
        <5> QED  BY <1>3, <1>6, <5>2, <5>3
      <4>2. CASE outcome[j] # "parked"
        <5>1. outcome[j] = "pending"  BY <1>24, <3>2, <4>2
        <5>2. target[j] \in Conns /\ Call_(j) \in Toks(target[j])
          BY <1>4, <2>0, <5>1 DEF PendingInLine, Typed
        <5>3. target[j] = Writer  BY <1>6, <1>9, <5>2
        <5>4. Call_(j) \in Toks(Writer)'  BY <1>17, <1>19, <5>2, <5>3
        <5> QED  BY <1>3, <1>6, <5>3, <5>4
      <4> QED  BY <4>1, <4>2
    <3> QED  BY <1>18, <3>1, <3>2 DEF PendingInLine, Call_
  <2>3. ParkedInOrder'
    <3>1. \A j \in Calls : outcome'[j] # "parked"  BY <1>24
    <3> QED  BY <1>18, <1>25, <3>1 DEF ParkedInOrder
  <2>4. AnswersKnown'  BY <1>15, <1>18, <2>0 DEF AnswersKnown
  <2>5. OrderKept'
    <3> SUFFICES ASSUME NEW i \in Calls, NEW j \in Calls, i < j, target[i] = target[j],
                        outcome'[j] \in {"ok", "openError"}, outcome'[i] \in {"pending", "parked"}
                 PROVE  FALSE
      BY <1>3, <1>18 DEF OrderKept
    <3>1. outcome[j] \in {"ok", "openError"} /\ outcome[i] \in {"pending", "parked"}  BY <1>24
    <3> QED  BY <2>0, <3>1 DEF OrderKept
  <2>6. ClosedByClose'
    <3>1. \A j \in Calls : outcome'[j] = "closed" => outcome[j] = "closed"  BY <1>24
    <3> QED  BY <1>3, <1>18, <2>0, <3>1 DEF ClosedByClose
  <2> QED  BY <2>1, <2>2, <2>3, <2>4, <2>5, <2>6 DEF Answering
<1> QED  BY <1>14, <1>26, <1>27, <1>28, <1>29, <1>30, <1>31 DEF Inv

\* A close comes last on its connection.
LEMMA CloseServed ==
  ASSUME Inv, Runs("close"), NEW m, m = Message, NEW c, c = m.conn
  PROVE  /\ Token(m) = Close_ /\ Close_ \in Toks(c) /\ Left(c) = {} /\ closing /\ m.kind = "close"
         /\ \A e \in Conns : e # c => Left(e) = Toks(e)
         /\ \A e \in Conns : LeftAnswered(e) \subseteq Answered(e)
         /\ \A e \in Conns : \A a \in Answered(e) : a.kind = "open" => a \in LeftAnswered(e)
<1>1. /\ m \in Completion /\ c \in Conns /\ Token(m) \in Toks(c) /\ Token(m) \in Task
      /\ m.kind = "close" /\ Typed /\ Phase
      /\ \A t \in Left(c) : Before(Token(m), t)
      /\ \A e \in Conns :
           /\ LeftAnswered(e) \subseteq Answered(e)
           /\ Left(e) = IF e = c THEN Toks(e) \ {Token(m)} ELSE Toks(e)
           /\ IF e = c THEN Answered(e) = {m} \cup LeftAnswered(e)
              ELSE LeftAnswered(e) = Answered(e)
  BY Served
<1>2. Token(m) = Close_  BY <1>1, TokenKinds
<1>3. Left(c) = {}  BY <1>1, <1>2, TaskKinds
<1>4. closing  BY <1>1, <1>2 DEF Phase, NotClosing
<1>5. \A e \in Conns : \A a \in Answered(e) : a.kind = "open" => a \in LeftAnswered(e)
  BY <1>1
<1> QED  BY <1>1, <1>2, <1>3, <1>4, <1>5

LEMMA ReaderClosedKeeps ==
  ASSUME Inv, ReaderClosed
  PROVE  Inv'
<1>1. PICK m \in Completion : m = Message /\ m.conn \in Conns /\ m.conn # Writer
  <2>1. Runs("close")  BY DEF ReaderClosed
  <2> QED  BY <2>1, Served DEF ReaderClosed
<1>2. PICK c \in Conns : c = m.conn  BY <1>1
<1>3. /\ Runs("close") /\ Consume /\ latch' = latch - 1
      /\ IF LastReader THEN Dispatch(Only(Writer, Close_)) ELSE UNCHANGED <<work, fed>>
  BY DEF ReaderClosed
<1>4. UNCHANGED <<inst, handle, closing, ready, parked, openPending, failedOrder, nextReader, poolSize,
                  conn, signalling, done, efd, responses, outcome, target, init, closed>>
  BY DEF ReaderClosed, promiseVars
<1>5. /\ Typed /\ OwnQueues /\ Lines /\ Phase /\ Joins /\ Opens /\ Answering /\ inst = "live"
      /\ Draining /\ Top.pc = "run" /\ Top.batch # <<>>
      /\ \A e \in Conns : LeftInLine(e)
  BY <1>1, <1>2, <1>3, Served
<1>6. /\ Token(m) = Close_ /\ Close_ \in Toks(c) /\ Left(c) = {} /\ closing
      /\ \A e \in Conns : e # c => Left(e) = Toks(e)
      /\ \A e \in Conns : LeftAnswered(e) \subseteq Answered(e)
      /\ \A e \in Conns : \A a \in Answered(e) : a.kind = "open" => a \in LeftAnswered(e)
  BY <1>1, <1>2, <1>3, CloseServed
<1>7. /\ Writer \in Conns /\ Writer \notin Readers /\ Readers \subseteq Conns
      /\ \A e \in Conns : e = Writer \/ e \in Readers
  BY <1>5, Pool
<1>8. c \in Readers /\ c # Writer /\ c \in Closers  BY <1>1, <1>2, <1>6, <1>7 DEF Closers
<1>9. /\ handle \in {"closed", "lost"} /\ latch = Cardinality(Closers) /\ Close_ \notin Toks(Writer)
      /\ \A r \in Readers : /\ Close_ \notin Toks(r) => Toks(r) = {}
                            /\ Close_ \notin Due(r) => Due(r) = {} /\ conn[r] # "open"
  BY <1>5, <1>6, <1>8 DEF Phase, Closing
<1>10. Open_ # Close_ /\ Close_ \in Task /\ \A j \in Calls : Call_(j) # Close_  BY <1>5, TaskKinds
<1>11. /\ OneFrame' /\ OwnQueues' /\ work' \in [Conns -> Seq(Task)] /\ fed' \subseteq Conns
       /\ \A e \in Conns :
            /\ Toks(e)' = Left(e) \cup (IF e = Writer /\ LastReader THEN {Close_} ELSE {})
            /\ Due(e)' = Due(e) \cup (IF e = Writer /\ LastReader THEN {Close_} ELSE {})
            /\ Answered(e)' = LeftAnswered(e) /\ InLine(e)'
  <2>1. CASE LastReader
    <3> DEFINE tasks == Only(Writer, Close_)
    <3>1. /\ tasks \in [Conns -> Seq(Task)] /\ Tasks(tasks[Writer]) = {Close_}
          /\ \A S : (\A s \in S : Before(s, Close_)) => Fits(S, tasks[Writer])
          /\ \A e \in Conns : e # Writer => Tasks(tasks[e]) = {} /\ \A S : Fits(S, tasks[e])
      BY <1>7, <1>10, OnlyTyped
    <3>2. Dispatch(tasks)  BY <1>3, <2>1
    <3> HIDE DEF tasks
    <3>3. /\ OneFrame' /\ OwnQueues' /\ work' \in [Conns -> Seq(Task)] /\ fed' \subseteq Conns
          /\ \A e \in Conns :
               /\ Toks(e)' = Left(e) \cup Tasks(tasks[e]) /\ Due(e)' = Due(e) \cup Tasks(tasks[e])
               /\ Answered(e)' = LeftAnswered(e)
               /\ LeftInLine(e) /\ Fits(Left(e), tasks[e]) => InLine(e)'
      BY <1>3, <1>4, <3>1, <3>2, ServedAndDispatched
    <3>4. \A s \in Left(Writer) : Before(s, Close_)
      BY <1>5, <1>6, <1>7, <1>8, <1>9, TaskKinds DEF Lines
    <3> QED  BY <1>5, <2>1, <3>1, <3>3, <3>4
  <2>2. CASE ~LastReader
    <3>1. UNCHANGED <<done, work, poolSize, fed>>  BY <1>3, <1>4, <2>2
    <3>2. OneFrame' /\ OwnQueues' /\ Lines'  BY <1>1, <1>2, <1>3, <3>1, ServedOnly
    <3>3. \A e \in Conns : /\ Toks(e)' = Left(e) /\ Due(e)' = Due(e) /\ Answered(e)' = LeftAnswered(e)
                           /\ InLine(e)' <=> LeftInLine(e)
      BY <1>3, <1>5, <3>1, ConsumeEffect
    <3>4. work' \in [Conns -> Seq(Task)] /\ fed' \subseteq Conns  BY <1>5, <3>1 DEF Typed
    <3> QED  BY <1>5, <2>2, <3>2, <3>3, <3>4
  <2> QED  BY <2>1, <2>2
<1>12. Toks(c)' = {} /\ \A r \in Readers : (r # c => Toks(r)' = Toks(r)) /\ Due(r)' = Due(r)
  <2>1. \A r \in Readers : Toks(r)' = Left(r) /\ Due(r)' = Due(r)
    <3> TAKE r \in Readers
    <3>1. r \in Conns /\ r # Writer  BY <1>7
    <3>2. Toks(r)' = Left(r) \cup {} /\ Due(r)' = Due(r) \cup {}  BY <1>11, <3>1
    <3> QED  BY <3>2
  <2>2. \A r \in Readers : r # c => Left(r) = Toks(r)  BY <1>6, <1>7
  <2> QED  BY <1>6, <1>8, <2>1, <2>2
<1>13. /\ Toks(Writer) \subseteq Toks(Writer)' /\ Toks(Writer)' \subseteq Toks(Writer) \cup {Close_}
       /\ Due(Writer) \subseteq Due(Writer)' /\ Due(Writer)' \subseteq Due(Writer) \cup {Close_}
       /\ Close_ \in Toks(Writer)' => LastReader
  <2>1. Left(Writer) = Toks(Writer) /\ Close_ \notin Toks(Writer)  BY <1>6, <1>7, <1>8, <1>9
  <2>2. /\ Toks(Writer)' = Left(Writer) \cup (IF LastReader THEN {Close_} ELSE {})
        /\ Due(Writer)' = Due(Writer) \cup (IF LastReader THEN {Close_} ELSE {})
    BY <1>7, <1>11
  <2>3. CASE LastReader  BY <2>1, <2>2, <2>3
  <2>4. CASE ~LastReader  BY <2>1, <2>2, <2>4
  <2> QED  BY <2>3, <2>4
<1>14. /\ Conns' = Conns /\ Readers' = Readers /\ Calls' = Calls /\ Task' = Task
       /\ Completion' = Completion /\ Frame' = Frame
  BY <1>4, SamePool
<1>15. Toks(c) \ {Close_} = {}
  <2>1. Left(c) = Toks(c) \ {Token(m)}  BY <1>1, <1>2, <1>3, Served
  <2> QED  BY <1>6, <2>1
<1>16. \A e \in Conns : /\ Open_ \in Toks(e)' <=> Open_ \in Toks(e)
                        /\ Open_ \in Due(e)' <=> Open_ \in Due(e)
                        /\ Toks(e)' \subseteq Toks(e) \cup {Close_}
                        /\ \A j \in Calls : Call_(j) \in Toks(e)' <=> Call_(j) \in Toks(e)
  <2> TAKE e \in Conns
  <2>1. CASE e = c  BY <1>8, <1>10, <1>12, <1>15, <2>1
  <2>2. CASE e = Writer  BY <1>10, <1>13, <2>2
  <2>3. CASE e # c /\ e \in Readers  BY <1>12, <2>3
  <2> QED  BY <1>7, <2>1, <2>2, <2>3
<1>17. Closers' = Closers \ {c}  BY <1>8, <1>12, <1>14 DEF Closers
<1>18. Opening' = Opening  BY <1>14, <1>16 DEF Opening
<1>19. Cardinality(Closers') = latch - 1 /\ (LastReader => Closers' = {})
  <2>1. IsFiniteSet(Readers) /\ Closers \subseteq Readers  BY <1>5, PoolCounts DEF Closers
  <2>2. Cardinality(Closers \ {c}) = latch - 1  BY <1>8, <1>9, <2>1, Counts
  <2>3. Closers \ {c} \subseteq Readers  BY <2>1
  <2>4. Cardinality(Closers \ {c}) = 0 => Closers \ {c} = {}  BY <2>1, <2>3, Counts
  <2>5. LastReader => latch - 1 = 0  BY DEF LastReader
  <2> QED  BY <1>17, <2>2, <2>4, <2>5
<1>20. Typed'
  <2>1. latch' \in Int  BY <1>3, <1>5 DEF Typed
  <2> QED  BY <1>4, <1>5, <1>11, <1>14, <2>1 DEF Typed, NoOrder, Outcome
<1>21. Lines'  BY <1>5, <1>10, <1>11, <1>14, <1>16 DEF Lines
<1>22. Joins'  BY <1>4, <1>5 DEF Joins
<1>23. Phase'
  <2>1. Unborn' /\ Freed' /\ NotClosing'  BY <1>4, <1>5, <1>6 DEF Unborn, Freed, NotClosing
  <2>2. ASSUME NEW r \in Readers, Close_ \notin Toks(r)'  PROVE Toks(r)' = {}
    BY <1>9, <1>12, <2>2
  <2>3. \A r \in Readers : Close_ \notin Due(r)' => Due(r)' = {} /\ conn'[r] # "open"
    BY <1>4, <1>9, <1>12
  <2>4. latch' = Cardinality(Closers')  BY <1>3, <1>19
  <2>5. Closing'
    BY <1>4, <1>9, <1>13, <1>14, <1>19, <2>2, <2>3, <2>4 DEF Closing, Writer
  <2> QED  BY <2>1, <2>5 DEF Phase
<1>24. Opens'
  <2>0. WriterFirst /\ OpenOnce /\ OpenIsDue /\ ClosedLast /\ FailureKnown /\ OpensCounted
    BY <1>5 DEF Opens
  <2>1. WriterFirst'
    <3>1. ~ready => \A r \in Readers : Toks(r)' \subseteq {Close_}
      BY <1>7, <1>16, <2>0 DEF WriterFirst
    <3> QED  BY <1>4, <1>7, <1>14, <1>16, <2>0, <3>1 DEF WriterFirst
  <2>2. OpenOnce'  BY <1>4, <1>6, <1>11, <1>14, <1>16, <2>0 DEF OpenOnce
  <2>3. OpenIsDue'  BY <1>4, <1>7, <1>14, <1>16, <2>0 DEF OpenIsDue
  <2>4. ClosedLast'
    <3>1. conn[Writer] # "closed"  BY <1>7, <1>8, <2>0 DEF ClosedLast
    <3>2. \A r \in Readers : conn[r] = "closed" => Due(r)' = {}  BY <1>7, <1>12, <2>0 DEF ClosedLast
    <3> QED  BY <1>4, <1>6, <1>7, <1>14, <3>1, <3>2 DEF ClosedLast
  <2>5. FailureKnown'  BY <1>4, <1>6, <1>11, <1>14, <2>0 DEF FailureKnown, NoOrder
  <2>6. OpensCounted'  BY <1>4, <1>18, <2>0 DEF OpensCounted, NoOrder
  <2> QED  BY <2>1, <2>2, <2>3, <2>4, <2>5, <2>6 DEF Opens
<1>25. Answering'
  <2>0. Numbered /\ PendingInLine /\ ParkedInOrder /\ AnswersKnown /\ OrderKept /\ ClosedByClose
    BY <1>5 DEF Answering
  <2>1. Numbered'  BY <1>4, <1>14, <2>0 DEF Numbered
  <2>2. PendingInLine'
    <3>1. \A k \in Calls : target[k] \in Conns  BY <1>5 DEF Typed
    <3>2. \A e \in Conns, j \in Calls : Call_(j) \in Toks(e)' <=> Call_(j) \in Toks(e)  BY <1>16
    <3> QED  BY <1>4, <1>14, <2>0, <3>1, <3>2 DEF PendingInLine, Call_
  <2>3. ParkedInOrder'
    <3>1. \A r : (Sorted(r)' <=> Sorted(r)) /\ ParkedAt(r)' = ParkedAt(r)
      BY <1>4 DEF Sorted, ParkedAt
    <3>2. UNCHANGED <<ready, outcome, target>>  BY <1>4
    <3> QED  BY <1>14, <2>0, <3>1, <3>2 DEF ParkedInOrder
  <2>4. AnswersKnown'  BY <1>6, <1>11, <1>14, <2>0 DEF AnswersKnown
  <2>5. OrderKept'  BY <1>4, <1>14, <2>0 DEF OrderKept
  <2>6. ClosedByClose'  BY <1>4, <1>14, <2>0 DEF ClosedByClose
  <2> QED  BY <2>1, <2>2, <2>3, <2>4, <2>5, <2>6 DEF Answering
<1> QED  BY <1>11, <1>20, <1>21, <1>22, <1>23, <1>24, <1>25 DEF Inv

LEMMA WriterClosedKeeps ==
  ASSUME Inv, WriterClosed
  PROVE  Inv'
<1>1. PICK m \in Completion : m = Message /\ m.conn = Writer
  <2>1. Runs("close")  BY DEF WriterClosed
  <2> QED  BY <2>1, Served DEF WriterClosed
<1>2. /\ Runs("close") /\ Consume /\ Joined /\ inst' = "freed"
      /\ closed' = IF closed = "pending" THEN "resolved" ELSE closed
      /\ outcome' = SettleParked("dropped") /\ parked' = NoneParked
      /\ init' = IF init = "waiting" THEN "dropped" ELSE init
      /\ efd' = [c \in Conns |-> FALSE]
      /\ responses' = IF LateCallbacks THEN responses ELSE {}
  BY DEF WriterClosed
<1>3. UNCHANGED <<handle, closing, ready, openPending, failedOrder, latch, nextReader, poolSize,
                  conn, work, signalling, done, fed, target>>
  BY DEF WriterClosed
<1>4. /\ Typed /\ OwnQueues /\ Lines /\ Phase /\ Joins /\ Opens /\ Answering /\ inst = "live"
      /\ Draining
  BY <1>1, <1>2, Served
<1>5. PICK c \in Conns : c = Writer /\ c = m.conn  BY <1>1, <1>4, Pool
<1>6. /\ Token(m) = Close_ /\ Close_ \in Toks(c) /\ Left(c) = {} /\ closing
      /\ \A e \in Conns : e # c => Left(e) = Toks(e)
      /\ \A e \in Conns : LeftAnswered(e) \subseteq Answered(e)
      /\ \A e \in Conns : \A a \in Answered(e) : a.kind = "open" => a \in LeftAnswered(e)
  BY <1>1, <1>2, <1>5, CloseServed
<1>7. /\ OneFrame' /\ OwnQueues' /\ Lines'  BY <1>1, <1>2, <1>3, <1>5, ServedOnly
<1>8. \A e : Toks(e)' = Left(e) /\ Due(e)' = Due(e) /\ Answered(e)' = LeftAnswered(e)
  BY <1>2, <1>3, <1>4, ConsumeEffect
<1>9. /\ Writer \in Conns /\ Writer \notin Readers /\ Readers \subseteq Conns
      /\ \A e \in Conns : e = Writer \/ e \in Readers
  BY <1>4, Pool
<1>10. /\ handle \in {"closed", "lost"} /\ latch = Cardinality(Closers) /\ Closers = {}
       /\ \A r \in Readers : /\ Close_ \notin Toks(r) => Toks(r) = {}
                             /\ Close_ \notin Due(r) => Due(r) = {} /\ conn[r] # "open"
  BY <1>4, <1>5, <1>6 DEF Phase, Closing
<1>11. \A r \in Readers : Toks(r) = {}  BY <1>10 DEF Closers
<1>12. \A e \in Conns : Toks(e)' = {} /\ Due(e)' = Due(e)
  BY <1>5, <1>6, <1>8, <1>9, <1>11
<1>13. /\ Conns' = Conns /\ Readers' = Readers /\ Calls' = Calls /\ Task' = Task
       /\ Completion' = Completion /\ Frame' = Frame
  BY <1>3, SamePool
<1>14. Closers' = Closers  BY <1>9, <1>10, <1>12, <1>13 DEF Closers
<1>15. Toks(c) = {Close_}
  <2>1. Left(c) = Toks(c) \ {Token(m)}  BY <1>1, <1>2, <1>5, Served
  <2> QED  BY <1>6, <2>1
<1>16. \A e \in Conns : \A t \in Toks(e) : t = Close_  BY <1>5, <1>9, <1>11, <1>15
<1>17. Open_ # Close_ /\ \A j \in Calls : Call_(j) # Close_  BY <1>4, TaskKinds
<1>18. Opening' = Opening  BY <1>12, <1>13, <1>16, <1>17 DEF Opening
<1>19. \A k \in Calls : outcome'[k] = IF outcome[k] = "parked" THEN "dropped" ELSE outcome[k]
  BY <1>2, <1>4, ParkedIsParked DEF SettleParked, Answering
<1>20. \A r \in Readers : ParkedAt(r)' = {} /\ Sorted(r)'  BY <1>2, <1>13, NoneParkedNow
<1>21. \A k \in Calls : outcome[k] # "pending"
  <2> TAKE k \in Calls
  <2>1. target[k] \in Conns  BY <1>4 DEF Typed
  <2>2. Call_(k) \notin Toks(target[k])  BY <1>16, <1>17, <2>1
  <2> QED  BY <1>4, <2>2 DEF Answering, PendingInLine
<1>22. Typed'
  <2>1. outcome' \in [Calls -> Outcome]  BY <1>2, <1>4 DEF Typed, SettleParked, Outcome, Results
  <2>2. parked' \in [Readers -> Seq(Calls)]
    <3>1. <<>> \in Seq(Calls)  OBVIOUS
    <3> QED  BY <1>2, <3>1 DEF NoneParked
  <2>3. init' \in {"none", "waiting", "resolved", "rejected", "dropped"}
        /\ closed' \in {"none", "pending", "resolved"}
    BY <1>2, <1>4 DEF Typed
  <2>4. efd' \in [Conns -> BOOLEAN] /\ responses' \subseteq Conns  BY <1>2, <1>4 DEF Typed
  <2> QED  BY <1>2, <1>3, <1>4, <1>7, <1>13, <2>1, <2>2, <2>3, <2>4 DEF Typed, NoOrder, Outcome
<1>23. Joins'  BY <1>2, <1>3, <1>4, <1>13 DEF Joins, Joined, Typed
<1>24. Phase'
  <2>1. Unborn' /\ Freed' /\ NotClosing'
    BY <1>2, <1>3, <1>6, <1>12, <1>13 DEF Unborn, Freed, NotClosing
  <2>2. \A r \in Readers : Toks(r)' = {} /\ Due(r)' = Due(r)  BY <1>9, <1>12
  <2>3. Closing'  BY <1>3, <1>10, <1>13, <1>14, <2>2 DEF Closing
  <2> QED  BY <2>1, <2>3 DEF Phase
<1>25. Opens'
  <2>0. WriterFirst /\ OpenOnce /\ OpenIsDue /\ ClosedLast /\ FailureKnown /\ OpensCounted
    BY <1>4 DEF Opens
  <2>1. WriterFirst'  BY <1>3, <1>9, <1>12, <1>13, <2>0 DEF WriterFirst
  <2>2. OpenOnce'  BY <1>3, <1>6, <1>8, <1>12, <1>13, <2>0 DEF OpenOnce
  <2>3. OpenIsDue'  BY <1>2, <1>3, <1>4, <1>6, <1>9, <1>12, <1>13, <2>0 DEF OpenIsDue
  <2>4. ClosedLast'  BY <1>3, <1>12, <1>13, <1>14, <2>0 DEF ClosedLast
  <2>5. FailureKnown'  BY <1>3, <1>6, <1>8, <1>13, <2>0 DEF FailureKnown, NoOrder
  <2>6. OpensCounted'  BY <1>2, <1>3, <1>18, <2>0 DEF OpensCounted, NoOrder
  <2> QED  BY <2>1, <2>2, <2>3, <2>4, <2>5, <2>6 DEF Opens
<1>26. Answering'
  <2>0. Numbered /\ PendingInLine /\ ParkedInOrder /\ AnswersKnown /\ OrderKept /\ ClosedByClose
    BY <1>4 DEF Answering
  <2>1. Numbered'  BY <1>13, <1>19, <2>0 DEF Numbered
  <2>2. PendingInLine'
    <3>1. \A k \in Calls : outcome'[k] # "pending"  BY <1>19, <1>21
    <3> QED  BY <1>12, <1>13, <3>1 DEF PendingInLine, Call_
  <2>3. ParkedInOrder'
    <3>1. \A j \in Calls : outcome'[j] # "parked"  BY <1>19
    <3> QED  BY <1>13, <1>20, <3>1 DEF ParkedInOrder
  <2>4. AnswersKnown'  BY <1>6, <1>8, <1>13, <2>0 DEF AnswersKnown
  <2>5. OrderKept'
    <3>1. \A j \in Calls : outcome'[j] \notin {"pending", "parked"}  BY <1>19, <1>21
    <3> QED  BY <1>13, <3>1 DEF OrderKept
  <2>6. ClosedByClose'
    <3>1. \A j \in Calls : outcome'[j] = "closed" => outcome[j] = "closed"  BY <1>19
    <3> QED  BY <1>3, <1>13, <2>0, <3>1 DEF ClosedByClose
  <2> QED  BY <2>1, <2>2, <2>3, <2>4, <2>5, <2>6 DEF Answering
<1> QED  BY <1>7, <1>22, <1>23, <1>24, <1>25, <1>26 DEF Inv

-----------------------------------------------------------------------------
(* The invariant of every step.                                             *)

LEMMA InitInv == Init => Inv
<1> SUFFICES ASSUME Init PROVE Inv  OBVIOUS
<1>1. poolSize \in PoolSizes /\ poolSize \in Nat /\ MaxWork \in Nat
  BY DatabaseAssumption DEF Init
<1>2. Typed
  <2>1. OneFrame  BY DEF Init, OneFrame
  <2>2. Writer \in Conns  BY <1>1 DEF Writer, Conns
  <2>3. /\ inst \in {"none", "live", "freed", "threw"}
        /\ handle \in {"none", "valid", "closed", "lost"}
        /\ closing \in BOOLEAN /\ ready \in BOOLEAN
        /\ init \in {"none", "waiting", "resolved", "rejected", "dropped"}
        /\ closed \in {"none", "pending", "resolved"}
    BY Zenon DEF Init
  <2>6. /\ openPending \in Int /\ failedOrder \in Conns \cup {NoOrder} /\ latch \in Int
        /\ nextReader \in 0..poolSize /\ (poolSize > 0 => nextReader < poolSize)
        /\ responses \subseteq Conns /\ fed \subseteq Conns
    BY <1>1 DEF Init
  <2>4. /\ conn \in [Conns -> {"new", "open", "failed", "closed"}]
        /\ parked \in [Readers -> Seq(Calls)]
        /\ work \in [Conns -> Seq(Task)] /\ done \in [Conns -> Seq(Completion)]
    BY DEF Init
  <2>5. /\ signalling \in [Conns -> BOOLEAN] /\ efd \in [Conns -> BOOLEAN]
        /\ outcome \in [Calls -> Outcome] /\ target \in [Calls -> Conns]
    BY <2>2 DEF Init, Outcome
  <2> QED  BY <1>1, <2>1, <2>3, <2>4, <2>5, <2>6 DEF Typed
<1>3. /\ \A c \in Conns : Toks(c) = {} /\ Due(c) = {} /\ Answered(c) = {} /\ InLine(c)
      /\ OwnQueues
  <2>1. Batch = <<>>  BY DEF Init, Batch
  <2>2. \A c \in Conns : done[c] = <<>> /\ work[c] = <<>>  BY DEF Init
  <2>3. \A c : /\ Tokens(<<>>, <<>>, <<>>, c) = {} /\ Tasks(<<>>) = {} /\ Answers(<<>>, <<>>, c) = {}
               /\ InOrder(<<>>, <<>>, <<>>, c)
    <3>1. \A c : Places(<<>>, <<>>, <<>>, c) = {}  BY DEF Places, Size
    <3> QED  BY <3>1 DEF Tokens, Tasks, Answers, InOrder
  <2>4. OwnQueues  BY <2>2 DEF OwnQueues, OwnQueue
  <2> QED  BY <2>1, <2>2, <2>3, <2>4 DEF Toks, Due, Answered, InLine
<1>4. /\ Readers \subseteq Conns /\ Writer \in Conns /\ Readers \subseteq Int
      /\ \A c \in Conns : c \in Int
  BY <1>2, Pool
<1>5. Lines  BY <1>3 DEF Lines
<1>6. Phase
  BY <1>3, <1>4 DEF Phase, Unborn, NotClosing, Closing, Freed, Init
<1>7. Joins  BY DEF Joins, Init
<1>8. Opens
  <2>1. WriterFirst /\ OpenOnce /\ ClosedLast /\ FailureKnown
    BY <1>3, <1>4 DEF WriterFirst, OpenOnce, ClosedLast, FailureKnown, Init
  <2>2. OpenIsDue  BY DEF OpenIsDue, Init
  <2>3. Opening = {}  BY <1>3 DEF Opening
  <2>4. OpensCounted  BY <2>3, FS_EmptySet DEF OpensCounted, Init
  <2> QED  BY <2>1, <2>2, <2>4 DEF Opens
<1>9. Answering
  <2>1. \A k \in Calls : outcome[k] = "none"  BY DEF Init
  <2>2. Numbered /\ OrderKept /\ ClosedByClose  BY <2>1 DEF Numbered, OrderKept, ClosedByClose
  <2>3. PendingInLine /\ AnswersKnown  BY <1>3, <2>1 DEF PendingInLine, AnswersKnown
  <2>4. \A r \in Readers : ParkedAt(r) = {} /\ Sorted(r)
    BY DEF Init, ParkedAt, Sorted
  <2>5. ParkedInOrder  BY <2>1, <2>4 DEF ParkedInOrder
  <2> QED  BY <2>2, <2>3, <2>5 DEF Answering
<1> QED  BY <1>2, <1>3, <1>5, <1>6, <1>7, <1>8, <1>9 DEF Inv

LEMMA NextKeeps == ASSUME ~MayPump, Inv, [Next]_vars PROVE Inv'
<1>1. CASE JsStep
  <2>1. CASE OpenAsync \/ OpenSync \/ OpenThrows  BY <2>1, OpenKeeps
  <2>2. CASE \E k \in Calls : Execute(k) \/ Select(k)  BY <2>2, ExecuteKeeps, SelectKeeps
  <2>3. CASE Initialized  BY <2>3, InitializedKeeps
  <2>4. CASE Close \/ Collect  BY <2>4, CloseKeeps
  <2> QED  BY <1>1, <2>1, <2>2, <2>3, <2>4 DEF JsStep
<1>2. CASE \E c \in Conns : WorkerStep(c)
  <2>1. CASE \E c \in Conns : RunTask(c)  BY <2>1, RunKeeps
  <2>2. CASE \E c \in Conns : Signal(c)  BY <2>2, LooperKeeps
  <2> QED  BY <1>2, <2>1, <2>2 DEF WorkerStep
<1>3. CASE Poll \/ \E c \in Conns : Callback(c)  BY <1>3, LooperKeeps
<1>4. CASE DrainStep
  <2>1. CASE \E c \in Conns : Gather(c)  BY <2>1, GatherKeeps
  <2>2. CASE RunBatch \/ GatherNothing \/ BatchDone \/ KeepPolling \/ Return
    BY <2>2, LooperKeeps
  <2>3. CASE CallDone  BY <2>3, CallDoneKeeps
  <2>4. CASE WriterOpenFailed  BY <2>4, WriterOpenFailedKeeps
  <2>5. CASE WriterOpened  BY <2>5, WriterOpenedKeeps
  <2>6. CASE OpenDone  BY <2>6, OpenDoneKeeps
  <2>7. CASE ReaderClosed  BY <2>7, ReaderClosedKeeps
  <2>8. CASE WriterClosed  BY <2>8, WriterClosedKeeps
  <2> QED  BY <1>4, <2>1, <2>2, <2>3, <2>4, <2>5, <2>6, <2>7, <2>8 DEF DrainStep
<1>5. CASE UNCHANGED vars
  <2>1. /\ UNCHANGED <<bindingVars, conn, work, promiseVars>>
        /\ UNCHANGED <<inst, poolSize, conn, signalling, efd, responses, frames, fed, done, work>>
    BY <1>5 DEF vars, bindingVars, threadVars, looperVars
  <2>2. Conns' = Conns /\ Frame' = Frame /\ Completion' = Completion  BY <2>1, SamePool
  <2>3. /\ OneFrame /\ fed \subseteq Conns /\ responses \subseteq Conns
        /\ signalling \in [Conns -> BOOLEAN] /\ efd \in [Conns -> BOOLEAN]
        /\ done \in [Conns -> Seq(Completion)] /\ OwnQueues /\ Joins
    BY DEF Inv, Typed
  <2>4. \A c : /\ Toks(c)' = Toks(c) /\ Due(c)' = Due(c) /\ Answered(c)' = Answered(c)
               /\ InLine(c)' <=> InLine(c)
               /\ OwnQueue(c)' <=> OwnQueue(c)
    BY <2>1, Still
  <2>5. OwnQueues'  BY <2>2, <2>3, <2>4 DEF OwnQueues
  <2>6. OneFrame'  BY <2>1, <2>2, <2>3 DEF OneFrame
  <2>7. Joins'  BY <2>1, <2>2, <2>3 DEF Joins
  <2> QED  BY <2>1, <2>2, <2>3, <2>4, <2>5, <2>6, <2>7, AsideKeeps
<1> QED  BY <1>1, <1>2, <1>3, <1>4, <1>5 DEF Next

\* Without a continuation that runs the looper itself, the invariant holds throughout.
THEOREM InvariantHolds == ASSUME ~MayPump PROVE Spec => []Inv
<1>1. Inv /\ [Next]_vars => Inv'  BY NextKeeps
<1> QED  BY InitInv, <1>1, PTL DEF Spec

-----------------------------------------------------------------------------
(* What it means for the database.                                          *)

\* Every variable of the binding, its dispatchers and the looper holds a value of
\* its type: openPending never counts more opens than there are connections, and
\* the latch of Teardown() never fewer than none.
THEOREM TypesHold == ASSUME ~MayPump PROVE Spec => []TypeOK
<1>1. Inv => TypeOK
  <2> SUFFICES ASSUME Inv PROVE TypeOK  OBVIOUS
  <2>1. Typed /\ Phase /\ Opens  BY DEF Inv
  <2>2. poolSize \in Nat /\ Readers \subseteq Conns  BY <2>1, Pool
  <2>3. openPending \in 0..(poolSize + 1)
    <3>1. openPending = Cardinality(Opening) /\ Opening \subseteq Conns
      BY <2>1 DEF Opens, OpensCounted, Opening
    <3>2. IsFiniteSet(Conns) /\ Cardinality(Conns) = poolSize + 1  BY <2>1, PoolCounts
    <3>3. Cardinality(Opening) \in Nat /\ Cardinality(Opening) <= Cardinality(Conns)
      BY <3>1, <3>2, Counts
    <3> QED  BY <2>2, <3>1, <3>2, <3>3
  <2>4. latch \in 0..poolSize
    <3>1. IsFiniteSet(Readers) /\ Cardinality(Readers) = poolSize /\ Closers \subseteq Readers
      BY <2>1, PoolCounts DEF Closers
    <3>2. Cardinality(Closers) \in Nat /\ Cardinality(Closers) <= Cardinality(Readers)
      BY <3>1, Counts
    <3>3. latch = poolSize \/ latch = Cardinality(Closers)
      BY <2>1 DEF Phase, NotClosing, Closing, Typed
    <3> QED  BY <2>2, <3>1, <3>2, <3>3
  <2>5. frames \in Seq(Frame)
    <3>1. CASE frames = <<>>  BY <3>1
    <3>2. CASE Draining
      <4>1. Top \in Frame /\ frames = <<Top>>  BY <2>1, <3>2, TopFrame DEF Typed
      <4>2. \A f \in Frame : <<f>> \in Seq(Frame)  OBVIOUS
      <4> QED  BY <4>1, <4>2
    <3> QED  BY <3>1, <3>2 DEF Draining
  <2> QED  BY <2>1, <2>3, <2>4, <2>5 DEF Typed, TypeOK
<1> QED  BY <1>1, InvariantHolds, PTL

\* However the opens, the closes and the drains interleave, a reader is open only while
\* the writer is.
THEOREM ReadersInside == ASSUME ~MayPump PROVE Spec => []ReadersInsideWriter
<1>1. Inv => ReadersInsideWriter  BY DEF Inv, Opens, WriterFirst, ReadersInsideWriter
<1> QED  BY <1>1, InvariantHolds, PTL

\* initialized() resolves with every connection open, unless close() came first, and
\* rejects with the first failure in writer-then-reader order.
THEOREM InitializedCorrect == ASSUME ~MayPump PROVE Spec => []InitializedMeansOpen
<1>1. Inv => InitializedMeansOpen
  <2> SUFFICES ASSUME Inv PROVE InitializedMeansOpen  OBVIOUS
  <2>1. Typed /\ OwnQueues /\ Phase /\ Opens  BY DEF Inv
  <2>2. /\ Writer \in Conns /\ Readers \subseteq Conns
        /\ \A c \in Conns : c \in Int /\ (c = Writer \/ c \in Readers)
    BY <2>1, Pool
  <2>3. ASSUME openPending = 0, NEW c \in Conns
        PROVE  /\ Open_ \notin Toks(c) /\ Open_ \notin Due(c)
               /\ \A a \in Answered(c) : a.kind # "open"
    <3>1. IsFiniteSet(Conns) /\ Opening \subseteq Conns /\ Cardinality(Opening) = 0
      BY <2>1, <2>3, PoolCounts DEF Opens, OpensCounted, Opening
    <3>2. Opening = {}  BY <3>1, Counts
    <3>3. Open_ \notin Toks(c)  BY <3>2 DEF Opening
    <3>4. /\ Due(c) \subseteq Toks(c)
          /\ \A a \in Answered(c) : a \in Completion /\ a.conn = c /\ Token(a) \in Toks(c)
      BY <2>1, InToks DEF OwnQueues
    <3>5. Toks(c) \subseteq Task  BY DEF Inv, Lines
    <3>6. \A a \in Answered(c) : a.kind = "open" => Token(a) = Open_
      BY <2>1, <3>4, <3>5, TokenKinds
    <3> QED  BY <3>3, <3>4, <3>6
  <2>4. ASSUME init = "resolved", ~closing, NEW c \in Conns PROVE conn[c] = "open"
    <3>1. openPending = 0 /\ failedOrder = NoOrder  BY <2>1, <2>4 DEF Opens, OpensCounted
    <3>2. inst \in {"live", "freed"}  BY <2>1, <2>4 DEF Phase, Unborn, Typed
    <3>3. ready  BY <2>1, <2>2, <2>3, <2>4, <3>1, <3>2 DEF Opens, OpenIsDue
    <3>4. conn[c] # "new"  BY <2>1, <2>2, <2>3, <3>1, <3>2, <3>3 DEF Opens, OpenIsDue
    <3>5. conn[c] # "closed"  BY <2>1, <2>4 DEF Opens, ClosedLast
    <3>6. conn[c] # "failed"  BY <2>1, <2>3, <3>1 DEF Opens, FailureKnown
    <3> QED  BY <2>1, <3>4, <3>5, <3>6 DEF Typed
  <2>5. ASSUME init = "rejected"
        PROVE  failedOrder = CHOOSE c \in Conns :
                 conn[c] = "failed" /\ \A d \in Conns : conn[d] = "failed" => c <= d
    <3>1. openPending = 0 /\ failedOrder # NoOrder  BY <2>1, <2>5 DEF Opens, OpensCounted
    <3>2. failedOrder \in Conns /\ conn[failedOrder] = "failed"
      BY <2>1, <3>1 DEF Opens, FailureKnown, Typed
    <3>3. \A d \in Conns : conn[d] = "failed" => failedOrder <= d
      BY <2>1, <2>3, <3>1 DEF Opens, FailureKnown
    <3>4. \A c \in Conns :
            conn[c] = "failed" /\ (\A d \in Conns : conn[d] = "failed" => c <= d) => c = failedOrder
      BY <2>2, <3>2, <3>3
    <3> QED  BY <3>2, <3>3, <3>4
  <2> QED  BY <2>4, <2>5 DEF InitializedMeansOpen
<1> QED  BY <1>1, InvariantHolds, PTL

\* Nobody is told "database is closed" by a database that is not, and the calls of a
\* connection are answered in the order they were made.
THEOREM AnswersCorrect == ASSUME ~MayPump PROVE Spec => []AnswersAreRight
<1>1. Inv => AnswersAreRight
  <2> SUFFICES ASSUME Inv PROVE AnswersAreRight  OBVIOUS
  <2>1. Numbered /\ OrderKept /\ ClosedByClose /\ Typed  BY DEF Inv, Answering
  <2>2. ASSUME NEW j \in Calls, NEW k \in Calls, j < k, target[j] = target[k],
               outcome[k] \in {"ok", "openError"}
        PROVE  outcome[j] \in {"ok", "openError", "closed", "dropped"}
    <3>1. outcome[j] \notin {"pending", "parked"}  BY <2>1, <2>2 DEF OrderKept
    <3>2. outcome[j] # "none"  BY <2>1, <2>2 DEF Numbered
    <3>3. outcome[j] \in Outcome  BY <2>1 DEF Typed
    <3> QED  BY <3>1, <3>2, <3>3 DEF Outcome, Results
  <2> QED  BY <2>1, <2>2 DEF AnswersAreRight, ClosedByClose
<1> QED  BY <1>1, InvariantHolds, PTL

\* When the instance is freed nothing refers to it any more: no task, no completion, no
\* batch under way, and, unless the looper may call back late, no event.
THEOREM NothingOutlives ==
  ASSUME ~MayPump, ~LateCallbacks PROVE Spec => []NothingOutlivesInstance
<1>1. ASSUME NEW c, NEW b, NEW d \in Seq(Completion), NEW w \in Seq(Task), b \in Seq(Completion),
             Tokens(b, d, w, c) = {}
      PROVE  d = <<>> /\ w = <<>> /\ \A i \in DOMAIN b : b[i].conn # c
  <2>1. Places(b, d, w, c) = {}  BY <1>1 DEF Tokens
  <2>2. Len(b) \in Nat /\ Len(d) \in Nat /\ Len(w) \in Nat  BY <1>1
  <2>3. Len(d) + Len(w) = 0
    <3> SUFFICES ASSUME Len(d) + Len(w) > 0 PROVE FALSE  BY <2>2
    <3>1. Len(b) + 1 \in Places(b, d, w, c)  BY <2>2 DEF Places, Size
    <3> QED  BY <2>1, <3>1
  <2>4. Len(d) = 0 /\ Len(w) = 0  BY <2>2, <2>3
  <2>5. \A i \in DOMAIN b : b[i].conn # c
    <3> SUFFICES ASSUME NEW i \in DOMAIN b, b[i].conn = c PROVE FALSE  OBVIOUS
    <3>1. i \in 1..Len(b)  BY <1>1
    <3>2. i \in Places(b, d, w, c)  BY <2>2, <3>1 DEF Places, Size
    <3> QED  BY <2>1, <3>2
  <2> QED  BY <1>1, <2>4, <2>5
<1>2. Inv => NothingOutlivesInstance
  <2> SUFFICES ASSUME Inv, inst = "freed" PROVE NothingOutlivesInstance!2
    BY DEF NothingOutlivesInstance
  <2>1. Typed /\ Freed /\ Joins /\ Batch \in Seq(Completion)
    BY BatchTyped DEF Inv, Phase, Typed
  <2>2. \A c \in Conns : /\ done[c] = <<>> /\ work[c] = <<>>
                         /\ \A i \in DOMAIN Batch : Batch[i].conn # c
    <3> TAKE c \in Conns
    <3>1. Toks(c) = {} /\ done[c] \in Seq(Completion) /\ work[c] \in Seq(Task)
      BY <2>1 DEF Freed, Typed
    <3> QED  BY <1>1, <2>1, <3>1 DEF Toks
  <2>3. Batch = <<>>
    <3>1. \A i \in DOMAIN Batch : Batch[i].conn \in Conns
      <4>1. \A i \in DOMAIN Batch : Batch[i] \in Completion  BY <2>1
      <4> QED  BY <4>1 DEF Completion
    <3>2. DOMAIN Batch = {}  BY <2>2, <3>1
    <3> QED  BY <2>1, <3>2
  <2>4. \A i \in DOMAIN frames : frames[i].batch = <<>>
    <3>1. CASE frames = <<>>  BY <3>1
    <3>2. CASE Draining
      <4>1. frames = <<Top>> /\ Batch = Top.batch  BY <2>1, <3>2, TopFrame DEF Typed
      <4>2. \A i \in DOMAIN <<Top>> : i = 1 /\ <<Top>>[i] = Top  OBVIOUS
      <4> QED  BY <2>3, <4>1, <4>2
    <3> QED  BY <3>1, <3>2 DEF Draining
  <2>5. responses = {}  BY <2>1 DEF Joins
  <2> QED  BY <2>2, <2>4, <2>5
<1> QED  BY <1>2, InvariantHolds, PTL
=============================================================================
