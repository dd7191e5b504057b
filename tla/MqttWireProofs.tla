---------------------------- MODULE MqttWireProofs ----------------------------
(***************************************************************************)
(* Proofs about MqttWire, for any packets and options within the limits of *)
(* MQTT (WireAssumption), any number of them, cut into pieces of any size. *)
(*                                                                         *)
(* What a packet is as bytes is a function from one position to the next:  *)
(* the digits of a length, the characters of a string, the topics of a     *)
(* request.  Recursion and Descent say of any such function on an interval *)
(* that it exists and that what goes from each position to those after it  *)
(* holds everywhere; everything about lengths, strings and lists rests on  *)
(* them.  For one packet they give: encode() writes as many bytes as it has*)
(* announced (Whole), and what is written is read back, whatever bytes come*)
(* after it and however few of its own are there (Legible, MessageRead).   *)
(*                                                                         *)
(* FramesIntact follows from FramesInv: what is buffered and what is still *)
(* on its way are, together, the packets sent and not handled, end to end; *)
(* and less is buffered than the first of them takes.  Deframe then cuts   *)
(* off the packets that have become whole and nothing else (Framing).  A   *)
(* connection lost in the middle of a packet would leave its bytes in      *)
(* receiveBuffer: without them (~DropAnywhere) the buffer starts empty.    *)
(*                                                                         *)
(* The other two are about one packet of the client (Requested): Served    *)
(* says that a server reads it as it was asked for, kind by kind.          *)
(***************************************************************************)
EXTENDS MqttWire, SequenceTheorems, FiniteSetTheorems, WellFoundedInduction, TLAPS

-----------------------------------------------------------------------------
(* A function on an interval, and the digits of a length.                  *)

\* Numbers have a least.
LEMMA Least ==
  ASSUME NEW T, T \subseteq Nat, T # {}
  PROVE  \E x \in T : \A y \in T : x <= y
<1>1. PICK x \in T : \A y \in T : <<y, x>> \notin OpToRel(<, Nat)
  BY WFMin, NatLessThanWellFounded, Zenon
<1>2. \A y \in T : ~(y < x)  BY <1>1 DEF OpToRel
<1> QED  BY <1>2

\* A function on the numbers from m to n of which each value is given or made of
\* the value at a greater number.
Scheme(m, n, V, stop, base, next, step) ==
  /\ m \in Nat /\ n \in Nat /\ stop \subseteq m..n
  /\ base \in [m..n -> V] /\ next \in [m..n -> Nat] /\ step \in [m..n -> [V -> V]]
  /\ \A i \in m..n : i \in stop \/ next[i] \in (i + 1)..n

Follows(f, m, n, V, stop, base, next, step) ==
  /\ f \in [m..n -> V]
  /\ \A i \in m..n : f[i] = IF i \in stop THEN base[i] ELSE step[i][f[next[i]]]

\* There is such a function.
LEMMA Recursion ==
  ASSUME NEW m, NEW n, NEW V, NEW stop, NEW base, NEW next, NEW step,
         Scheme(m, n, V, stop, base, next, step)
  PROVE  \E f : Follows(f, m, n, V, stop, base, next, step)
<1> USE DEF Scheme, Follows
<1>0. /\ m \in Nat /\ n \in Nat /\ stop \subseteq m..n
      /\ base \in [m..n -> V] /\ next \in [m..n -> Nat] /\ step \in [m..n -> [V -> V]]
      /\ \A i \in (m..n) \ stop : next[i] \in (i + 1)..n
  OBVIOUS
<1> USE <1>0
<1> DEFINE Good(k, f) == /\ f \in [k..n -> V]
                         /\ \A i \in k..n : f[i] = IF i \in stop THEN base[i] ELSE step[i][f[next[i]]]
           T == {d \in Nat : d <= n + 1 - m /\ ~\E f : Good(n + 1 - d, f)}
<1>1. ASSUME m <= n + 1, T # {} PROVE FALSE
  <2>1. PICK d \in T : \A e \in T : d <= e  BY <1>1, Least
  <2> DEFINE k == n + 1 - d
  <2>2. d # 0
    <3> SUFFICES ASSUME d = 0 PROVE FALSE  OBVIOUS
    <3>1. Good(n + 1, [i \in {} |-> base[i]])  OBVIOUS
    <3>2. n + 1 - d = n + 1  OBVIOUS
    <3> HIDE DEF Good
    <3> QED  BY <2>1, <3>1, <3>2
  <2>3. d - 1 \in Nat /\ d - 1 \notin T /\ d - 1 <= n + 1 - m
    <3>1. d \in Nat /\ d <= n + 1 - m  BY <2>1
    <3>2. d - 1 \in Nat /\ ~(d <= d - 1)  BY <2>2, <3>1
    <3>3. d - 1 \notin T
      <4> HIDE DEF T
      <4> QED  BY <2>1, <3>2
    <3>4. d - 1 <= n + 1 - m  BY <3>1
    <3> QED  BY <3>2, <3>3, <3>4
  <2>4. PICK f : Good(k + 1, f)
    <3>1. n + 1 - (d - 1) = k + 1  BY <2>1
    <3> QED  BY <2>3, <3>1
  <2> DEFINE v == IF k \in stop THEN base[k] ELSE step[k][f[next[k]]]
             g == [i \in k..n |-> IF i = k THEN v ELSE f[i]]
  <2>5. k \in m..n  BY <2>1, <2>2, <1>1
  <2>6. v \in V
    <3>1. k \notin stop => next[k] \in (k + 1)..n  BY <2>5
    <3> QED  BY <2>4, <2>5, <3>1
  <2>7. g \in [k..n -> V]  BY <2>4, <2>5, <2>6
  <2>8. ASSUME NEW i \in k..n PROVE g[i] = IF i \in stop THEN base[i] ELSE step[i][g[next[i]]]
    <3>1. i \in m..n /\ (i \notin stop => next[i] \in (i + 1)..n)  BY <2>5
    <3>2. i \notin stop => g[next[i]] = f[next[i]]  BY <2>5, <3>1
    <3>3. CASE i = k  BY <3>2, <3>3
    <3>4. CASE i # k
      <4>1. i \in (k + 1)..n /\ g[i] = f[i]  BY <2>5, <3>4
      <4> QED  BY <2>4, <3>2, <4>1
    <3> QED  BY <3>3, <3>4, Zenon
  <2>9. Good(k, g)  BY <2>7, <2>8, Zenon
  <2> HIDE DEF Good, g
  <2> QED  BY <2>1, <2>9
<1>2. CASE m <= n + 1
  <2>1. n + 1 - m \in Nat /\ n + 1 - (n + 1 - m) = m  BY <1>2
  <2>2. n + 1 - m \notin T  BY <1>1, <1>2
  <2>3. \E f : Good(m, f)  BY <2>1, <2>2, SMTT(30)
  <2> QED  BY <2>3
<1>3. CASE ~(m <= n + 1)
  <2>1. m..n = {}  BY <1>3
  <2> QED  BY <2>1
<1> QED  BY <1>2, <1>3

Digits == [length : Nat, next : Nat]

\* One more digit in front of what is read of the rest.
DigitRead(b, f, p) ==
  CASE p > Len(b) -> Incomplete
    [] p <= Len(b) /\ b[p] < 128 -> [length |-> b[p], next |-> p + 1]
    [] OTHER -> LET rest == f[p + 1] IN
                IF rest = Incomplete THEN rest ELSE [rest EXCEPT !.length = (b[p] % 128) + 128 * @]

\* The loop of decodeMessage over the digits of a length, digit by digit.
LEMMA MBIOf ==
  ASSUME NEW b \in Seq(Bytes), NEW i \in 1..(Len(b) + 1)
  PROVE  \E f : DecodeMBI(b, i) = f[i] /\ \A p \in i..(Len(b) + 1) : f[p] = DigitRead(b, f, p)
<1> DEFINE n == Len(b) + 1
           D == i..n
           stop == {p \in D : p > Len(b) \/ b[p] < 128}
           base == [p \in D |-> IF p > Len(b) THEN Incomplete
                                ELSE [length |-> IF p \in stop THEN b[p] ELSE 0, next |-> p + 1]]
           next == [p \in D |-> p + 1]
           step == [p \in D |-> [rest \in Digits |->
                      IF rest = Incomplete THEN rest
                      ELSE [rest EXCEPT !.length = (IF p \in stop THEN 0 ELSE b[p] % 128) + 128 * @]]]
           from == CHOOSE f : f = [p \in D |-> DigitRead(b, f, p)]
<1>1. Len(b) \in Nat /\ (\A p \in 1..Len(b) : b[p] \in Nat) /\ D \subseteq Nat
  <2>1. Len(b) \in Nat /\ \A p \in 1..Len(b) : b[p] \in Bytes  OBVIOUS
  <2>2. i \in Nat  BY <2>1
  <2>3. D \subseteq Nat  BY <2>1, <2>2
  <2>4. Bytes \subseteq Nat  BY DEF Bytes
  <2> QED  BY <2>1, <2>3, <2>4
<1>2. \A p \in D : p \in Nat /\ (~(p > Len(b)) => p \in 1..Len(b) /\ b[p] \in Nat /\ p + 1 \in D)
  BY <1>1
<1>3. base \in [D -> Digits] /\ next \in [D -> Nat] /\ step \in [D -> [Digits -> Digits]]
  <2>1. base \in [D -> Digits]
    <3> SUFFICES ASSUME NEW p \in D PROVE base[p] \in Digits  OBVIOUS
    <3>1. CASE p > Len(b)  BY <3>1 DEF Incomplete, Digits
    <3>2. CASE ~(p > Len(b))
      <4>1. b[p] \in Nat /\ p + 1 \in Nat  BY <1>2, <3>2
      <4> HIDE DEF stop
      <4> QED  BY <3>2, <4>1 DEF Digits
    <3> QED  BY <3>1, <3>2
  <2>2. next \in [D -> Nat]  BY <1>2
  <2>3. step \in [D -> [Digits -> Digits]]
    <3> SUFFICES ASSUME NEW p \in D, NEW rest \in Digits PROVE step[p][rest] \in Digits  OBVIOUS
    <3>1. (IF p \in stop THEN 0 ELSE b[p] % 128) \in Nat
      <4>1. CASE p \in stop  BY <4>1
      <4>2. CASE p \notin stop
        <5>1. b[p] \in Nat  BY <1>2, <4>2
        <5> QED  BY <4>2, <5>1
      <4> QED  BY <4>1, <4>2
    <3>2. (IF p \in stop THEN 0 ELSE b[p] % 128) + 128 * rest.length \in Nat  BY <3>1 DEF Digits
    <3> HIDE DEF stop
    <3> QED  BY <3>2 DEF Digits
  <2> HIDE DEF stop, base, next, step
  <2> QED  BY <2>1, <2>2, <2>3
<1>4. PICK g : g \in [D -> Digits] /\ \A p \in D : g[p] = IF p \in stop THEN base[p] ELSE step[p][g[next[p]]]
  <2>1. stop \in SUBSET D  OBVIOUS
  <2>2. \A p \in D : p \in stop \/ next[p] \in (p + 1)..n  BY <1>2
  <2>3. i \in Nat /\ n \in Nat  BY <1>1
  <2> HIDE DEF stop, base, next, step, n
  <2>4. Scheme(i, n, Digits, stop, base, next, step)  BY <1>3, <2>1, <2>2, <2>3 DEF Scheme
  <2>5. PICK g : Follows(g, i, n, Digits, stop, base, next, step)  BY <2>4, Recursion
  <2> QED  BY <2>5 DEF Follows
<1>5. ASSUME NEW p \in D PROVE g[p] = DigitRead(b, g, p)
  <2>1. CASE p > Len(b)
    <3>1. p \in stop /\ base[p] = Incomplete  BY <2>1
    <3>2. g[p] = Incomplete  BY <1>4, <3>1
    <3>3. DigitRead(b, g, p) = Incomplete  BY <1>1, <1>2, <2>1 DEF DigitRead
    <3> QED  BY <3>2, <3>3
  <2>2. CASE ~(p > Len(b)) /\ b[p] < 128
    <3>1. p \in stop /\ base[p] = [length |-> b[p], next |-> p + 1]  BY <2>2
    <3>2. g[p] = base[p]  BY <1>4, <3>1
    <3>3. DigitRead(b, g, p) = [length |-> b[p], next |-> p + 1]  BY <1>1, <1>2, <2>2 DEF DigitRead
    <3> QED  BY <3>1, <3>2, <3>3
  <2>3. CASE ~(p > Len(b)) /\ ~(b[p] < 128)
    <3>1. p \notin stop /\ next[p] = p + 1 /\ g[p + 1] \in Digits  BY <1>2, <1>4, <2>3
    <3>2. g[p] = step[p][g[p + 1]]  BY <1>4, <3>1
    <3> QED  BY <1>1, <1>2, <2>3, <3>1, <3>2 DEF DigitRead
  <2> QED  BY <2>1, <2>2, <2>3
<1>6. g = [p \in D |-> DigitRead(b, g, p)]  BY <1>4, <1>5
<1>7. from = [p \in D |-> DigitRead(b, from, p)]  BY <1>6
<1>8. DecodeMBI(b, i) = from[i]  BY DEF DecodeMBI, DigitRead
<1> HIDE DEF from
<1>9. \A p \in D : from[p] = DigitRead(b, from, p)  BY <1>7
<1> QED  BY <1>8, <1>9

\* The digits of a length.
Digit(n, k) == (n \div Weight[k]) % 128

Septets == {d \in Nat : d < 128}

\* The number that the first digits make.
Sums(n, size) ==
  /\ size = 1 => n = Digit(n, 1)
  /\ size = 2 => n - Digit(n, 1) = 128 * Digit(n, 2)
  /\ size = 3 => n - Digit(n, 1) = 128 * (Digit(n, 2) + 128 * Digit(n, 3))
  /\ size = 4 => n - Digit(n, 1) = 128 * (Digit(n, 2) + 128 * (Digit(n, 3) + 128 * Digit(n, 4)))

\* What the digits of a length weigh.
LEMMA Weights ==
  /\ Weight[1] = 1 /\ Weight[2] = 128 /\ Weight[3] = 16384 /\ Weight[4] = 2097152
  /\ Weight[5] = 268435456
BY DEF Weight

\* One digit and what is left.
Carry(x, y, d) == x - 128 * y = d

\* Two digits taken off one after the other.
LEMMA Horner ==
  ASSUME NEW x \in Int, NEW y \in Int, NEW z \in Int, NEW a \in Int, NEW b \in Int,
         Carry(x, y, a), Carry(y, z, b)
  PROVE  x - a = 128 * (b + 128 * z)
BY DEF Carry

\* Dividing by 128 once more takes off the next digit.
LEMMA Carries ==
  ASSUME NEW n \in Nat
  PROVE  /\ Carry(n, n \div 128, n % 128)
         /\ Carry(n \div 128, n \div 16384, (n \div 128) % 128)
         /\ Carry(n \div 16384, n \div 2097152, (n \div 16384) % 128)
BY DEF Carry

\* What is written for a length.
Written(n, E, size) ==
  /\ size \in 1..4 /\ E \in Seq(Bytes) /\ Len(E) = size
  /\ \A k \in 1..size : E[k] = IF k = size THEN Digit(n, k) ELSE Digit(n, k) + 128
  /\ \A k \in 1..4 : Digit(n, k) \in Septets
  /\ Sums(n, size)

\* encodeMBI writes the digits of a length that four can tell.
LEMMA DigitsOf ==
  ASSUME NEW n \in Nat, n < 268435456
  PROVE  \E size : Written(n, EncodeMBI(n), size)
<1> DEFINE P(k) == (~More(n, k) \/ k = 4) /\ \A j \in 1..(k - 1) : More(n, j)
           size == CHOOSE k \in 1..4 : P(k)
<1>1. /\ More(n, 1) <=> n >= 128
      /\ More(n, 2) <=> n >= 16384
      /\ More(n, 3) <=> n >= 2097152
      /\ ~More(n, 4)
  BY Weights DEF More
<1>2. \E k \in 1..4 : P(k)
  <2>1. CASE n < 128  <3>1. P(1) BY <1>1, <2>1 <3> QED BY <3>1
  <2>2. CASE n >= 128 /\ n < 16384  <3>1. P(2) BY <1>1, <2>2 <3> QED BY <3>1
  <2>3. CASE n >= 16384 /\ n < 2097152  <3>1. P(3) BY <1>1, <2>3 <3> QED BY <3>1
  <2>4. CASE n >= 2097152  <3>1. P(4) BY <1>1, <2>4 <3> QED BY <3>1
  <2> QED  BY <2>1, <2>2, <2>3, <2>4
<1>3. size \in 1..4 /\ P(size)
  <2> HIDE DEF P
  <2> QED  BY <1>2
<1>4. EncodeMBI(n) = [k \in 1..size |-> Digit(n, k) + 128 * Flag(More(n, k))]
  BY DEF EncodeMBI, Digit
<1> DEFINE E == EncodeMBI(n)
<1> HIDE DEF size
<1>5. \A k \in 1..4 : Digit(n, k) \in Septets
  <2>1. \A k \in 1..4 : Weight[k] \in Nat \ {0}  BY Weights
  <2> QED  BY <2>1 DEF Digit, Septets
<1>6. \A k \in 1..size : More(n, k) <=> k # size
  <2>1. size \in Nat /\ (size = 4 => ~More(n, size))  BY <1>1, <1>3
  <2> QED  BY <1>3, <2>1
<1>7. \A k \in 1..size : E[k] = IF k = size THEN Digit(n, k) ELSE Digit(n, k) + 128
  <2> SUFFICES ASSUME NEW k \in 1..size
               PROVE  E[k] = IF k = size THEN Digit(n, k) ELSE Digit(n, k) + 128
    OBVIOUS
  <2>1. E[k] = Digit(n, k) + 128 * Flag(More(n, k))  BY <1>4
  <2>2. Digit(n, k) \in Int
    <3>1. k \in 1..4  BY <1>3
    <3> QED  BY <1>5, <3>1 DEF Septets
  <2>3. Flag(More(n, k)) = IF k = size THEN 0 ELSE 1  BY <1>6 DEF Flag
  <2> HIDE DEF E
  <2> QED  BY <2>1, <2>2, <2>3
<1>8. E \in Seq(Bytes) /\ Len(E) = size
  <2>1. \A k \in 1..size : E[k] \in Bytes
    <3> HIDE DEF E
    <3>1. \A k \in 1..size : k \in 1..4  BY <1>3
    <3> QED  BY <1>5, <1>7, <3>1 DEF Bytes, Septets
  <2>2. size \in Nat  BY <1>3
  <2> QED  BY <1>4, <2>1, <2>2
<1>9. Sums(n, size)
  <2>1. /\ Digit(n, 1) = n % 128 /\ Digit(n, 2) = (n \div 128) % 128
        /\ Digit(n, 3) = (n \div 16384) % 128 /\ Digit(n, 4) = (n \div 2097152) % 128
    <3>1. n \div 1 = n  OBVIOUS
    <3> QED  BY <3>1, Weights DEF Digit
  <2>2. CASE size = 1
    <3>1. n < 128  BY <1>1, <1>3, <2>2
    <3>2. Digit(n, 1) = n  BY <2>1, <3>1
    <3> QED  BY <2>2, <3>2 DEF Sums
  <2>3. CASE size = 2
    <3>1. n < 16384  BY <1>1, <1>3, <2>3
    <3>2. n - Digit(n, 1) = 128 * Digit(n, 2)  BY <2>1, <3>1
    <3> QED  BY <2>3, <3>2 DEF Sums
  <2>4. CASE size = 3
    <3>1. n < 2097152  BY <1>1, <1>3, <2>4
    <3>2. Digit(n, 3) = n \div 16384 /\ n \div 16384 \in Int  BY <2>1, <3>1
    <3>3. Carry(n, n \div 128, Digit(n, 1)) /\ Carry(n \div 128, n \div 16384, Digit(n, 2))
      BY <2>1, Carries, SMTT(30)
    <3>4. n \div 128 \in Int /\ Digit(n, 1) \in Int /\ Digit(n, 2) \in Int  BY <2>1
    <3>5. n - Digit(n, 1) = 128 * (Digit(n, 2) + 128 * (n \div 16384))
      <4> DEFINE q == n \div 128
                 r == n \div 16384
      <4>1. q \in Int /\ r \in Int /\ Carry(n, q, Digit(n, 1)) /\ Carry(q, r, Digit(n, 2))
        BY <3>2, <3>3, <3>4
      <4> HIDE DEF q, r
      <4>2. n - Digit(n, 1) = 128 * (Digit(n, 2) + 128 * r)  BY <3>4, <4>1, Horner
      <4> QED  BY <4>2 DEF r
    <3> QED  BY <2>4, <3>2, <3>5 DEF Sums
  <2>5. CASE size = 4
    <3>2. Digit(n, 4) = n \div 2097152 /\ n \div 16384 \in Int /\ n \div 2097152 \in Int  BY <2>1
    <3>3. /\ Carry(n, n \div 128, Digit(n, 1)) /\ Carry(n \div 128, n \div 16384, Digit(n, 2))
          /\ Carry(n \div 16384, n \div 2097152, Digit(n, 3))
      BY <2>1, Carries, SMTT(30)
    <3>4. n \div 128 \in Int /\ Digit(n, 1) \in Int /\ Digit(n, 2) \in Int /\ Digit(n, 3) \in Int
      BY <2>1
    <3>1. n - Digit(n, 1) = 128 * (Digit(n, 2) + 128 * (Digit(n, 3) + 128 * (n \div 2097152)))
      <4> DEFINE q == n \div 128
                 r == n \div 16384
                 t == n \div 2097152
      <4>1. /\ q \in Int /\ r \in Int /\ t \in Int
            /\ Carry(n, q, Digit(n, 1)) /\ Carry(q, r, Digit(n, 2)) /\ Carry(r, t, Digit(n, 3))
        BY <3>2, <3>3, <3>4
      <4> HIDE DEF q, r, t
      <4>2. n - Digit(n, 1) = 128 * (Digit(n, 2) + 128 * r)  BY <3>4, <4>1, Horner
      <4>3. r = Digit(n, 3) + 128 * t  BY <3>4, <4>1 DEF Carry
      <4> QED  BY <4>2, <4>3 DEF t
    <3> QED  BY <2>5, <3>1, <3>2 DEF Sums
  <2> QED  BY <1>3, <2>2, <2>3, <2>4, <2>5
<1>10. Written(n, E, size)
  BY <1>3, <1>5, <1>7, <1>8, <1>9 DEF Written
<1> QED  BY <1>10

\* What b has from i on are the bytes of e, as far as b goes.
Agree(b, i, e) == \A k \in 1..Len(e) : i + k <= Len(b) + 1 => b[i + k - 1] = e[k]

\* The last digit, and one that is followed by others.
Ends(b, p, d)   == b[p] = d
GoesOn(b, p, d) == b[p] = d + 128

\* What is read at p: a length, or nothing yet.
Got(f, p, l, q) == f[p] = [length |-> l, next |-> q]
Lost(f, p) == f[p] = Incomplete

\* What one digit makes of what is read of the rest.
Digitwise(b, i, f) ==
  /\ Lost(f, Len(b) + 1)
  /\ \A p \in i..Len(b), d \in Septets :
       /\ Ends(b, p, d) => Got(f, p, d, p + 1)
       /\ GoesOn(b, p, d) =>
            /\ Lost(f, p + 1) => Lost(f, p)
            /\ \A l \in Nat, q \in Nat \ {0} :
                 Got(f, p + 1, l, q) => Got(f, p, d + 128 * l, q)

\* The same for one digit: it ends the length, or goes on to the next.
LEMMA OneDigit ==
  ASSUME NEW b \in Seq(Bytes), NEW i \in 1..(Len(b) + 1)
  PROVE  \E f : DecodeMBI(b, i) = f[i] /\ Digitwise(b, i, f)
<1>1. PICK f : DecodeMBI(b, i) = f[i] /\ \A p \in i..(Len(b) + 1) : f[p] = DigitRead(b, f, p)
  BY MBIOf
<1>2. Len(b) \in Nat /\ i \in Nat /\ i <= Len(b) + 1
  <2>1. Len(b) \in Nat  OBVIOUS
  <2> QED  BY <2>1
<1>3. Lost(f, Len(b) + 1)
  <2>1. Len(b) + 1 \in i..(Len(b) + 1) /\ Len(b) + 1 > Len(b)  BY <1>2
  <2>2. f[Len(b) + 1] = DigitRead(b, f, Len(b) + 1)  BY <1>1, <2>1
  <2>3. DigitRead(b, f, Len(b) + 1) = Incomplete  BY <2>1 DEF DigitRead
  <2> QED  BY <2>2, <2>3 DEF Lost
<1>4. ASSUME NEW p \in i..Len(b), NEW d \in Septets, b[p] = d PROVE Got(f, p, d, p + 1)
  <2>1. p \in i..(Len(b) + 1) /\ ~(p > Len(b)) /\ p <= Len(b) /\ b[p] < 128  BY <1>2, <1>4 DEF Septets
  <2>2. f[p] = DigitRead(b, f, p)  BY <1>1, <2>1
  <2>3. DigitRead(b, f, p) = [length |-> d, next |-> p + 1]  BY <1>4, <2>1 DEF DigitRead
  <2> QED  BY <2>2, <2>3 DEF Got
<1>5. ASSUME NEW p \in i..Len(b), NEW d \in Septets, b[p] = d + 128
      PROVE  /\ Lost(f, p + 1) => Lost(f, p)
             /\ \A l \in Nat, q \in Nat \ {0} :
                  Got(f, p + 1, l, q) => Got(f, p, d + 128 * l, q)
  <2>1. p \in i..(Len(b) + 1) /\ ~(p > Len(b)) /\ ~(b[p] < 128) /\ b[p] % 128 = d
    BY <1>2, <1>5 DEF Septets
  <2>2. f[p] = DigitRead(b, f, p)  BY <1>1, <2>1
  <2> DEFINE rest == f[p + 1]
  <2>3. DigitRead(b, f, p) = IF rest = Incomplete THEN rest ELSE [rest EXCEPT !.length = d + 128 * @]
    BY <2>1 DEF DigitRead
  <2> HIDE DEF rest
  <2>4. rest = Incomplete => Lost(f, p)  BY <2>2, <2>3 DEF Lost
  <2>5. ASSUME NEW l \in Nat, NEW q \in Nat \ {0}, rest = [length |-> l, next |-> q]
        PROVE  Got(f, p, d + 128 * l, q)
    <3>1. rest # Incomplete  BY <2>5 DEF Incomplete
    <3>2. [rest EXCEPT !.length = d + 128 * @] = [length |-> d + 128 * l, next |-> q]  BY <2>5
    <3> QED  BY <2>2, <2>3, <3>1, <3>2 DEF Got
  <2> QED  BY <2>4, <2>5 DEF rest, Lost, Got
<1>6. Digitwise(b, i, f)  BY <1>3, <1>4, <1>5 DEF Digitwise, Ends, GoesOn
<1> QED  BY <1>1, <1>6

\* A length is read as it was written, if all its digits are there, and is not
\* known before.
LEMMA LengthRead ==
  ASSUME NEW n \in Nat, n < 268435456, NEW b \in Seq(Bytes), NEW i \in 1..(Len(b) + 1),
         Agree(b, i, EncodeMBI(n))
  PROVE  DecodeMBI(b, i) = IF i + Len(EncodeMBI(n)) <= Len(b) + 1
                           THEN [length |-> n, next |-> i + Len(EncodeMBI(n))] ELSE Incomplete
<1>1. PICK size : Written(n, EncodeMBI(n), size)  BY DigitsOf
<1> DEFINE E == EncodeMBI(n)
<1>2. size \in 1..4 /\ Len(E) = size /\ \A k \in 1..4 : Digit(n, k) \in Septets
  BY <1>1 DEF Written
<1>3. \A k \in 1..size : i + k <= Len(b) + 1 => b[i + k - 1] = E[k]  BY <1>2 DEF Agree
<1>4. PICK f : DecodeMBI(b, i) = f[i] /\ Digitwise(b, i, f)  BY OneDigit
<1> HIDE DEF E
<1>5. Len(b) \in Nat /\ i \in Nat \ {0} /\ i <= Len(b) + 1
  <2>1. Len(b) \in Nat  OBVIOUS
  <2> QED  BY <2>1
<1>6. ASSUME NEW k \in 1..size, i + k <= Len(b) + 1
      PROVE  /\ i + k - 1 \in i..Len(b) /\ Digit(n, k) \in Septets
             /\ IF k = size THEN Ends(b, i + k - 1, Digit(n, k)) ELSE GoesOn(b, i + k - 1, Digit(n, k))
  <2>1. k \in 1..4 /\ i + k - 1 \in i..Len(b)  BY <1>2, <1>5, <1>6
  <2>2. Digit(n, k) \in Septets  BY <1>2, <2>1
  <2>3. E[k] = IF k = size THEN Digit(n, k) ELSE Digit(n, k) + 128  BY <1>1 DEF Written, E
  <2>4. b[i + k - 1] = E[k]  BY <1>3, <1>6
  <2> QED  BY <2>1, <2>2, <2>3, <2>4 DEF Ends, GoesOn
<1>7. ASSUME i + size <= Len(b) + 1 PROVE Got(f, i, n, i + size)
  <2> DEFINE q == i + size
  <2>1. Got(f, i + size - 1, Digit(n, size), q)
    <3>1. size \in 1..size /\ i + size - 1 + 1 = q  BY <1>2, <1>5
    <3>2. i + size - 1 \in i..Len(b) /\ Digit(n, size) \in Septets /\ Ends(b, i + size - 1, Digit(n, size))
      BY <1>6, <1>7, <3>1
    <3> QED  BY <1>4, <3>1, <3>2 DEF Digitwise
  <2>2. ASSUME NEW k \in 1..(size - 1), NEW l \in Nat, Got(f, i + k, l, q)
        PROVE  Got(f, i + k - 1, Digit(n, k) + 128 * l, q)
    <3>1. k \in 1..size /\ k # size /\ i + k <= Len(b) + 1 /\ i + k - 1 + 1 = i + k /\ q \in Nat \ {0}
      BY <1>2, <1>5, <1>7
    <3>2. i + k - 1 \in i..Len(b) /\ Digit(n, k) \in Septets /\ GoesOn(b, i + k - 1, Digit(n, k))
      BY <1>6, <3>1
    <3> HIDE DEF q
    <3> QED  BY <1>4, <2>2, <3>1, <3>2 DEF Digitwise
  <2>3. Sums(n, size)  BY <1>1 DEF Written
  <2>4. i + 1 - 1 = i /\ i + 2 - 1 = i + 1 /\ i + 3 - 1 = i + 2 /\ i + 4 - 1 = i + 3  BY <1>5
  <2>5. Digit(n, 1) \in Nat /\ Digit(n, 2) \in Nat /\ Digit(n, 3) \in Nat /\ Digit(n, 4) \in Nat
    <3>1. 1 \in 1..4 /\ 2 \in 1..4 /\ 3 \in 1..4 /\ 4 \in 1..4  OBVIOUS
    <3>2. \A d \in Septets : d \in Nat  BY DEF Septets
    <3> QED  BY <1>2, <3>1, <3>2
  <2> HIDE DEF q
  <2>6. CASE size = 1
    <3>1. n = Digit(n, 1)  BY <2>3, <2>6 DEF Sums
    <3> QED  BY <2>1, <2>4, <2>6, <3>1 DEF q
  <2>7. CASE size = 2
    <3>1. Digit(n, 1) + 128 * Digit(n, 2) = n  BY <2>3, <2>5, <2>7 DEF Sums
    <3>2. Got(f, i + 1, Digit(n, 2), q)  BY <2>1, <2>4, <2>7
    <3>3. Got(f, i, Digit(n, 1) + 128 * Digit(n, 2), q)
      <4>1. 1 \in 1..(size - 1)  BY <2>7
      <4> QED  BY <2>2, <2>4, <2>5, <3>2, <4>1
    <3> QED  BY <3>1, <3>3 DEF q
  <2>8. CASE size = 3
    <3> DEFINE x == Digit(n, 2) + 128 * Digit(n, 3)
    <3>1. Digit(n, 1) + 128 * x = n  BY <2>3, <2>5, <2>8 DEF Sums
    <3>2. Got(f, i + 2, Digit(n, 3), q)  BY <2>1, <2>4, <2>8
    <3>3. Got(f, i + 1, x, q)
      <4>1. 2 \in 1..(size - 1)  BY <2>8
      <4> QED  BY <2>2, <2>4, <2>5, <3>2, <4>1
    <3>4. x \in Nat  BY <2>5
    <3> HIDE DEF x
    <3>5. Got(f, i, Digit(n, 1) + 128 * x, q)
      <4>1. 1 \in 1..(size - 1)  BY <2>8
      <4> QED  BY <2>2, <2>4, <3>3, <3>4, <4>1
    <3> QED  BY <3>1, <3>5 DEF q
  <2>9. CASE size = 4
    <3> DEFINE y == Digit(n, 3) + 128 * Digit(n, 4)
               x == Digit(n, 2) + 128 * y
    <3>1. Digit(n, 1) + 128 * x = n  BY <2>3, <2>5, <2>9 DEF Sums
    <3>2. Got(f, i + 3, Digit(n, 4), q)  BY <2>1, <2>4, <2>9
    <3>3. Got(f, i + 2, y, q)
      <4>1. 3 \in 1..(size - 1)  BY <2>9
      <4> QED  BY <2>2, <2>4, <2>5, <3>2, <4>1
    <3>4. y \in Nat /\ x \in Nat  BY <2>5, SMTT(30)
    <3> HIDE DEF y
    <3>5. Got(f, i + 1, x, q)
      <4>1. 2 \in 1..(size - 1)  BY <2>9
      <4> QED  BY <2>2, <2>4, <3>3, <3>4, <4>1
    <3> HIDE DEF x
    <3>6. Got(f, i, Digit(n, 1) + 128 * x, q)
      <4>1. 1 \in 1..(size - 1)  BY <2>9
      <4> QED  BY <2>2, <2>4, <3>4, <3>5, <4>1
    <3> QED  BY <3>1, <3>6 DEF q
  <2> QED  BY <1>2, <2>6, <2>7, <2>8, <2>9
<1>8. ASSUME ~(i + size <= Len(b) + 1) PROVE Lost(f, i)
  <2>1. ASSUME NEW k \in 1..size, i + k <= Len(b) + 1, Lost(f, i + k) PROVE Lost(f, i + k - 1)
    <3>1. k # size /\ i + k - 1 + 1 = i + k  BY <1>2, <1>5, <1>8, <2>1
    <3>2. i + k - 1 \in i..Len(b) /\ Digit(n, k) \in Septets /\ GoesOn(b, i + k - 1, Digit(n, k))
      BY <1>6, <2>1, <3>1
    <3> QED  BY <1>4, <2>1, <3>1, <3>2 DEF Digitwise
  <2>2. i + 1 - 1 = i /\ i + 2 - 1 = i + 1 /\ i + 3 - 1 = i + 2  BY <1>5
  <2>3. CASE Len(b) + 1 = i  BY <1>4, <2>3 DEF Digitwise
  <2>4. CASE Len(b) + 1 = i + 1
    <3>1. 1 \in 1..size  BY <1>2
    <3> QED  BY <1>4, <1>5, <2>1, <2>2, <2>4, <3>1 DEF Digitwise
  <2>5. CASE Len(b) + 1 = i + 2
    <3>1. 1 \in 1..size /\ 2 \in 1..size /\ i + 1 <= Len(b) + 1 /\ i + 2 <= Len(b) + 1
      BY <1>2, <1>5, <1>8, <2>5
    <3>2. Lost(f, i + 1)  BY <1>4, <2>1, <2>2, <2>5, <3>1 DEF Digitwise
    <3> QED  BY <2>1, <2>2, <3>1, <3>2
  <2>6. CASE Len(b) + 1 = i + 3
    <3>1. /\ 1 \in 1..size /\ 2 \in 1..size /\ 3 \in 1..size
          /\ i + 1 <= Len(b) + 1 /\ i + 2 <= Len(b) + 1 /\ i + 3 <= Len(b) + 1
      BY <1>2, <1>5, <1>8, <2>6
    <3>2. Lost(f, i + 2)  BY <1>4, <2>1, <2>2, <2>6, <3>1 DEF Digitwise
    <3>3. Lost(f, i + 1)  BY <2>1, <2>2, <3>1, <3>2
    <3> QED  BY <2>1, <2>2, <3>1, <3>3
  <2>7. Len(b) + 1 \in {i, i + 1, i + 2, i + 3}  BY <1>2, <1>5, <1>8, SMTT(30)
  <2> QED  BY <2>3, <2>4, <2>5, <2>6, <2>7
<1> QED  BY <1>2, <1>4, <1>7, <1>8 DEF E, Got, Lost

-----------------------------------------------------------------------------
(* From the last to the first.                                             *)

\* Sequences put together, and numbers added up, along a chain of positions.
Chain(m, n, stop, next) ==
  /\ m \in Nat /\ n \in Nat /\ stop \subseteq m..n /\ next \in [m..n -> Nat]
  /\ \A i \in m..n : i \in stop \/ next[i] \in (i + 1)..n

Linked(f, m, n, C, stop, piece, next) ==
  /\ f \in [m..n -> Seq(C)]
  /\ \A i \in m..n : f[i] = IF i \in stop THEN <<>> ELSE piece[i] \o f[next[i]]

Summed(f, m, n, stop, size, next) ==
  /\ f \in [m..n -> Nat]
  /\ \A i \in m..n : f[i] = IF i \in stop THEN 0 ELSE size[i] + f[next[i]]

\* Sequences along a chain can be put together.
LEMMA Linking ==
  ASSUME NEW m, NEW n, NEW C, NEW stop, NEW next, Chain(m, n, stop, next),
         NEW piece \in [m..n -> Seq(C)]
  PROVE  \E f : Linked(f, m, n, C, stop, piece, next)
<1> DEFINE V == Seq(C)
           base == [i \in m..n |-> <<>>]
           step == [i \in m..n |-> [t \in V |-> piece[i] \o t]]
<1>1. base \in [m..n -> V]  OBVIOUS
<1>2. step \in [m..n -> [V -> V]]
  <2>1. ASSUME NEW i \in m..n, NEW t \in V PROVE piece[i] \o t \in V  OBVIOUS
  <2> HIDE DEF V
  <2> QED  BY <2>1
<1>3. ASSUME NEW i \in m..n, NEW t \in V PROVE base[i] = <<>> /\ step[i][t] = piece[i] \o t
  <2> HIDE DEF V
  <2> QED  OBVIOUS
<1> HIDE DEF V, base, step
<1>4. Scheme(m, n, V, stop, base, next, step)  BY <1>1, <1>2 DEF Scheme, Chain
<1>5. PICK f : Follows(f, m, n, V, stop, base, next, step)  BY <1>4, Recursion
<1>6. f \in [m..n -> Seq(C)]  BY <1>5 DEF Follows, V
<1>7. ASSUME NEW i \in m..n PROVE f[i] = IF i \in stop THEN <<>> ELSE piece[i] \o f[next[i]]
  <2>1. CASE i \in stop  BY <1>3, <1>5, <2>1 DEF Follows
  <2>2. CASE i \notin stop
    <3>1. next[i] \in m..n  BY <2>2 DEF Chain
    <3>2. f[next[i]] \in V  BY <1>5, <3>1 DEF Follows
    <3> QED  BY <1>3, <1>5, <2>2, <3>2 DEF Follows
  <2> QED  BY <2>1, <2>2
<1> QED  BY <1>6, <1>7 DEF Linked

\* Numbers along a chain can be added up.
LEMMA Summing ==
  ASSUME NEW m, NEW n, NEW stop, NEW next, Chain(m, n, stop, next),
         NEW size \in [m..n -> Nat]
  PROVE  \E f : Summed(f, m, n, stop, size, next)
<1> DEFINE V == Nat
           base == [i \in m..n |-> 0]
           step == [i \in m..n |-> [t \in V |-> size[i] + t]]
<1>1. base \in [m..n -> V]  OBVIOUS
<1>2. step \in [m..n -> [V -> V]]
  <2>1. ASSUME NEW i \in m..n, NEW t \in V PROVE size[i] + t \in V  OBVIOUS
  <2> HIDE DEF V
  <2> QED  BY <2>1
<1>3. ASSUME NEW i \in m..n, NEW t \in V PROVE base[i] = 0 /\ step[i][t] = size[i] + t
  <2> HIDE DEF V
  <2> QED  OBVIOUS
<1> HIDE DEF V, base, step
<1>4. Scheme(m, n, V, stop, base, next, step)  BY <1>1, <1>2 DEF Scheme, Chain
<1>5. PICK f : Follows(f, m, n, V, stop, base, next, step)  BY <1>4, Recursion
<1>6. f \in [m..n -> Nat]  BY <1>5 DEF Follows, V
<1>7. ASSUME NEW i \in m..n PROVE f[i] = IF i \in stop THEN 0 ELSE size[i] + f[next[i]]
  <2>1. CASE i \in stop  BY <1>3, <1>5, <2>1 DEF Follows
  <2>2. CASE i \notin stop
    <3>1. next[i] \in m..n  BY <2>2 DEF Chain
    <3>2. f[next[i]] \in V  BY <1>5, <3>1 DEF Follows
    <3> QED  BY <1>3, <1>5, <2>2, <3>2 DEF Follows
  <2> QED  BY <2>1, <2>2
<1> QED  BY <1>6, <1>7 DEF Summed

\* What holds of a position if it holds of all those after it.
Descends(n, T) ==
  n \in Nat /\ \A i \in 1..(n + 1) : (\A j \in (i + 1)..(n + 1) : j \in T) => i \in T

\* What holds at a position if it holds at all later ones holds at each.
LEMMA Descent ==
  ASSUME NEW n, NEW T, Descends(n, T)
  PROVE  \A i \in 1..(n + 1) : i \in T
<1>1. n \in Nat  BY DEF Descends
<1> DEFINE D == {d \in Nat : d <= n /\ n + 1 - d \notin T}
<1>2. ASSUME D # {} PROVE FALSE
  <2>1. PICK d \in D : \A e \in D : d <= e  BY <1>2, Least
  <2> DEFINE i == n + 1 - d
  <2>2. d \in Nat /\ d <= n /\ i \notin T /\ i \in 1..(n + 1)  BY <1>1, <2>1
  <2>3. ASSUME NEW j \in (i + 1)..(n + 1), j \notin T PROVE FALSE
    <3>1. n + 1 - j \in Nat /\ n + 1 - j <= n /\ n + 1 - j < d /\ n + 1 - (n + 1 - j) = j
      BY <1>1, <2>2
    <3>2. n + 1 - j \in D  BY <2>3, <3>1
    <3> HIDE DEF D
    <3>3. d <= n + 1 - j  BY <2>1, <3>2
    <3> QED  BY <2>2, <3>1, <3>3
  <2>4. \A j \in (i + 1)..(n + 1) : j \in T  BY <2>3
  <2> HIDE DEF i
  <2> QED  BY <2>2, <2>4 DEF Descends
<1>3. ASSUME NEW i \in 1..(n + 1), i \notin T PROVE FALSE
  <2>1. n + 1 - i \in Nat /\ n + 1 - i <= n /\ n + 1 - (n + 1 - i) = i  BY <1>1
  <2>2. n + 1 - i \in D  BY <1>3, <2>1
  <2> QED  BY <1>2, <2>2
<1> QED  BY <1>3

-----------------------------------------------------------------------------
(* Bytes, words and characters.                                            *)

\* The bytes, in numbers the prover computes with.
LEMMA BytesAre == Bytes = {d \in Nat : d < 256}
BY DEF Bytes

\* The words, in numbers.
LEMMA WordsAre == \A d : d \in Words <=> d \in Nat /\ d < 65536
<1>1. MaxWord \in Nat  BY DEF MaxWord
<1>2. \A d : d \in Words <=> d \in Nat /\ d <= MaxWord  BY <1>1 DEF Words
<1>3. \A d \in Nat : d <= MaxWord <=> d < 65536  BY DEF MaxWord
<1> QED  BY <1>2, <1>3

\* The surrogates, in numbers.
LEMMA Surrogates ==
  /\ \A c : c \in High <=> c \in Nat /\ 55296 <= c /\ c <= 56319
  /\ \A c : c \in Low <=> c \in Nat /\ 56320 <= c /\ c <= 57343
BY WordsAre DEF High, Low

\* The characters of Unicode, and how many bytes one takes.
Characters == {c \in Nat : c < 1114112}
Size(c) == IF c < 128 THEN 1 ELSE IF c < 2048 THEN 2 ELSE IF c < 65536 THEN 3 ELSE 4

\* One byte of a character after the first.
TailBits(x) == 128 + (x % 64)

\* The bytes of a character, by its size.
LEMMA Utf8Cases ==
  ASSUME NEW c \in Characters
  PROVE  Utf8(c) = IF c < 128 THEN <<c>>
                   ELSE IF c < 2048 THEN <<192 + c \div 64, TailBits(c)>>
                   ELSE IF c < 65536 THEN <<224 + c \div 4096, TailBits(c \div 64), TailBits(c)>>
                   ELSE <<240 + c \div 262144, TailBits(c \div 4096), TailBits(c \div 64), TailBits(c)>>
<1>0. c \in Nat  BY DEF Characters
<1>1. CASE c < 128
  <2>1. c <= 127 /\ ~(c > 127) /\ ~(c > 2047) /\ ~(c > 65535)  BY <1>0, <1>1
  <2> QED  BY <1>1, <2>1 DEF Utf8
<1>2. CASE ~(c < 128) /\ c < 2048
  <2>1. ~(c <= 127) /\ c > 127 /\ c <= 2047 /\ ~(c > 2047) /\ ~(c > 65535)  BY <1>0, <1>2
  <2> QED  BY <1>2, <2>1 DEF Utf8, TailBits
<1>3. CASE ~(c < 2048) /\ c < 65536
  <2>1. ~(c <= 127) /\ ~(c <= 2047) /\ c > 2047 /\ c <= 65535 /\ ~(c > 65535) /\ ~(c < 128)
    BY <1>0, <1>3
  <2> QED  BY <1>3, <2>1 DEF Utf8, TailBits
<1>4. CASE ~(c < 65536)
  <2>1. ~(c <= 127) /\ ~(c <= 2047) /\ ~(c <= 65535) /\ c > 65535 /\ ~(c < 128) /\ ~(c < 2048)
    BY <1>0, <1>4
  <2> QED  BY <1>4, <2>1 DEF Utf8, TailBits
<1> QED  BY <1>1, <1>2, <1>3, <1>4, <1>0

\* A character takes as many bytes as its size.
LEMMA Utf8Bytes ==
  ASSUME NEW c \in Characters
  PROVE  Utf8(c) \in Seq(Bytes) /\ Len(Utf8(c)) = Size(c)
<1>0. c \in Nat /\ c < 1114112  BY DEF Characters
<1>1. \A d \in Nat : d < 256 => d \in Bytes  BY BytesAre
<1>2. \A x \in Nat : TailBits(x) \in Bytes
  <2>1. \A x \in Nat : TailBits(x) \in Nat /\ TailBits(x) < 256  BY DEF TailBits
  <2> QED  BY <1>1, <2>1
<1>3. c \div 4096 \in Nat /\ c \div 64 \in Nat  BY <1>0
<1>4. CASE c < 128
  <2>1. c \in Bytes  BY <1>0, <1>1, <1>4
  <2>2. Utf8(c) = <<c>> /\ Size(c) = 1  BY <1>4, Utf8Cases DEF Size
  <2> QED  BY <2>1, <2>2
<1>5. CASE ~(c < 128) /\ c < 2048
  <2>1. 192 + c \div 64 \in Nat /\ 192 + c \div 64 < 256  BY <1>0, <1>5
  <2>2. 192 + c \div 64 \in Bytes  BY <1>1, <2>1
  <2>3. TailBits(c) \in Bytes  BY <1>0, <1>2
  <2>4. Utf8(c) = <<192 + c \div 64, TailBits(c)>>  BY <1>5, Utf8Cases
  <2> QED  BY <1>5, <2>2, <2>3, <2>4 DEF Size
<1>6. CASE ~(c < 2048) /\ c < 65536
  <2>1. 224 + c \div 4096 \in Nat /\ 224 + c \div 4096 < 256  BY <1>0, <1>6
  <2>2. 224 + c \div 4096 \in Bytes  BY <1>1, <2>1
  <2>3. TailBits(c) \in Bytes /\ TailBits(c \div 64) \in Bytes  BY <1>0, <1>2, <1>3
  <2>5. ~(c < 128)  BY <1>0, <1>6
  <2>4. Utf8(c) = <<224 + c \div 4096, TailBits(c \div 64), TailBits(c)>>  BY <1>6, <2>5, Utf8Cases
  <2> QED  BY <1>6, <2>2, <2>3, <2>4, <2>5 DEF Size
<1>7. CASE ~(c < 65536)
  <2>1. 240 + c \div 262144 \in Nat /\ 240 + c \div 262144 < 256  BY <1>0, <1>7
  <2>2. 240 + c \div 262144 \in Bytes  BY <1>1, <2>1
  <2>3. TailBits(c) \in Bytes /\ TailBits(c \div 64) \in Bytes /\ TailBits(c \div 4096) \in Bytes
    BY <1>0, <1>2, <1>3
  <2>5. ~(c < 128) /\ ~(c < 2048)  BY <1>0, <1>7
  <2>4. Utf8(c) = <<240 + c \div 262144, TailBits(c \div 4096), TailBits(c \div 64), TailBits(c)>>
    BY <1>7, <2>5, Utf8Cases
  <2> QED  BY <1>7, <2>2, <2>3, <2>4, <2>5 DEF Size
<1> QED  BY <1>4, <1>5, <1>6, <1>7

\* What a well-formed string has at i.
LEMMA CharAt ==
  ASSUME NEW s \in Seq(Words), WellFormed(s), NEW i \in 1..Len(s)
  PROVE  /\ Char(s, i) \in Characters /\ Skip(s, i) \in (i + 1)..(Len(s) + 1)
         /\ s[i] \in Nat /\ s[i] < 65536
         /\ s[i] \in High => /\ i + 1 \in 1..Len(s) /\ s[i + 1] \in Low
                             /\ Size(Char(s, i)) = 4
<1>1. Len(s) \in Nat /\ s[i] \in Words /\ DOMAIN s = 1..Len(s)  OBVIOUS
<1>2. s[i] \in Nat /\ s[i] < 65536  BY <1>1, WordsAre
<1>3. s[i] \in High => i + 1 \in 1..Len(s) /\ s[i + 1] \in Low
  <2>1. s[i] \in High => i < Len(s) /\ s[i + 1] \in Low  BY <1>1 DEF WellFormed
  <2>2. i < Len(s) => i + 1 \in 1..Len(s)  BY <1>1
  <2> QED  BY <2>1, <2>2
<1>4. CASE s[i] \in High
  <2> DEFINE x == s[i]  y == s[i + 1]
  <2>1. x \in Nat /\ 55296 <= x /\ x <= 56319 /\ y \in Nat /\ 56320 <= y /\ y <= 57343
    BY <1>3, <1>4, Surrogates
  <2>2. Char(s, i) = 1024 * (x - 55296) + (y - 56320) + 65536 /\ Skip(s, i) = i + 2
    <3>1. Char(s, i) = Joined(x, y) /\ Skip(s, i) = i + 2  BY <1>4, Zenon DEF Char, Skip
    <3> QED  BY <3>1 DEF Joined
  <2> HIDE DEF x, y
  <2> DEFINE c == 1024 * (x - 55296) + (y - 56320) + 65536
  <2>3. c \in Nat /\ c < 1114112 /\ ~(c < 65536)  BY <2>1
  <2>4. c \in Characters /\ Size(c) = 4
    <3> HIDE DEF c
    <3> QED  BY <2>3 DEF Characters, Size
  <2> QED  BY <1>1, <1>2, <1>3, <1>4, <2>2, <2>4
<1>5. CASE s[i] \notin High
  <2>1. Char(s, i) = s[i] /\ Skip(s, i) = i + 1  BY <1>5 DEF Char, Skip
  <2>2. s[i] \in Characters  BY <1>2 DEF Characters
  <2>3. i + 1 \in (i + 1)..(Len(s) + 1)  BY <1>1
  <2> QED  BY <1>2, <1>5, <2>1, <2>2, <2>3
<1> QED  BY <1>4, <1>5

\* What is written of a string from each position on, and how long it is counted.
WrittenUtf8(s, f, l) ==
  /\ f \in [1..(Len(s) + 1) -> Seq(Bytes)] /\ l \in [1..(Len(s) + 1) -> Nat]
  /\ f[Len(s) + 1] = <<>> /\ l[Len(s) + 1] = 0
  /\ \A i \in 1..Len(s) : /\ f[i] = Utf8(Char(s, i)) \o f[Skip(s, i)]
                          /\ l[i] = Size(Char(s, i)) + l[Skip(s, i)]

WriteStep(s, f, i) ==
  IF i > Len(s) THEN <<>> ELSE Utf8(Char(s, i)) \o f[Skip(s, i)]

CountStep(s, f, i) ==
  CASE i > Len(s) -> 0
    [] i <= Len(s) /\ s[i] \in High -> 4 + f[i + 2]
    [] OTHER -> (CASE s[i] > 2047 -> 3 [] s[i] > 127 /\ s[i] <= 2047 -> 2 [] s[i] <= 127 -> 1)
                  + f[i + 1]

\* UTF8Length counts at each place what the character there takes.
LEMMA CountAt ==
  ASSUME NEW s \in Seq(Words), WellFormed(s), NEW i \in 1..Len(s), NEW f
  PROVE  CountStep(s, f, i) = Size(Char(s, i)) + f[Skip(s, i)]
<1>1. /\ s[i] \in Nat /\ s[i] < 65536
      /\ s[i] \in High => Size(Char(s, i)) = 4
  BY CharAt
<1>2. Len(s) \in Nat  OBVIOUS
<1>3. i <= Len(s) /\ ~(i > Len(s))  BY <1>2
<1>4. CASE s[i] \in High
  <2>1. CountStep(s, f, i) = 4 + f[i + 2]  BY <1>3, <1>4, Zenon DEF CountStep
  <2>2. Skip(s, i) = i + 2  BY <1>4, Zenon DEF Skip
  <2>3. Size(Char(s, i)) = 4  BY <1>1, <1>4
  <2> QED  BY <2>1, <2>2, <2>3, Zenon
<1>5. CASE s[i] \notin High
  <2>1. Char(s, i) = s[i] /\ Skip(s, i) = i + 1  BY <1>5 DEF Char, Skip
  <2> DEFINE k == CASE s[i] > 2047 -> 3 [] s[i] > 127 /\ s[i] <= 2047 -> 2 [] s[i] <= 127 -> 1
  <2>2. k = Size(s[i])
    <3> DEFINE u == s[i]
    <3>1. u \in Nat /\ u < 65536  BY <1>1
    <3> HIDE DEF u
    <3>2. (CASE u > 2047 -> 3 [] u > 127 /\ u <= 2047 -> 2 [] u <= 127 -> 1) = Size(u)
      BY <3>1 DEF Size
    <3> QED  BY <3>2, Zenon DEF u
  <2>3. CountStep(s, f, i) = k + f[i + 1]  BY <1>3, <1>5, Zenon DEF CountStep
  <2> HIDE DEF k
  <2> QED  BY <2>1, <2>2, <2>3
<1> QED  BY <1>4, <1>5

\* stringToUTF8 and UTF8Length go through a string in the same steps.
LEMMA StepsAt ==
  ASSUME NEW s \in Seq(Words), WellFormed(s), NEW i \in 1..Len(s), NEW f
  PROVE  /\ WriteStep(s, f, i) = Utf8(Char(s, i)) \o f[Skip(s, i)]
         /\ CountStep(s, f, i) = Size(Char(s, i)) + f[Skip(s, i)]
<1>1. ~(i > Len(s))  OBVIOUS
<1>2. WriteStep(s, f, i) = Utf8(Char(s, i)) \o f[Skip(s, i)]  BY <1>1, Zenon DEF WriteStep
<1> QED  BY <1>2, CountAt

\* Both, as functions on the places of a string.
LEMMA TextWritten ==
  ASSUME NEW s \in Seq(Words), WellFormed(s)
  PROVE  \E f, l : /\ StringToUTF8(s) = f[1] /\ UTF8Length(s) = l[1] /\ WrittenUtf8(s, f, l)
<1> DEFINE n == Len(s) + 1
           D == 1..n
           stop == {n}
           next == [i \in D |-> IF i = n THEN 0 ELSE Skip(s, i)]
           piece == [i \in D |-> IF i = n THEN <<>> ELSE Utf8(Char(s, i))]
           size == [i \in D |-> IF i = n THEN 0 ELSE Size(Char(s, i))]
<1>1. Len(s) \in Nat /\ n \in D /\ (\A i \in D : i = n \/ i \in 1..Len(s)) /\ (\A i \in 1..Len(s) : i \in D /\ i # n)
  <2>1. Len(s) \in Nat  OBVIOUS
  <2> QED  BY <2>1
<1>2. \A i \in 1..Len(s) : /\ Skip(s, i) \in (i + 1)..n /\ Skip(s, i) \in Nat /\ Skip(s, i) \in D
                           /\ Utf8(Char(s, i)) \in Seq(Bytes) /\ Size(Char(s, i)) \in Nat
  <2> SUFFICES ASSUME NEW i \in 1..Len(s)
               PROVE  /\ Skip(s, i) \in (i + 1)..n /\ Skip(s, i) \in Nat /\ Skip(s, i) \in D
                      /\ Utf8(Char(s, i)) \in Seq(Bytes) /\ Size(Char(s, i)) \in Nat
    OBVIOUS
  <2>1. Char(s, i) \in Characters /\ Skip(s, i) \in (i + 1)..n  BY CharAt
  <2>2. \A x \in (i + 1)..n : x \in Nat /\ x \in D  BY <1>1
  <2>3. Size(Char(s, i)) \in Nat  BY DEF Size
  <2> QED  BY <2>1, <2>2, <2>3, Utf8Bytes
<1>3. Chain(1, n, stop, next)
  <2>1. next \in [D -> Nat]  BY <1>1, <1>2
  <2>2. \A i \in D : i \in stop \/ next[i] \in (i + 1)..n  BY <1>1, <1>2
  <2>3. stop \subseteq D /\ n \in Nat  BY <1>1
  <2> HIDE DEF next, stop, n
  <2> QED  BY <2>1, <2>2, <2>3 DEF Chain
<1>4. piece \in [D -> Seq(Bytes)]  BY <1>1, <1>2
<1>5. size \in [D -> Nat]  BY <1>1, <1>2
<1>6. PICK f : Linked(f, 1, n, Bytes, stop, piece, next)
  <2> HIDE DEF stop, piece, next, n
  <2> QED  BY <1>3, <1>4, Linking
<1>7. PICK l : Summed(l, 1, n, stop, size, next)
  <2> HIDE DEF stop, size, next, n
  <2> QED  BY <1>3, <1>5, Summing
<1>8. WrittenUtf8(s, f, l)
  <2>1. f \in [D -> Seq(Bytes)] /\ l \in [D -> Nat]  BY <1>6, <1>7 DEF Linked, Summed
  <2>2. f[n] = <<>> /\ l[n] = 0  BY <1>1, <1>6, <1>7 DEF Linked, Summed
  <2>3. ASSUME NEW i \in 1..Len(s)
        PROVE  /\ f[i] = Utf8(Char(s, i)) \o f[Skip(s, i)]
               /\ l[i] = Size(Char(s, i)) + l[Skip(s, i)]
    <3>1. i \in D /\ i \notin stop /\ next[i] = Skip(s, i) /\ piece[i] = Utf8(Char(s, i)) /\ size[i] = Size(Char(s, i))
      BY <1>1
    <3> HIDE DEF stop, next, piece, size
    <3> QED  BY <1>6, <1>7, <3>1 DEF Linked, Summed
  <2> QED  BY <2>1, <2>2, <2>3 DEF WrittenUtf8
<1>9. ASSUME NEW i \in D PROVE f[i] = WriteStep(s, f, i) /\ l[i] = CountStep(s, l, i)
  <2>1. CASE i = n
    <3>1. i > Len(s)  BY <1>1, <2>1
    <3> QED  BY <1>8, <2>1, <3>1 DEF WrittenUtf8, WriteStep, CountStep
  <2>2. CASE i \in 1..Len(s)  BY <1>8, <2>2, StepsAt DEF WrittenUtf8
  <2> QED  BY <1>1, <2>1, <2>2
<1> DEFINE F == CHOOSE g : g = [i \in D |-> WriteStep(s, g, i)]
           L == CHOOSE g : g = [i \in D |-> CountStep(s, g, i)]
<1>10. F = [i \in D |-> WriteStep(s, F, i)]
  <2>1. f = [i \in D |-> WriteStep(s, f, i)]  BY <1>8, <1>9 DEF WrittenUtf8
  <2> QED  BY <2>1
<1>11. L = [i \in D |-> CountStep(s, L, i)]
  <2>1. l = [i \in D |-> CountStep(s, l, i)]  BY <1>8, <1>9 DEF WrittenUtf8
  <2> QED  BY <2>1
<1>12. StringToUTF8(s) = F[1] /\ UTF8Length(s) = L[1]
  <2>1. StringToUTF8(s) = F[1]  BY DEF StringToUTF8, WriteStep
  <2>2. UTF8Length(s) = L[1]  BY DEF UTF8Length, CountStep
  <2> QED  BY <2>1, <2>2
<1> HIDE DEF F, L
<1> DEFINE T == {i \in D : F[i] \in Seq(Bytes) /\ L[i] \in Nat}
<1>13. Descends(Len(s), T)
  <2> SUFFICES ASSUME NEW i \in D, \A j \in (i + 1)..n : j \in T PROVE i \in T
    BY <1>1 DEF Descends
  <2>1. F[i] = WriteStep(s, F, i) /\ L[i] = CountStep(s, L, i)
    <3> HIDE DEF D
    <3> QED  BY <1>10, <1>11
  <2>2. CASE i = n
    <3>1. i > Len(s)  BY <1>1, <2>2
    <3>2. WriteStep(s, F, i) = <<>> /\ CountStep(s, L, i) = 0  BY <3>1 DEF WriteStep, CountStep
    <3>3. <<>> \in Seq(Bytes) /\ 0 \in Nat  OBVIOUS
    <3>4. F[i] \in Seq(Bytes) /\ L[i] \in Nat  BY <2>1, <3>2, <3>3, Zenon
    <3> QED  BY <3>4, Zenon
  <2>3. CASE i \in 1..Len(s)
    <3>1. /\ F[i] = Utf8(Char(s, i)) \o F[Skip(s, i)]
          /\ L[i] = Size(Char(s, i)) + L[Skip(s, i)]
      BY <2>1, <2>3, StepsAt
    <3>2. F[Skip(s, i)] \in Seq(Bytes) /\ L[Skip(s, i)] \in Nat  BY <1>2, <2>3
    <3> DEFINE u == Utf8(Char(s, i))  x == F[Skip(s, i)]  k == Size(Char(s, i))  y == L[Skip(s, i)]
    <3>3. u \in Seq(Bytes) /\ k \in Nat  BY <1>2, <2>3
    <3>4. u \o x \in Seq(Bytes) /\ k + y \in Nat
      <4> HIDE DEF u, x, k, y
      <4>1. x \in Seq(Bytes) /\ y \in Nat  BY <3>2 DEF x, y
      <4> QED  BY <3>3, <4>1
    <3>5. F[i] \in Seq(Bytes) /\ L[i] \in Nat  BY <3>1, <3>4, Zenon
    <3> QED  BY <3>5, Zenon
  <2> QED  BY <1>1, <2>2, <2>3
<1>14. \A i \in D : F[i] \in Seq(Bytes) /\ L[i] \in Nat
  <2>1. \A i \in 1..(Len(s) + 1) : i \in T
    <3> HIDE DEF T
    <3> QED  BY <1>13, Descent
  <2> QED  BY <2>1
<1>15. WrittenUtf8(s, F, L)
  <2>1. F \in [D -> Seq(Bytes)] /\ L \in [D -> Nat]
    <3> HIDE DEF D
    <3> QED  BY <1>10, <1>11, <1>14
  <2>2. F[n] = <<>> /\ L[n] = 0
    <3>1. F[n] = WriteStep(s, F, n) /\ L[n] = CountStep(s, L, n)  BY <1>1, <1>10, <1>11
    <3>2. n > Len(s)  BY <1>1
    <3> QED  BY <3>1, <3>2 DEF WriteStep, CountStep
  <2>3. ASSUME NEW i \in 1..Len(s)
        PROVE  /\ F[i] = Utf8(Char(s, i)) \o F[Skip(s, i)]
               /\ L[i] = Size(Char(s, i)) + L[Skip(s, i)]
    <3>1. F[i] = WriteStep(s, F, i) /\ L[i] = CountStep(s, L, i)  BY <1>1, <1>10, <1>11
    <3> QED  BY <3>1, StepsAt
  <2> QED  BY <2>1, <2>2, <2>3 DEF WrittenUtf8
<1> QED  BY <1>12, <1>15

ParseStep(b, g, end, p) ==
  IF p >= end \/ b[p] > 247 THEN <<>> ELSE Character(b, p) \o g[p + Width(b, p)]

\* What each position gives.
Parsed(b, i, end, g) == \A p \in i..(end + 3) : g[p] = ParseStep(b, g, end, p)

\* A character that is read has one to four bytes.
LEMMA Widths ==
  ASSUME NEW b, NEW p
  PROVE  Width(b, p) \in 1..4
BY DEF Width

\* A character becomes one unit or two.
LEMMA UnitsOf ==
  ASSUME NEW c
  PROVE  (\E x : Units(c) = <<x>>) \/ \E x, y : Units(c) = <<x, y>>
BY DEF Units

\* So does one that is read.
LEMMA CharacterOf ==
  ASSUME NEW b, NEW p
  PROVE  (\E x : Character(b, p) = <<x>>) \/ \E x, y : Character(b, p) = <<x, y>>
<1> DEFINE two == 64 * (b[p] - 192) + (b[p + 1] - 128)
           three == 4096 * (b[p] - 224) + 64 * (b[p + 1] - 128) + (b[p + 2] - 128)
           four == 262144 * (b[p] - 240) + 4096 * (b[p + 1] - 128) + 64 * (b[p + 2] - 128) + (b[p + 3] - 128)
<1>1. Character(b, p) \in {<<b[p]>>, <<two>>, <<three>>, Units(four)}
  BY DEF Character
<1> HIDE DEF two, three, four
<1>2. (\E x : Units(four) = <<x>>) \/ \E x, y : Units(four) = <<x, y>>  BY UnitsOf
<1> QED  BY <1>1, <1>2

\* parseUTF8, as a function on the places it goes through.
LEMMA ParseOf ==
  ASSUME NEW b \in Seq(Bytes), NEW i \in Nat \ {0}, NEW len \in Nat, i + len <= Len(b) + 1
  PROVE  \E g : ParseUTF8(b, i, len) = g[i] /\ Parsed(b, i, i + len, g)
<1> DEFINE end == i + len
           n == end + 3
           D == i..n
           C == {Character(b, p)[k] : p \in D, k \in {1, 2}}
           stop == {p \in D : p >= end \/ b[p] > 247}
           next == [p \in D |-> IF p \in stop THEN 0 ELSE p + Width(b, p)]
           piece == [p \in D |-> IF p \in stop THEN <<>> ELSE Character(b, p)]
<1>1. end \in Nat /\ n \in Nat /\ \A p \in D : p \in Nat
  <2>1. Len(b) \in Nat  OBVIOUS
  <2> QED  BY <2>1
<1>2. \A p \in D : Width(b, p) \in 1..4  BY Widths
<1>3. \A p \in D : p \in stop \/ p + Width(b, p) \in (p + 1)..n
  <2> SUFFICES ASSUME NEW p \in D, p < end PROVE p + Width(b, p) \in (p + 1)..n
    BY <1>1
  <2> QED  BY <1>1, <1>2
<1>4. Chain(i, n, stop, next)
  <2>1. next \in [D -> Nat]
    <3>1. \A p \in D : p \in stop \/ p + Width(b, p) \in Nat  BY <1>1, <1>2
    <3> HIDE DEF stop, D
    <3> QED  BY <3>1
  <2>2. \A p \in D : p \in stop \/ next[p] \in (p + 1)..n  BY <1>3
  <2>3. stop \subseteq D  OBVIOUS
  <2> HIDE DEF next, stop, n
  <2> QED  BY <1>1, <2>1, <2>2, <2>3 DEF Chain
<1>5. piece \in [D -> Seq(C)]
  <2> SUFFICES ASSUME NEW p \in D PROVE Character(b, p) \in Seq(C)
    <3> HIDE DEF C, D, stop
    <3> QED  OBVIOUS
  <2>1. (\E x : Character(b, p) = <<x>>) \/ \E x, y : Character(b, p) = <<x, y>>
    BY CharacterOf
  <2>2. Character(b, p)[1] \in C /\ Character(b, p)[2] \in C  OBVIOUS
  <2> HIDE DEF C
  <2>3. ASSUME NEW x, Character(b, p) = <<x>> PROVE Character(b, p) \in Seq(C)
    <3>1. x \in C  BY <2>2, <2>3
    <3> QED  BY <2>3, <3>1
  <2>4. ASSUME NEW x, NEW y, Character(b, p) = <<x, y>> PROVE Character(b, p) \in Seq(C)
    <3>1. x \in C /\ y \in C  BY <2>2, <2>4
    <3> QED  BY <2>4, <3>1
  <2> QED  BY <2>1, <2>3, <2>4
<1>6. PICK g : Linked(g, i, n, C, stop, piece, next)
  <2> HIDE DEF stop, piece, next, n, C
  <2> QED  BY <1>4, <1>5, Linking
<1>7. g \in [D -> Seq(C)]
  <2> HIDE DEF stop, piece, next, C
  <2> QED  BY <1>6 DEF Linked
<1>8. ASSUME NEW p \in D PROVE g[p] = ParseStep(b, g, end, p)
  <2>1. p \in stop <=> (p >= end \/ b[p] > 247)  OBVIOUS
  <2>2. g[p] = IF p \in stop THEN <<>> ELSE piece[p] \o g[next[p]]
    <3> HIDE DEF stop, piece, next, C
    <3> QED  BY <1>6 DEF Linked
  <2>3. p \notin stop => piece[p] = Character(b, p) /\ next[p] = p + Width(b, p)
    <3> HIDE DEF stop
    <3> QED  OBVIOUS
  <2> HIDE DEF stop, piece, next, C
  <2> QED  BY <2>1, <2>2, <2>3 DEF ParseStep
<1> DEFINE G == CHOOSE h : h = [p \in D |-> ParseStep(b, h, end, p)]
<1>10. G = [p \in D |-> ParseStep(b, G, end, p)]
  <2>1. g = [p \in D |-> ParseStep(b, g, end, p)]
    <3> HIDE DEF D, C
    <3> QED  BY <1>7, <1>8
  <2> QED  BY <2>1
<1>11. ParseUTF8(b, i, len) = G[i]  BY DEF ParseUTF8, ParseStep
<1> HIDE DEF G
<1>12. ASSUME NEW p \in D PROVE  G[p] = ParseStep(b, G, end, p)
  <2> HIDE DEF D
  <2> QED  BY <1>10
<1> QED  BY <1>11, <1>12 DEF Parsed

\* A character is put together of what its bytes hold.
LEMMA SixBits ==
  ASSUME NEW c \in Nat
  PROVE  /\ 64 * (c \div 64) + (c % 64) = c
         /\ 4096 * (c \div 4096) + 64 * ((c \div 64) % 64) + (c % 64) = c
         /\ 262144 * (c \div 262144) + 4096 * ((c \div 4096) % 64) + 64 * ((c \div 64) % 64) + (c % 64) = c
<1>1. 64 * (c \div 64) + (c % 64) = c  OBVIOUS
<1>2. 4096 * (c \div 4096) + 64 * ((c \div 64) % 64) + (c % 64) = c  OBVIOUS
<1>3. 262144 * (c \div 262144) + 4096 * ((c \div 4096) % 64) + 64 * ((c \div 64) % 64) + (c % 64) = c  OBVIOUS
<1> QED  BY <1>1, <1>2, <1>3

\* The six bits that a byte after the first holds.
LEMMA TailOf ==
  ASSUME NEW x \in Nat
  PROVE  TailBits(x) - 128 = x % 64
BY DEF TailBits

\* A character is read as it was written.
LEMMA CharRead ==
  ASSUME NEW b, NEW p \in Nat, NEW c \in Characters,
         \A k \in 1..Size(c) : b[p + k - 1] = Utf8(c)[k]
  PROVE  /\ b[p] <= 247 /\ b[p] \in Nat
         /\ Character(b, p) = Units(c) /\ Width(b, p) = Size(c)
<1>0. c \in Nat /\ c < 1114112 /\ c \div 64 \in Nat /\ c \div 4096 \in Nat /\ c \div 262144 \in Nat
  BY DEF Characters
<1>00. p + 1 - 1 = p /\ p + 2 - 1 = p + 1 /\ p + 3 - 1 = p + 2 /\ p + 4 - 1 = p + 3  OBVIOUS
<1>1. CASE c < 128
  <2>1. Size(c) = 1 /\ Utf8(c) = <<c>>  BY <1>1, Utf8Cases DEF Size
  <2>2. b[p] = c  BY <1>00, <2>1
  <2>3. ~(c > 65535)  BY <1>0, <1>1
  <2>4. Units(c) = <<c>>  BY <2>3 DEF Units
  <2>5. Width(b, p) = 1 /\ Character(b, p) = <<b[p]>>
    <3>1. b[p] < 128 /\ ~(128 <= b[p]) /\ ~(224 <= b[p])  BY <1>0, <1>1, <2>2
    <3> QED  BY <3>1 DEF Width, Character
  <2> QED  BY <1>0, <1>1, <2>1, <2>2, <2>4, <2>5
<1>2. CASE ~(c < 128) /\ c < 2048
  <2>1. Size(c) = 2 /\ Utf8(c) = <<192 + c \div 64, TailBits(c)>>  BY <1>2, Utf8Cases DEF Size
  <2>2. b[p] = 192 + c \div 64 /\ b[p + 1] = TailBits(c)
    <3>1. 1 \in 1..Size(c) /\ 2 \in 1..Size(c)  BY <2>1
    <3> QED  BY <1>00, <2>1, <3>1
  <2>3. ~(c > 65535)  BY <1>0, <1>2
  <2>4. Units(c) = <<c>>  BY <2>3 DEF Units
  <2>6. b[p] \in Nat /\ b[p] <= 247 /\ ~(b[p] < 128) /\ 128 <= b[p] /\ b[p] < 224 /\ ~(224 <= b[p])
    BY <1>0, <1>2, <2>2
  <2>5. Width(b, p) = 2 /\ Character(b, p) = <<64 * (b[p] - 192) + (b[p + 1] - 128)>>
    BY <2>6 DEF Width, Character
  <2>7. b[p] - 192 = c \div 64 /\ b[p + 1] - 128 = c % 64  BY <1>0, <2>2, TailOf
  <2>8. 64 * (c \div 64) + (c % 64) = c  BY <1>0, SixBits
  <2>9. Character(b, p) = <<c>>
    <3>1. Character(b, p) = <<64 * (c \div 64) + (c % 64)>>  BY <2>5, <2>7, Zenon
    <3> QED  BY <2>8, <3>1, Zenon
  <2>10. Width(b, p) = Size(c)  BY <2>1, <2>5, Zenon
  <2> QED  BY <2>4, <2>6, <2>9, <2>10
<1>3. CASE ~(c < 2048) /\ c < 65536
  <2>0. ~(c < 128)  BY <1>0, <1>3
  <2>1. Size(c) = 3 /\ Utf8(c) = <<224 + c \div 4096, TailBits(c \div 64), TailBits(c)>>
    BY <1>3, <2>0, Utf8Cases DEF Size
  <2>2. b[p] = 224 + c \div 4096 /\ b[p + 1] = TailBits(c \div 64) /\ b[p + 2] = TailBits(c)
    <3>1. 1 \in 1..Size(c) /\ 2 \in 1..Size(c) /\ 3 \in 1..Size(c)  BY <2>1
    <3> QED  BY <1>00, <2>1, <3>1
  <2>3. ~(c > 65535)  BY <1>0, <1>3
  <2>4. Units(c) = <<c>>  BY <2>3 DEF Units
  <2>6. b[p] \in Nat /\ b[p] <= 247 /\ ~(b[p] < 128) /\ ~(b[p] < 224) /\ 224 <= b[p] /\ b[p] < 240
    BY <1>0, <1>3, <2>2
  <2>5. Width(b, p) = 3 /\ Character(b, p) = <<4096 * (b[p] - 224) + 64 * (b[p + 1] - 128) + (b[p + 2] - 128)>>
    BY <2>6 DEF Width, Character
  <2>7. b[p] - 224 = c \div 4096 /\ b[p + 1] - 128 = (c \div 64) % 64 /\ b[p + 2] - 128 = c % 64
    BY <1>0, <2>2, TailOf
  <2>8. 4096 * (c \div 4096) + 64 * ((c \div 64) % 64) + (c % 64) = c  BY <1>0, SixBits
  <2>9. Character(b, p) = <<c>>
    <3>1. Character(b, p) = <<4096 * (c \div 4096) + 64 * ((c \div 64) % 64) + (c % 64)>>
      BY <2>5, <2>7
    <3> QED  BY <2>8, <3>1
  <2>10. Width(b, p) = Size(c)  BY <2>1, <2>5
  <2> QED  BY <2>4, <2>6, <2>9, <2>10
<1>4. CASE ~(c < 65536)
  <2>0. ~(c < 128) /\ ~(c < 2048)  BY <1>0, <1>4
  <2>1. Size(c) = 4 /\ Utf8(c) = <<240 + c \div 262144, TailBits(c \div 4096), TailBits(c \div 64), TailBits(c)>>
    BY <1>4, <2>0, Utf8Cases DEF Size
  <2>2. /\ b[p] = 240 + c \div 262144 /\ b[p + 1] = TailBits(c \div 4096)
        /\ b[p + 2] = TailBits(c \div 64) /\ b[p + 3] = TailBits(c)
    <3>1. 1 \in 1..Size(c) /\ 2 \in 1..Size(c) /\ 3 \in 1..Size(c) /\ 4 \in 1..Size(c)  BY <2>1
    <3> QED  BY <1>00, <2>1, <3>1
  <2>6. b[p] \in Nat /\ b[p] <= 247 /\ ~(b[p] < 128) /\ ~(b[p] < 224) /\ ~(b[p] < 240)
    BY <1>0, <1>4, <2>2
  <2>5. /\ Width(b, p) = 4
        /\ Character(b, p) = Units(262144 * (b[p] - 240) + 4096 * (b[p + 1] - 128) + 64 * (b[p + 2] - 128) + (b[p + 3] - 128))
    BY <2>6 DEF Width, Character
  <2>7. /\ b[p] - 240 = c \div 262144 /\ b[p + 1] - 128 = (c \div 4096) % 64
        /\ b[p + 2] - 128 = (c \div 64) % 64 /\ b[p + 3] - 128 = c % 64
    BY <1>0, <2>2, TailOf
  <2>8. 262144 * (c \div 262144) + 4096 * ((c \div 4096) % 64) + 64 * ((c \div 64) % 64) + (c % 64) = c
    BY <1>0, SixBits
  <2>9. Character(b, p) = Units(c)
    <3>1. Character(b, p) = Units(262144 * (c \div 262144) + 4096 * ((c \div 4096) % 64) + 64 * ((c \div 64) % 64) + (c % 64))
      BY <2>5, <2>7
    <3> QED  BY <2>8, <3>1
  <2>10. Width(b, p) = Size(c)  BY <2>1, <2>5
  <2> QED  BY <2>6, <2>9, <2>10
<1> QED  BY <1>1, <1>2, <1>3, <1>4

\* parseUTF8 takes apart what stringToUTF8 made of a surrogate pair.
LEMMA PairUnits ==
  ASSUME NEW x \in High, NEW y \in Low
  PROVE  Units(Joined(x, y)) = <<x, y>>
<1>1. x \in Nat /\ 55296 <= x /\ x <= 56319 /\ y \in Nat /\ 56320 <= y /\ y <= 57343  BY Surrogates
<1>2. ASSUME NEW u \in Nat, NEW v \in Nat, u < 1024, v < 1024
      PROVE  (1024 * u + v) \div 1024 = u /\ (1024 * u + v) % 1024 = v
  BY <1>2
<1> DEFINE u == x - 55296  v == y - 56320  w == 1024 * u + v
<1>3. u \in Nat /\ v \in Nat /\ u < 1024 /\ v < 1024 /\ 55296 + u = x /\ 56320 + v = y  BY <1>1
<1>4. Joined(x, y) = w + 65536  BY DEF Joined
<1>5. w \div 1024 = u /\ w % 1024 = v
  <2> HIDE DEF u, v
  <2> QED  BY <1>2, <1>3
<1>6. w \in Nat
  <2> HIDE DEF u, v
  <2> QED  BY <1>3
<1> HIDE DEF w
<1> DEFINE c == w + 65536
<1>7. c > 65535 /\ c - 65536 = w  BY <1>6
<1> HIDE DEF c, u, v
<1>8. Units(c) = <<55296 + (c - 65536) \div 1024, 56320 + ((c - 65536) % 1024)>>  BY <1>7 DEF Units
<1>9. Units(c) = <<55296 + u, 56320 + v>>  BY <1>5, <1>7, <1>8
<1>10. Joined(x, y) = c  BY <1>4 DEF c
<1> QED  BY <1>3, <1>9, <1>10

\* The units of the character at i, and those after it.
LEMMA UnitsAt ==
  ASSUME NEW s \in Seq(Words), WellFormed(s), NEW i \in 1..Len(s)
  PROVE  Units(Char(s, i)) \o SubSeq(s, Skip(s, i), Len(s)) = SubSeq(s, i, Len(s))
<1>1. Len(s) \in Nat  OBVIOUS
<1>2. /\ s[i] \in Nat /\ s[i] < 65536
      /\ s[i] \in High => i + 1 \in 1..Len(s) /\ s[i + 1] \in Low
  BY CharAt
<1>3. CASE s[i] \in High
  <2>1. Char(s, i) = Joined(s[i], s[i + 1]) /\ Skip(s, i) = i + 2  BY <1>3, Zenon DEF Char, Skip
  <2>2. Units(Char(s, i)) = <<s[i], s[i + 1]>>  BY <1>2, <1>3, <2>1, PairUnits
  <2>3. <<s[i], s[i + 1]>> \o SubSeq(s, i + 2, Len(s)) = SubSeq(s, i, Len(s))
    <3>1. i + 1 \in 1..Len(s)  BY <1>2, <1>3
    <3> QED  BY <1>1, <3>1, SMTT(30)
  <2> QED  BY <2>1, <2>2, <2>3, Zenon
<1>4. CASE s[i] \notin High
  <2>1. Char(s, i) = s[i] /\ Skip(s, i) = i + 1  BY <1>4, Zenon DEF Char, Skip
  <2>2. Units(s[i]) = <<s[i]>>
    <3>1. ~(s[i] > 65535)  BY <1>2
    <3> QED  BY <3>1 DEF Units
  <2>3. <<s[i]>> \o SubSeq(s, i + 1, Len(s)) = SubSeq(s, i, Len(s))  BY <1>1
  <2> QED  BY <2>1, <2>2, <2>3, Zenon
<1> QED  BY <1>3, <1>4

\* The length of two sequences in a row.
LEMMA ConcatSize ==
  ASSUME NEW S, NEW u \in Seq(S), NEW v \in Seq(S)
  PROVE  u \o v \in Seq(S) /\ Len(u \o v) = Len(u) + Len(v) /\ Len(u) \in Nat /\ Len(v) \in Nat
OBVIOUS

\* Two pieces follow each other.
LEMMA AgreeSplit ==
  ASSUME NEW b, NEW i \in Nat, NEW S, NEW u \in Seq(S), NEW v \in Seq(S), Len(b) \in Nat
  PROVE  Agree(b, i, u \o v) <=> Agree(b, i, u) /\ Agree(b, i + Len(u), v)
<1>1. /\ u \o v \in Seq(S) /\ Len(u \o v) = Len(u) + Len(v)
      /\ \A k \in 1..Len(u) : (u \o v)[k] = u[k]
      /\ \A k \in 1..Len(v) : (u \o v)[Len(u) + k] = v[k]
      /\ Len(u) \in Nat /\ Len(v) \in Nat
  BY SMTT(30)
<1> DEFINE w == u \o v
<1> HIDE DEF w
<1>2. ASSUME Agree(b, i, w) PROVE Agree(b, i, u) /\ Agree(b, i + Len(u), v)
  <2>1. Agree(b, i, u)
    <3> SUFFICES ASSUME NEW k \in 1..Len(u), i + k <= Len(b) + 1 PROVE b[i + k - 1] = u[k]
      BY DEF Agree
    <3>1. k \in 1..Len(w) /\ w[k] = u[k]  BY <1>1 DEF w
    <3> QED  BY <1>2, <3>1 DEF Agree
  <2>2. Agree(b, i + Len(u), v)
    <3> SUFFICES ASSUME NEW k \in 1..Len(v), i + Len(u) + k <= Len(b) + 1 PROVE b[i + Len(u) + k - 1] = v[k]
      BY DEF Agree
    <3>1. Len(u) + k \in 1..Len(w) /\ w[Len(u) + k] = v[k]  BY <1>1 DEF w
    <3>2. i + (Len(u) + k) = i + Len(u) + k  BY <1>1
    <3>3. b[i + (Len(u) + k) - 1] = w[Len(u) + k]  BY <1>2, <3>1, <3>2 DEF Agree
    <3> QED  BY <3>1, <3>2, <3>3
  <2> QED  BY <2>1, <2>2
<1>3. ASSUME Agree(b, i, u), Agree(b, i + Len(u), v) PROVE Agree(b, i, w)
  <2> SUFFICES ASSUME NEW k \in 1..Len(w), i + k <= Len(b) + 1 PROVE b[i + k - 1] = w[k]
    BY DEF Agree
  <2>1. CASE k \in 1..Len(u)  BY <1>1, <1>3, <2>1 DEF Agree, w
  <2>2. CASE k \notin 1..Len(u)
    <3> DEFINE m == k - Len(u)
    <3>1. m \in 1..Len(v) /\ Len(u) + m = k /\ i + Len(u) + m = i + k  BY <1>1, <2>2 DEF w
    <3> HIDE DEF m
    <3>2. i + Len(u) + m <= Len(b) + 1  BY <3>1
    <3>3. b[i + Len(u) + m - 1] = v[m]  BY <1>3, <3>1, <3>2 DEF Agree
    <3>4. w[k] = v[m]  BY <1>1, <3>1 DEF w
    <3> QED  BY <3>1, <3>3, <3>4, SMTT(30)
  <2> QED  BY <2>1, <2>2
<1> QED  BY <1>2, <1>3 DEF w

\* As many bytes are written as are counted.
LEMMA Lengths ==
  ASSUME NEW s \in Seq(Words), WellFormed(s), NEW f, NEW l, WrittenUtf8(s, f, l)
  PROVE  \A i \in 1..(Len(s) + 1) : Len(f[i]) = l[i]
<1> DEFINE D == 1..(Len(s) + 1)
           T == {i \in D : Len(f[i]) = l[i]}
<1>1. Len(s) \in Nat  OBVIOUS
<1>2. Descends(Len(s), T)
  <2> SUFFICES ASSUME NEW i \in D, \A j \in (i + 1)..(Len(s) + 1) : j \in T
               PROVE  Len(f[i]) = l[i]
    BY <1>1 DEF Descends
  <2>1. CASE i = Len(s) + 1  BY <2>1 DEF WrittenUtf8
  <2>2. CASE i \in 1..Len(s)
    <3>1. Char(s, i) \in Characters /\ Skip(s, i) \in (i + 1)..(Len(s) + 1)  BY <2>2, CharAt
    <3>2. Skip(s, i) \in D /\ Len(f[Skip(s, i)]) = l[Skip(s, i)]  BY <1>1, <3>1
    <3>3. Utf8(Char(s, i)) \in Seq(Bytes) /\ Len(Utf8(Char(s, i))) = Size(Char(s, i))  BY <3>1, Utf8Bytes
    <3>4. f[i] = Utf8(Char(s, i)) \o f[Skip(s, i)] /\ l[i] = Size(Char(s, i)) + l[Skip(s, i)]
      BY <2>2 DEF WrittenUtf8
    <3>5. f[Skip(s, i)] \in Seq(Bytes)  BY <3>2 DEF WrittenUtf8
    <3> DEFINE u == Utf8(Char(s, i))  v == f[Skip(s, i)]
    <3>6. Len(u \o v) = Len(u) + Len(v)
      <4>1. u \in Seq(Bytes) /\ v \in Seq(Bytes)  BY <3>3, <3>5
      <4> HIDE DEF u, v
      <4> QED  BY <4>1
    <3> QED  BY <3>2, <3>3, <3>4, <3>6
  <2> QED  BY <1>1, <2>1, <2>2
<1>3. \A i \in 1..(Len(s) + 1) : i \in T
  <2> HIDE DEF T
  <2> QED  BY <1>2, Descent
<1> QED  BY <1>3

\* A string takes as many bytes as are counted for it.
LEMMA TextSize ==
  ASSUME NEW s \in Seq(Words), WellFormed(s)
  PROVE  /\ StringToUTF8(s) \in Seq(Bytes) /\ UTF8Length(s) \in Nat
         /\ Len(StringToUTF8(s)) = UTF8Length(s)
<1>1. PICK f, l : StringToUTF8(s) = f[1] /\ UTF8Length(s) = l[1] /\ WrittenUtf8(s, f, l)  BY TextWritten
<1>2. Len(f[1]) = l[1] /\ 1 \in 1..(Len(s) + 1)
  <2>1. 1 \in 1..(Len(s) + 1)  OBVIOUS
  <2> QED  BY <1>1, <2>1, Lengths
<1>3. f[1] \in Seq(Bytes) /\ l[1] \in Nat  BY <1>1, <1>2 DEF WrittenUtf8
<1> QED  BY <1>1, <1>2, <1>3

\* A string is read as it was written.
LEMMA TextRead ==
  ASSUME NEW s \in Seq(Words), WellFormed(s), NEW b \in Seq(Bytes), NEW i \in Nat \ {0},
         i + UTF8Length(s) <= Len(b) + 1, Agree(b, i, StringToUTF8(s))
  PROVE  ParseUTF8(b, i, UTF8Length(s)) = s
<1> DEFINE n == Len(s)
           D == 1..(n + 1)
           end == i + UTF8Length(s)
<1>1. PICK f, l : StringToUTF8(s) = f[1] /\ UTF8Length(s) = l[1] /\ WrittenUtf8(s, f, l)  BY TextWritten
<1>2. UTF8Length(s) \in Nat  BY TextSize
<1>3. PICK g : ParseUTF8(b, i, UTF8Length(s)) = g[i] /\ Parsed(b, i, end, g)  BY <1>2, ParseOf
<1>4. n \in Nat /\ Len(b) \in Nat /\ end \in Nat /\ end <= Len(b) + 1  BY <1>2
<1> HIDE DEF end
<1> DEFINE Good(k) == \A p \in i..end : p + l[k] = end /\ Agree(b, p, f[k]) => g[p] = SubSeq(s, k, n)
           T == {k \in D : Good(k)}
<1>5. Descends(n, T)
  <2> SUFFICES ASSUME NEW k \in D, \A j \in (k + 1)..(n + 1) : Good(j),
                      NEW p \in i..end, p + l[k] = end, Agree(b, p, f[k])
               PROVE  g[p] = SubSeq(s, k, n)
    BY <1>4 DEF Descends
  <2>0. p \in Nat /\ p \in i..(end + 3) /\ g[p] = ParseStep(b, g, end, p)
    <3>1. p \in Nat /\ p \in i..(end + 3)  BY <1>4
    <3> QED  BY <1>3, <3>1 DEF Parsed
  <2>1. CASE k = n + 1
    <3>1. p = end
      <4>1. l[k] = 0  BY <1>1, <2>1 DEF WrittenUtf8
      <4> QED  BY <2>0, <4>1
    <3>2. g[p] = <<>>
      <4>1. p >= end  BY <1>4, <3>1
      <4> QED  BY <2>0, <4>1 DEF ParseStep
    <3>3. SubSeq(s, n + 1, n) = <<>>  BY <1>4
    <3> QED  BY <2>1, <3>2, <3>3
  <2>2. CASE k \in 1..n
    <3> DEFINE c == Char(s, k)  u == Utf8(c)  j == Skip(s, k)  q == p + Size(c)
    <3>1. c \in Characters /\ j \in (k + 1)..(n + 1)  BY <2>2, CharAt
    <3>2. u \in Seq(Bytes) /\ Len(u) = Size(c)  BY <3>1, Utf8Bytes
    <3>3. Size(c) \in 1..4  BY DEF Size
    <3>4. f[k] = u \o f[j] /\ l[k] = Size(c) + l[j]  BY <1>1, <2>2 DEF WrittenUtf8
    <3>5. j \in D  BY <1>4, <3>1
    <3>6. f[j] \in Seq(Bytes) /\ l[j] \in Nat  BY <1>1, <3>5 DEF WrittenUtf8
    <3> HIDE DEF u, j, c
    <3>7. Agree(b, p, u) /\ Agree(b, p + Len(u), f[j])  
      <4> DEFINE v == f[j]
      <4>1. u \in Seq(Bytes) /\ v \in Seq(Bytes) /\ p \in Nat /\ Len(b) \in Nat
        BY <1>4, <2>0, <3>2, <3>6
      <4>2. Agree(b, p, u \o v)  BY <3>4
      <4> HIDE DEF v
      <4>3. Agree(b, p, u) /\ Agree(b, p + Len(u), v)  BY <4>1, <4>2, AgreeSplit
      <4> QED  BY <4>3 DEF v
    <3>8. q \in i..end /\ q + l[j] = end /\ p < end /\ p + Size(c) <= Len(b) + 1

      <4> DEFINE z == Size(c)  y == l[j]
      <4>1. z \in 1..4 /\ y \in Nat /\ p + (z + y) = end  BY <3>3, <3>4, <3>6
      <4> HIDE DEF z, y
      <4>2. p + z \in i..end /\ p + z + y = end /\ p < end /\ p + z <= Len(b) + 1  BY <1>4, <2>0, <4>1
      <4> QED  BY <4>2 DEF z, y
    <3>9. \A m \in 1..Size(c) : b[p + m - 1] = Utf8(c)[m]
      <4> SUFFICES ASSUME NEW m \in 1..Size(c) PROVE b[p + m - 1] = u[m]  BY DEF u
      <4>1. m \in 1..Len(u) /\ p + m <= Len(b) + 1  BY <1>4, <2>0, <3>2, <3>3, <3>8, SMTT(30)
      <4> QED  BY <3>7, <4>1 DEF Agree
    <3>10. b[p] <= 247 /\ b[p] \in Nat /\ Character(b, p) = Units(c) /\ Width(b, p) = Size(c)
      BY <2>0, <3>1, <3>9, CharRead
    <3>11. g[p] = Units(c) \o g[q]
      <4>1. ~(p >= end) /\ ~(b[p] > 247)  BY <1>4, <2>0, <3>8, <3>10, SMTT(30)
      <4>2. g[p] = Character(b, p) \o g[p + Width(b, p)]  BY <2>0, <4>1, Zenon DEF ParseStep
      <4> QED  BY <3>10, <4>2
    <3>12. g[q] = SubSeq(s, j, n)
      <4>1. Agree(b, q, f[j])  BY <3>2, <3>7
      <4>2. Good(j)  BY <3>1
      <4> QED  BY <3>8, <4>1, <4>2
    <3>13. Units(c) \o SubSeq(s, j, n) = SubSeq(s, k, n)  BY <2>2, UnitsAt DEF c, j
    <3> QED  BY <3>11, <3>12, <3>13, Zenon
  <2> QED  BY <1>4, <2>1, <2>2
<1>6. Good(1)
  <2>1. \A k \in 1..(n + 1) : k \in T
    <3> HIDE DEF T, n
    <3> QED  BY <1>5, Descent
  <2>2. 1 \in D  BY <1>4
  <2> QED  BY <2>1, <2>2
<1>7. i \in i..end  BY <1>2, <1>4 DEF end
<1>8. g[i] = SubSeq(s, 1, n)  BY <1>1, <1>6, <1>7 DEF end
<1>9. SubSeq(s, 1, n) = s  OBVIOUS
<1> QED  BY <1>3, <1>8, <1>9

-----------------------------------------------------------------------------
(* Numbers and strings in what is read.                                    *)

\* readUint16 reads what writeUint16 wrote.
LEMMA Uint16Read ==
  ASSUME NEW n \in Words
  PROVE  /\ Uint16(n) \in Seq(Bytes) /\ Len(Uint16(n)) = 2
         /\ \A b : \A i \in Nat : Agree(b, i, Uint16(n)) /\ i + 2 <= Len(b) + 1 /\ Len(b) \in Nat
                                     => ReadUint16(b, i) = n
<1>1. n \in Nat /\ n < 65536  BY WordsAre
<1> DEFINE x == (n \div 256) % 256  y == n % 256
<1>2. x \in Nat /\ x < 256 /\ y \in Nat /\ y < 256 /\ 256 * x + y = n  BY <1>1
<1>3. Uint16(n) = <<x, y>>  BY DEF Uint16
<1> HIDE DEF x, y
<1>4. x \in Bytes /\ y \in Bytes  BY <1>2, BytesAre
<1>5. ASSUME NEW b, NEW i \in Nat, Agree(b, i, Uint16(n)), i + 2 <= Len(b) + 1, Len(b) \in Nat
      PROVE  ReadUint16(b, i) = n
  <2>1. \A k \in 1..2 : i + k <= Len(b) + 1 => b[i + k - 1] = <<x, y>>[k]  BY <1>3, <1>5 DEF Agree
  <2>2. i + 1 - 1 = i /\ i + 2 - 1 = i + 1 /\ i + 1 <= Len(b) + 1  BY <1>5
  <2>3. b[i] = x /\ b[i + 1] = y  BY <1>5, <2>1, <2>2
  <2> QED  BY <1>2, <2>3 DEF ReadUint16
<1> QED  BY <1>3, <1>4, <1>5

\* Bytes that are all there are cut out as they were written.
LEMMA BytesRead ==
  ASSUME NEW b \in Seq(Bytes), NEW i \in Nat \ {0}, NEW u \in Seq(Bytes), Agree(b, i, u),
         i + Len(u) <= Len(b) + 1
  PROVE  SubSeq(b, i, i + Len(u) - 1) = u
<1> DEFINE v == SubSeq(b, i, i + Len(u) - 1)
<1>1. Len(u) \in Nat /\ Len(b) \in Nat  OBVIOUS
<1>2. v \in Seq(Bytes) /\ Len(v) = Len(u) /\ \A k \in 1..Len(u) : v[k] = b[i + k - 1]
  BY <1>1
<1>3. \A k \in 1..Len(u) : b[i + k - 1] = u[k]  BY <1>1 DEF Agree
<1> HIDE DEF v
<1>4. \A k \in 1..Len(u) : v[k] = u[k]  BY <1>2, <1>3
<1>5. v = u  BY <1>2, <1>4, SeqEqual
<1> QED  BY <1>5 DEF v

\* No two types of packet have one number.
LEMMA Codes ==
  /\ \A i, j \in 1..14 : Types[i] = Types[j] => i = j
  /\ Len(Types) = 14 /\ DOMAIN Types = 1..14
BY DEF Types

\* The type is in the first byte.
LEMMA TypeRead ==
  ASSUME NEW k \in 1..14, NEW low \in Nat, low < 16
  PROVE  /\ Code(Types[k]) = k
         /\ 16 * k + low \in Bytes
         /\ (16 * k + low) \div 16 = k /\ (16 * k + low) % 16 = low
<1>1. Code(Types[k]) = k
  <2>1. \E i \in DOMAIN Types : Types[i] = Types[k]  BY Codes
  <2>2. Code(Types[k]) \in 1..14 /\ Types[Code(Types[k])] = Types[k]  BY <2>1, Codes DEF Code
  <2> QED  BY <2>2, Codes
<1>2. 16 * k + low \in Nat /\ 16 * k + low < 256  OBVIOUS
<1>3. 16 * k + low \in Bytes  BY <1>2, BytesAre
<1>4. (16 * k + low) \div 16 = k /\ (16 * k + low) % 16 = low  OBVIOUS
<1> QED  BY <1>1, <1>3, <1>4

\* writeString writes as many bytes as its length says, and two.
LEMMA StringSize ==
  ASSUME NEW s, Text(s)
  PROVE  String(s) \in Seq(Bytes) /\ Len(String(s)) = Sized(s) /\ Sized(s) \in Nat
<1>1. /\ StringToUTF8(s) \in Seq(Bytes) /\ UTF8Length(s) \in Nat
      /\ Len(StringToUTF8(s)) = UTF8Length(s)
  BY TextSize DEF Text
<1>2. Uint16(UTF8Length(s)) \in Seq(Bytes) /\ Len(Uint16(UTF8Length(s))) = 2
  BY Uint16Read DEF Text
<1> DEFINE u == Uint16(UTF8Length(s))  v == StringToUTF8(s)  k == UTF8Length(s)
<1>3. u \o v \in Seq(Bytes) /\ Len(u \o v) = k + 2 /\ k + 2 \in Nat
  <2>1. u \in Seq(Bytes) /\ v \in Seq(Bytes) /\ Len(u) = 2 /\ Len(v) = k /\ k \in Nat  BY <1>1, <1>2
  <2> HIDE DEF u, v, k
  <2>2. u \o v \in Seq(Bytes) /\ Len(u \o v) = Len(u) + Len(v)  BY <2>1, ConcatSize
  <2> QED  BY <2>1, <2>2
<1> QED  BY <1>3 DEF String, Sized

\* A string with its length is read as it was written.
LEMMA StringRead ==
  ASSUME NEW s, Text(s), NEW b \in Seq(Bytes), NEW i \in Nat \ {0}, Agree(b, i, String(s)),
         i + Sized(s) <= Len(b) + 1
  PROVE  /\ ReadUint16(b, i) = UTF8Length(s) /\ UTF8Length(s) \in Nat
         /\ ParseUTF8(b, i + 2, UTF8Length(s)) = s
<1>1. /\ StringToUTF8(s) \in Seq(Bytes) /\ UTF8Length(s) \in Nat
      /\ s \in Seq(Words) /\ WellFormed(s) /\ UTF8Length(s) \in Words
  BY TextSize DEF Text
<1>2. Uint16(UTF8Length(s)) \in Seq(Bytes) /\ Len(Uint16(UTF8Length(s))) = 2  BY <1>1, Uint16Read
<1>3. Len(b) \in Nat /\ i \in Nat /\ i + 2 + UTF8Length(s) <= Len(b) + 1 /\ i + 2 <= Len(b) + 1
      /\ i + 2 \in Nat \ {0}
  BY <1>1 DEF Sized
<1>4. Agree(b, i, Uint16(UTF8Length(s))) /\ Agree(b, i + 2, StringToUTF8(s))
  <2> DEFINE u == Uint16(UTF8Length(s))  v == StringToUTF8(s)
  <2>1. Agree(b, i, u \o v)  BY DEF String
  <2>2. u \in Seq(Bytes) /\ v \in Seq(Bytes) /\ Len(u) = 2  BY <1>1, <1>2
  <2> HIDE DEF u, v
  <2>3. Agree(b, i, u) /\ Agree(b, i + Len(u), v)  BY <1>3, <2>1, <2>2, AgreeSplit
  <2> QED  BY <2>2, <2>3 DEF u, v
<1>5. ReadUint16(b, i) = UTF8Length(s)  BY <1>1, <1>3, <1>4, Uint16Read
<1>6. ParseUTF8(b, i + 2, UTF8Length(s)) = s  BY <1>1, <1>3, <1>4, TextRead
<1> QED  BY <1>1, <1>5, <1>6

\* A packet whose first byte and body tell all of it.
Legible(p) ==
  /\ FirstByte(p) \in Bytes /\ Body(p) \in Seq(Bytes) /\ RemainingLength(p) = Len(Body(p))
  /\ \A b \in Seq(Bytes), i \in Nat \ {0}, j \in Nat \ {0} :
       b[i] = FirstByte(p) /\ Agree(b, j, Body(p)) /\ j + Len(Body(p)) <= Len(b) + 1 =>
         Decoded(b, b[i], j, j + Len(Body(p))) = p

\* A packet that is read is of bytes, and not empty.
LEMMA EncodedBytes ==
  ASSUME NEW p, Legible(p), Fits(p)
  PROVE  Encode(p) \in Seq(Bytes) /\ Len(Encode(p)) \in Nat \ {0}
<1> DEFINE r == RemainingLength(p)
           m == EncodeMBI(r)
           body == Body(p)
           one == <<FirstByte(p)>>
<1>1. r \in Nat /\ r < 268435456 /\ body \in Seq(Bytes) /\ one \in Seq(Bytes) /\ Len(one) = 1
  <2>1. r = Len(body) /\ body \in Seq(Bytes) /\ FirstByte(p) \in Bytes  BY DEF Legible
  <2>2. r < 268435456  BY Weights DEF Fits
  <2>3. Len(body) \in Nat  BY <2>1
  <2> QED  BY <2>1, <2>2, <2>3
<1>2. m \in Seq(Bytes)
  <2>1. PICK size : Written(r, EncodeMBI(r), size)
    <3> HIDE DEF r
    <3> QED  BY <1>1, DigitsOf
  <2> QED  BY <2>1 DEF Written
<1>3. Encode(p) = (one \o m) \o body  BY DEF Encode
<1> HIDE DEF r, m, body, one
<1> DEFINE u == one \o m
<1>4. u \in Seq(Bytes) /\ Len(u) = Len(one) + Len(m) /\ Len(m) \in Nat
  <2>1. one \in Seq(Bytes) /\ m \in Seq(Bytes)  BY <1>1, <1>2
  <2> QED  BY <2>1, ConcatSize
<1> HIDE DEF u
<1>5. u \o body \in Seq(Bytes) /\ Len(u \o body) = Len(u) + Len(body) /\ Len(body) \in Nat
  BY <1>1, <1>4, ConcatSize, SMTT(30)
<1> DEFINE e == u \o body
<1>6. Encode(p) = e  BY <1>3 DEF u
<1>7. e \in Seq(Bytes) /\ Len(e) = Len(u) + Len(body)  BY <1>5
<1> HIDE DEF e
<1>8. Len(e) \in Nat \ {0}  BY <1>1, <1>4, <1>5, <1>7
<1> QED  BY <1>6, <1>7, <1>8

\* decodeMessage reads a packet as soon as it is whole, and nothing before.
LEMMA MessageRead ==
  ASSUME NEW p, Legible(p), Fits(p), NEW b \in Seq(Bytes), NEW i \in 1..Len(b), Agree(b, i, Encode(p))
  PROVE  DecodeMessage(b, i) = IF i + Len(Encode(p)) <= Len(b) + 1
                               THEN [packet |-> p, next |-> i + Len(Encode(p))] ELSE NoPacket
<1> DEFINE r == RemainingLength(p)
           m == EncodeMBI(r)
           body == Body(p)
           one == <<FirstByte(p)>>
<1>1. r \in Nat /\ r < 268435456 /\ r = Len(body) /\ body \in Seq(Bytes) /\ FirstByte(p) \in Bytes
  <2>1. r = Len(body) /\ body \in Seq(Bytes) /\ FirstByte(p) \in Bytes  BY DEF Legible
  <2>2. r < 268435456  BY Weights DEF Fits
  <2>3. Len(body) \in Nat  BY <2>1
  <2> QED  BY <2>1, <2>2, <2>3
<1>2. m \in Seq(Bytes) /\ Len(m) \in 1..4
  <2>1. PICK size : Written(r, EncodeMBI(r), size)
    <3> HIDE DEF r
    <3> QED  BY <1>1, DigitsOf
  <2> QED  BY <2>1 DEF Written
<1>3. Encode(p) = (one \o m) \o body  BY DEF Encode
<1> HIDE DEF r, m, body
<1>4. one \in Seq(Bytes) /\ Len(one) = 1 /\ one[1] = FirstByte(p)  BY <1>1
<1> HIDE DEF one
<1>5. Len(b) \in Nat /\ i \in Nat /\ i <= Len(b) /\ i # 0  OBVIOUS
<1>6. one \o m \in Seq(Bytes) /\ Len(one \o m) = 1 + Len(m) /\ Len(Encode(p)) = 1 + Len(m) + r
  <2> DEFINE u == one \o m
  <2>1. u \in Seq(Bytes) /\ Len(u) = 1 + Len(m)
    <3>1. u \in Seq(Bytes) /\ Len(u) = Len(one) + Len(m)  BY <1>2, <1>4, ConcatSize, Zenon
    <3> QED  BY <1>4, <3>1
  <2> HIDE DEF u
  <2>2. Len(u \o body) = 1 + Len(m) + r
    <3>1. Len(u \o body) = Len(u) + Len(body)  BY <1>1, <2>1, ConcatSize
    <3> QED  BY <1>1, <2>1, <3>1
  <2>3. Encode(p) = u \o body  BY <1>3 DEF u
  <2> QED  BY <2>1, <2>2, <2>3 DEF u
<1>7. Agree(b, i, one \o m) /\ Agree(b, i + (1 + Len(m)), body)
  <2>1. Agree(b, i, (one \o m) \o body)  BY <1>3
  <2> DEFINE u == one \o m
  <2>3. u \in Seq(Bytes) /\ Len(u) = 1 + Len(m) /\ Agree(b, i, u \o body)  BY <1>6, <2>1
  <2> HIDE DEF u
  <2>2. Agree(b, i, u) /\ Agree(b, i + Len(u), body)  BY <1>1, <1>5, <2>3, AgreeSplit
  <2> QED  BY <2>2, <2>3 DEF u
<1>8. Agree(b, i, one) /\ Agree(b, i + 1, m)
  <2>1. Agree(b, i, one) /\ Agree(b, i + Len(one), m)  BY <1>2, <1>4, <1>5, <1>7, AgreeSplit
  <2> QED  BY <1>4, <2>1
<1>9. b[i] = FirstByte(p)
  <2>1. 1 \in 1..Len(one) /\ i + 1 <= Len(b) + 1 /\ i + 1 - 1 = i  BY <1>4, <1>5
  <2> QED  BY <1>4, <1>8, <2>1 DEF Agree
<1> DEFINE size == DecodeMBI(b, i + 1)
           j == i + 1 + Len(m)
<1>10. size = IF j <= Len(b) + 1 THEN [length |-> r, next |-> j] ELSE Incomplete
  <2>1. i + 1 \in 1..(Len(b) + 1)  BY <1>5
  <2>2. Agree(b, i + 1, EncodeMBI(r))  BY <1>8 DEF m
  <2>3. DecodeMBI(b, i + 1) = IF i + 1 + Len(EncodeMBI(r)) <= Len(b) + 1
             THEN [length |-> r, next |-> i + 1 + Len(EncodeMBI(r))] ELSE Incomplete
    BY <1>1, <2>1, <2>2, LengthRead
  <2> QED  BY <2>3 DEF m
<1>11. j \in Nat \ {0} /\ j + r = i + Len(Encode(p)) /\ i + (1 + Len(m)) = j  BY <1>1, <1>2, <1>5, <1>6
<1> HIDE DEF j, size
<1>12. CASE i + Len(Encode(p)) <= Len(b) + 1
  <2>1. j <= Len(b) + 1 /\ j + r <= Len(b) + 1  BY <1>1, <1>5, <1>11, <1>12
  <2>2. size = [length |-> r, next |-> j] /\ size # Incomplete  BY <1>10, <1>11, <2>1 DEF Incomplete
  <2>3. size.next = j /\ size.length = r  BY <2>2
  <2>4. Complete(b, size)  BY <2>1, <2>2, <2>3 DEF Complete
  <2>5. Decoded(b, b[i], j, j + r) = p
    <3>1. Agree(b, j, body)  BY <1>7, <1>11
    <3> QED  BY <1>1, <1>5, <1>9, <1>11, <2>1, <3>1 DEF Legible, body
  <2>6. DecodeMessage(b, i) = [packet |-> Decoded(b, b[i], size.next, size.next + size.length),
                               next |-> size.next + size.length]
    BY <2>4 DEF DecodeMessage, size
  <2> QED  BY <1>11, <1>12, <2>3, <2>5, <2>6
<1>13. CASE ~(i + Len(Encode(p)) <= Len(b) + 1)
  <2>1. ~Complete(b, size)
    <3>1. CASE j <= Len(b) + 1
      <4>1. size.next = j /\ size.length = r  BY <1>10, <3>1
      <4>2. ~(j + r <= Len(b) + 1)  BY <1>11, <1>13
      <4> QED  BY <4>1, <4>2 DEF Complete
    <3>2. CASE ~(j <= Len(b) + 1)  BY <1>10, <3>2 DEF Complete
    <3> QED  BY <3>1, <3>2
  <2>2. DecodeMessage(b, i) = NoPacket  BY <2>1 DEF DecodeMessage, size
  <2> QED  BY <1>13, <2>2
<1> QED  BY <1>12, <1>13

-----------------------------------------------------------------------------
(* Packets that are read as they were written.                             *)

\* The numbers of the types.
LEMMA TypeCodes ==
  /\ Code("CONNECT") = 1 /\ Code("CONNACK") = 2 /\ Code("PUBLISH") = 3 /\ Code("PUBACK") = 4
  /\ Code("PUBREC") = 5 /\ Code("PUBREL") = 6 /\ Code("PUBCOMP") = 7 /\ Code("SUBSCRIBE") = 8
  /\ Code("SUBACK") = 9 /\ Code("UNSUBSCRIBE") = 10 /\ Code("UNSUBACK") = 11
  /\ Code("PINGREQ") = 12 /\ Code("PINGRESP") = 13 /\ Code("DISCONNECT") = 14
<1>1. /\ Types[1] = "CONNECT" /\ Types[2] = "CONNACK" /\ Types[3] = "PUBLISH" /\ Types[4] = "PUBACK"
      /\ Types[5] = "PUBREC" /\ Types[6] = "PUBREL" /\ Types[7] = "PUBCOMP" /\ Types[8] = "SUBSCRIBE"
      /\ Types[9] = "SUBACK" /\ Types[10] = "UNSUBSCRIBE" /\ Types[11] = "UNSUBACK"
      /\ Types[12] = "PINGREQ" /\ Types[13] = "PINGRESP" /\ Types[14] = "DISCONNECT"
  BY DEF Types
<1>2. \A k \in 1..14 : Code(Types[k]) = k
  <2>1. 0 \in Nat /\ 0 < 16  OBVIOUS
  <2> QED  BY <2>1, TypeRead
<1>3. /\ 1 \in 1..14 /\ 2 \in 1..14 /\ 3 \in 1..14 /\ 4 \in 1..14 /\ 5 \in 1..14 /\ 6 \in 1..14
      /\ 7 \in 1..14 /\ 8 \in 1..14 /\ 9 \in 1..14 /\ 10 \in 1..14 /\ 11 \in 1..14
      /\ 12 \in 1..14 /\ 13 \in 1..14 /\ 14 \in 1..14
  OBVIOUS
<1> QED  BY <1>1, <1>2, <1>3

FirstIs(first, k, low) == first = 16 * k + low

\* The type that is read, and the low bits of the first byte.
LEMMA FirstRead ==
  ASSUME NEW k \in 1..14, NEW low \in Nat, low < 16, NEW first, FirstIs(first, k, low)
  PROVE  first \in Bytes /\ Types[first \div 16] = Types[k] /\ first % 16 = low
<1>1. 16 * k + low \in Bytes /\ (16 * k + low) \div 16 = k /\ (16 * k + low) % 16 = low
  BY TypeRead
<1> QED  BY <1>1 DEF FirstIs

\* What decodeMessage makes of a PUBLISH,
LEMMA DecodedPublish ==
  ASSUME NEW b, NEW first, NEW j, NEW end, Types[first \div 16] = "PUBLISH"
  PROVE  Decoded(b, first, j, end) = Published(b, first % 16, j, end)
BY DEF Decoded, Acks

\* of a CONNACK,
LEMMA DecodedConnack ==
  ASSUME NEW b, NEW first, NEW j, NEW end, Types[first \div 16] = "CONNACK"
  PROVE  Decoded(b, first, j, end) = [type |-> "CONNACK", present |-> b[j] % 2 = 1, code |-> b[j + 1]]
BY DEF Decoded, Acks

\* of a SUBACK,
LEMMA DecodedSuback ==
  ASSUME NEW b, NEW first, NEW j, NEW end, Types[first \div 16] = "SUBACK"
  PROVE  Decoded(b, first, j, end) = [type |-> "SUBACK", id |-> ReadUint16(b, j), codes |-> SubSeq(b, j + 2, end - 1)]
BY DEF Decoded, Acks

\* of an acknowledgement,
LEMMA DecodedAck ==
  ASSUME NEW b, NEW first, NEW j, NEW end, Types[first \div 16] \in Acks
  PROVE  Decoded(b, first, j, end) = [type |-> Types[first \div 16], id |-> ReadUint16(b, j)]
BY DEF Decoded, Acks

\* and of a packet that has no body.
LEMMA DecodedOther ==
  ASSUME NEW b, NEW first, NEW j, NEW end, Types[first \div 16] \in {"PINGREQ", "PINGRESP", "DISCONNECT"}
  PROVE  Decoded(b, first, j, end) = [type |-> Types[first \div 16]]
BY DEF Decoded, Acks
\* The low bits of a PUBLISH.
LowBits(low, dup, qos, retained) ==
  /\ low \in Nat /\ low < 16 /\ (low \div 2) % 4 = qos
  /\ (low \div 8 = 1 <=> dup) /\ (low % 2 = 1 <=> retained)

\* The low bits of a PUBLISH tell what was put into them.
LEMMA LowRead ==
  ASSUME NEW dup \in BOOLEAN, NEW qos \in 0..2, NEW retained \in BOOLEAN
  PROVE  LowBits(8 * Flag(dup) + 2 * qos + Flag(retained), dup, qos, retained)
<1> DEFINE x == Flag(dup)  y == Flag(retained)  low == 8 * x + 2 * qos + y
<1>1. x \in {0, 1} /\ y \in {0, 1} /\ (x = 1 <=> dup) /\ (y = 1 <=> retained)  BY DEF Flag
<1> HIDE DEF x, y
<1>2. low \in Nat /\ low < 16 /\ (low \div 2) % 4 = qos /\ low \div 8 = x /\ low % 2 = y
  <2>1. CASE x = 0 /\ y = 0  BY <2>1
  <2>2. CASE x = 0 /\ y = 1  BY <2>2
  <2>3. CASE x = 1 /\ y = 0  BY <2>3
  <2>4. CASE x = 1 /\ y = 1  BY <2>4
  <2> QED  BY <1>1, <2>1, <2>2, <2>3, <2>4
<1> HIDE DEF low
<1>3. LowBits(low, dup, qos, retained)  BY <1>1, <1>2 DEF LowBits
<1> QED  BY <1>3 DEF low, x, y

\* A PUBLISH is read as it was written, with an identifier or without.
LEMMA LegiblePublication ==
  ASSUME NEW p, Publication(p)
  PROVE  Legible(p)
<1>1. /\ p \in [type : {"PUBLISH"}, dup : BOOLEAN, qos : 0..2, retained : BOOLEAN,
                topic : Seq(Words), id : Words, payload : Seq(Bytes)]
      /\ Text(p.topic) /\ (p.qos = 0 <=> p.id = 0)
  BY DEF Publication
<1>2. /\ p.type = "PUBLISH" /\ p.dup \in BOOLEAN /\ p.qos \in 0..2 /\ p.retained \in BOOLEAN
      /\ p.id \in Words /\ p.payload \in Seq(Bytes) /\ "id" \in DOMAIN p
  BY <1>1
<1> DEFINE low == 8 * Flag(p.dup) + 2 * p.qos + Flag(p.retained)
           first == FirstByte(p)
           u == String(p.topic)
           v == Identifier(p)
           w == p.payload
<1>3. LowBits(low, p.dup, p.qos, p.retained)  BY <1>2, LowRead
<1>4. FirstIs(first, 3, low)
  <2>1. FirstByte(p) = 16 * Code("PUBLISH") + low  BY <1>2 DEF FirstByte
  <2>2. Code("PUBLISH") = 3  BY TypeCodes
  <2> HIDE DEF low
  <2> QED  BY <2>1, <2>2 DEF FirstIs
<1> HIDE DEF low, first
<1>5. first \in Bytes /\ Types[first \div 16] = "PUBLISH" /\ first % 16 = low
  <2>1. 3 \in 1..14 /\ Types[3] = "PUBLISH"  BY DEF Types
  <2>2. low \in Nat /\ low < 16  BY <1>3 DEF LowBits
  <2> QED  BY <1>4, <2>1, <2>2, FirstRead
<1>6. v = IF p.qos > 0 THEN Uint16(p.id) ELSE <<>>
  <2>1. p.qos > 0 <=> p.id # 0  BY <1>1, <1>2
  <2> QED  BY <1>2, <2>1 DEF Identifier
<1>7. /\ u \in Seq(Bytes) /\ Len(u) = Sized(p.topic) /\ Sized(p.topic) \in Nat  BY <1>1, StringSize
<1>8. /\ v \in Seq(Bytes) /\ Len(v) = IF p.qos > 0 THEN 2 ELSE 0
  <2>1. Uint16(p.id) \in Seq(Bytes) /\ Len(Uint16(p.id)) = 2  BY <1>2, Uint16Read
  <2>2. CASE p.qos > 0  BY <1>6, <2>1, <2>2
  <2>3. CASE ~(p.qos > 0)
    <3>1. v = <<>>  BY <1>6, <2>3
    <3> HIDE DEF v
    <3> QED  BY <2>3, <3>1
  <2> QED  BY <2>2, <2>3
<1>9. Body(p) = (u \o v) \o w  BY <1>2 DEF Body
<1>10. RemainingLength(p) = Len(v) + (Sized(p.topic) + Len(w))  BY <1>2 DEF RemainingLength
<1> HIDE DEF u, v, w
<1>11. w \in Seq(Bytes) /\ Len(w) \in Nat /\ Len(v) \in Nat  BY <1>2, <1>8 DEF w
<1>12. u \o v \in Seq(Bytes) /\ Len(u \o v) = Sized(p.topic) + Len(v)  BY <1>7, <1>8, ConcatSize
<1>13. Body(p) \in Seq(Bytes) /\ Len(Body(p)) = Sized(p.topic) + Len(v) + Len(w)
  <2> DEFINE x == u \o v
  <2>1. x \in Seq(Bytes) /\ Len(x) = Sized(p.topic) + Len(v)  BY <1>12
  <2> HIDE DEF x
  <2>2. x \o w \in Seq(Bytes) /\ Len(x \o w) = Len(x) + Len(w)  BY <1>11, <2>1, ConcatSize
  <2> QED  BY <1>9, <2>1, <2>2 DEF x
<1>14. RemainingLength(p) = Len(Body(p))  BY <1>7, <1>10, <1>11, <1>13
<1>15. ASSUME NEW b \in Seq(Bytes), NEW i \in Nat \ {0}, NEW j \in Nat \ {0},
              b[i] = FirstByte(p), Agree(b, j, Body(p)), j + Len(Body(p)) <= Len(b) + 1
       PROVE  Decoded(b, b[i], j, j + Len(Body(p))) = p
  <2> DEFINE n == Sized(p.topic)  end == j + Len(Body(p))  q == j + n  start == j + n + Len(v)
  <2>1. Len(b) \in Nat  OBVIOUS
  <2>2. Agree(b, j, u) /\ Agree(b, q, v) /\ Agree(b, start, w)
    <3> DEFINE x == u \o v
    <3>1. x \in Seq(Bytes) /\ Len(x) = n + Len(v) /\ Agree(b, j, x \o w)  BY <1>9, <1>12, <1>15
    <3> HIDE DEF x
    <3>2. Agree(b, j, x) /\ Agree(b, j + Len(x), w)  BY <1>11, <2>1, <3>1, AgreeSplit
    <3>3. j + Len(x) = start  BY <1>7, <1>11, <3>1
    <3>4. Agree(b, j, u \o v)  BY <3>2 DEF x
    <3>5. Agree(b, j, u) /\ Agree(b, j + Len(u), v)  BY <1>7, <1>8, <2>1, <3>4, AgreeSplit
    <3> QED  BY <1>7, <3>2, <3>3, <3>5
  <2>3. n \in Nat /\ end = start + Len(w) /\ start + Len(w) <= Len(b) + 1 /\ q + Len(v) <= Len(b) + 1 /\ j + n <= Len(b) + 1
        /\ start \in Nat \ {0} /\ q \in Nat
    BY <1>7, <1>11, <1>13, <1>15, <2>1, SMTT(30)
  <2>4. ReadUint16(b, j) = UTF8Length(p.topic) /\ UTF8Length(p.topic) \in Nat /\ ParseUTF8(b, j + 2, UTF8Length(p.topic)) = p.topic
    BY <1>1, <2>2, <2>3, StringRead DEF u
  <2>5. j + 2 + UTF8Length(p.topic) = q  BY <2>4 DEF Sized
  <2>6. p.qos > 0 => ReadUint16(b, q) = p.id /\ start = q + 2
    <3>1. p.qos > 0 => Len(v) = 2 /\ Agree(b, q, Uint16(p.id))  BY <1>6, <1>8, <2>2
    <3>2. p.qos > 0 => q + 2 <= Len(b) + 1 /\ start = q + 2  BY <2>3, <3>1
    <3> HIDE DEF q, start
    <3> QED  BY <1>2, <2>1, <2>3, <3>1, <3>2, Uint16Read
  <2>7. ~(p.qos > 0) => p.id = 0 /\ start = q  BY <1>1, <1>2, <1>8, <2>3
  <2>8. SubSeq(b, start, end - 1) = w
    <3> HIDE DEF start, end
    <3>1. SubSeq(b, start, start + Len(w) - 1) = w  BY <1>11, <2>2, <2>3, BytesRead
    <3> QED  BY <2>3, <3>1
  <2>9. Types[b[i] \div 16] = "PUBLISH" /\ b[i] % 16 = low  BY <1>5, <1>15 DEF first
  <2> HIDE DEF q, start, n, end
  <2>10. Decoded(b, b[i], j, end) = Published(b, low, j, end)  BY <2>9, DecodedPublish
  <2> DEFINE qos == (low \div 2) % 4
             after == j + 2 + ReadUint16(b, j)
             from == IF qos > 0 THEN after + 2 ELSE after
             dup == low \div 8 = 1
             retained == low % 2 = 1
             id == IF qos > 0 THEN ReadUint16(b, after) ELSE 0
  <2>11. Published(b, low, j, end) =
         [type |-> "PUBLISH", dup |-> dup, qos |-> qos, retained |-> retained,
          topic |-> ParseUTF8(b, j + 2, ReadUint16(b, j)), id |-> id,
          payload |-> SubSeq(b, from, end - 1)]
    BY DEF Published
  <2>12. qos = p.qos /\ after = q /\ from = start /\ id = p.id
    <3>1. qos = p.qos  BY <1>3 DEF LowBits
    <3>2. after = q  BY <2>4, <2>5
    <3> HIDE DEF qos, after
    <3> QED  BY <2>6, <2>7, <3>1, <3>2
  <2>13. dup = p.dup /\ retained = p.retained
    <3>1. (dup <=> p.dup) /\ (retained <=> p.retained)  BY <1>3, Zenon DEF LowBits
    <3>2. dup \in BOOLEAN /\ retained \in BOOLEAN  BY Zenon
    <3> HIDE DEF dup, retained
    <3> QED  BY <1>2, <3>1, <3>2, Zenon
  <2> HIDE DEF qos, after, from, dup, retained, id
  <2>15. SubSeq(b, from, end - 1) = p.payload  BY <2>8, <2>12 DEF w
  <2>16. ParseUTF8(b, j + 2, ReadUint16(b, j)) = p.topic  BY <2>4
  <2>17. Decoded(b, b[i], j, end) =
         [type |-> "PUBLISH", dup |-> p.dup, qos |-> p.qos, retained |-> p.retained,
          topic |-> p.topic, id |-> p.id, payload |-> p.payload]
    BY <2>10, <2>11, <2>12, <2>13, <2>15, <2>16, Zenon
  <2>14. p = [type |-> "PUBLISH", dup |-> p.dup, qos |-> p.qos, retained |-> p.retained,
              topic |-> p.topic, id |-> p.id, payload |-> p.payload]
    BY <1>1
  <2> QED  BY <2>14, <2>17, Zenon DEF end
<1> QED  BY <1>5, <1>13, <1>14, <1>15 DEF Legible, first

\* A body that is an identifier and more.
LEMMA LegibleAck ==
  ASSUME NEW p, NEW t \in Acks, p \in [type : {t}, id : Words \ {0}]
  PROVE  Legible(p)
<1>1. /\ p.type = t /\ p.id \in Words /\ p.id # 0 /\ "id" \in DOMAIN p
      /\ p = [type |-> t, id |-> p.id]
  OBVIOUS
<1> DEFINE low == IF t = "PUBREL" THEN 2 ELSE 0
           first == FirstByte(p)
           u == Uint16(p.id)
<1>2. FirstByte(p) = 16 * Code(t) + low  BY <1>1 DEF FirstByte, Acks
<1>3. Code(t) \in 1..14 /\ Types[Code(t)] = t
  <2>1. \E i \in DOMAIN Types : Types[i] = t
    <3>1. /\ Types[4] = "PUBACK" /\ Types[5] = "PUBREC" /\ Types[6] = "PUBREL"
          /\ Types[7] = "PUBCOMP" /\ Types[11] = "UNSUBACK"
      BY DEF Types
    <3>2. 4 \in DOMAIN Types /\ 5 \in DOMAIN Types /\ 6 \in DOMAIN Types /\ 7 \in DOMAIN Types /\ 11 \in DOMAIN Types
      BY Codes
    <3> QED  BY <3>1, <3>2 DEF Acks
  <2>2. Code(t) \in DOMAIN Types /\ Types[Code(t)] = t  BY <2>1 DEF Code
  <2> QED  BY <2>2, Codes
<1>4. low \in Nat /\ low < 16  OBVIOUS
<1> HIDE DEF low, first
<1>5. first \in Bytes /\ Types[first \div 16] = t
  <2>1. FirstIs(first, Code(t), low)  BY <1>2 DEF FirstIs, first
  <2> QED  BY <1>3, <1>4, <2>1, FirstRead
<1>6. Body(p) = u /\ RemainingLength(p) = Len(u) + 0
  <2>1. Identifier(p) = u  BY <1>1 DEF Identifier
  <2>2. Body(p) = Identifier(p)  BY <1>1 DEF Body, Acks
  <2>3. RemainingLength(p) = Len(Identifier(p)) + 0  BY <1>1 DEF RemainingLength, Acks
  <2> QED  BY <2>1, <2>2, <2>3
<1>7. u \in Seq(Bytes) /\ Len(u) = 2  BY <1>1, Uint16Read
<1>8. ASSUME NEW b \in Seq(Bytes), NEW i \in Nat \ {0}, NEW j \in Nat \ {0},
             b[i] = FirstByte(p), Agree(b, j, Body(p)), j + Len(Body(p)) <= Len(b) + 1
      PROVE  Decoded(b, b[i], j, j + Len(Body(p))) = p
  <2>1. Types[b[i] \div 16] = t  BY <1>5, <1>8 DEF first
  <2>2. Len(b) \in Nat /\ j + 2 <= Len(b) + 1 /\ Agree(b, j, Uint16(p.id))  BY <1>6, <1>7, <1>8
  <2>3. ReadUint16(b, j) = p.id  BY <1>1, <2>2, Uint16Read
  <2>4. Decoded(b, b[i], j, j + Len(Body(p))) = [type |-> t, id |-> ReadUint16(b, j)]
    BY <2>1, DecodedAck
  <2> QED  BY <1>1, <2>3, <2>4
<1> HIDE DEF u
<1>9. Body(p) \in Seq(Bytes) /\ RemainingLength(p) = Len(Body(p))  BY <1>6, <1>7
<1> QED  BY <1>5, <1>8, <1>9 DEF Legible, first

\* So is a SUBACK, whose codes go to its end,
LEMMA LegibleSuback ==
  ASSUME NEW p, p \in [type : {"SUBACK"}, id : Words \ {0}, codes : Seq(Bytes)]
  PROVE  Legible(p)
<1>1. /\ p.type = "SUBACK" /\ p.id \in Words /\ p.id # 0 /\ "id" \in DOMAIN p /\ p.codes \in Seq(Bytes)
      /\ p = [type |-> "SUBACK", id |-> p.id, codes |-> p.codes]
  OBVIOUS
<1> DEFINE first == FirstByte(p)
           u == Uint16(p.id)
           v == p.codes
<1>2. FirstByte(p) = 16 * 9 + 0  BY <1>1, TypeCodes DEF FirstByte
<1>5. first \in Bytes /\ Types[first \div 16] = "SUBACK"
  <2>1. 9 \in 1..14 /\ Types[9] = "SUBACK" /\ 0 \in Nat /\ 0 < 16  BY DEF Types
  <2>2. FirstIs(first, 9, 0)  BY <1>2 DEF FirstIs
  <2> HIDE DEF first
  <2> QED  BY <2>1, <2>2, FirstRead
<1>6. Body(p) = u \o v /\ RemainingLength(p) = Len(u) + Len(v)
  <2>1. Identifier(p) = u  BY <1>1 DEF Identifier
  <2>2. Body(p) = Identifier(p) \o v  BY <1>1 DEF Body
  <2>3. RemainingLength(p) = Len(Identifier(p)) + Len(v)  BY <1>1 DEF RemainingLength
  <2> QED  BY <2>1, <2>2, <2>3
<1>7. u \in Seq(Bytes) /\ Len(u) = 2 /\ v \in Seq(Bytes)  BY <1>1, Uint16Read
<1>9. Body(p) \in Seq(Bytes) /\ Len(Body(p)) = 2 + Len(v) /\ Len(v) \in Nat /\ RemainingLength(p) = Len(Body(p))
  <2> HIDE DEF u, v
  <2>1. u \o v \in Seq(Bytes) /\ Len(u \o v) = Len(u) + Len(v) /\ Len(v) \in Nat  BY <1>7, ConcatSize
  <2> QED  BY <1>6, <1>7, <2>1
<1>8. ASSUME NEW b \in Seq(Bytes), NEW i \in Nat \ {0}, NEW j \in Nat \ {0},
             b[i] = FirstByte(p), Agree(b, j, Body(p)), j + Len(Body(p)) <= Len(b) + 1
      PROVE  Decoded(b, b[i], j, j + Len(Body(p))) = p
  <2>1. Types[b[i] \div 16] = "SUBACK"  BY <1>5, <1>8 DEF first
  <2>2. Len(b) \in Nat /\ j + 2 <= Len(b) + 1 /\ j + 2 + Len(v) <= Len(b) + 1 /\ j + 2 \in Nat \ {0}
    <3>1. Len(b) \in Nat  OBVIOUS
    <3> HIDE DEF v
    <3> QED  BY <1>8, <1>9, <3>1
  <2>3. Agree(b, j, u) /\ Agree(b, j + 2, v)
    <3>1. Agree(b, j, u \o v)  BY <1>6, <1>8
    <3> HIDE DEF u, v
    <3>2. Agree(b, j, u) /\ Agree(b, j + Len(u), v)  BY <1>7, <2>2, <3>1, AgreeSplit
    <3> QED  BY <1>7, <3>2
  <2>4. ReadUint16(b, j) = p.id  BY <1>1, <2>2, <2>3, Uint16Read
  <2>5. SubSeq(b, j + 2, j + 2 + Len(v) - 1) = v
    <3> HIDE DEF v
    <3> QED  BY <1>7, <2>2, <2>3, BytesRead
  <2>6. j + Len(Body(p)) = j + 2 + Len(v)  BY <1>9
  <2>7. Decoded(b, b[i], j, j + Len(Body(p))) = [type |-> "SUBACK", id |-> ReadUint16(b, j),
                                                 codes |-> SubSeq(b, j + 2, j + 2 + Len(v) - 1)]
    <3> DEFINE end == j + Len(Body(p))
    <3>1. Decoded(b, b[i], j, end) = [type |-> "SUBACK", id |-> ReadUint16(b, j),
                                      codes |-> SubSeq(b, j + 2, end - 1)]
      <4> HIDE DEF end
      <4> QED  BY <2>1, DecodedSuback
    <3>2. end = j + 2 + Len(v)  BY <2>6
    <3>3. Decoded(b, b[i], j, end) = [type |-> "SUBACK", id |-> ReadUint16(b, j),
                                      codes |-> SubSeq(b, j + 2, j + 2 + Len(v) - 1)]
      <4> HIDE DEF end, v
      <4> QED  BY <3>1, <3>2
    <3> QED  BY <3>3
  <2> QED  BY <1>1, <2>4, <2>5, <2>7
<1> QED  BY <1>5, <1>8, <1>9 DEF Legible, first

\* a CONNACK,
LEMMA LegibleConnack ==
  ASSUME NEW p, p \in [type : {"CONNACK"}, present : BOOLEAN, code : Bytes]
  PROVE  Legible(p)
<1>1. /\ p.type = "CONNACK" /\ p.present \in BOOLEAN /\ p.code \in Bytes /\ "id" \notin DOMAIN p
      /\ p = [type |-> "CONNACK", present |-> p.present, code |-> p.code]
  OBVIOUS
<1> DEFINE first == FirstByte(p)
           x == Flag(p.present)
           u == <<x, p.code>>
<1>2. FirstByte(p) = 16 * 2 + 0  BY <1>1, TypeCodes DEF FirstByte
<1>5. first \in Bytes /\ Types[first \div 16] = "CONNACK"
  <2>1. 2 \in 1..14 /\ Types[2] = "CONNACK" /\ 0 \in Nat /\ 0 < 16  BY DEF Types
  <2>2. FirstIs(first, 2, 0)  BY <1>2 DEF FirstIs
  <2> HIDE DEF first
  <2> QED  BY <2>1, <2>2, FirstRead
<1>3. x \in Bytes /\ (x % 2 = 1 <=> p.present)
  <2>1. x \in {0, 1} /\ (x = 1 <=> p.present)  BY <1>1 DEF Flag
  <2> HIDE DEF x
  <2>2. \A d \in {0, 1} : d \in Bytes  BY BytesAre
  <2> QED  BY <2>1, <2>2
<1>6. Body(p) = u /\ RemainingLength(p) = 2
  <2>1. Identifier(p) = <<>>  BY <1>1 DEF Identifier
  <2>2. Body(p) = u  BY <1>1 DEF Body
  <2>3. RemainingLength(p) = Len(<<>>) + 2  BY <1>1, <2>1 DEF RemainingLength
  <2> QED  BY <2>2, <2>3
<1> HIDE DEF x
<1>7. u \in Seq(Bytes) /\ Len(u) = 2  BY <1>1, <1>3
<1>8. ASSUME NEW b \in Seq(Bytes), NEW i \in Nat \ {0}, NEW j \in Nat \ {0},
             b[i] = FirstByte(p), Agree(b, j, Body(p)), j + Len(Body(p)) <= Len(b) + 1
      PROVE  Decoded(b, b[i], j, j + Len(Body(p))) = p
  <2>1. Types[b[i] \div 16] = "CONNACK"  BY <1>5, <1>8 DEF first
  <2>2. Len(b) \in Nat /\ j + 2 <= Len(b) + 1 /\ j + 1 <= Len(b) + 1  BY <1>6, <1>7, <1>8
  <2>3. b[j] = x /\ b[j + 1] = p.code
    <3>1. \A k \in 1..2 : j + k <= Len(b) + 1 => b[j + k - 1] = <<x, p.code>>[k]
      BY <1>6, <1>7, <1>8 DEF Agree
    <3>2. j + 1 - 1 = j /\ j + 2 - 1 = j + 1  OBVIOUS
    <3> QED  BY <2>2, <3>1, <3>2
  <2> DEFINE z == b[j] % 2 = 1
  <2>4. z = p.present
    <3>1. z <=> p.present  BY <1>3, <2>3
    <3>2. z \in BOOLEAN  BY Zenon
    <3> HIDE DEF z
    <3> QED  BY <1>1, <3>1, <3>2, Zenon
  <2>7. Decoded(b, b[i], j, j + Len(Body(p))) = [type |-> "CONNACK", present |-> z, code |-> b[j + 1]]
    BY <2>1, DecodedConnack
  <2> HIDE DEF z
  <2> QED  BY <1>1, <2>3, <2>4, <2>7, Zenon
<1>9. Body(p) \in Seq(Bytes) /\ RemainingLength(p) = Len(Body(p))  BY <1>6, <1>7
<1> QED  BY <1>5, <1>8, <1>9 DEF Legible, first

\* and a packet without a body.
LEMMA LegiblePing ==
  ASSUME NEW p, NEW t \in {"PINGREQ", "PINGRESP", "DISCONNECT"}, p \in [type : {t}]
  PROVE  Legible(p)
<1>1. p.type = t /\ "id" \notin DOMAIN p /\ p = [type |-> t]
  OBVIOUS
<1> DEFINE first == FirstByte(p)
<1>2. FirstByte(p) = 16 * Code(t) + 0  BY <1>1 DEF FirstByte
<1>3. Code(t) \in 1..14 /\ Types[Code(t)] = t
  <2>1. \E i \in DOMAIN Types : Types[i] = t
    <3>1. Types[12] = "PINGREQ" /\ Types[13] = "PINGRESP" /\ Types[14] = "DISCONNECT"  BY DEF Types
    <3>2. 12 \in DOMAIN Types /\ 13 \in DOMAIN Types /\ 14 \in DOMAIN Types  BY Codes
    <3> QED  BY <3>1, <3>2
  <2>2. Code(t) \in DOMAIN Types /\ Types[Code(t)] = t  BY <2>1 DEF Code
  <2> QED  BY <2>2, Codes
<1>5. first \in Bytes /\ Types[first \div 16] = t
  <2>1. FirstIs(first, Code(t), 0) /\ 0 \in Nat /\ 0 < 16  BY <1>2 DEF FirstIs
  <2> HIDE DEF first
  <2> QED  BY <1>3, <2>1, FirstRead
<1>6. Body(p) = <<>> /\ RemainingLength(p) = 0
  <2>1. Identifier(p) = <<>>  BY <1>1 DEF Identifier
  <2>2. Body(p) = Identifier(p)  BY <1>1 DEF Body
  <2>3. RemainingLength(p) = Len(<<>>) + 0  BY <1>1, <2>1 DEF RemainingLength
  <2> QED  BY <2>1, <2>2, <2>3
<1>7. <<>> \in Seq(Bytes) /\ Len(<<>>) = 0  OBVIOUS
<1>8. ASSUME NEW b \in Seq(Bytes), NEW i \in Nat \ {0}, NEW j \in Nat \ {0}, b[i] = FirstByte(p)
      PROVE  Decoded(b, b[i], j, j + Len(Body(p))) = p
  <2>1. Types[b[i] \div 16] = t  BY <1>5, <1>8 DEF first
  <2>2. Decoded(b, b[i], j, j + Len(Body(p))) = [type |-> t]  BY <2>1, DecodedOther
  <2> QED  BY <1>1, <2>2
<1>9. Body(p) \in Seq(Bytes) /\ RemainingLength(p) = Len(Body(p))  BY <1>6, <1>7
<1> QED  BY <1>5, <1>8, <1>9 DEF Legible, first

\* Every packet of the server is read as it was written.
LEMMA LegibleFromServer ==
  ASSUME NEW p, FromServer(p)
  PROVE  Legible(p)
<1>1. ASSUME Acknowledgement(p) PROVE Legible(p)
  <2>1. p.type \in Acks /\ p \in [type : {p.type}, id : Words \ {0}]  BY <1>1 DEF Acknowledgement, Acks
  <2> QED  BY <2>1, LegibleAck
<1>2. "UNSUBACK" \in Acks /\ "PINGRESP" \in {"PINGREQ", "PINGRESP", "DISCONNECT"}  BY DEF Acks
<1> QED
  BY <1>1, <1>2, LegiblePublication, LegibleAck, LegibleSuback, LegibleConnack, LegiblePing DEF FromServer

-----------------------------------------------------------------------------
(* Cutting a stream of packets.                                            *)

\* Where a length that is read ends.
Ranged(size, p, n) == size = Incomplete \/ (size \in Digits /\ size.next \in (p + 1)..n)

\* A length that is read ends within the bytes there are.
LEMMA MBIRange ==
  ASSUME NEW b \in Seq(Bytes), NEW i \in 1..(Len(b) + 1)
  PROVE  Ranged(DecodeMBI(b, i), i, Len(b) + 1)
<1> DEFINE n == Len(b)
           D == 1..(n + 1)
<1>1. PICK f : DecodeMBI(b, i) = f[i] /\ \A p \in i..(n + 1) : f[p] = DigitRead(b, f, p)
  BY MBIOf
<1>2. n \in Nat /\ i \in Nat /\ i \in D
  <2>1. n \in Nat  OBVIOUS
  <2> QED  BY <2>1
<1> DEFINE T == {p \in D : p < i \/ Ranged(f[p], p, n + 1)}
<1>3. Descends(n, T)
  <2> SUFFICES ASSUME NEW p \in D, \A q \in (p + 1)..(n + 1) : q \in T, ~(p < i)
               PROVE  Ranged(f[p], p, n + 1)
    BY <1>2 DEF Descends
  <2>1. f[p] = DigitRead(b, f, p) /\ p \in Nat
    <3>1. p \in i..(n + 1) /\ p \in Nat  BY <1>2
    <3> QED  BY <1>1, <3>1
  <2>2. CASE p > n
    <3>1. DigitRead(b, f, p) = Incomplete
      <4> HIDE DEF n
      <4>1. p > Len(b)  BY <2>2 DEF n
      <4> QED  BY <4>1 DEF DigitRead
    <3> QED  BY <2>1, <3>1 DEF Ranged
  <2>3. CASE ~(p > n)
    <3>1. p \in 1..Len(b) /\ b[p] \in Bytes /\ p + 1 \in (p + 1)..(n + 1)  BY <1>2, <2>1, <2>3
    <3>2. b[p] \in Nat  BY <3>1, BytesAre
    <3>3. CASE b[p] < 128
      <4>1. DigitRead(b, f, p) = [length |-> b[p], next |-> p + 1]
        BY <1>2, <2>1, <2>3, <3>3 DEF DigitRead
      <4>2. DigitRead(b, f, p) \in Digits /\ DigitRead(b, f, p).next = p + 1
        BY <2>1, <3>2, <4>1 DEF Digits
      <4> QED  BY <2>1, <3>1, <3>2, <4>2 DEF Ranged
    <3>4. CASE ~(b[p] < 128)
      <4> DEFINE rest == f[p + 1]
      <4>1. DigitRead(b, f, p) = IF rest = Incomplete THEN rest ELSE [rest EXCEPT !.length = (b[p] % 128) + 128 * @]
        BY <1>2, <2>1, <2>3, <3>4 DEF DigitRead
      <4>2. Ranged(rest, p + 1, n + 1)  BY <1>2, <2>1, <2>3, <3>1
      <4>3. rest = Incomplete => Ranged(f[p], p, n + 1)  BY <2>1, <4>1 DEF Ranged
      <4>4. ASSUME rest # Incomplete PROVE Ranged(f[p], p, n + 1)
        <5> DEFINE len == (b[p] % 128) + 128 * rest.length
        <5>1. rest \in Digits /\ rest.next \in (p + 1 + 1)..(n + 1)  BY <4>2, <4>4 DEF Ranged
        <5>2. len \in Nat
          <6>1. rest.length \in Nat  BY <5>1 DEF Digits
          <6> HIDE DEF rest
          <6> QED  BY <3>2, <6>1, SMTT(30)
        <5>3. f[p] = [rest EXCEPT !.length = len]  BY <2>1, <4>1, <4>4
        <5>4. rest.next \in (p + 1)..(n + 1)
          <6> HIDE DEF rest
          <6> QED  BY <1>2, <2>1, <5>1
        <5> HIDE DEF len, rest, n
        <5>5. f[p] \in Digits /\ f[p].next = rest.next  BY <5>1, <5>2, <5>3 DEF Digits
        <5> QED  BY <5>4, <5>5 DEF Ranged
      <4> QED  BY <4>3, <4>4
    <3> QED  BY <3>3, <3>4
  <2> QED  BY <2>2, <2>3
<1>4. \A p \in 1..(n + 1) : p \in T
  <2> HIDE DEF T
  <2> QED  BY <1>3, Descent
<1>5. Ranged(f[i], i, n + 1)  BY <1>2, <1>4
<1> QED  BY <1>1, <1>5

\* A packet that is read ends after its first byte, within the bytes there are.
LEMMA MessageEnds ==
  ASSUME NEW b \in Seq(Bytes), NEW i \in 1..Len(b)
  PROVE  DecodeMessage(b, i) = NoPacket \/ DecodeMessage(b, i).next \in (i + 1)..(Len(b) + 1)
<1> DEFINE size == DecodeMBI(b, i + 1)
           end == size.next + size.length
<1>1. Len(b) \in Nat /\ i \in Nat /\ i + 1 \in 1..(Len(b) + 1)
  <2>1. Len(b) \in Nat  OBVIOUS
  <2> QED  BY <2>1
<1>2. Ranged(size, i + 1, Len(b) + 1)  BY <1>1, MBIRange
<1>3. ~Complete(b, size) => DecodeMessage(b, i) = NoPacket  BY DEF DecodeMessage
<1>4. Complete(b, size) => DecodeMessage(b, i).next = end  BY DEF DecodeMessage
<1>5. ASSUME Complete(b, size) PROVE end \in (i + 1)..(Len(b) + 1)
  <2> HIDE DEF size
  <2>1. size \in Digits /\ size.next \in (i + 1 + 1)..(Len(b) + 1) /\ size.next + size.length <= Len(b) + 1
    BY <1>2, <1>5 DEF Ranged, Complete
  <2>2. size.length \in Nat  BY <2>1 DEF Digits
  <2> DEFINE x == size.next  y == size.length
  <2>3. x \in (i + 1 + 1)..(Len(b) + 1) /\ x + y <= Len(b) + 1 /\ y \in Nat  BY <2>1, <2>2
  <2> HIDE DEF x, y
  <2>4. x + y \in (i + 1)..(Len(b) + 1)  BY <1>1, <2>3
  <2> QED  BY <2>4 DEF x, y
<1> HIDE DEF end
<1> QED  BY <1>3, <1>4, <1>5

\* What one step of the deframing makes of the rest.
First(b, i) == IF i > Len(b) THEN NoPacket ELSE DecodeMessage(b, i)
DeframeStep(b, f, i) ==
  IF First(b, i) = NoPacket THEN [packets |-> <<>>, rest |-> SubSeq(b, i, Len(b))]
  ELSE [f[First(b, i).next] EXCEPT !.packets = <<First(b, i).packet>> \o @]

\* The loop of _deframeMessages, packet by packet.
LEMMA DeframeOf ==
  ASSUME NEW b \in Seq(Bytes)
  PROVE  \E f : Deframe(b) = f[1] /\ \A i \in 1..(Len(b) + 1) : f[i] = DeframeStep(b, f, i)
<1> DEFINE n == Len(b) + 1
           D == 1..n
           C == {First(b, i).packet : i \in D}
           V == [packets : Seq(C), rest : Seq(Bytes)]
           stop == {i \in D : First(b, i) = NoPacket}
           base == [i \in D |-> [packets |-> <<>>, rest |-> SubSeq(b, i, Len(b))]]
           next == [i \in D |-> IF i \in stop THEN 0 ELSE First(b, i).next]
           step == [i \in D |-> [t \in V |-> [t EXCEPT !.packets = <<First(b, i).packet>> \o @]]]
<1>1. Len(b) \in Nat /\ n \in Nat /\ 1 \in Nat
  <2>1. Len(b) \in Nat  OBVIOUS
  <2> QED  BY <2>1
<1>2. base \in [D -> V]
  <2> SUFFICES ASSUME NEW i \in D PROVE SubSeq(b, i, Len(b)) \in Seq(Bytes)
    <3>1. <<>> \in Seq(C)  OBVIOUS
    <3> HIDE DEF C, D
    <3> QED  BY <3>1
  <2> QED  BY <1>1
<1>3. step \in [D -> [V -> V]]
  <2> SUFFICES ASSUME NEW i \in D, NEW t \in V
               PROVE  [t EXCEPT !.packets = <<First(b, i).packet>> \o @] \in V
    <3> HIDE DEF V, D
    <3> QED  OBVIOUS
  <2>1. First(b, i).packet \in C  OBVIOUS
  <2> DEFINE x == First(b, i).packet
  <2> HIDE DEF C, D, x
  <2>2. x \in C  BY <2>1 DEF x
  <2>3. <<x>> \in Seq(C)  BY <2>2
  <2>4. <<x>> \o t.packets \in Seq(C)  BY <2>3, ConcatSize
  <2>5. [t EXCEPT !.packets = <<x>> \o @] \in V  BY <2>4
  <2> QED  BY <2>5 DEF x
<1>4. \A i \in D : i \in stop \/ First(b, i).next \in (i + 1)..n
  <2> SUFFICES ASSUME NEW i \in D, i \notin stop PROVE First(b, i).next \in (i + 1)..n
    OBVIOUS
  <2>1. First(b, i) # NoPacket  OBVIOUS
  <2>2. ~(i > Len(b)) /\ First(b, i) = DecodeMessage(b, i)  BY <2>1 DEF First
  <2>3. i \in 1..Len(b)  BY <1>1, <2>2
  <2> QED  BY <2>1, <2>2, <2>3, MessageEnds
<1>5. next \in [D -> Nat] /\ \A i \in D : i \in stop \/ next[i] \in (i + 1)..n
  <2>1. \A i \in D : i \in stop \/ First(b, i).next \in Nat  BY <1>1, <1>4
  <2> HIDE DEF stop
  <2> QED  BY <1>4, <2>1
<1>6. stop \subseteq D  OBVIOUS
<1> HIDE DEF n, V, stop, base, next, step
<1>7. Scheme(1, n, V, stop, base, next, step)  BY <1>1, <1>2, <1>3, <1>5, <1>6 DEF Scheme
<1>8. PICK f : Follows(f, 1, n, V, stop, base, next, step)  BY <1>7, Recursion
<1>9. f \in [D -> V]  BY <1>8 DEF Follows
<1>10. ASSUME NEW i \in D PROVE f[i] = DeframeStep(b, f, i)
  <2>1. f[i] = IF i \in stop THEN base[i] ELSE step[i][f[next[i]]]  BY <1>8 DEF Follows
  <2>2. CASE i \in stop
    <3>1. First(b, i) = NoPacket  BY <2>2 DEF stop
    <3>2. base[i] = [packets |-> <<>>, rest |-> SubSeq(b, i, Len(b))]  BY DEF base
    <3> QED  BY <2>1, <2>2, <3>1, <3>2 DEF DeframeStep
  <2>3. CASE i \notin stop
    <3>1. First(b, i) # NoPacket  BY <2>3 DEF stop
    <3>2. next[i] = First(b, i).next  BY <2>3 DEF next
    <3>3. next[i] \in D  BY <1>1, <1>5, <2>3
    <3>4. f[next[i]] \in V  BY <1>9, <3>3
    <3>5. step[i][f[next[i]]] = [f[next[i]] EXCEPT !.packets = <<First(b, i).packet>> \o @]
      BY <3>4 DEF step
    <3> QED  BY <2>1, <2>3, <3>1, <3>2, <3>5 DEF DeframeStep
  <2> QED  BY <2>2, <2>3
<1> DEFINE F == CHOOSE h : h = [i \in D |-> DeframeStep(b, h, i)]
<1>11. F = [i \in D |-> DeframeStep(b, F, i)]
  <2>1. f = [i \in D |-> DeframeStep(b, f, i)]
    <3> HIDE DEF D
    <3> QED  BY <1>9, <1>10
  <2> QED  BY <2>1
<1>12. Deframe(b) = F[1]  BY DEF Deframe, DeframeStep, First, n
<1> HIDE DEF F
<1>13. \A i \in D : F[i] = DeframeStep(b, F, i)
  <2> HIDE DEF D
  <2> QED  BY <1>11
<1> QED  BY <1>12, <1>13 DEF n

\* What is written lies in what comes first, whatever follows.
LEMMA AgreeMore ==
  ASSUME NEW x \in Seq(Bytes), NEW y \in Seq(Bytes), NEW i \in Nat \ {0}, NEW e,
         Agree(x, i, e), Len(e) \in Nat, i + Len(e) <= Len(x) + 1
  PROVE  Agree(x \o y, i, e)
<1> SUFFICES ASSUME NEW k \in 1..Len(e) PROVE (x \o y)[i + k - 1] = e[k]  BY DEF Agree
<1>1. Len(x) \in Nat  OBVIOUS
<1>2. i + k <= Len(x) + 1 /\ i + k - 1 \in 1..Len(x)  BY <1>1
<1>3. x[i + k - 1] = e[k]  BY <1>2 DEF Agree
<1> DEFINE m == i + k - 1
<1> HIDE DEF m
<1>4. m \in 1..Len(x) => (x \o y)[m] = x[m]  OBVIOUS
<1> QED  BY <1>2, <1>3, <1>4 DEF m

\* What agrees with a packet still does when fewer bytes are there.
LEMMA AgreeLess ==
  ASSUME NEW x \in Seq(Bytes), NEW y \in Seq(Bytes), NEW i \in Nat \ {0}, NEW e,
         Agree(x \o y, i, e), Len(e) \in Nat
  PROVE  Agree(x, i, e)
<1> SUFFICES ASSUME NEW k \in 1..Len(e), i + k <= Len(x) + 1 PROVE x[i + k - 1] = e[k]  BY DEF Agree
<1>1. Len(x) \in Nat /\ Len(x \o y) = Len(x) + Len(y) /\ Len(y) \in Nat  BY ConcatSize
<1>2. i + k <= Len(x \o y) + 1 /\ i + k - 1 \in 1..Len(x)  BY <1>1
<1>3. (x \o y)[i + k - 1] = e[k]  BY <1>2 DEF Agree
<1> DEFINE m == i + k - 1
<1> HIDE DEF m
<1>4. m \in 1..Len(x) => (x \o y)[m] = x[m]  OBVIOUS
<1> QED  BY <1>2, <1>3, <1>4 DEF m

\* The bytes of a sequence after the first d.
LEMMA AgreeLater ==
  ASSUME NEW x \in Seq(Bytes), NEW i \in Nat \ {0}, NEW d \in Nat, d < i, d <= Len(x), NEW e,
         Agree(x, i, e), Len(e) \in Nat
  PROVE  Agree(SubSeq(x, d + 1, Len(x)), i - d, e)
<1> DEFINE z == SubSeq(x, d + 1, Len(x))
<1>1. Len(x) \in Nat  OBVIOUS
<1>2. Len(z) = Len(x) - d /\ \A m \in 1..(Len(x) - d) : z[m] = x[d + m]  BY <1>1
<1> HIDE DEF z
<1> SUFFICES ASSUME NEW k \in 1..Len(e), i - d + k <= Len(z) + 1 PROVE z[i - d + k - 1] = e[k]
  BY DEF Agree, z
<1>3. i + k <= Len(x) + 1 /\ i - d + k - 1 \in 1..(Len(x) - d) /\ d + (i - d + k - 1) = i + k - 1
  BY <1>1, <1>2
<1>4. x[i + k - 1] = e[k]  BY <1>3 DEF Agree
<1> QED  BY <1>2, <1>3, <1>4

\* What stands at the end of a sequence is found there.
LEMMA AgreeSelf ==
  ASSUME NEW x \in Seq(Bytes), NEW y \in Seq(Bytes)
  PROVE  Agree(x \o y, Len(x) + 1, y)
<1> SUFFICES ASSUME NEW k \in 1..Len(y) PROVE (x \o y)[Len(x) + 1 + k - 1] = y[k]  BY DEF Agree
<1>1. Len(x) \in Nat /\ Len(y) \in Nat  OBVIOUS
<1>2. Len(x) + 1 + k - 1 = Len(x) + k  BY <1>1
<1>3. (x \o y)[Len(x) + k] = y[k]  OBVIOUS
<1> QED  BY <1>2, <1>3

\* A packet follows the other, and each ends where at says.
Framed(b, ps, at) ==
  /\ b \in Seq(Bytes) /\ Len(ps) \in Nat /\ at \in [0..Len(ps) -> Nat] /\ at[0] = 0
  /\ \A k \in 1..Len(ps) : /\ Legible(ps[k]) /\ Fits(ps[k])
                           /\ at[k] = at[k - 1] + Len(Encode(ps[k])) /\ at[k - 1] < at[k]
                           /\ Agree(b, at[k - 1] + 1, Encode(ps[k]))
  /\ Len(b) <= at[Len(ps)]

\* What is cut off from the k-th on.
CutAs(cut, b, ps, at, k, h) ==
  /\ cut = [packets |-> SubSeq(ps, k + 1, h), rest |-> SubSeq(b, at[h] + 1, Len(b))]
  /\ h \in k..Len(ps) /\ at[h] <= Len(b) /\ (h < Len(ps) => Len(b) < at[h + 1])

\* _deframeMessages takes off the packets that are whole, from the first on, and
\* leaves the bytes of the rest.
LEMMA Framing ==
  ASSUME NEW b, NEW C, NEW ps \in Seq(C), NEW at, Framed(b, ps, at)
  PROVE  \E h : CutAs(Deframe(b), b, ps, at, 0, h)
<1> DEFINE n == Len(ps)
<1>1. /\ b \in Seq(Bytes) /\ n \in Nat /\ at \in [0..n -> Nat] /\ at[0] = 0 /\ Len(b) <= at[n]
      /\ Len(b) \in Nat
  <2>1. b \in Seq(Bytes)  BY DEF Framed
  <2>2. Len(b) \in Nat  BY <2>1
  <2> QED  BY <2>2 DEF Framed
<1>2. ASSUME NEW k \in 1..n
      PROVE  /\ Legible(ps[k]) /\ Fits(ps[k])
             /\ at[k] = at[k - 1] + Len(Encode(ps[k])) /\ at[k - 1] < at[k]
             /\ Agree(b, at[k - 1] + 1, Encode(ps[k]))
             /\ at[k] \in Nat /\ at[k - 1] \in Nat
  <2>1. k \in 0..n /\ k - 1 \in 0..n  BY <1>1
  <2> QED  BY <1>1, <2>1 DEF Framed
<1>3. PICK f : Deframe(b) = f[1] /\ \A i \in 1..(Len(b) + 1) : f[i] = DeframeStep(b, f, i)
  BY <1>1, DeframeOf
<1> DEFINE Good(k) == at[k] <= Len(b) => \E h : CutAs(f[at[k] + 1], b, ps, at, k, h)
           T == {i \in 1..(n + 1) : Good(i - 1)}
<1>4. ASSUME NEW k \in 0..n, k < n => Good(k + 1), at[k] <= Len(b)
      PROVE  \E h : CutAs(f[at[k] + 1], b, ps, at, k, h)
  <2> DEFINE i == at[k] + 1
  <2>1. at[k] \in Nat /\ i \in 1..(Len(b) + 1)  BY <1>1, <1>4
  <2>2. f[i] = DeframeStep(b, f, i)
    <3> HIDE DEF i
    <3> QED  BY <1>3, <2>1
  <2>3. ASSUME First(b, i) = NoPacket, k < n => Len(b) < at[k + 1]
        PROVE  CutAs(f[i], b, ps, at, k, k)
    <3>1. f[i] = [packets |-> <<>>, rest |-> SubSeq(b, i, Len(b))]
      <4> HIDE DEF i
      <4> QED  BY <2>2, <2>3 DEF DeframeStep
    <3>2. SubSeq(ps, k + 1, k) = <<>>  OBVIOUS
    <3>3. k \in k..n  BY <1>1
    <3> HIDE DEF n
    <3> QED  BY <1>4, <2>3, <3>1, <3>2, <3>3 DEF CutAs, n
  <2>4. CASE i > Len(b)
    <3>1. First(b, i) = NoPacket
      <4> HIDE DEF i
      <4> QED  BY <2>4 DEF First
    <3>2. k < n => Len(b) < at[k + 1]
      <4>1. k < n => k + 1 \in 1..n /\ k + 1 - 1 = k  BY <1>1
      <4>2. k < n => at[k] < at[k + 1] /\ at[k + 1] \in Nat  BY <1>2, <4>1
      <4> QED  BY <1>1, <1>4, <2>1, <2>4, <4>2
    <3> QED  BY <2>3, <3>1, <3>2
  <2>5. CASE ~(i > Len(b))
    <3> DEFINE p == ps[k + 1]  j == at[k + 1]
    <3>1. k < n
      <4>1. at[k] < Len(b)  BY <1>1, <2>1, <2>5
      <4> QED  BY <1>1, <1>4, <2>1, <4>1
    <3>2. k + 1 \in 1..n /\ k + 1 - 1 = k /\ k + 1 \in 0..n  BY <1>1, <3>1
    <3>3. /\ Legible(p) /\ Fits(p) /\ j = at[k] + Len(Encode(p)) /\ at[k] < j /\ j \in Nat
          /\ Agree(b, i, Encode(p))
      BY <1>2, <3>2
    <3>4. i \in 1..Len(b) /\ First(b, i) = DecodeMessage(b, i)
      <4>1. i \in 1..Len(b)  BY <1>1, <2>1, <2>5
      <4> HIDE DEF i
      <4> QED  BY <2>5, <4>1 DEF First
    <3>5. First(b, i) = IF i + Len(Encode(p)) <= Len(b) + 1
                        THEN [packet |-> p, next |-> i + Len(Encode(p))] ELSE NoPacket
      <4> HIDE DEF i, p
      <4> QED  BY <1>1, <3>3, <3>4, MessageRead
    <3>6. i + Len(Encode(p)) = j + 1
      <4>1. Len(Encode(p)) = j - at[k]
        <5>1. Encode(p) \in Seq(Bytes)
          <6> HIDE DEF p
          <6> QED  BY <3>3, EncodedBytes
        <5>2. Len(Encode(p)) \in Nat  BY <5>1
        <5> HIDE DEF p, j
        <5> QED  BY <2>1, <3>3, <5>2, SMTT(30)
      <4> HIDE DEF p, j
      <4> QED  BY <2>1, <3>3, <4>1
    <3>7. CASE j <= Len(b)
      <4>1. First(b, i) = [packet |-> p, next |-> j + 1]
        <5> HIDE DEF i, p, j
        <5>1. j + 1 <= Len(b) + 1  BY <1>1, <3>3, <3>7
        <5> QED  BY <3>5, <3>6, <5>1
      <4>2. First(b, i) # NoPacket /\ First(b, i).packet = p /\ First(b, i).next = j + 1
        <5> HIDE DEF i, p, j
        <5>1. j + 1 # 0  BY <3>3
        <5> QED  BY <4>1, <5>1 DEF NoPacket
      <4>3. PICK h : CutAs(f[j + 1], b, ps, at, k + 1, h)  BY <1>4, <3>1, <3>7
      <4>4. f[i] = [f[j + 1] EXCEPT !.packets = <<p>> \o @]
        <5> HIDE DEF i, p, j
        <5> QED  BY <2>2, <4>2 DEF DeframeStep
      <4>5. f[j + 1] = [packets |-> SubSeq(ps, k + 1 + 1, h), rest |-> SubSeq(b, at[h] + 1, Len(b))]
        BY <4>3 DEF CutAs
      <4>6. h \in (k + 1)..n  BY <4>3 DEF CutAs
      <4>7. <<p>> \o SubSeq(ps, k + 1 + 1, h) = SubSeq(ps, k + 1, h)
        BY <1>1, <3>2, <4>6
      <4>8. f[i] = [packets |-> SubSeq(ps, k + 1, h), rest |-> SubSeq(b, at[h] + 1, Len(b))]
        <5> DEFINE x == SubSeq(ps, k + 1 + 1, h)  y == SubSeq(b, at[h] + 1, Len(b))
                   z == SubSeq(ps, k + 1, h)  t == f[j + 1]
        <5>1. t = [packets |-> x, rest |-> y] /\ <<p>> \o x = z  BY <4>5, <4>7
        <5>2. f[i] = [t EXCEPT !.packets = <<p>> \o @]  BY <4>4
        <5> HIDE DEF i, p, j, x, y, z, t
        <5>3. f[i] = [packets |-> z, rest |-> y]  BY <5>1, <5>2
        <5> QED  BY <5>3 DEF y, z
      <4>9. h \in k..n  BY <1>1, <4>6
      <4>10. CutAs(f[i], b, ps, at, k, h)
        <5> HIDE DEF i, j
        <5> QED  BY <4>3, <4>8, <4>9 DEF CutAs
      <4> QED  BY <4>10
    <3>8. CASE ~(j <= Len(b))
      <4>1. First(b, i) = NoPacket
        <5> HIDE DEF i, p, j
        <5>1. ~(j + 1 <= Len(b) + 1)  BY <1>1, <3>3, <3>8
        <5> QED  BY <3>5, <3>6, <5>1
      <4>2. k < n => Len(b) < at[k + 1]
        <5>1. Len(b) < j
          <6> HIDE DEF j
          <6> QED  BY <1>1, <3>3, <3>8
        <5> QED  BY <5>1
      <4> QED  BY <2>3, <4>1, <4>2
    <3> QED  BY <3>7, <3>8
  <2> QED  BY <2>4, <2>5
<1>5. Descends(n, T)
  <2> SUFFICES ASSUME NEW i \in 1..(n + 1), \A j \in (i + 1)..(n + 1) : j \in T PROVE Good(i - 1)
    BY <1>1 DEF Descends
  <2> DEFINE k == i - 1
  <2>1. k \in 0..n  BY <1>1
  <2>2. k < n => Good(k + 1)
    <3>1. k < n => i + 1 \in (i + 1)..(n + 1) /\ i + 1 - 1 = k + 1  BY <1>1
    <3>2. k < n => i + 1 \in T  BY <3>1
    <3>3. i + 1 \in T => Good(i + 1 - 1)
      <4> HIDE DEF Good
      <4> QED  OBVIOUS
    <3> HIDE DEF T, Good, k
    <3> QED  BY <3>1, <3>2, <3>3
  <2> HIDE DEF k
  <2>3. Good(k)  BY <1>4, <2>1, <2>2
  <2> QED  BY <2>3 DEF k
<1>6. Good(0)
  <2>1. \A i \in 1..(n + 1) : i \in T
    <3> HIDE DEF T, n
    <3> QED  BY <1>5, Descent
  <2>2. 1 \in 1..(n + 1) /\ 1 - 1 = 0  BY <1>1
  <2>3. 1 \in T => Good(1 - 1)
    <3> HIDE DEF Good
    <3> QED  OBVIOUS
  <2> HIDE DEF Good, T
  <2> QED  BY <2>1, <2>2, <2>3
<1>7. at[0] + 1 = 1 /\ at[0] <= Len(b)  BY <1>1
<1> QED  BY <1>3, <1>6, <1>7

-----------------------------------------------------------------------------
(* What arrives of the stream.                                             *)

\* Sequences with the same elements are the same.
LEMMA SeqSame ==
  ASSUME NEW S, NEW x \in Seq(S), NEW y \in Seq(S), Len(x) = Len(y), \A k \in 1..Len(x) : x[k] = y[k]
  PROVE  x = y
BY SeqEqual

\* A sequence cut in two, after another, and put together again.
IsCut(S, x, y, n) ==
  /\ SubSeq(y, 1, n) \in Seq(S) /\ Len(SubSeq(y, 1, n)) = n
  /\ SubSeq(y, n + 1, Len(y)) \in Seq(S)
  /\ (x \o SubSeq(y, 1, n)) \o SubSeq(y, n + 1, Len(y)) = x \o y

\* What is taken off the front of one sequence can go to the end of another.
LEMMA CutJoined ==
  ASSUME NEW S, NEW x \in Seq(S), NEW y \in Seq(S), NEW n \in 1..Len(y)
  PROVE  IsCut(S, x, y, n)
<1> DEFINE u == SubSeq(y, 1, n)  v == SubSeq(y, n + 1, Len(y))
<1>1. Len(y) \in Nat /\ Len(x) \in Nat /\ n \in Nat /\ n <= Len(y)  OBVIOUS
<1>2. /\ u \in Seq(S) /\ Len(u) = n /\ \A k \in 1..n : u[k] = y[k]
      /\ v \in Seq(S) /\ Len(v) = Len(y) - n /\ \A k \in 1..(Len(y) - n) : v[k] = y[n + k]
  BY <1>1
<1> HIDE DEF u, v
<1> DEFINE w == x \o u  z == w \o v  t == x \o y
<1>3. w \in Seq(S) /\ Len(w) = Len(x) + n /\ \A k \in 1..Len(x) : w[k] = x[k]
  <2>1. w \in Seq(S) /\ Len(w) = Len(x) + Len(u)  BY <1>2, ConcatSize
  <2>2. \A k \in 1..Len(x) : w[k] = x[k]  BY <1>2
  <2> HIDE DEF w
  <2> QED  BY <1>2, <2>1, <2>2
<1>4. \A k \in 1..n : w[Len(x) + k] = u[k]  BY <1>1, <1>2
<1>5. t \in Seq(S) /\ Len(t) = Len(x) + Len(y)  BY ConcatSize
<1>6. (\A k \in 1..Len(x) : t[k] = x[k]) /\ (\A k \in 1..Len(y) : t[Len(x) + k] = y[k])  OBVIOUS
<1> HIDE DEF w, t
<1>7. z \in Seq(S) /\ Len(z) = Len(w) + Len(v)  BY <1>2, <1>3, ConcatSize
<1>8. (\A k \in 1..Len(w) : z[k] = w[k]) /\ (\A k \in 1..Len(v) : z[Len(w) + k] = v[k])
  BY <1>2, <1>3, SMTT(30)
<1> HIDE DEF z
<1>9. Len(z) = Len(t)  BY <1>1, <1>2, <1>3, <1>5, <1>7
<1>10. ASSUME NEW k \in 1..Len(z) PROVE z[k] = t[k]
  <2>1. CASE k <= Len(x)
    <3>1. k \in 1..Len(x) /\ k \in 1..Len(w)  BY <1>1, <1>3, <2>1
    <3> QED  BY <1>3, <1>6, <1>8, <3>1
  <2>2. CASE k > Len(x) /\ k <= Len(w)
    <3> DEFINE m == k - Len(x)
    <3>1. m \in 1..n /\ m \in 1..Len(y) /\ Len(x) + m = k /\ k \in 1..Len(w)  BY <1>1, <1>3, <2>2
    <3> HIDE DEF m
    <3>2. z[k] = w[k] /\ w[k] = u[m] /\ u[m] = y[m]  BY <1>2, <1>4, <1>8, <3>1
    <3>3. t[k] = y[m]  BY <1>6, <3>1
    <3> QED  BY <3>2, <3>3
  <2>3. CASE k > Len(w)
    <3> DEFINE m == k - Len(w)
    <3>0. k \in Nat /\ k <= Len(w) + Len(v) /\ Len(w) = Len(x) + n /\ Len(v) = Len(y) - n
      BY <1>2, <1>3, <1>7
    <3>1. m \in 1..Len(v) /\ Len(w) + m = k /\ m \in 1..(Len(y) - n) /\ n + m \in 1..Len(y) /\ Len(x) + (n + m) = k
      BY <1>1, <2>3, <3>0
    <3> HIDE DEF m
    <3>2. z[Len(w) + m] = v[m] /\ v[m] = y[n + m]  BY <1>2, <1>8, <3>1
    <3>3. t[Len(x) + (n + m)] = y[n + m]  BY <1>6, <3>1
    <3> QED  BY <3>1, <3>2, <3>3
  <2> QED  BY <1>1, <1>3, <2>1, <2>2, <2>3
<1>11. z = t  BY <1>5, <1>7, <1>9, <1>10, SeqSame
<1>12. z = (x \o SubSeq(y, 1, n)) \o SubSeq(y, n + 1, Len(y)) /\ t = x \o y  BY DEF u, v, w, z, t
<1> QED  BY <1>2, <1>11, <1>12, Zenon DEF u, v, IsCut

\* What is left of a buffer, with what follows it.
LEMMA RestJoined ==
  ASSUME NEW S, NEW b \in Seq(S), NEW y \in Seq(S), NEW d \in 0..Len(b)
  PROVE  /\ SubSeq(b, d + 1, Len(b)) \in Seq(S) /\ Len(SubSeq(b, d + 1, Len(b))) = Len(b) - d
         /\ SubSeq(b, d + 1, Len(b)) \o y = SubSeq(b \o y, d + 1, Len(b \o y))
<1> DEFINE u == SubSeq(b, d + 1, Len(b))  w == b \o y
           z == u \o y  t == SubSeq(w, d + 1, Len(w))
<1>1. Len(y) \in Nat /\ Len(b) \in Nat /\ d \in Nat /\ d <= Len(b)  OBVIOUS
<1>2. u \in Seq(S) /\ Len(u) = Len(b) - d /\ \A k \in 1..(Len(b) - d) : u[k] = b[d + k]
  BY <1>1
<1>3. w \in Seq(S) /\ Len(w) = Len(b) + Len(y)  BY ConcatSize
<1>4. (\A k \in 1..Len(b) : w[k] = b[k]) /\ (\A k \in 1..Len(y) : w[Len(b) + k] = y[k])  OBVIOUS
<1> HIDE DEF u, w
<1>5. t \in Seq(S) /\ Len(t) = Len(w) - d /\ \A k \in 1..(Len(w) - d) : t[k] = w[d + k]
  BY <1>1, <1>3
<1>6. z \in Seq(S) /\ Len(z) = Len(u) + Len(y)  BY <1>2, ConcatSize
<1>7. (\A k \in 1..Len(u) : z[k] = u[k]) /\ (\A k \in 1..Len(y) : z[Len(u) + k] = y[k])
  BY <1>2, SMTT(30)
<1> HIDE DEF z, t
<1>8. Len(z) = Len(t)  BY <1>1, <1>2, <1>3, <1>5, <1>6
<1>9. ASSUME NEW k \in 1..Len(z) PROVE z[k] = t[k]
  <2>1. k \in 1..(Len(w) - d)  BY <1>5, <1>8
  <2>2. CASE k <= Len(u)
    <3>1. k \in 1..Len(u) /\ k \in 1..(Len(b) - d) /\ d + k \in 1..Len(b)  BY <1>1, <1>2, <2>2
    <3> QED  BY <1>2, <1>4, <1>5, <1>7, <2>1, <3>1
  <2>3. CASE k > Len(u)
    <3> DEFINE m == k - Len(u)
    <3>1. m \in 1..Len(y) /\ Len(u) + m = k /\ Len(b) + m = d + k  BY <1>1, <1>2, <1>6, <2>3, SMTT(30)
    <3> HIDE DEF m
    <3> QED  BY <1>4, <1>5, <1>7, <2>1, <3>1
  <2> QED  BY <1>1, <1>2, <2>2, <2>3
<1>10. z = t  BY <1>5, <1>6, <1>8, <1>9, SeqSame
<1> QED  BY <1>2, <1>10 DEF u, w, z, t

\* A prefix, and the next elements after it.
LEMMA PrefixGrown ==
  ASSUME NEW S, NEW s \in Seq(S), NEW h \in 0..Len(s), NEW m \in 0..(Len(s) - h)
  PROVE  SubSeq(s, 1, h) \o SubSeq(SubSeq(s, h + 1, Len(s)), 1, m) = SubSeq(s, 1, h + m)
<1> DEFINE u == SubSeq(s, 1, h)  v == SubSeq(s, h + 1, Len(s))  w == SubSeq(v, 1, m)
           z == u \o w  t == SubSeq(s, 1, h + m)
<1>1. Len(s) \in Nat /\ h \in Nat /\ m \in Nat /\ h + m <= Len(s) /\ h <= Len(s)  OBVIOUS
<1>2. u \in Seq(S) /\ Len(u) = h /\ \A k \in 1..h : u[k] = s[k]  BY <1>1
<1>3. v \in Seq(S) /\ Len(v) = Len(s) - h /\ \A k \in 1..(Len(s) - h) : v[k] = s[h + k]  BY <1>1
<1>4. t \in Seq(S) /\ Len(t) = h + m /\ \A k \in 1..(h + m) : t[k] = s[k]  BY <1>1
<1> HIDE DEF u, v, t
<1>5. w \in Seq(S) /\ Len(w) = m /\ \A k \in 1..m : w[k] = v[k]  BY <1>1, <1>3
<1> HIDE DEF w
<1>6. z \in Seq(S) /\ Len(z) = Len(u) + Len(w)  BY <1>2, <1>5, ConcatSize
<1>7. (\A k \in 1..Len(u) : z[k] = u[k]) /\ (\A k \in 1..Len(w) : z[Len(u) + k] = w[k])
  BY <1>2, <1>5, SMTT(30)
<1> HIDE DEF z
<1>8. Len(z) = Len(t)  BY <1>1, <1>2, <1>4, <1>5, <1>6
<1>9. ASSUME NEW k \in 1..Len(z) PROVE z[k] = t[k]
  <2>1. k \in 1..(h + m)  BY <1>4, <1>8
  <2>2. CASE k <= h
    <3>1. k \in 1..h  BY <2>1, <2>2
    <3> QED  BY <1>2, <1>4, <1>7, <2>1, <3>1
  <2>3. CASE k > h
    <3> DEFINE j == k - h
    <3>1. j \in 1..m /\ h + j = k /\ j \in 1..(Len(s) - h)  BY <1>1, <2>1, <2>3
    <3> HIDE DEF j
    <3>2. z[k] = w[j] /\ w[j] = v[j] /\ v[j] = s[k] /\ t[k] = s[k]
      BY <1>2, <1>3, <1>4, <1>5, <1>7, <2>1, <3>1
    <3> QED  BY <3>2
  <2> QED  BY <1>1, <2>1, <2>2, <2>3
<1>10. z = t  BY <1>4, <1>6, <1>8, <1>9, SeqSame
<1> QED  BY <1>10 DEF u, v, w, z, t

\* Where the k-th packet of the connection ends.
End(cut, k) == IF k = 0 THEN 0 ELSE cut[k]

\* The packets lie one after the other in the bytes that are not yet handled.
Frames(sent, cut, h, pending) ==
  /\ sent \in Seq(Inbound) /\ cut \in Seq(Nat) /\ Len(cut) = Len(sent)
  /\ h \in 0..Len(sent) /\ pending \in Seq(Bytes)
  /\ \A k \in 1..Len(sent) : End(cut, k) = End(cut, k - 1) + Len(Encode(sent[k]))
  /\ \A j, k \in 0..Len(sent) : j < k => End(cut, j) < End(cut, k)
  /\ \A k \in (h + 1)..Len(sent) : Agree(pending, End(cut, k - 1) - End(cut, h) + 1, Encode(sent[k]))
  /\ End(cut, h) + Len(pending) = End(cut, Len(sent))

FramesInv ==
  /\ buffer \in Seq(Bytes) /\ stream \in Seq(Bytes)
  /\ Frames(sentHere, cutAt, Len(handled), buffer \o stream)
  /\ handled = SubSeq(sentHere, 1, Len(handled))
  /\ arrived = End(cutAt, Len(handled)) + Len(buffer)
  /\ Len(handled) < Len(sentHere) => arrived < End(cutAt, Len(handled) + 1)

\* A packet of the server is read as it was written, and fits.
LEMMA InboundSent ==
  ASSUME NEW p \in Inbound
  PROVE  Legible(p) /\ Fits(p) /\ Encode(p) \in Seq(Bytes) /\ Len(Encode(p)) \in Nat \ {0}
<1>1. FromServer(p) /\ Fits(p)  BY WireAssumption
<1>2. Legible(p)  BY <1>1, LegibleFromServer
<1> QED  BY <1>1, <1>2, EncodedBytes

\* An end is a number.
LEMMA EndIs ==
  ASSUME NEW cut \in Seq(Nat), NEW k \in 0..Len(cut)
  PROVE  End(cut, k) \in Nat
<1>1. CASE k = 0  BY <1>1 DEF End
<1>2. CASE k # 0
  <2>1. k \in 1..Len(cut)  BY <1>2
  <2> QED  BY <1>2, <2>1 DEF End
<1> QED  BY <1>1, <1>2

\* The types of Frames.
LEMMA FramesType ==
  ASSUME NEW sent, NEW cut, NEW h, NEW pending, Frames(sent, cut, h, pending)
  PROVE  /\ Len(sent) \in Nat /\ h \in Nat /\ h <= Len(sent) /\ Len(pending) \in Nat
         /\ \A k \in 0..Len(sent) : End(cut, k) \in Nat
         /\ \A k \in 1..Len(sent) : sent[k] \in Inbound
<1>1. sent \in Seq(Inbound) /\ cut \in Seq(Nat) /\ Len(cut) = Len(sent) /\ h \in 0..Len(sent) /\ pending \in Seq(Bytes)
  BY DEF Frames
<1>2. Len(sent) \in Nat /\ Len(pending) \in Nat /\ \A k \in 1..Len(sent) : sent[k] \in Inbound  BY <1>1
<1>3. \A k \in 0..Len(sent) : End(cut, k) \in Nat  BY <1>1, EndIs
<1> QED  BY <1>1, <1>2, <1>3

\* One more packet.
LEMMA FramesGrow ==
  ASSUME NEW sent, NEW cut, NEW h, NEW pending, Frames(sent, cut, h, pending), NEW p \in Inbound
  PROVE  Frames(Append(sent, p), Append(cut, End(cut, Len(sent)) + Len(Encode(p))), h, pending \o Encode(p))
<1> DEFINE n == Len(sent)  e == Encode(p)  size == Len(e)  last == End(cut, n)
           sent2 == Append(sent, p)  cut2 == Append(cut, last + size)  pending2 == pending \o e
<1>1. /\ sent \in Seq(Inbound) /\ cut \in Seq(Nat) /\ Len(cut) = n /\ h \in 0..n /\ pending \in Seq(Bytes)
      /\ \A k \in 1..n : End(cut, k) = End(cut, k - 1) + Len(Encode(sent[k]))
      /\ \A j, k \in 0..n : j < k => End(cut, j) < End(cut, k)
      /\ \A k \in (h + 1)..n : Agree(pending, End(cut, k - 1) - End(cut, h) + 1, Encode(sent[k]))
      /\ End(cut, h) + Len(pending) = last
  BY DEF Frames
<1>2. /\ n \in Nat /\ h \in Nat /\ h <= n /\ Len(pending) \in Nat /\ (\A k \in 0..n : End(cut, k) \in Nat)
      /\ \A k \in 1..n : sent[k] \in Inbound
  BY FramesType
<1>3. e \in Seq(Bytes) /\ size \in Nat \ {0}  BY InboundSent
<1>4. last \in Nat  BY <1>2
<1> HIDE DEF e, size, last
<1>5. /\ sent2 \in Seq(Inbound) /\ Len(sent2) = n + 1 /\ (\A k \in 1..n : sent2[k] = sent[k]) /\ sent2[n + 1] = p
  BY <1>1
<1>6. /\ cut2 \in Seq(Nat) /\ Len(cut2) = n + 1 /\ (\A k \in 1..n : cut2[k] = cut[k]) /\ cut2[n + 1] = last + size
  <2>1. last + size \in Nat  BY <1>3, <1>4
  <2> HIDE DEF n
  <2> QED  BY <1>1, <2>1
<1> HIDE DEF n, sent2, cut2
<1>7. (\A k \in 0..n : End(cut2, k) = End(cut, k)) /\ End(cut2, n + 1) = last + size
  <2>1. \A k \in 0..n : k = 0 \/ k \in 1..n  BY <1>2
  <2>2. n + 1 # 0  BY <1>2
  <2> QED  BY <1>6, <2>1, <2>2 DEF End
<1>8. pending2 \in Seq(Bytes) /\ Len(pending2) = Len(pending) + size  BY <1>1, <1>3, ConcatSize DEF size
<1>9. ASSUME NEW k \in 1..(n + 1) PROVE End(cut2, k) = End(cut2, k - 1) + Len(Encode(sent2[k]))
  <2>1. CASE k \in 1..n
    <3>1. k \in 0..n /\ k - 1 \in 0..n  BY <1>2, <2>1
    <3> QED  BY <1>1, <1>5, <1>7, <2>1, <3>1
  <2>2. CASE k = n + 1
    <3>1. n \in 0..n /\ k - 1 = n  BY <1>2, <2>2
    <3>2. End(cut2, n) = last  BY <1>7, <3>1 DEF last
    <3> QED  BY <1>5, <1>7, <2>2, <3>1, <3>2 DEF size, e
  <2> QED  BY <1>2, <2>1, <2>2
<1>10. ASSUME NEW j \in 0..(n + 1), NEW k \in 0..(n + 1), j < k PROVE End(cut2, j) < End(cut2, k)
  <2>1. j \in 0..n /\ (k \in 0..n \/ k = n + 1)  BY <1>2, <1>10
  <2>2. CASE k \in 0..n  BY <1>1, <1>7, <1>10, <2>1, <2>2
  <2>3. CASE k = n + 1
    <3>1. j = n \/ End(cut, j) < last
      <4>1. n \in 0..n /\ (j = n \/ j < n)  BY <1>2, <2>1
      <4> QED  BY <1>1, <2>1, <4>1 DEF last
    <3>2. End(cut, j) \in Nat /\ (j = n => End(cut, j) = last)  BY <1>2, <2>1 DEF last
    <3>3. End(cut, j) < last + size  BY <1>3, <1>4, <3>1, <3>2
    <3> QED  BY <1>7, <2>1, <2>3, <3>3
  <2> QED  BY <2>1, <2>2, <2>3
<1>11. h \in 0..n /\ n \in 0..n  BY <1>1, <1>2
<1>12. ASSUME NEW k \in (h + 1)..(n + 1)
       PROVE  Agree(pending2, End(cut2, k - 1) - End(cut2, h) + 1, Encode(sent2[k]))
  <2>1. CASE k \in 1..n
    <3> DEFINE i == End(cut, k - 1) - End(cut, h) + 1  f == Encode(sent[k])
    <3>1. k \in (h + 1)..n /\ k - 1 \in 0..n /\ k \in 0..n  BY <1>2, <2>1
    <3>2. Agree(pending, i, f)  BY <1>1, <3>1
    <3>3. f \in Seq(Bytes) /\ Len(f) \in Nat  BY <1>2, <2>1, InboundSent
    <3>4. i \in Nat \ {0} /\ i + Len(f) <= Len(pending) + 1
      <4> DEFINE a == End(cut, k - 1)  z == End(cut, h)  y == End(cut, k)
      <4>1. a \in Nat /\ z \in Nat /\ y \in Nat  BY <1>2, <1>11, <3>1
      <4>2. z <= a
        <5>1. h = k - 1 \/ h < k - 1  BY <1>2, <3>1
        <5>2. h < k - 1 => z < a  BY <1>1, <1>11, <3>1
        <5>3. h = k - 1 => z = a  OBVIOUS
        <5> HIDE DEF a, z
        <5> QED  BY <4>1, <5>1, <5>2, <5>3
      <4>3. y <= last
        <5>1. k = n \/ k < n  BY <1>2, <3>1
        <5>2. k < n => y < last  BY <1>1, <1>11, <3>1 DEF last
        <5>3. k = n => y = last  BY DEF last
        <5> HIDE DEF y
        <5> QED  BY <1>4, <4>1, <5>1, <5>2, <5>3
      <4>4. y = a + Len(f)  BY <1>1, <2>1
      <4>5. z + Len(pending) = last  BY <1>1
      <4> HIDE DEF a, z, y, f
      <4>6. a - z + 1 \in Nat \ {0} /\ a - z + 1 + Len(f) <= Len(pending) + 1
        BY <1>2, <1>4, <3>3, <4>1, <4>2, <4>3, <4>4, <4>5
      <4> QED  BY <4>6 DEF a, z
    <3>5. Agree(pending2, i, f)
      <4> HIDE DEF i, f
      <4> QED  BY <1>1, <1>3, <3>2, <3>3, <3>4, AgreeMore
    <3>6. End(cut2, k - 1) = End(cut, k - 1) /\ End(cut2, h) = End(cut, h) /\ sent2[k] = sent[k]
      BY <1>5, <1>7, <1>11, <2>1, <3>1
    <3> QED  BY <3>5, <3>6
  <2>2. CASE k = n + 1
    <3>1. k - 1 = n /\ sent2[k] = p  BY <1>2, <1>5, <2>2
    <3>2. End(cut2, n) = last /\ End(cut2, h) = End(cut, h)  BY <1>7, <1>11 DEF last
    <3>3. last - End(cut, h) + 1 = Len(pending) + 1
      <4> DEFINE z == End(cut, h)
      <4>1. z \in Nat /\ z + Len(pending) = last  BY <1>1, <1>2, <1>11
      <4> HIDE DEF z
      <4>2. last - z + 1 = Len(pending) + 1  BY <1>2, <4>1
      <4> QED  BY <4>2 DEF z
    <3>4. Agree(pending2, Len(pending) + 1, e)  BY <1>1, <1>3, AgreeSelf
    <3> QED  BY <3>1, <3>2, <3>3, <3>4 DEF e
  <2> QED  BY <1>2, <2>1, <2>2
<1>13. End(cut2, h) + Len(pending2) = End(cut2, n + 1)
  <2> DEFINE z == End(cut, h)
  <2>1. z \in Nat /\ z + Len(pending) = last  BY <1>1, <1>2, <1>11
  <2>2. End(cut2, h) = z  BY <1>7, <1>11
  <2> HIDE DEF z
  <2>3. z + (Len(pending) + size) = last + size  BY <1>2, <1>3, <1>4, <2>1, SMTT(30)
  <2> QED  BY <1>7, <1>8, <2>2, <2>3
<1>14. h \in 0..(n + 1)  BY <1>2
<1>15. Frames(sent2, cut2, h, pending2)
  <2> HIDE DEF pending2
  <2> QED  BY <1>5, <1>6, <1>8, <1>9, <1>10, <1>12, <1>13, <1>14 DEF Frames
<1> QED  BY <1>15 DEF n, sent2, cut2, last, size, e

\* The packets that are not yet handled, in the bytes that have arrived.
LEMMA FramesFramed ==
  ASSUME NEW sent, NEW cut, NEW h, NEW b \in Seq(Bytes), NEW y \in Seq(Bytes), Frames(sent, cut, h, b \o y)
  PROVE  Framed(b, SubSeq(sent, h + 1, Len(sent)), [k \in 0..(Len(sent) - h) |-> End(cut, h + k) - End(cut, h)])
<1> DEFINE n == Len(sent)  pending == b \o y  m == n - h
           ps == SubSeq(sent, h + 1, n)  at == [k \in 0..m |-> End(cut, h + k) - End(cut, h)]
<1>1. /\ sent \in Seq(Inbound) /\ cut \in Seq(Nat) /\ Len(cut) = n /\ h \in 0..n /\ pending \in Seq(Bytes)
      /\ \A k \in 1..n : End(cut, k) = End(cut, k - 1) + Len(Encode(sent[k]))
      /\ \A j, k \in 0..n : j < k => End(cut, j) < End(cut, k)
      /\ \A k \in (h + 1)..n : Agree(pending, End(cut, k - 1) - End(cut, h) + 1, Encode(sent[k]))
      /\ End(cut, h) + Len(pending) = End(cut, n)
  BY DEF Frames
<1>2. /\ n \in Nat /\ h \in Nat /\ h <= n /\ Len(pending) \in Nat /\ (\A k \in 0..n : End(cut, k) \in Nat)
      /\ \A k \in 1..n : sent[k] \in Inbound
  <2> HIDE DEF pending
  <2>1. Frames(sent, cut, h, pending)  BY DEF pending
  <2> QED  BY <2>1, FramesType
<1>3. m \in Nat /\ Len(ps) = m /\ \A k \in 1..m : ps[k] = sent[h + k]
  BY <1>1, <1>2, SMTT(30)
<1>4. Len(pending) = Len(b) + Len(y) /\ Len(b) \in Nat /\ Len(y) \in Nat  BY ConcatSize
<1> HIDE DEF n, pending, ps
<1>5. \A k \in 0..m : h + k \in 0..n  BY <1>2
<1>6. ASSUME NEW k \in 0..m PROVE at[k] = End(cut, h + k) - End(cut, h) /\ at[k] \in Nat
  <2> DEFINE x == End(cut, h + k)  z == End(cut, h)
  <2>1. x \in Nat /\ z \in Nat  BY <1>1, <1>2, <1>5
  <2>2. z <= x
    <3>1. k = 0 \/ h < h + k  BY <1>2, <1>3
    <3>2. h < h + k => z < x  BY <1>1, <1>5
    <3>3. k = 0 => z = x  BY <1>2
    <3> HIDE DEF x, z
    <3> QED  BY <2>1, <3>1, <3>2, <3>3
  <2>3. at[k] = x - z  OBVIOUS
  <2> HIDE DEF x, z, at
  <2>4. x - z \in Nat  BY <2>1, <2>2
  <2> QED  BY <2>3, <2>4 DEF x, z
<1>7. at \in [0..m -> Nat]
  <2>1. at = [k \in 0..m |-> at[k]]  OBVIOUS
  <2> HIDE DEF at, m
  <2> QED  BY <1>6, <2>1
<1>8. at[0] = 0
  <2>1. 0 \in 0..m /\ h + 0 = h /\ End(cut, h) \in Nat  BY <1>1, <1>2, <1>3
  <2>2. at[0] = End(cut, h) - End(cut, h)  BY <1>6, <2>1
  <2> QED  BY <2>1, <2>2
<1> HIDE DEF at
<1>9. ASSUME NEW k \in 1..m
      PROVE  /\ Legible(ps[k]) /\ Fits(ps[k])
             /\ at[k] = at[k - 1] + Len(Encode(ps[k])) /\ at[k - 1] < at[k]
             /\ Agree(b, at[k - 1] + 1, Encode(ps[k]))
  <2>1. /\ h + k \in (h + 1)..n /\ h + k \in 1..n /\ h + k - 1 = h + (k - 1)
        /\ k \in 0..m /\ k - 1 \in 0..m
    BY <1>2
  <2>2. ps[k] = sent[h + k] /\ sent[h + k] \in Inbound  BY <1>2, <1>3, <2>1
  <2> DEFINE x == End(cut, h + k)  w == End(cut, h + (k - 1))  z == End(cut, h)  e == Encode(ps[k])
  <2>3. at[k] = x - z /\ at[k - 1] = w - z /\ at[k - 1] \in Nat  BY <1>6, <2>1
  <2>4. x \in Nat /\ w \in Nat /\ z \in Nat  BY <1>1, <1>2, <1>5, <2>1
  <2>5. x = w + Len(e)
    <3>1. End(cut, h + k) = End(cut, h + k - 1) + Len(Encode(sent[h + k]))  BY <1>1, <2>1
    <3> QED  BY <2>1, <2>2, <3>1, Zenon
  <2>6. Legible(ps[k]) /\ Fits(ps[k]) /\ e \in Seq(Bytes) /\ Len(e) \in Nat \ {0}  BY <2>2, InboundSent
  <2>7. Agree(pending, w - z + 1, e)
    <3>1. Agree(pending, End(cut, h + k - 1) - End(cut, h) + 1, Encode(sent[h + k]))  BY <1>1, <2>1
    <3> QED  BY <2>1, <2>2, <3>1
  <2> HIDE DEF x, w, z, e
  <2>8. at[k] = at[k - 1] + Len(e) /\ at[k - 1] < at[k]  BY <2>3, <2>4, <2>5, <2>6
  <2>9. Agree(b, at[k - 1] + 1, e)
    <3> DEFINE i == at[k - 1] + 1
    <3>1. i \in Nat \ {0} /\ Agree(b \o y, i, e)
      <4>1. i = w - z + 1  BY <2>3
      <4>2. i \in Nat \ {0}  BY <2>3
      <4> HIDE DEF i
      <4> QED  BY <2>7, <4>1, <4>2 DEF pending
    <3> HIDE DEF i
    <3>2. Agree(b, i, e)  BY <2>6, <3>1, AgreeLess
    <3> QED  BY <3>2 DEF i
  <2> QED  BY <2>6, <2>8, <2>9 DEF e
<1>10. Len(b) <= at[m]
  <2> DEFINE z == End(cut, h)  x == End(cut, n)
  <2>1. m \in 0..m /\ h + m = n /\ n \in 0..n  BY <1>2, <1>3
  <2>2. at[m] = x - z /\ z + Len(pending) = x /\ x \in Nat /\ z \in Nat
    <3>1. at[m] = End(cut, h + m) - End(cut, h)
      <4> HIDE DEF m
      <4> QED  BY <1>6, <2>1
    <3> QED  BY <1>1, <1>2, <2>1, <3>1
  <2> HIDE DEF x, z
  <2>3. x - z >= Len(b)  BY <1>4, <2>2
  <2> QED  BY <2>2, <2>3, <1>4
<1>11. Framed(b, ps, at)
  <2> HIDE DEF m
  <2> QED  BY <1>3, <1>7, <1>8, <1>9, <1>10 DEF Framed
<1> QED  BY <1>11 DEF n, ps, at

\* Some of them are handled.
LEMMA FramesCut ==
  ASSUME NEW sent, NEW cut, NEW h, NEW pending, Frames(sent, cut, h, pending),
         NEW g \in h..Len(sent)
  PROVE  /\ End(cut, g) - End(cut, h) \in 0..Len(pending)
         /\ Frames(sent, cut, g, SubSeq(pending, End(cut, g) - End(cut, h) + 1, Len(pending)))
<1> DEFINE n == Len(sent)  z == End(cut, h)  x == End(cut, g)  last == End(cut, n)  d == x - z
           pending2 == SubSeq(pending, d + 1, Len(pending))
<1>1. /\ sent \in Seq(Inbound) /\ cut \in Seq(Nat) /\ Len(cut) = n /\ h \in 0..n /\ pending \in Seq(Bytes)
      /\ \A k \in 1..n : End(cut, k) = End(cut, k - 1) + Len(Encode(sent[k]))
      /\ \A j, k \in 0..n : j < k => End(cut, j) < End(cut, k)
      /\ \A k \in (h + 1)..n : Agree(pending, End(cut, k - 1) - End(cut, h) + 1, Encode(sent[k]))
      /\ End(cut, h) + Len(pending) = End(cut, n)
  BY DEF Frames
<1>2. /\ n \in Nat /\ h \in Nat /\ h <= n /\ Len(pending) \in Nat /\ (\A k \in 0..n : End(cut, k) \in Nat)
      /\ \A k \in 1..n : sent[k] \in Inbound
  BY FramesType
<1> HIDE DEF n
<1>0. g \in h..n /\ g \in 0..n /\ n \in 0..n  BY <1>2 DEF n
<1>3. x \in Nat /\ z \in Nat /\ last \in Nat /\ z + Len(pending) = last  BY <1>0, <1>1, <1>2
<1>4. z <= x /\ x <= last
  <2>1. (h = g \/ h < g) /\ (g = n \/ g < n)  BY <1>0, <1>2
  <2>2. (h < g => z < x) /\ (g < n => x < last)  BY <1>0, <1>1
  <2>3. (h = g => z = x) /\ (g = n => x = last)  OBVIOUS
  <2> HIDE DEF x, z, last
  <2> QED  BY <1>3, <2>1, <2>2, <2>3
<1>5. d \in Nat /\ d <= Len(pending)
  <2> HIDE DEF x, z, last
  <2> QED  BY <1>2, <1>3, <1>4
<1>6. pending2 \in Seq(Bytes) /\ Len(pending2) = Len(pending) - d
  <2> HIDE DEF d
  <2> QED  BY <1>1, <1>2, <1>5, SMTT(30)
<1>7. x + Len(pending2) = last
  <2> HIDE DEF x, z, last, pending2
  <2> QED  BY <1>2, <1>3, <1>6
<1>8. ASSUME NEW k \in (g + 1)..n PROVE Agree(pending2, End(cut, k - 1) - x + 1, Encode(sent[k]))
  <2> DEFINE w == End(cut, k - 1)  i == w - z + 1  e == Encode(sent[k])
  <2>1. k \in (h + 1)..n /\ k \in 1..n /\ k - 1 \in 0..n /\ (g = k - 1 \/ g < k - 1)  BY <1>0, <1>2
  <2>2. Agree(pending, i, e)  BY <1>1, <2>1
  <2>3. e \in Seq(Bytes) /\ Len(e) \in Nat  BY <1>2, <2>1, InboundSent
  <2>4. w \in Nat  BY <1>2, <2>1
  <2>5. x <= w
    <3>1. g < k - 1 => x < w  BY <1>0, <1>1, <2>1
    <3>2. g = k - 1 => x = w  OBVIOUS
    <3> HIDE DEF x, w
    <3> QED  BY <1>3, <2>1, <2>4, <3>1, <3>2
  <2> HIDE DEF w, x, z, e, last
  <2>6. i \in Nat \ {0} /\ d < i /\ i - d = w - x + 1  BY <1>3, <1>4, <2>4, <2>5
  <2> HIDE DEF i, d
  <2>7. Agree(SubSeq(pending, d + 1, Len(pending)), i - d, e)
    BY <1>1, <1>5, <2>2, <2>3, <2>6, AgreeLater
  <2> QED  BY <2>6, <2>7 DEF w, e
<1>9. Frames(sent, cut, g, pending2)
  <2> HIDE DEF pending2
  <2> QED  BY <1>0, <1>1, <1>6, <1>7, <1>8 DEF Frames, n
<1>10. d \in 0..Len(pending)  BY <1>2, <1>5
<1> QED  BY <1>9, <1>10

\* How many packets have arrived whole.
LEMMA FramesCount ==
  ASSUME NEW sent, NEW cut, NEW h, NEW pending, Frames(sent, cut, h, pending),
         NEW got \in Nat, End(cut, h) <= got, h < Len(sent) => got < End(cut, h + 1)
  PROVE  Cardinality({i \in DOMAIN cut : cut[i] <= got}) = h
<1> DEFINE n == Len(sent)
<1>1. /\ cut \in Seq(Nat) /\ Len(cut) = n /\ h \in 0..n
      /\ \A j, k \in 0..n : j < k => End(cut, j) < End(cut, k)
  BY DEF Frames
<1>2. n \in Nat /\ h \in Nat /\ h <= n /\ (\A k \in 0..n : End(cut, k) \in Nat)  BY FramesType
<1>3. DOMAIN cut = 1..n  BY <1>1
<1> HIDE DEF n
<1>4. \A i \in 1..n : i \in 0..n /\ End(cut, i) = cut[i] /\ End(cut, i) \in Nat
  <2>1. \A i \in 1..n : i \in 0..n /\ i # 0  BY <1>2
  <2> QED  BY <1>2, <2>1 DEF End
<1>5. ASSUME NEW i \in 1..n, i <= h PROVE cut[i] <= got
  <2> DEFINE x == End(cut, i)  z == End(cut, h)
  <2>1. x \in Nat /\ z \in Nat /\ z <= got  BY <1>1, <1>2, <1>4
  <2>2. i = h \/ i < h  BY <1>2, <1>5
  <2>3. (i < h => x < z) /\ (i = h => x = z)  BY <1>1, <1>4
  <2> HIDE DEF x, z
  <2>4. x <= got  BY <2>1, <2>2, <2>3
  <2> QED  BY <1>4, <2>4 DEF x
<1>6. ASSUME NEW i \in 1..n, ~(i <= h) PROVE ~(cut[i] <= got)
  <2> DEFINE x == End(cut, i)  z == End(cut, h + 1)
  <2>1. h + 1 \in 0..n /\ h < n /\ (i = h + 1 \/ h + 1 < i)  BY <1>2, <1>6
  <2>2. x \in Nat /\ z \in Nat /\ got < z  BY <1>2, <1>4, <2>1 DEF n
  <2>3. (h + 1 < i => z < x) /\ (i = h + 1 => x = z)  BY <1>1, <1>4, <2>1
  <2> HIDE DEF x, z
  <2>4. ~(x <= got)  BY <2>1, <2>2, <2>3
  <2> QED  BY <1>4, <2>4 DEF x
<1>7. {i \in DOMAIN cut : cut[i] <= got} = 1..h
  <2>1. \A i : i \in 1..h <=> i \in 1..n /\ i <= h  BY <1>2
  <2> QED  BY <1>3, <1>5, <1>6, <2>1
<1>8. Cardinality(1..h) = h
  <2>1. Cardinality(1..h) = IF 1 > h THEN 0 ELSE h - 1 + 1  BY <1>2, FS_Interval
  <2> QED  BY <1>2, <2>1
<1> QED  BY <1>7, <1>8

-----------------------------------------------------------------------------
(* The frames are intact.                                                  *)

\* A new connection has no packets and no bytes.
LEMMA EmptyFrames == Frames(<<>>, <<>>, 0, <<>>)
<1>1. <<>> \in Seq(Inbound) /\ <<>> \in Seq(Nat) /\ <<>> \in Seq(Bytes) /\ Len(<<>>) = 0  OBVIOUS
<1>2. 0 \in 0..0 /\ 1..0 = {} /\ (0 + 1)..0 = {} /\ \A j, k \in 0..0 : ~(j < k)  OBVIOUS
<1>3. End(<<>>, 0) = 0  BY DEF End
<1> QED  BY <1>1, <1>2, <1>3 DEF Frames

\* FramesInv holds at the beginning.
LEMMA FramesStart == Init => FramesInv
<1> SUFFICES ASSUME Init PROVE FramesInv  OBVIOUS
<1>1. /\ stream = <<>> /\ buffer = <<>> /\ sentHere = <<>> /\ cutAt = <<>> /\ arrived = 0 /\ handled = <<>>
  BY DEF Init
<1>2. Frames(<<>>, <<>>, 0, <<>>)  BY EmptyFrames
<1>3. Len(<<>>) = 0 /\ <<>> \o <<>> = <<>> /\ <<>> \in Seq(Bytes) /\ SubSeq(<<>>, 1, 0) = <<>> /\ End(<<>>, 0) = 0
  BY DEF End
<1> QED  BY <1>1, <1>2, <1>3 DEF FramesInv

\* A packet that is sent goes to the end of what is pending.
LEMMA ServerSendsInv ==
  ASSUME FramesInv, NEW p \in Inbound, ServerSends(p)
  PROVE  FramesInv'
<1> DEFINE e == Encode(p)  n == Len(sentHere)  h == Len(handled)
<1>1. /\ stream' = stream \o e /\ sentHere' = Append(sentHere, p)
      /\ cutAt' = Append(cutAt, (IF cutAt = <<>> THEN 0 ELSE Last(cutAt)) + Len(e))
      /\ buffer' = buffer /\ arrived' = arrived /\ handled' = handled
  BY DEF ServerSends
<1>2. /\ buffer \in Seq(Bytes) /\ stream \in Seq(Bytes) /\ Frames(sentHere, cutAt, h, buffer \o stream)
      /\ handled = SubSeq(sentHere, 1, h) /\ arrived = End(cutAt, h) + Len(buffer)
      /\ h < n => arrived < End(cutAt, h + 1)
  BY DEF FramesInv
<1>3. /\ n \in Nat /\ h \in Nat /\ h <= n /\ \A k \in 0..n : End(cutAt, k) \in Nat
  <2> DEFINE pending == buffer \o stream
  <2> HIDE DEF pending
  <2>1. Frames(sentHere, cutAt, h, pending)  BY <1>2 DEF pending
  <2> QED  BY <2>1, FramesType
<1>4. /\ sentHere \in Seq(Inbound) /\ cutAt \in Seq(Nat) /\ Len(cutAt) = n
      /\ End(cutAt, h) + Len(buffer \o stream) = End(cutAt, n)
  BY <1>2 DEF Frames
<1>5. (IF cutAt = <<>> THEN 0 ELSE Last(cutAt)) = End(cutAt, n)
  <2>1. CASE cutAt = <<>>
    <3>1. n = 0  BY <1>4, <2>1
    <3> QED  BY <2>1, <3>1 DEF End
  <2>2. CASE cutAt # <<>>
    <3>1. n # 0  BY <1>4, <2>2
    <3> QED  BY <1>4, <2>2, <3>1 DEF End, Last
  <2> QED  BY <2>1, <2>2
<1>6. e \in Seq(Bytes) /\ Len(e) \in Nat \ {0}  BY InboundSent
<1> DEFINE pending == buffer \o stream  sent2 == Append(sentHere, p)
           last == End(cutAt, n)  cut2 == Append(cutAt, last + Len(e))
<1>7. Frames(sent2, cut2, h, pending \o e)
  <2> HIDE DEF pending
  <2>1. Frames(sentHere, cutAt, h, pending)  BY <1>2 DEF pending
  <2> QED  BY <2>1, FramesGrow
<1>8. pending \o e = buffer \o (stream \o e) /\ stream \o e \in Seq(Bytes)
  <2> HIDE DEF e
  <2>1. stream \o e \in Seq(Bytes)  BY <1>2, <1>6, ConcatSize
  <2>2. pending \o e = buffer \o (stream \o e)  BY <1>2, <1>6, ConcatAssociative, SMTT(30)
  <2> QED  BY <2>1, <2>2
<1>9. sentHere' = sent2 /\ cutAt' = cut2  BY <1>1, <1>5
<1>10. Len(sent2) = n + 1 /\ Len(handled') = h
  <2> HIDE DEF n
  <2> QED  BY <1>1, <1>4 DEF n
<1>11. SubSeq(sent2, 1, h) = SubSeq(sentHere, 1, h)
  <2> HIDE DEF h
  <2> QED  BY <1>3, <1>4
<1>12. \A k \in 0..n : End(cut2, k) = End(cutAt, k)
  <2> DEFINE z == last + Len(e)
  <2>1. z \in Nat
    <3>1. last \in Nat  BY <1>3
    <3> HIDE DEF last, e
    <3> QED  BY <1>6, <3>1
  <2> HIDE DEF z, n
  <2>2. \A k \in 1..n : Append(cutAt, z)[k] = cutAt[k]  BY <1>4, <2>1
  <2>3. \A k \in 0..n : k = 0 \/ k \in 1..n  BY <1>3
  <2>4. \A k \in 0..n : End(Append(cutAt, z), k) = End(cutAt, k)  BY <2>2, <2>3 DEF End
  <2> QED  BY <2>4 DEF z
<1>13. End(cut2, n + 1) = last + Len(e)
  <2> DEFINE z == last + Len(e)
  <2> HIDE DEF z, n
  <2>1. Append(cutAt, z)[n + 1] = z  BY <1>4
  <2>2. n + 1 # 0  BY <1>3
  <2>3. End(Append(cutAt, z), n + 1) = z  BY <2>1, <2>2 DEF End
  <2> QED  BY <2>3 DEF z
<1>14. h < n + 1 => arrived < End(cut2, h + 1)
  <2>1. CASE h < n
    <3>1. h + 1 \in 0..n  BY <1>3, <2>1
    <3> QED  BY <1>2, <1>12, <2>1, <3>1
  <2>2. CASE h = n
    <3> DEFINE x == Len(buffer)  y == Len(stream)  size == Len(e)
    <3>1. arrived = last + x  BY <1>2, <2>2
    <3>2. Len(buffer \o stream) = x + y /\ x \in Nat /\ y \in Nat  BY <1>2, ConcatSize
    <3>3. last + (x + y) = last /\ last \in Nat
      <4>1. n \in 0..n  BY <1>3
      <4> QED  BY <1>3, <1>4, <2>2, <3>2, <4>1
    <3> HIDE DEF x, y, last, size
    <3>4. x = 0  BY <3>2, <3>3
    <3>5. arrived < last + size  BY <1>6, <3>1, <3>3, <3>4 DEF size
    <3> QED  BY <1>13, <2>2, <3>5 DEF size
  <2> QED  BY <1>3, <2>1, <2>2
<1>15. arrived = End(cut2, h) + Len(buffer)
  <2>1. h \in 0..n  BY <1>3
  <2> QED  BY <1>2, <1>12, <2>1
<1> HIDE DEF sent2, cut2, pending, e, n, last
<1>16. Frames(sent2, cut2, h, buffer \o (stream \o e))  BY <1>7, <1>8
<1>17. handled = SubSeq(sent2, 1, h)  BY <1>2, <1>11
<1> QED  BY <1>1, <1>2, <1>8, <1>9, <1>10, <1>14, <1>15, <1>16, <1>17 DEF FramesInv

\* The packets that have become whole are handled, and the next is not whole.
LEMMA ArrivesInv ==
  ASSUME FramesInv, NEW n, Arrives(n)
  PROVE  FramesInv'
<1> DEFINE h == Len(handled)  y1 == SubSeq(stream, 1, n)  y2 == SubSeq(stream, n + 1, Len(stream))
           b == buffer \o y1  all == Deframe(b)
<1>1. /\ n \in 1..Len(stream) /\ handled' = handled \o all.packets /\ buffer' = all.rest
      /\ arrived' = arrived + n /\ stream' = y2 /\ sentHere' = sentHere /\ cutAt' = cutAt
  BY DEF Arrives
<1>2. /\ buffer \in Seq(Bytes) /\ stream \in Seq(Bytes) /\ Frames(sentHere, cutAt, h, buffer \o stream)
      /\ handled = SubSeq(sentHere, 1, h) /\ arrived = End(cutAt, h) + Len(buffer)
  BY DEF FramesInv
<1>3. /\ y1 \in Seq(Bytes) /\ Len(y1) = n /\ y2 \in Seq(Bytes) /\ b \o y2 = buffer \o stream
  <2>1. n \in 1..Len(stream) /\ buffer \in Seq(Bytes) /\ stream \in Seq(Bytes)
    <3> HIDE DEF Bytes
    <3> QED  BY <1>1, <1>2
  <2>2. /\ SubSeq(stream, 1, n) \in Seq(Bytes) /\ SubSeq(stream, n + 1, Len(stream)) \in Seq(Bytes)
        /\ Len(SubSeq(stream, 1, n)) = n
        /\ (buffer \o SubSeq(stream, 1, n)) \o SubSeq(stream, n + 1, Len(stream)) = buffer \o stream
    <3>1. IsCut(Bytes, buffer, stream, n)  BY <2>1, CutJoined
    <3> QED  BY <3>1, Zenon DEF IsCut
  <2> QED  BY <2>2 DEF y1, y2, b
<1>4. b \in Seq(Bytes) /\ Len(b) = Len(buffer) + n /\ Len(buffer) \in Nat /\ Len(b) \in Nat /\ n \in Nat
  <2>1. b \in Seq(Bytes) /\ Len(b) = Len(buffer) + Len(y1) /\ Len(buffer) \in Nat /\ Len(y1) \in Nat
    <3> HIDE DEF y1
    <3> QED  BY <1>2, <1>3, ConcatSize
  <2>2. Len(b) \in Nat  BY <2>1
  <2> QED  BY <1>3, <2>1, <2>2
<1> DEFINE N == Len(sentHere)
           ps == SubSeq(sentHere, h + 1, N)
           at == [k \in 0..(N - h) |-> End(cutAt, h + k) - End(cutAt, h)]
<1> HIDE DEF b, y1, y2
<1>5. Frames(sentHere, cutAt, h, b \o y2)  BY <1>2, <1>3
<1>6. /\ N \in Nat /\ h \in Nat /\ h <= N /\ (\A k \in 0..N : End(cutAt, k) \in Nat)
      /\ sentHere \in Seq(Inbound)
  <2> DEFINE pending == b \o y2
  <2> HIDE DEF pending
  <2>1. Frames(sentHere, cutAt, h, pending)  BY <1>5 DEF pending
  <2> QED  BY <2>1, FramesType DEF Frames
<1>7. Framed(b, ps, at)  BY <1>3, <1>4, <1>5, FramesFramed
<1>8. ps \in Seq(Inbound) /\ Len(ps) = N - h
  <2> HIDE DEF h
  <2> QED  BY <1>6
<1>9. PICK m : CutAs(all, b, ps, at, 0, m)
  <2> HIDE DEF ps, at
  <2> QED  BY <1>7, <1>8, Framing
<1> DEFINE g == h + m
<1>10. /\ all.packets = SubSeq(ps, 1, m) /\ all.rest = SubSeq(b, at[m] + 1, Len(b))
       /\ m \in 0..(N - h) /\ at[m] <= Len(b) /\ (m < N - h => Len(b) < at[m + 1])
  <2> HIDE DEF all, ps, at, N, h
  <2>1. /\ all = [packets |-> SubSeq(ps, 0 + 1, m), rest |-> SubSeq(b, at[m] + 1, Len(b))]
        /\ m \in 0..Len(ps) /\ at[m] <= Len(b) /\ (m < Len(ps) => Len(b) < at[m + 1])
    BY <1>9 DEF CutAs
  <2>2. 0 + 1 = 1 /\ Len(ps) = N - h  BY <1>8
  <2>3. all.packets = SubSeq(ps, 0 + 1, m) /\ all.rest = SubSeq(b, at[m] + 1, Len(b))  BY <2>1
  <2>4. all.packets = SubSeq(ps, 1, m)  BY <2>2, <2>3
  <2> QED  BY <2>1, <2>2, <2>3, <2>4
<1>11. at[m] = End(cutAt, g) - End(cutAt, h) /\ (m < N - h => at[m + 1] = End(cutAt, g + 1) - End(cutAt, h))
  <2>1. m < N - h => m + 1 \in 0..(N - h) /\ h + (m + 1) = g + 1  BY <1>6, <1>10
  <2>2. \A k \in 0..(N - h) : at[k] = End(cutAt, h + k) - End(cutAt, h)  OBVIOUS
  <2> HIDE DEF at
  <2> QED  BY <1>10, <2>1, <2>2
<1> HIDE DEF all, at
<1>12. m \in Nat /\ g \in h..N /\ g \in 0..N /\ h \in 0..N /\ (g < N => m < N - h /\ g + 1 \in 0..N)
  BY <1>6, <1>10, SMTT(30)
<1> DEFINE x == End(cutAt, g)  z == End(cutAt, h)  d == x - z
<1>13. /\ d \in 0..Len(b \o y2)
       /\ Frames(sentHere, cutAt, g, SubSeq(b \o y2, d + 1, Len(b \o y2)))
  <2> DEFINE pending == b \o y2
  <2> HIDE DEF pending
  <2>1. Frames(sentHere, cutAt, h, pending)  BY <1>5 DEF pending
  <2>2. d \in 0..Len(pending) /\ Frames(sentHere, cutAt, g, SubSeq(pending, d + 1, Len(pending)))
    <3> HIDE DEF g, h
    <3> QED  BY <1>12, <2>1, FramesCut
  <2> QED  BY <2>2 DEF pending
<1>14. x \in Nat /\ z \in Nat  BY <1>6, <1>12
<1>15. d \in 0..Len(b)
  <2>1. d \in Nat /\ d <= Len(b)
    <3>1. d <= Len(b)  BY <1>10, <1>11
    <3>2. Len(b \o y2) \in Nat  BY <1>3, <1>4, ConcatSize
    <3> HIDE DEF d
    <3> QED  BY <1>13, <3>1, <3>2
  <2> HIDE DEF d
  <2> QED  BY <1>4, <2>1
<1>16. /\ buffer' = SubSeq(b, d + 1, Len(b)) /\ buffer' \in Seq(Bytes) /\ Len(buffer') = Len(b) - d
       /\ buffer' \o y2 = SubSeq(b \o y2, d + 1, Len(b \o y2))
  <2>1. buffer' = SubSeq(b, d + 1, Len(b))  BY <1>1, <1>10, <1>11
  <2> HIDE DEF d
  <2> QED  BY <1>3, <1>4, <1>15, <2>1, RestJoined
<1>17. Frames(sentHere, cutAt, g, buffer' \o y2)  BY <1>13, <1>16
<1>18. handled' = SubSeq(sentHere, 1, g)
  <2>1. handled' = SubSeq(sentHere, 1, h) \o SubSeq(SubSeq(sentHere, h + 1, Len(sentHere)), 1, m)
    BY <1>1, <1>2, <1>10, Zenon
  <2> HIDE DEF h
  <2> QED  BY <1>6, <1>10, <1>12, <2>1, PrefixGrown
<1>19. Len(handled') = g
  <2> HIDE DEF g
  <2> QED  BY <1>6, <1>12, <1>18
<1>20. arrived' = x + Len(buffer')
  <2>1. arrived' = z + Len(buffer) + n  BY <1>1, <1>2
  <2> HIDE DEF x, z
  <2> QED  BY <1>4, <1>14, <1>16, <2>1
<1>21. g < N => arrived' < End(cutAt, g + 1)
  <2> SUFFICES ASSUME g < N PROVE arrived' < End(cutAt, g + 1)  OBVIOUS
  <2> DEFINE w == End(cutAt, g + 1)
  <2>1. Len(b) < w - z /\ w \in Nat  BY <1>6, <1>10, <1>11, <1>12
  <2>2. arrived' = z + Len(buffer) + n  BY <1>1, <1>2
  <2> HIDE DEF w, z
  <2>3. arrived' < w  BY <1>4, <1>14, <2>1, <2>2
  <2> QED  BY <2>3 DEF w
<1> HIDE DEF g, N
<1> QED  BY <1>1, <1>3, <1>16, <1>17, <1>18, <1>19, <1>20, <1>21 DEF FramesInv, N

\* A connection lost between two packets leaves nothing behind.
LEMMA ReconnectsInv ==
  ASSUME FramesInv, Reconnects, ~DropAnywhere
  PROVE  FramesInv'
<1>1. /\ stream' = <<>> /\ buffer' = <<>> /\ sentHere' = <<>> /\ cutAt' = <<>> /\ arrived' = 0 /\ handled' = <<>>
  BY DEF Reconnects
<1>2. Frames(<<>>, <<>>, 0, <<>>)  BY EmptyFrames
<1>3. Len(<<>>) = 0 /\ <<>> \o <<>> = <<>> /\ <<>> \in Seq(Bytes) /\ SubSeq(<<>>, 1, 0) = <<>> /\ End(<<>>, 0) = 0
  BY DEF End
<1> QED  BY <1>1, <1>2, <1>3 DEF FramesInv

\* Every step keeps FramesInv.
LEMMA FramesStep ==
  ASSUME FramesInv, [Next]_vars, ~DropAnywhere
  PROVE  FramesInv'
<1>1. CASE \E p \in Inbound : ServerSends(p)  BY <1>1, ServerSendsInv
<1>2. CASE \E n \in Pieces \cup {Len(stream)} : Arrives(n)  BY <1>2, ArrivesInv
<1>3. CASE Reconnects  BY <1>3, ReconnectsInv
<1>4. CASE \E p \in Outbound : ClientSends(p)  BY <1>4 DEF ClientSends, FramesInv
<1>5. CASE \E o \in Options : ClientConnects(o)  BY <1>5 DEF ClientConnects, ClientSends, FramesInv
<1>6. CASE UNCHANGED vars  BY <1>6 DEF vars, FramesInv
<1> QED  BY <1>1, <1>2, <1>3, <1>4, <1>5, <1>6 DEF Next

\* As many packets are handled as end within what has arrived.
LEMMA InvIsIntact == FramesInv => FramesIntact
<1> SUFFICES ASSUME FramesInv PROVE FramesIntact  OBVIOUS
<1> DEFINE h == Len(handled)  pending == buffer \o stream
<1>1. /\ Frames(sentHere, cutAt, h, pending) /\ handled = SubSeq(sentHere, 1, h)
      /\ arrived = End(cutAt, h) + Len(buffer) /\ Len(buffer) \in Nat
      /\ h < Len(sentHere) => arrived < End(cutAt, h + 1)
  BY DEF FramesInv
<1> HIDE DEF pending, h
<1>2. h \in 0..Len(sentHere) /\ Len(cutAt) = Len(sentHere) /\ cutAt \in Seq(Nat)  BY <1>1 DEF Frames
<1>3. End(cutAt, h) \in Nat  BY <1>2, EndIs
<1>4. arrived \in Nat /\ End(cutAt, h) <= arrived  BY <1>1, <1>3
<1>5. Cardinality({i \in DOMAIN cutAt : cutAt[i] <= arrived}) = h  BY <1>1, <1>4, FramesCount
<1> QED  BY <1>1, <1>5 DEF FramesIntact

\* However the WebSocket cuts the bytes, onmessage handles exactly the packets that
\* have arrived whole, in order, each as the server sent it, over any number of
\* connections, none of which is lost in the middle of a packet: receiveBuffer is
\* not emptied for the next one.
THEOREM FramesStayIntact == ASSUME ~DropAnywhere PROVE Spec => []FramesIntact
<1>1. FramesInv /\ [Next]_vars => FramesInv'  BY FramesStep
<1> QED  BY <1>1, FramesStart, InvIsIntact, PTL DEF Spec

-----------------------------------------------------------------------------
(* A message that is stored.                                               *)

\* A byte is put together of its two digits.
LEMMA Halves ==
  ASSUME NEW x \in Nat, NEW q, NEW r, q = x \div 16, r = x % 16
  PROVE  16 * q + r = x
OBVIOUS

\* The digits, what is written of a payload from each element on, and what is read
\* from digits.
Hexes == {d \in Nat : d < 16}

HexStep(x, f, i) ==
  IF i > Len(x.elements) THEN <<>> ELSE HexDigits(x.elements[i]) \o f[i + 1]

Spelled(x, f) ==
  /\ f \in [1..(Len(x.elements) + 1) -> Seq(Hexes)]
  /\ f[Len(x.elements) + 1] = <<>>
  /\ \A i \in 1..Len(x.elements) : f[i] = HexDigits(x.elements[i]) \o f[i + 1]

Back(h) == [i \in 1..(Len(h) \div 2) |-> 16 * h[2 * i - 1] + h[2 * i]]

\* An element has two to four digits, a byte its two halves.
LEMMA DigitsAre ==
  ASSUME NEW e \in Words
  PROVE  /\ HexDigits(e) \in Seq(Hexes) /\ Len(HexDigits(e)) <= 4
         /\ e < 256 => HexDigits(e) = <<e \div 16, e % 16>>
<1>1. e \in Nat /\ e < 65536  BY WordsAre
<1>2. ASSUME NEW a \in Nat PROVE a % 16 \in Hexes  BY <1>2 DEF Hexes
<1>3. CASE e < 256
  <2>1. e \div 16 \in Hexes /\ e % 16 \in Hexes  BY <1>1, <1>3 DEF Hexes
  <2>2. HexDigits(e) = <<e \div 16, e % 16>>  BY <1>1, <1>3 DEF HexDigits
  <2> QED  BY <2>1, <2>2
<1>4. CASE ~(e < 256) /\ e < 4096
  <2>1. e \div 256 \in Hexes /\ (e \div 16) % 16 \in Hexes /\ e % 16 \in Hexes
    BY <1>1, <1>4 DEF Hexes
  <2>2. HexDigits(e) = <<e \div 256, (e \div 16) % 16, e % 16>>  BY <1>1, <1>4 DEF HexDigits
  <2> QED  BY <1>4, <2>1, <2>2
<1>5. CASE ~(e < 4096)
  <2>1. e \div 4096 \in Hexes /\ (e \div 256) % 16 \in Hexes /\ (e \div 16) % 16 \in Hexes /\ e % 16 \in Hexes
    BY <1>1, <1>5 DEF Hexes
  <2>2. HexDigits(e) = <<e \div 4096, (e \div 256) % 16, (e \div 16) % 16, e % 16>>
    BY <1>1, <1>5 DEF HexDigits
  <2>3. ~(e < 256)  BY <1>1, <1>5
  <2> QED  BY <2>1, <2>2, <2>3
<1> QED  BY <1>1, <1>3, <1>4, <1>5

\* The elements of a payload are words, and those of bytes are bytes.
LEMMA ElementsAre ==
  ASSUME NEW x, Payload(x)
  PROVE  /\ x.elements \in Seq(Words) /\ Len(x.elements) \in Nat
         /\ x.kind \in {"bytes", "buffer", "view"}
         /\ x.kind # "view" => x.elements \in Seq(Bytes)
<1> HIDE DEF Words, Bytes
<1>1. x \in [kind : {"bytes", "buffer", "view"}, elements : Seq(Words), part : BOOLEAN]  BY DEF Payload
<1>2. x.elements \in Seq(Words) /\ x.kind \in {"bytes", "buffer", "view"}  BY <1>1
<1> QED  BY <1>2 DEF Payload

\* The digits of a payload, element by element.
LEMMA HexWritten ==
  ASSUME NEW x, Payload(x)
  PROVE  \E f : Spelled(x, f) /\ (x.kind # "buffer" => Hex(x) = f[1])
<1> DEFINE s == x.elements
           m == Len(s)
           n == m + 1
           D == 1..n
           stop == {n}
           next == [i \in D |-> IF i = n THEN 0 ELSE i + 1]
           piece == [i \in D |-> IF i = n THEN <<>> ELSE HexDigits(s[i])]
<1>1. m \in Nat /\ \A i \in 1..m : s[i] \in Words  BY ElementsAre
<1> HIDE DEF m, s
<1>2. n \in D /\ (\A i \in D : i = n \/ i \in 1..m) /\ (\A i \in 1..m : i \in D /\ i # n /\ i + 1 \in (i + 1)..n /\ i + 1 \in Nat)
  BY <1>1
<1>3. \A i \in 1..m : HexDigits(s[i]) \in Seq(Hexes)  BY <1>1, DigitsAre
<1>4. Chain(1, n, stop, next)
  <2>1. next \in [D -> Nat] /\ \A i \in D : i \in stop \/ next[i] \in (i + 1)..n  BY <1>2
  <2>2. stop \subseteq D /\ n \in Nat  BY <1>1, <1>2
  <2> HIDE DEF next, stop, n
  <2> QED  BY <2>1, <2>2 DEF Chain
<1>5. piece \in [D -> Seq(Hexes)]
  <2>1. <<>> \in Seq(Hexes)  OBVIOUS
  <2> HIDE DEF n, Hexes
  <2>2. \A i \in D : i # n => HexDigits(s[i]) \in Seq(Hexes)
    <3> HIDE DEF D
    <3> QED  BY <1>2, <1>3
  <2> HIDE DEF D
  <2> QED  BY <2>1, <2>2
<1>6. PICK f : Linked(f, 1, n, Hexes, stop, piece, next)
  <2> HIDE DEF stop, piece, next, n
  <2> QED  BY <1>4, <1>5, Linking
<1>7. Spelled(x, f)
  <2>1. f \in [D -> Seq(Hexes)]  BY <1>6 DEF Linked
  <2>2. f[n] = <<>>  BY <1>2, <1>6 DEF Linked
  <2>3. ASSUME NEW i \in 1..m PROVE f[i] = HexDigits(s[i]) \o f[i + 1]
    <3>1. i \in D /\ i \notin stop /\ next[i] = i + 1 /\ piece[i] = HexDigits(s[i])  BY <1>2
    <3> HIDE DEF stop, next, piece
    <3> QED  BY <1>6, <3>1, Zenon DEF Linked
  <2> QED  BY <2>1, <2>2, <2>3 DEF Spelled, m, s
<1> DEFINE F == CHOOSE g : g = [i \in D |-> HexStep(x, g, i)]
<1>8. ASSUME NEW i \in D PROVE f[i] = HexStep(x, f, i)
  <2>1. CASE i = n
    <3>1. i > m  BY <1>1, <2>1
    <3> QED  BY <1>7, <2>1, <3>1 DEF Spelled, HexStep, m, s
  <2>2. CASE i \in 1..m
    <3>1. ~(i > m)  BY <1>1, <2>2
    <3> QED  BY <1>7, <2>2, <3>1, Zenon DEF Spelled, HexStep, m, s
  <2> QED  BY <1>2, <2>1, <2>2
<1>9. F = [i \in D |-> HexStep(x, F, i)]
  <2>1. f = [i \in D |-> HexStep(x, f, i)]  BY <1>7, <1>8 DEF Spelled, m, s
  <2> QED  BY <2>1
<1>10. x.kind # "buffer" => Hex(x) = F[1]  BY DEF Hex, HexStep, m, s
<1> HIDE DEF F
<1>11. ASSUME NEW i \in D PROVE F[i] = HexStep(x, F, i)
  <2> HIDE DEF D
  <2> QED  BY <1>9
<1>12. F[n] = <<>> /\ \A i \in 1..m : F[i] = HexDigits(s[i]) \o F[i + 1]
  <2>1. n > m /\ \A i \in 1..m : ~(i > m)  BY <1>1
  <2>2. F[n] = <<>>  BY <1>2, <1>11, <2>1, Zenon DEF HexStep, m, s
  <2>3. ASSUME NEW i \in 1..m PROVE F[i] = HexDigits(s[i]) \o F[i + 1]
    BY <1>2, <1>11, <2>1, Zenon DEF HexStep, m, s
  <2> QED  BY <2>2, <2>3
<1> DEFINE T == {i \in D : F[i] \in Seq(Hexes)}
<1>13. Descends(m, T)
  <2> SUFFICES ASSUME NEW i \in D, \A j \in (i + 1)..n : j \in T PROVE F[i] \in Seq(Hexes)
    BY <1>1 DEF Descends
  <2>1. CASE i = n
    <3>1. <<>> \in Seq(Hexes)  OBVIOUS
    <3> QED  BY <1>12, <2>1, <3>1
  <2>2. CASE i \in 1..m
    <3> DEFINE u == HexDigits(s[i])  w == F[i + 1]
    <3>1. u \in Seq(Hexes) /\ w \in Seq(Hexes) /\ F[i] = u \o w  BY <1>2, <1>3, <1>12, <2>2
    <3> HIDE DEF u, w
    <3>2. u \o w \in Seq(Hexes)  BY <3>1
    <3> QED  BY <3>1, <3>2, Zenon
  <2> QED  BY <1>2, <2>1, <2>2
<1>14. \A i \in D : F[i] \in Seq(Hexes)
  <2>1. \A i \in 1..(m + 1) : i \in T
    <3> HIDE DEF T
    <3> QED  BY <1>13, Descent
  <2> QED  BY <2>1
<1>15. F \in [D -> Seq(Hexes)]
  <2> HIDE DEF D
  <2> QED  BY <1>9, <1>14
<1>16. Spelled(x, F)  BY <1>12, <1>15 DEF Spelled, m, s
<1> QED  BY <1>10, <1>16

\* A payload has no more than four digits for an element.
LEMMA HexSize ==
  ASSUME NEW x, Payload(x), NEW f, Spelled(x, f)
  PROVE  f[1] \in Seq(Hexes) /\ Len(f[1]) <= 4 * Len(x.elements)
<1> DEFINE m == Len(x.elements)  n == m + 1
           T == {i \in 1..n : Len(f[i]) <= 4 * (n - i)}
<1>1. m \in Nat /\ \A i \in 1..m : x.elements[i] \in Words  BY ElementsAre
<1>2. /\ \A i \in 1..n : f[i] \in Seq(Hexes)
      /\ f[n] = <<>> /\ \A i \in 1..m : f[i] = HexDigits(x.elements[i]) \o f[i + 1]
  BY DEF Spelled
<1> HIDE DEF m
<1>3. Descends(m, T)
  <2> SUFFICES ASSUME NEW i \in 1..n, \A j \in (i + 1)..n : j \in T PROVE Len(f[i]) <= 4 * (n - i)
    BY <1>1 DEF Descends
  <2>1. CASE i = n  BY <1>1, <1>2, <2>1
  <2>2. CASE i # n
    <3>1. i \in 1..m /\ i + 1 \in (i + 1)..n /\ i + 1 \in 1..n /\ i \in Nat  BY <1>1, <2>2
    <3> DEFINE u == HexDigits(x.elements[i])  w == f[i + 1]
    <3>2. u \in Seq(Hexes) /\ Len(u) <= 4  BY <1>1, <3>1, DigitsAre
    <3>3. w \in Seq(Hexes) /\ Len(w) <= 4 * (n - (i + 1))  BY <1>2, <3>1
    <3>4. f[i] = u \o w  BY <1>2, <3>1
    <3> HIDE DEF u, w
    <3>5. Len(f[i]) = Len(u) + Len(w) /\ Len(u) \in Nat /\ Len(w) \in Nat  BY <3>2, <3>3, <3>4
    <3> QED  BY <1>1, <3>1, <3>2, <3>3, <3>5
  <2> QED  BY <2>1, <2>2
<1>4. 1 \in 1..(m + 1)  BY <1>1
<1>5. 1 \in T
  <2> HIDE DEF T
  <2> QED  BY <1>3, <1>4, Descent
<1>6. Len(f[1]) <= 4 * (n - 1) /\ n - 1 = m  BY <1>1, <1>5
<1> QED  BY <1>2, <1>4, <1>6 DEF m

\* The halves of the bytes from i on, at two places each.
Paired(b, h, i) ==
  /\ Len(h) = 2 * (Len(b) + 1 - i)
  /\ \A k \in i..Len(b) : h[2 * (k - i) + 1] = b[k] \div 16 /\ h[2 * (k - i) + 2] = b[k] % 16

\* A byte more in front.
LEMMA PairedMore ==
  ASSUME NEW b \in Seq(Bytes), NEW i \in 1..Len(b), NEW h \in Seq(Hexes), Paired(b, h, i + 1)
  PROVE  Paired(b, <<b[i] \div 16, b[i] % 16>> \o h, i)
<1> DEFINE n == Len(b)  u == b[i] \div 16  w == b[i] % 16  g == <<u, w>> \o h
<1>1. n \in Nat /\ i \in Nat /\ 1 <= i /\ i <= n /\ Len(h) \in Nat  OBVIOUS
<1>2. Len(h) = 2 * (n + 1 - (i + 1))  BY DEF Paired
<1>3. /\ Len(g) = Len(h) + 2 /\ g[1] = u /\ g[2] = w
      /\ \A k \in 1..Len(h) : g[k + 2] = h[k]
  <2>1. u \in Nat /\ w \in Nat
    <3>1. b[i] \in Bytes  OBVIOUS
    <3>2. b[i] \in Nat  BY <3>1, BytesAre
    <3> QED  BY <3>2
  <2> HIDE DEF u, w
  <2>2. h \in Seq(Nat)  BY DEF Hexes
  <2> QED  BY <2>1, <2>2
<1>4. ASSUME NEW k \in i..n PROVE g[2 * (k - i) + 1] = b[k] \div 16 /\ g[2 * (k - i) + 2] = b[k] % 16
  <2> HIDE DEF g, n
  <2>1. CASE k = i
    <3>1. 2 * (k - i) + 1 = 1 /\ 2 * (k - i) + 2 = 2  BY <1>1, <2>1
    <3> QED  BY <1>3, <2>1, <3>1
  <2>2. CASE k # i
    <3> DEFINE y == 2 * (k - (i + 1)) + 1  z == 2 * (k - (i + 1)) + 2
    <3>1. k \in (i + 1)..n  BY <1>1, <2>2
    <3>2. h[y] = b[k] \div 16 /\ h[z] = b[k] % 16  BY <3>1 DEF Paired, n
    <3>3. /\ y \in 1..Len(h) /\ z \in 1..Len(h)
          /\ 2 * (k - i) + 1 = y + 2 /\ 2 * (k - i) + 2 = z + 2
      BY <1>1, <1>2, <3>1
    <3> HIDE DEF y, z
    <3> QED  BY <1>3, <3>2, <3>3
  <2> QED  BY <2>1, <2>2
<1>5. Len(g) = 2 * (n + 1 - i)
  <2> HIDE DEF g, n
  <2> QED  BY <1>1, <1>2, <1>3
<1> QED  BY <1>4, <1>5 DEF Paired

\* Bytes have two digits each.
LEMMA HexPaired ==
  ASSUME NEW x, Payload(x), x.kind = "bytes", NEW f, Spelled(x, f)
  PROVE  Paired(x.elements, f[1], 1)
<1> DEFINE b == x.elements  m == Len(b)  n == m + 1
           T == {i \in 1..n : Paired(b, f[i], i)}
<1>1. b \in Seq(Bytes) /\ m \in Nat  BY ElementsAre
<1>2. /\ \A i \in 1..n : f[i] \in Seq(Hexes)
      /\ f[n] = <<>> /\ \A i \in 1..m : f[i] = HexDigits(b[i]) \o f[i + 1]
  BY DEF Spelled
<1> HIDE DEF m, b
<1>3. Descends(m, T)
  <2> SUFFICES ASSUME NEW i \in 1..n, \A j \in (i + 1)..n : j \in T PROVE Paired(b, f[i], i)
    BY <1>1 DEF Descends
  <2>1. CASE i = n
    <3>1. Len(<<>>) = 2 * (m + 1 - n) /\ n..m = {}  BY <1>1
    <3> QED  BY <1>2, <2>1, <3>1 DEF Paired, m
  <2>2. CASE i # n
    <3>1. i \in 1..m /\ i + 1 \in (i + 1)..n /\ i + 1 \in 1..n  BY <1>1, <2>2
    <3>2. b[i] \in Words /\ b[i] < 256
      <4>1. b[i] \in Bytes  BY <1>1, <3>1 DEF m
      <4> QED  BY <4>1, BytesAre, WordsAre
    <3>3. HexDigits(b[i]) = <<b[i] \div 16, b[i] % 16>>  BY <3>2, DigitsAre
    <3>4. f[i + 1] \in Seq(Hexes) /\ Paired(b, f[i + 1], i + 1)  BY <1>2, <3>1
    <3>5. f[i] = <<b[i] \div 16, b[i] % 16>> \o f[i + 1]  BY <1>2, <3>1, <3>3
    <3> QED  BY <1>1, <3>1, <3>4, <3>5, PairedMore DEF m
  <2> QED  BY <2>1, <2>2
<1>4. 1 \in 1..(m + 1)  BY <1>1
<1>5. 1 \in T
  <2> HIDE DEF T
  <2> QED  BY <1>3, <1>4, Descent
<1> QED  BY <1>5 DEF b

\* Two digits for a byte, and back.
LEMMA PairedBack ==
  ASSUME NEW b \in Seq(Bytes), NEW h, Paired(b, h, 1)
  PROVE  Back(h) = b
<1> DEFINE n == Len(b)  back == Back(h)
<1>1. n \in Nat /\ DOMAIN b = 1..n /\ b = [i \in 1..n |-> b[i]]  OBVIOUS
<1>2. Len(h) \div 2 = n
  <2> DEFINE l == Len(h)
  <2>1. l = 2 * (n + 1 - 1)  BY DEF Paired
  <2> HIDE DEF l, n
  <2>2. l \div 2 = n  BY <1>1, <2>1
  <2> QED  BY <2>2 DEF l
<1>3. ASSUME NEW i \in 1..n PROVE 16 * h[2 * i - 1] + h[2 * i] = b[i]
  <2> DEFINE u == h[2 * i - 1]  v == h[2 * i]
  <2>1. i \in Nat /\ 2 * (i - 1) + 1 = 2 * i - 1 /\ 2 * (i - 1) + 2 = 2 * i  BY <1>1
  <2>2. u = b[i] \div 16 /\ v = b[i] % 16  BY <2>1 DEF Paired
  <2>3. b[i] \in Nat
    <3>1. b[i] \in Bytes  OBVIOUS
    <3> QED  BY <3>1, BytesAre
  <2> HIDE DEF u, v
  <2>4. 16 * u + v = b[i]  BY <2>2, <2>3, Halves
  <2> QED  BY <2>4 DEF u, v
<1> HIDE DEF n
<1>4. back = [i \in 1..n |-> b[i]]  BY <1>2, <1>3 DEF Back
<1> QED  BY <1>1, <1>4

\* What is read from digits are bytes, one for every two.
LEMMA BackIs ==
  ASSUME NEW h \in Seq(Hexes)
  PROVE  Back(h) \in Seq(Bytes) /\ Len(Back(h)) = Len(h) \div 2
<1> DEFINE n == Len(h) \div 2  back == Back(h)
<1>1. Len(h) \in Nat /\ n \in Nat /\ 2 * n <= Len(h)  OBVIOUS
<1>2. ASSUME NEW i \in 1..n PROVE 16 * h[2 * i - 1] + h[2 * i] \in Bytes
  <2> DEFINE u == h[2 * i - 1]  v == h[2 * i]
  <2>1. 2 * i - 1 \in 1..Len(h) /\ 2 * i \in 1..Len(h)
    <3> HIDE DEF n
    <3> QED  BY <1>1
  <2>2. u \in Hexes /\ v \in Hexes
    <3> HIDE DEF Hexes
    <3> QED  BY <2>1
  <2> HIDE DEF u, v
  <2>3. 16 * u + v \in Bytes  BY <2>2, BytesAre DEF Hexes
  <2> QED  BY <2>3 DEF u, v
<1> HIDE DEF n
<1>3. back = [i \in 1..n |-> 16 * h[2 * i - 1] + h[2 * i]]  BY DEF Back, n
<1>4. back \in [1..n -> Bytes]
  <2> HIDE DEF Bytes
  <2> QED  BY <1>2, <1>3
<1> HIDE DEF back
<1>5. back \in Seq(Bytes) /\ Len(back) = n
  <2> HIDE DEF Bytes
  <2> QED  BY <1>1, <1>4
<1> QED  BY <1>5 DEF back, n

\* The bytes in a payload.
LEMMA ContentIs ==
  ASSUME NEW x, Payload(x)
  PROVE  /\ Content(x) \in Seq(Bytes)
         /\ x.kind # "view" => Content(x) = x.elements
         /\ x.kind = "view" => Len(Content(x)) = 2 * Len(x.elements)
<1> DEFINE s == x.elements  m == Len(s)  n == 2 * m
<1>1. s \in Seq(Words) /\ m \in Nat /\ (x.kind # "view" => s \in Seq(Bytes))  BY ElementsAre
<1>2. CASE x.kind # "view"  BY <1>1, <1>2 DEF Content
<1>3. CASE x.kind = "view"
  <2> DEFINE byte(i) == IF i % 2 = 1 THEN s[(i + 1) \div 2] % 256 ELSE s[(i + 1) \div 2] \div 256
  <2>1. ASSUME NEW i \in 1..n PROVE byte(i) \in Bytes
    <3>1. (i + 1) \div 2 \in 1..m
      <4> HIDE DEF m
      <4> QED  BY <1>1
    <3> DEFINE e == s[(i + 1) \div 2]
    <3>2. e \in Words
      <4> HIDE DEF Words
      <4> QED  BY <1>1, <3>1
    <3> HIDE DEF e
    <3>3. e \in Nat /\ e < 65536  BY <3>2, WordsAre
    <3>4. e % 256 \in Bytes /\ e \div 256 \in Bytes  BY <3>3, BytesAre
    <3> QED  BY <3>4 DEF e
  <2>2. Content(x) = [i \in 1..n |-> byte(i)]  BY <1>3 DEF Content
  <2>3. n \in Nat  BY <1>1
  <2> HIDE DEF n, byte
  <2>4. [i \in 1..n |-> byte(i)] \in [1..n -> Bytes]
    <3> HIDE DEF Bytes
    <3> QED  BY <2>1
  <2> DEFINE c == [i \in 1..n |-> byte(i)]
  <2> HIDE DEF c
  <2>5. c \in [1..n -> Bytes]  BY <2>4 DEF c
  <2>6. c \in Seq(Bytes) /\ Len(c) = n
    <3> HIDE DEF Bytes
    <3> QED  BY <2>3, <2>5
  <2> QED  BY <1>3, <2>2, <2>6 DEF c, n
<1> QED  BY <1>2, <1>3

\* What comes back of a payload are bytes, no more than there were, and the same if
\* it was given as bytes.
LEMMA PayloadBack ==
  ASSUME NEW x, Payload(x)
  PROVE  /\ Back(Hex(x)) \in Seq(Bytes) /\ Len(Back(Hex(x))) <= Len(Content(x))
         /\ x.kind = "bytes" => Back(Hex(x)) = Content(x)
<1>1. PICK f : Spelled(x, f) /\ (x.kind # "buffer" => Hex(x) = f[1])  BY HexWritten
<1>2. /\ Content(x) \in Seq(Bytes) /\ x.elements \in Seq(Words) /\ Len(x.elements) \in Nat
      /\ x.kind \in {"bytes", "buffer", "view"}
  BY ContentIs, ElementsAre
<1>3. CASE x.kind = "bytes"
  <2>1. x.elements \in Seq(Bytes) /\ Content(x) = x.elements  BY <1>3, ContentIs, ElementsAre
  <2>2. Back(f[1]) = x.elements  BY <1>1, <1>3, <2>1, HexPaired, PairedBack
  <2>3. Len(x.elements) <= Len(x.elements)  BY <1>2
  <2> QED  BY <1>1, <1>3, <2>1, <2>2, <2>3
<1>4. CASE x.kind = "buffer"
  <2>1. Hex(x) = <<>>  BY <1>4 DEF Hex
  <2>2. <<>> \in Seq(Hexes) /\ Len(<<>>) \div 2 = 0  OBVIOUS
  <2>3. Back(<<>>) \in Seq(Bytes) /\ Len(Back(<<>>)) = 0  BY <2>2, BackIs
  <2>4. 0 <= Len(Content(x))
    <3> HIDE DEF Bytes
    <3> QED  BY <1>2
  <2> QED  BY <1>4, <2>1, <2>3, <2>4
<1>5. CASE x.kind = "view"
  <2> DEFINE h == f[1]  k == Len(h)  m == Len(x.elements)
  <2>1. h \in Seq(Hexes) /\ k <= 4 * m  BY <1>1, HexSize
  <2>2. Back(h) \in Seq(Bytes) /\ Len(Back(h)) = k \div 2  BY <2>1, BackIs
  <2>3. Len(Content(x)) = 2 * m  BY <1>5, ContentIs
  <2>4. k \in Nat /\ m \in Nat  BY <1>2, <2>1
  <2>5. Hex(x) = h  BY <1>1, <1>5
  <2> HIDE DEF k, m, h
  <2>6. k \div 2 <= 2 * m  BY <2>1, <2>4
  <2> QED  BY <1>5, <2>2, <2>3, <2>5, <2>6
<1> QED  BY <1>2, <1>3, <1>4, <1>5

\* The fields of a message but for its payload are what the application gave.
LEMMA MeantIs ==
  ASSUME NEW p, p.type = "PUBLISH", Publication(AsMeant(p))
  PROVE  LET m == AsMeant(p) IN
         /\ m.type = "PUBLISH" /\ m.dup = p.dup /\ m.qos = p.qos /\ m.retained = p.retained
         /\ m.topic = p.topic /\ m.id = p.id /\ m.payload = Content(p.payload)
<1> DEFINE c == Content(p.payload)  m == [p EXCEPT !.payload = c]
<1>1. AsMeant(p) = m  BY DEF AsMeant
<1>2. m \in [type : {"PUBLISH"}, dup : BOOLEAN, qos : 0..2, retained : BOOLEAN,
             topic : Seq(Words), id : Words, payload : Seq(Bytes)]
  BY <1>1 DEF Publication
<1> HIDE DEF c
<1>3. DOMAIN m = DOMAIN p  OBVIOUS
<1>4. {"type", "dup", "qos", "retained", "topic", "id", "payload"} \subseteq DOMAIN m
  <2> HIDE DEF Bytes, Words, m
  <2> QED  BY <1>2
<1>5. /\ m.type = p.type /\ m.dup = p.dup /\ m.qos = p.qos /\ m.retained = p.retained
      /\ m.topic = p.topic /\ m.id = p.id /\ m.payload = c
  <2>1. {"type", "dup", "qos", "retained", "topic", "id", "payload"} \subseteq DOMAIN p
    <3> HIDE DEF m
    <3> QED  BY <1>3, <1>4
  <2> QED  BY <2>1
<1> HIDE DEF m
<1> QED  BY <1>1, <1>5 DEF c

\* A message whose payload is bytes is written with these.
LEMMA WrittenAsGiven ==
  ASSUME NEW b, NEW t, NEW i, NEW q, NEW r, NEW s
  PROVE  AsWritten([type |-> "PUBLISH", id |-> i, qos |-> q, topic |-> t, dup |-> s, retained |-> r,
                    payload |-> AsBytes(b)])
           = [type |-> "PUBLISH", id |-> i, qos |-> q, topic |-> t, dup |-> s, retained |-> r, payload |-> b]
<1> DEFINE p == [type |-> "PUBLISH", id |-> i, qos |-> q, topic |-> t, dup |-> s, retained |-> r,
                 payload |-> AsBytes(b)]
<1>1. p.type = "PUBLISH" /\ p.payload = AsBytes(b)  OBVIOUS
<1>2. Content(AsBytes(b)) = b  BY DEF Content, AsBytes
<1>3. [p EXCEPT !.payload = b]
        = [type |-> "PUBLISH", id |-> i, qos |-> q, topic |-> t, dup |-> s, retained |-> r, payload |-> b]
  OBVIOUS
<1> HIDE DEF p
<1>4. AsWritten(p) = AsMeant(p)  BY <1>1 DEF AsWritten, LosesWill
<1>5. AsMeant(p) = [p EXCEPT !.payload = b]  BY <1>1, <1>2 DEF AsMeant
<1> QED  BY <1>3, <1>4, <1>5 DEF p

\* A message with the mark of a repetition and other bytes.
Again(m, b) ==
  [type |-> "PUBLISH", id |-> m.id, qos |-> m.qos, topic |-> m.topic, dup |-> TRUE,
   retained |-> m.retained, payload |-> b]

\* What is restored is what was stored, but for the mark of a repetition and for the
\* payload.
LEMMA RestoredStored ==
  ASSUME NEW p, p.type = "PUBLISH", Publication(AsMeant(p))
  PROVE  AsWritten(Restored(Stored(p))) = Again(AsMeant(p), Back(Hex(p.payload)))
<1> DEFINE s == Stored(p)  m == AsMeant(p)  h == Hex(p.payload)
<1>1. /\ m.retained = p.retained /\ m.qos = p.qos /\ m.topic = p.topic /\ m.id = p.id
      /\ p.retained \in BOOLEAN
  <2>1. m.retained = p.retained /\ m.qos = p.qos /\ m.topic = p.topic /\ m.id = p.id  BY MeantIs
  <2> HIDE DEF m
  <2>2. m.retained \in BOOLEAN
    <3> HIDE DEF Bytes, Words
    <3>1. m \in [type : {"PUBLISH"}, dup : BOOLEAN, qos : 0..2, retained : BOOLEAN,
                 topic : Seq(Words), id : Words, payload : Seq(Bytes)]
      BY DEF Publication, m
    <3> QED  BY <3>1
  <2> QED  BY <2>1, <2>2
<1>2. /\ s.type = "PUBLISH" /\ s.id = p.id /\ s.qos = p.qos /\ s.topic = p.topic /\ s.payload = h
      /\ s.flags = {f \in {"dup", "retained"} : p[f]}
  BY DEF Stored
<1>3. ("retained" \in s.flags) = p.retained
  <2>1. "retained" \in s.flags <=> p.retained  BY <1>2, Zenon
  <2>2. ("retained" \in s.flags) \in BOOLEAN  OBVIOUS
  <2> HIDE DEF s
  <2> DEFINE z == "retained" \in s.flags
  <2>3. z <=> p.retained  BY <2>1
  <2>4. z \in BOOLEAN  BY <2>2
  <2> HIDE DEF z, m
  <2>5. z = p.retained  BY <1>1, <2>3, <2>4, Zenon
  <2> QED  BY <2>5 DEF z
<1>4. Restored(s) = [type |-> s.type, id |-> s.id, qos |-> s.qos, topic |-> s.topic, dup |-> TRUE,
                     retained |-> "retained" \in s.flags, payload |-> AsBytes(Back(s.payload))]
  BY Zenon DEF Restored, Back
<1> HIDE DEF s, m, h
<1>5. Restored(s) = [type |-> "PUBLISH", id |-> m.id, qos |-> m.qos, topic |-> m.topic, dup |-> TRUE,
                     retained |-> m.retained, payload |-> AsBytes(Back(h))]
  BY <1>1, <1>2, <1>3, <1>4, Zenon
<1>6. AsWritten([type |-> "PUBLISH", id |-> m.id, qos |-> m.qos, topic |-> m.topic, dup |-> TRUE,
                 retained |-> m.retained, payload |-> AsBytes(Back(h))])
        = [type |-> "PUBLISH", id |-> m.id, qos |-> m.qos, topic |-> m.topic, dup |-> TRUE,
           retained |-> m.retained, payload |-> Back(h)]
  <2> DEFINE i == m.id  q == m.qos  t == m.topic  r == m.retained  b == Back(h)  y == TRUE
  <2> HIDE DEF i, q, t, r, b, y
  <2>1. AsWritten([type |-> "PUBLISH", id |-> i, qos |-> q, topic |-> t, dup |-> y, retained |-> r,
                   payload |-> AsBytes(b)])
          = [type |-> "PUBLISH", id |-> i, qos |-> q, topic |-> t, dup |-> y, retained |-> r, payload |-> b]
    BY WrittenAsGiven
  <2> QED  BY <2>1 DEF i, q, t, r, b, y
<1>7. AsWritten(Restored(s)) = Again(m, Back(h))  BY <1>5, <1>6 DEF Again
<1> QED  BY <1>7 DEF s, m, h

\* A message that is repeated with no more bytes than before fits, and it differs
\* from the first one in the mark and in the payload.
LEMMA AgainIs ==
  ASSUME NEW m, Publication(m), Fits(m), NEW b \in Seq(Bytes), Len(b) <= Len(m.payload)
  PROVE  /\ Publication(Again(m, b)) /\ Fits(Again(m, b))
         /\ LET meant == [m EXCEPT !.dup = TRUE] IN
            /\ [Again(m, b) EXCEPT !.payload = meant.payload] = meant
            /\ b = m.payload => Again(m, b) = meant
<1> DEFINE q == Again(m, b)  meant == [m EXCEPT !.dup = TRUE]
<1>1. /\ m \in [type : {"PUBLISH"}, dup : BOOLEAN, qos : 0..2, retained : BOOLEAN,
                topic : Seq(Words), id : Words, payload : Seq(Bytes)]
      /\ Text(m.topic) /\ (m.qos = 0 <=> m.id = 0)
  BY DEF Publication
<1>2. /\ q \in [type : {"PUBLISH"}, dup : BOOLEAN, qos : 0..2, retained : BOOLEAN,
                topic : Seq(Words), id : Words, payload : Seq(Bytes)]
      /\ q.type = "PUBLISH" /\ q.topic = m.topic /\ q.qos = m.qos /\ q.id = m.id /\ q.payload = b
      /\ "id" \in DOMAIN q /\ "id" \in DOMAIN m /\ m.type = "PUBLISH"
  <2> HIDE DEF Bytes, Words
  <2> QED  BY <1>1 DEF Again
<1>3. meant = [type |-> "PUBLISH", dup |-> TRUE, qos |-> m.qos, retained |-> m.retained,
               topic |-> m.topic, id |-> m.id, payload |-> m.payload]
  <2> HIDE DEF Bytes, Words
  <2>1. meant \in [type : {"PUBLISH"}, dup : BOOLEAN, qos : 0..2, retained : BOOLEAN,
                   topic : Seq(Words), id : Words, payload : Seq(Bytes)]
        /\ meant.dup = TRUE /\ meant.type = "PUBLISH" /\ meant.qos = m.qos /\ meant.retained = m.retained
        /\ meant.topic = m.topic /\ meant.id = m.id /\ meant.payload = m.payload
    BY <1>1
  <2> HIDE DEF meant
  <2>2. meant = [type |-> meant.type, dup |-> meant.dup, qos |-> meant.qos, retained |-> meant.retained,
                 topic |-> meant.topic, id |-> meant.id, payload |-> meant.payload]
    BY <2>1
  <2> QED  BY <2>1, <2>2, Zenon
<1>4. [q EXCEPT !.payload = meant.payload] = meant /\ (b = m.payload => q = meant)
  <2>1. meant.payload = m.payload  BY <1>3
  <2> DEFINE i == m.id  l == m.qos  t == m.topic  r == m.retained  c == m.payload
  <2> HIDE DEF meant, Bytes, Words
  <2>2. [q EXCEPT !.payload = c]
          = [type |-> "PUBLISH", dup |-> TRUE, qos |-> l, retained |-> r, topic |-> t, id |-> i, payload |-> c]
    <3> DEFINE y == TRUE
    <3>1. q = [type |-> "PUBLISH", id |-> i, qos |-> l, topic |-> t, dup |-> y, retained |-> r, payload |-> b]
      BY DEF Again
    <3> HIDE DEF q, i, l, t, r, c, y
    <3>2. [q EXCEPT !.payload = c]
            = [type |-> "PUBLISH", dup |-> y, qos |-> l, retained |-> r, topic |-> t, id |-> i, payload |-> c]
      BY <3>1
    <3> QED  BY <3>2 DEF y
  <2>3. b = m.payload => q = [type |-> "PUBLISH", dup |-> TRUE, qos |-> m.qos, retained |-> m.retained,
                              topic |-> m.topic, id |-> m.id, payload |-> m.payload]
    BY DEF Again
  <2> QED  BY <1>3, <2>1, <2>2, <2>3
<1> HIDE DEF q
<1>5. Publication(q)  BY <1>1, <1>2 DEF Publication
<1>6. RemainingLength(q) <= RemainingLength(m) /\ RemainingLength(q) \in Nat
  <2> DEFINE k == Len(Identifier(m)) + Sized(m.topic)  l == Len(b)  n == Len(m.payload)
  <2>1. Identifier(q) = Identifier(m)  BY <1>2 DEF Identifier
  <2>2. RemainingLength(q) = Len(Identifier(m)) + (Sized(m.topic) + l)
        /\ RemainingLength(m) = Len(Identifier(m)) + (Sized(m.topic) + n)
    BY <1>2, <2>1 DEF RemainingLength
  <2>3. Sized(m.topic) \in Nat  BY <1>1, StringSize
  <2>4. Len(Identifier(m)) \in Nat /\ l \in Nat /\ n \in Nat
    <3>1. Identifier(m) = <<>> \/ Identifier(m) = Uint16(m.id)  BY DEF Identifier
    <3>2. Len(<<>>) = 0 /\ Len(Uint16(m.id)) = 2  BY DEF Uint16
    <3>3. m.payload \in Seq(Bytes)
      <4> HIDE DEF Bytes, Words
      <4> QED  BY <1>1
    <3>4. l \in Nat /\ n \in Nat
      <4> HIDE DEF Bytes
      <4> QED  BY <3>3
    <3> QED  BY <3>1, <3>2, <3>4
  <2>5. l <= n  OBVIOUS
  <2> HIDE DEF l, n
  <2> QED  BY <2>2, <2>3, <2>4, <2>5
<1>7. Fits(q)
  <2>1. RemainingLength(m) < Weight[5]  BY DEF Fits
  <2>2. Weight[5] \in Nat  BY DEF Weight
  <2>3. RemainingLength(m) \in Nat
    <3>1. Len(Identifier(m)) \in Nat /\ Sized(m.topic) \in Nat /\ Len(m.payload) \in Nat
      <4>1. Identifier(m) = <<>> \/ Identifier(m) = Uint16(m.id)  BY DEF Identifier
      <4>2. Len(<<>>) = 0 /\ Len(Uint16(m.id)) = 2  BY DEF Uint16
      <4>3. m.payload \in Seq(Bytes)
        <5> HIDE DEF Bytes, Words
        <5> QED  BY <1>1
      <4>4. Len(m.payload) \in Nat
        <5> HIDE DEF Bytes
        <5> QED  BY <4>3
      <4>5. Sized(m.topic) \in Nat  BY <1>1, StringSize
      <4> QED  BY <4>1, <4>2, <4>4, <4>5
    <3> QED  BY <1>2, <3>1 DEF RemainingLength
  <2> DEFINE w == Weight[5]  x == RemainingLength(m)  y == RemainingLength(q)
  <2> HIDE DEF w, x, y
  <2>4. y < w  BY <1>6, <2>1, <2>2, <2>3 DEF w, x, y
  <2> QED  BY <2>4 DEF Fits, w, y
<1> QED  BY <1>4, <1>5, <1>7 DEF q

\* A packet alone is read.
LEMMA OneRead ==
  ASSUME NEW p, Legible(p), Fits(p)
  PROVE  DecodeMessage(Encode(p), 1).packet = p
<1> DEFINE e == Encode(p)
<1>1. e \in Seq(Bytes) /\ Len(e) \in Nat \ {0}  BY EncodedBytes
<1>2. Agree(e, 1, e)
  <2> HIDE DEF e
  <2>1. \A k \in 1..Len(e) : 1 + k - 1 = k  BY <1>1
  <2> QED  BY <2>1 DEF Agree
<1>3. 1 \in 1..Len(e) /\ 1 + Len(e) <= Len(e) + 1
  <2> HIDE DEF e
  <2> QED  BY <1>1
<1>4. DecodeMessage(e, 1) = [packet |-> p, next |-> 1 + Len(e)]  BY <1>1, <1>2, <1>3, MessageRead
<1> QED  BY <1>4

\* What the client encodes.
Requested ==
  \/ request = <<>>
  \/ \E p \in Outbound : request = <<p>>
  \/ \E o \in Options : Accepted(o) /\ request = <<Request(o)>>

\* What is encoded is a packet or the CONNECT of options that are accepted.
LEMMA RequestedStep ==
  /\ Init => Requested
  /\ Requested /\ [Next]_vars => Requested'
<1>1. Init => Requested  BY DEF Init, Requested
<1>2. ASSUME Requested, [Next]_vars PROVE Requested'
  <2>1. CASE \E p \in Inbound : ServerSends(p)  BY <1>2, <2>1 DEF ServerSends, Requested
  <2>2. CASE \E n \in Pieces \cup {Len(stream)} : Arrives(n)  BY <1>2, <2>2 DEF Arrives, Requested
  <2>3. CASE Reconnects  BY <1>2, <2>3 DEF Reconnects, Requested
  <2>4. CASE \E p \in Outbound : ClientSends(p)  BY <2>4 DEF ClientSends, Requested
  <2>5. CASE \E o \in Options : ClientConnects(o)  BY <2>5 DEF ClientConnects, ClientSends, Requested
  <2>6. CASE UNCHANGED vars  BY <1>2, <2>6 DEF vars, Requested
  <2> QED  BY <1>2, <2>1, <2>2, <2>3, <2>4, <2>5, <2>6 DEF Next
<1> QED  BY <1>1, <1>2

\* A message comes back from the store with the mark of a repetition.
LEMMA RequestedRestored == Requested => RestoredIsResent
<1> SUFFICES ASSUME Requested, request # <<>>, request[1].type = "PUBLISH", request[1].qos > 0
             PROVE  LET p == request[1]
                        again == DecodeMessage(Encode(AsWritten(Restored(Stored(p)))), 1).packet
                        meant == [AsMeant(p) EXCEPT !.dup = TRUE] IN
                    /\ [again EXCEPT !.payload = meant.payload] = meant
                    /\ p.payload.kind = "bytes" => again = meant
  BY DEF RestoredIsResent
<1> DEFINE p == request[1]  m == AsMeant(p)  b == Back(Hex(p.payload))  q == Again(m, b)
<1>1. p \in Outbound /\ p.type = "PUBLISH"
  <2>1. \A o \in Options : request = <<Request(o)>> => p.type = "CONNECT"  BY DEF Request
  <2> QED  BY <2>1 DEF Requested
<1> HIDE DEF p
<1>2. Payload(p.payload) /\ FromClient(m) /\ Fits(m)  BY <1>1, WireAssumption DEF Asked
<1>3. m.type = "PUBLISH"
  <2>1. m = [p EXCEPT !.payload = Content(p.payload)]  BY <1>1 DEF AsMeant
  <2> HIDE DEF m
  <2>2. "payload" # "type"  OBVIOUS
  <2> QED  BY <1>1, <2>1, <2>2
<1>4. Publication(m)
  <2> HIDE DEF m
  <2> QED  BY <1>2, <1>3 DEF FromClient, Acknowledgement
<1>5. m.payload = Content(p.payload)  BY <1>1, <1>4, MeantIs
<1>6. b \in Seq(Bytes) /\ Len(b) <= Len(m.payload) /\ (p.payload.kind = "bytes" => b = m.payload)
  BY <1>2, <1>5, PayloadBack
<1>7. AsWritten(Restored(Stored(p))) = q  BY <1>1, <1>4, RestoredStored
<1> HIDE DEF m, b
<1>8. /\ Publication(q) /\ Fits(q)
      /\ LET meant == [m EXCEPT !.dup = TRUE] IN
         /\ [q EXCEPT !.payload = meant.payload] = meant
         /\ b = m.payload => q = meant
  BY <1>2, <1>4, <1>6, AgainIs
<1> HIDE DEF q
<1>9. DecodeMessage(Encode(q), 1).packet = q  BY <1>8, LegiblePublication, OneRead
<1> QED  BY <1>6, <1>7, <1>8, <1>9 DEF p, m

\* A message of QoS 1 or 2 that store() has written and restore() has read is the
\* message that was sent, with the mark of a repetition and nothing changed, when its
\* payload is a string or a Uint8Array.  Of an ArrayBuffer, which has no length, and
\* of an array of wider elements everything but the payload comes back.
THEOREM ResentIsTheSame == Spec => []RestoredIsResent
BY RequestedStep, RequestedRestored, PTL DEF Spec

-----------------------------------------------------------------------------
(* Lists of topics.                                                        *)

\* The topics of a request, and what is written of them from each on.
TopicList(topics) ==
  topics \in Seq(Seq(Words)) /\ \A i \in 1..Len(topics) : Text(topics[i])

TopicStep(topics, after, f, k) ==
  IF k > Len(topics) THEN <<>> ELSE String(topics[k]) \o after \o f[k + 1]

TotalStep(topics, f, k) ==
  IF k > Len(topics) THEN 0 ELSE Sized(topics[k]) + f[k + 1]

Listed(topics, after, f, l) ==
  /\ f \in [1..(Len(topics) + 1) -> Seq(Bytes)] /\ l \in [1..(Len(topics) + 1) -> Nat]
  /\ f[Len(topics) + 1] = <<>> /\ l[Len(topics) + 1] = 0
  /\ \A i \in 1..Len(topics) : /\ f[i] = String(topics[i]) \o after \o f[i + 1]
                               /\ l[i] = Sized(topics[i]) + l[i + 1]

\* The topics of a request and their total length, topic by topic.
LEMMA TopicsWritten ==
  ASSUME NEW topics, TopicList(topics), NEW after \in Seq(Bytes)
  PROVE  \E f, l : Topics(topics, after) = f[1] /\ Total(topics) = l[1] /\ Listed(topics, after, f, l)
<1> DEFINE m == Len(topics)
           n == m + 1
           D == 1..n
           stop == {n}
           next == [i \in D |-> IF i = n THEN 0 ELSE i + 1]
           piece == [i \in D |-> IF i = n THEN <<>> ELSE String(topics[i]) \o after]
           size == [i \in D |-> IF i = n THEN 0 ELSE Sized(topics[i])]
<1>1. m \in Nat /\ \A i \in 1..m : Text(topics[i])
  <2>1. m \in Nat  BY DEF TopicList
  <2> QED  BY <2>1 DEF TopicList
<1> HIDE DEF m
<1>2. n \in D /\ (\A i \in D : i = n \/ i \in 1..m) /\ (\A i \in 1..m : i \in D /\ i # n /\ i + 1 \in (i + 1)..n /\ i + 1 \in Nat)
  BY <1>1
<1>3. ASSUME NEW i \in 1..m
      PROVE  String(topics[i]) \o after \in Seq(Bytes) /\ Sized(topics[i]) \in Nat /\ String(topics[i]) \in Seq(Bytes)
  <2> DEFINE s == String(topics[i])
  <2>1. s \in Seq(Bytes) /\ Sized(topics[i]) \in Nat  BY <1>1, StringSize
  <2> HIDE DEF s
  <2>2. s \o after \in Seq(Bytes)  BY <2>1, ConcatSize
  <2> QED  BY <2>1, <2>2 DEF s
<1>4. Chain(1, n, stop, next)
  <2>1. next \in [D -> Nat] /\ \A i \in D : i \in stop \/ next[i] \in (i + 1)..n  BY <1>2
  <2>2. stop \subseteq D /\ n \in Nat  BY <1>1, <1>2
  <2> HIDE DEF next, stop, n
  <2> QED  BY <2>1, <2>2 DEF Chain
<1>5. piece \in [D -> Seq(Bytes)] /\ size \in [D -> Nat]
  <2>1. <<>> \in Seq(Bytes) /\ 0 \in Nat  OBVIOUS
  <2> HIDE DEF n
  <2>2. \A i \in D : i # n => String(topics[i]) \o after \in Seq(Bytes) /\ Sized(topics[i]) \in Nat
    <3> HIDE DEF D
    <3> QED  BY <1>2, <1>3
  <2> HIDE DEF D
  <2> QED  BY <2>1, <2>2
<1>6. PICK f : Linked(f, 1, n, Bytes, stop, piece, next)
  <2> HIDE DEF stop, piece, next, n
  <2> QED  BY <1>4, <1>5, Linking
<1>7. PICK l : Summed(l, 1, n, stop, size, next)
  <2> HIDE DEF stop, size, next, n
  <2> QED  BY <1>4, <1>5, Summing
<1>8. Listed(topics, after, f, l)
  <2>1. f \in [D -> Seq(Bytes)] /\ l \in [D -> Nat]  BY <1>6, <1>7 DEF Linked, Summed
  <2>2. f[n] = <<>> /\ l[n] = 0  BY <1>2, <1>6, <1>7 DEF Linked, Summed
  <2>3. ASSUME NEW i \in 1..m
        PROVE  /\ f[i] = String(topics[i]) \o after \o f[i + 1]
               /\ l[i] = Sized(topics[i]) + l[i + 1]
    <3>1. i \in D /\ i \notin stop /\ next[i] = i + 1 /\ piece[i] = String(topics[i]) \o after /\ size[i] = Sized(topics[i])
      BY <1>2
    <3> HIDE DEF stop, next, piece, size
    <3> QED  BY <1>6, <1>7, <3>1, Zenon DEF Linked, Summed
  <2> QED  BY <2>1, <2>2, <2>3 DEF Listed, m
<1> DEFINE F == CHOOSE g : g = [i \in D |-> TopicStep(topics, after, g, i)]
           L == CHOOSE g : g = [i \in D |-> TotalStep(topics, g, i)]
<1>9. ASSUME NEW i \in D PROVE f[i] = TopicStep(topics, after, f, i) /\ l[i] = TotalStep(topics, l, i)
  <2>1. CASE i = n
    <3>1. i > m  BY <1>1, <2>1
    <3> QED  BY <1>8, <2>1, <3>1 DEF Listed, TopicStep, TotalStep, m
  <2>2. CASE i \in 1..m
    <3>1. ~(i > m)  BY <1>1, <2>2
    <3> QED  BY <1>8, <2>2, <3>1, Zenon DEF Listed, TopicStep, TotalStep, m
  <2> QED  BY <1>2, <2>1, <2>2
<1>10. F = [i \in D |-> TopicStep(topics, after, F, i)] /\ L = [i \in D |-> TotalStep(topics, L, i)]
  <2>1. f = [i \in D |-> TopicStep(topics, after, f, i)] /\ l = [i \in D |-> TotalStep(topics, l, i)]
    BY <1>8, <1>9 DEF Listed, m
  <2> QED  BY <2>1
<1>11. Topics(topics, after) = F[1] /\ Total(topics) = L[1]
  <2>1. Topics(topics, after) = F[1]  BY DEF Topics, TopicStep, m
  <2>2. Total(topics) = L[1]  BY DEF Total, TotalStep, m
  <2> QED  BY <2>1, <2>2
<1> HIDE DEF F, L
<1>12. ASSUME NEW i \in D PROVE F[i] = TopicStep(topics, after, F, i) /\ L[i] = TotalStep(topics, L, i)
  <2> HIDE DEF D
  <2> QED  BY <1>10
<1>13. /\ F[n] = <<>> /\ L[n] = 0
       /\ \A i \in 1..m : /\ F[i] = String(topics[i]) \o after \o F[i + 1]
                          /\ L[i] = Sized(topics[i]) + L[i + 1]
  <2>1. n > m /\ \A i \in 1..m : ~(i > m)  BY <1>1
  <2>2. F[n] = <<>> /\ L[n] = 0  BY <1>2, <1>12, <2>1, Zenon DEF TopicStep, TotalStep, m
  <2>3. ASSUME NEW i \in 1..m
        PROVE  /\ F[i] = String(topics[i]) \o after \o F[i + 1]
               /\ L[i] = Sized(topics[i]) + L[i + 1]
    BY <1>2, <1>12, <2>1, Zenon DEF TopicStep, TotalStep, m
  <2> QED  BY <2>2, <2>3
<1> DEFINE T == {i \in D : F[i] \in Seq(Bytes) /\ L[i] \in Nat}
<1>14. Descends(m, T)
  <2> SUFFICES ASSUME NEW i \in D, \A j \in (i + 1)..n : j \in T PROVE F[i] \in Seq(Bytes) /\ L[i] \in Nat
    BY <1>1 DEF Descends
  <2>1. CASE i = n
    <3>1. <<>> \in Seq(Bytes) /\ 0 \in Nat  OBVIOUS
    <3> QED  BY <1>13, <2>1, <3>1
  <2>2. CASE i \in 1..m
    <3>1. F[i + 1] \in Seq(Bytes) /\ L[i + 1] \in Nat  BY <1>2, <2>2
    <3> DEFINE u == String(topics[i]) \o after  x == F[i + 1]  k == Sized(topics[i])  y == L[i + 1]
    <3>2. u \in Seq(Bytes) /\ k \in Nat /\ x \in Seq(Bytes) /\ y \in Nat  BY <1>3, <2>2, <3>1
    <3>3. F[i] = u \o x /\ L[i] = k + y  BY <1>13, <2>2
    <3> HIDE DEF u, x, k, y
    <3>4. u \o x \in Seq(Bytes) /\ k + y \in Nat  BY <3>2
    <3> QED  BY <3>3, <3>4, Zenon
  <2> QED  BY <1>2, <2>1, <2>2
<1>15. \A i \in D : F[i] \in Seq(Bytes) /\ L[i] \in Nat
  <2>1. \A i \in 1..(m + 1) : i \in T
    <3> HIDE DEF T
    <3> QED  BY <1>14, Descent
  <2> QED  BY <2>1
<1>16. F \in [D -> Seq(Bytes)] /\ L \in [D -> Nat]
  <2> HIDE DEF D
  <2> QED  BY <1>10, <1>15
<1>17. Listed(topics, after, F, L)  BY <1>13, <1>16 DEF Listed, m
<1> QED  BY <1>11, <1>17

\* With a byte after each topic, or none.
LEMMA TopicsSize ==
  ASSUME NEW topics, TopicList(topics), NEW after \in Seq(Bytes), Len(after) \in {0, 1}
  PROVE  /\ Topics(topics, after) \in Seq(Bytes) /\ Total(topics) \in Nat
         /\ Len(Topics(topics, after)) = Total(topics) + (IF Len(after) = 0 THEN 0 ELSE Len(topics))
<1> DEFINE m == Len(topics)
           D == 1..(m + 1)
           more(i) == IF Len(after) = 0 THEN 0 ELSE m + 1 - i
<1>1. PICK f, l : Topics(topics, after) = f[1] /\ Total(topics) = l[1] /\ Listed(topics, after, f, l)
  BY TopicsWritten
<1>2. m \in Nat /\ \A i \in 1..m : Text(topics[i])
  <2>1. m \in Nat  BY DEF TopicList
  <2> QED  BY <2>1 DEF TopicList
<1>3. /\ f \in [D -> Seq(Bytes)] /\ l \in [D -> Nat] /\ f[m + 1] = <<>> /\ l[m + 1] = 0
      /\ \A i \in 1..m : /\ f[i] = String(topics[i]) \o after \o f[i + 1]
                         /\ l[i] = Sized(topics[i]) + l[i + 1]
  BY <1>1 DEF Listed
<1> HIDE DEF m
<1> DEFINE T == {i \in D : Len(f[i]) = l[i] + more(i)}
<1>4. Descends(m, T)
  <2> SUFFICES ASSUME NEW i \in D, \A j \in (i + 1)..(m + 1) : j \in T PROVE Len(f[i]) = l[i] + more(i)
    BY <1>2 DEF Descends
  <2>1. CASE i = m + 1
    <3>1. Len(f[i]) = 0 /\ l[i] = 0 /\ m + 1 - i = 0  BY <1>2, <1>3, <2>1
    <3> QED  BY <3>1
  <2>2. CASE i \in 1..m
    <3>1. i + 1 \in (i + 1)..(m + 1) /\ i + 1 \in D  BY <1>2, <2>2
    <3> DEFINE s == String(topics[i])  k == Sized(topics[i])  x == f[i + 1]  y == l[i + 1]  u == s \o after
    <3>2. s \in Seq(Bytes) /\ Len(s) = k /\ k \in Nat  BY <1>2, <2>2, StringSize
    <3>3. x \in Seq(Bytes) /\ y \in Nat /\ Len(x) = y + more(i + 1)  BY <1>3, <3>1
    <3>4. f[i] = u \o x /\ l[i] = k + y  BY <1>3, <2>2
    <3> HIDE DEF s, k, x, y
    <3>5. u \in Seq(Bytes) /\ Len(u) = k + Len(after)  BY <3>2, ConcatSize
    <3> HIDE DEF u
    <3>6. Len(u \o x) = Len(u) + Len(x) /\ Len(x) \in Nat  BY <3>3, <3>5, ConcatSize
    <3> DEFINE c == Len(after)
    <3>7. c \in {0, 1}  OBVIOUS
    <3>8. more(i) = more(i + 1) + c /\ more(i + 1) \in Nat
      <4>1. i \in Nat /\ i <= m  BY <1>2, <2>2
      <4>2. more(i) = (IF c = 0 THEN 0 ELSE m + 1 - i) /\ more(i + 1) = (IF c = 0 THEN 0 ELSE m + 1 - (i + 1))  OBVIOUS
      <4> HIDE DEF more, c
      <4> QED  BY <1>2, <3>7, <4>1, <4>2
    <3>9. Len(u) = k + c  BY <3>5
    <3> HIDE DEF more, c
    <3>10. Len(u \o x) = k + y + (more(i + 1) + c)  BY <3>2, <3>3, <3>6, <3>7, <3>8, <3>9, SMTT(30)
    <3> QED  BY <3>4, <3>8, <3>10
  <2> QED  BY <1>2, <2>1, <2>2
<1>5. Len(f[1]) = l[1] + more(1) /\ 1 \in D
  <2>1. \A i \in 1..(m + 1) : i \in T
    <3> HIDE DEF T
    <3> QED  BY <1>4, Descent
  <2>2. 1 \in D  BY <1>2
  <2> HIDE DEF more
  <2> QED  BY <2>1, <2>2
<1>6. more(1) = IF Len(after) = 0 THEN 0 ELSE m  BY <1>2
<1>7. f[1] \in Seq(Bytes) /\ l[1] \in Nat  BY <1>3, <1>5
<1> QED  BY <1>1, <1>5, <1>6, <1>7 DEF m

\* What is read at each position.
TopicRead(b, gap, f, k) ==
  IF k < Len(b) /\ ReadString(b, k).next + gap <= Len(b) + 1
  THEN <<ReadString(b, k).value>> \o f[ReadString(b, k).next + gap] ELSE <<>>

\* A server's reading of the topics, place by place.
LEMMA TopicsOf ==
  ASSUME NEW b \in Seq(Bytes), NEW i \in Nat \ {0}, NEW gap \in {0, 1}
  PROVE  \E g : /\ ReadTopics(b, i, gap) = g[i]
                /\ \A k \in i..(Len(b) + 1) : g[k] = TopicRead(b, gap, g, k)
<1> DEFINE n == Len(b) + 1
           D == i..n
           after(k) == ReadString(b, k).next + gap
           C == {ReadString(b, k).value : k \in D}
           stop == {k \in D : ~(k < Len(b) /\ after(k) <= n)}
           next == [k \in D |-> IF k \in stop THEN 0 ELSE after(k)]
           piece == [k \in D |-> <<ReadString(b, k).value>>]
<1>1. Len(b) \in Nat /\ n \in Nat /\ D \subseteq Nat /\ \A k \in D : k \in Nat \ {0}
  <2>1. Len(b) \in Nat  OBVIOUS
  <2> QED  BY <2>1
<1>2. ASSUME NEW k \in D, k < Len(b) PROVE after(k) \in Nat /\ after(k) > k
  <2>1. k \in 1..Len(b) /\ k + 1 \in 1..Len(b) /\ k \in Nat  BY <1>1, <1>2
  <2>2. b[k] \in Bytes /\ b[k + 1] \in Bytes
    <3> HIDE DEF D
    <3> QED  BY <2>1
  <2>3. ReadUint16(b, k) \in Nat  BY <2>2, BytesAre DEF ReadUint16
  <2>4. ReadString(b, k).next = k + 2 + ReadUint16(b, k)  BY DEF ReadString
  <2> QED  BY <2>1, <2>3, <2>4
<1> HIDE DEF after
<1>3. \A k \in D : k \in stop \/ next[k] \in (k + 1)..n
  <2> SUFFICES ASSUME NEW k \in D, k \notin stop PROVE next[k] \in (k + 1)..n  OBVIOUS
  <2>1. k < Len(b) /\ after(k) <= n /\ next[k] = after(k)  OBVIOUS
  <2>2. after(k) \in Nat /\ after(k) > k /\ k \in Nat  BY <1>1, <1>2, <2>1
  <2> HIDE DEF next, n
  <2> QED  BY <1>1, <2>1, <2>2
<1>4. Chain(i, n, stop, next)
  <2>1. next \in [D -> Nat]
    <3>1. \A k \in D : k \in stop \/ after(k) \in Nat  BY <1>2
    <3> HIDE DEF stop, D
    <3> QED  BY <3>1
  <2>2. stop \subseteq D  OBVIOUS
  <2> HIDE DEF next, stop, n
  <2> QED  BY <1>1, <1>3, <2>1, <2>2 DEF Chain
<1>5. piece \in [D -> Seq(C)]
  <2>1. \A k \in D : ReadString(b, k).value \in C  OBVIOUS
  <2> HIDE DEF C, D
  <2> QED  BY <2>1
<1>6. PICK g : Linked(g, i, n, C, stop, piece, next)
  <2> HIDE DEF stop, piece, next, n, C
  <2> QED  BY <1>4, <1>5, Linking
<1>7. g \in [D -> Seq(C)]
  <2> HIDE DEF stop, piece, next, C
  <2> QED  BY <1>6 DEF Linked
<1>8. ASSUME NEW k \in D PROVE g[k] = TopicRead(b, gap, g, k)
  <2>1. k \in stop <=> ~(k < Len(b) /\ after(k) <= n)  OBVIOUS
  <2>2. g[k] = IF k \in stop THEN <<>> ELSE piece[k] \o g[next[k]]
    <3> HIDE DEF stop, piece, next, C
    <3> QED  BY <1>6 DEF Linked
  <2>3. piece[k] = <<ReadString(b, k).value>> /\ (k \notin stop => next[k] = after(k))
    <3> HIDE DEF stop
    <3> QED  OBVIOUS
  <2> HIDE DEF stop, piece, next, C
  <2> QED  BY <2>1, <2>2, <2>3, Zenon DEF TopicRead, after
<1> DEFINE G == CHOOSE h : h = [k \in D |-> TopicRead(b, gap, h, k)]
<1>9. G = [k \in D |-> TopicRead(b, gap, G, k)]
  <2>1. g = [k \in D |-> TopicRead(b, gap, g, k)]
    <3> HIDE DEF D, C
    <3> QED  BY <1>7, <1>8
  <2> QED  BY <2>1
<1>10. ReadTopics(b, i, gap) = G[i]  BY DEF ReadTopics, TopicRead
<1> HIDE DEF G
<1>11. ASSUME NEW k \in D PROVE G[k] = TopicRead(b, gap, G, k)
  <2> HIDE DEF D
  <2> QED  BY <1>9
<1> QED  BY <1>10, <1>11

\* The first element, and the others.
LEMMA FrontOf ==
  ASSUME NEW S, NEW s \in Seq(S), NEW k \in 1..Len(s)
  PROVE  <<s[k]>> \o SubSeq(s, k + 1, Len(s)) = SubSeq(s, k, Len(s))
OBVIOUS

\* The last bytes of b, from p on, are those of e.
Ending(b, p, e) == p + Len(e) = Len(b) + 1 /\ Agree(b, p, e)

\* Where the parts of a topic are.
Placed(p, k, c, y, z) ==
  /\ p + k \in Nat /\ p + k + c + y = z + 1 /\ p + k <= z + 1 /\ p < z
  /\ p + k + c \in (p + 1)..(z + 1) /\ p + (k + c) = p + k + c /\ (c = 1 => p + k + 1 <= z + 1)

\* Where the next topic begins, and that there is one only if bytes are left.
LEMMA Positions ==
  ASSUME NEW p \in Nat \ {0}, NEW k \in Nat, k >= 2, NEW c \in {0, 1}, NEW y \in Nat, NEW z \in Nat,
         p + (k + c + y) = z + 1
  PROVE  Placed(p, k, c, y, z)
BY DEF Placed

\* What is read at p: the topic t, and x after it.
TopicIs(b, p, t, after, c, x) ==
  /\ p < Len(b) /\ ReadString(b, p).value = t /\ ReadString(b, p).next \in Nat
  /\ ReadString(b, p).next + c \in (p + 1)..(Len(b) + 1)
  /\ ReadString(b, p).next + c + Len(x) = Len(b) + 1
  /\ Agree(b, ReadString(b, p).next + c, x)
  /\ c = 1 => b[ReadString(b, p).next] = after[1]

\* One topic, at the position p.
LEMMA TopicAt ==
  ASSUME NEW t, Text(t), NEW after \in Seq(Bytes), NEW c \in {0, 1}, c = Len(after), NEW x \in Seq(Bytes),
         NEW b \in Seq(Bytes), NEW p \in Nat \ {0},
         NEW e, e = String(t) \o after \o x, Ending(b, p, e)
  PROVE  TopicIs(b, p, t, after, c, x)
<1> DEFINE s == String(t)  k == Sized(t)  u == s \o after  q == p + k
<1>1. s \in Seq(Bytes) /\ Len(s) = k /\ k \in Nat  BY StringSize
<1>2. UTF8Length(t) \in Nat /\ k = UTF8Length(t) + 2
  <2>1. UTF8Length(t) \in Nat  BY TextSize DEF Text
  <2> QED  BY <2>1 DEF Sized
<1>3. p + Len(u \o x) = Len(b) + 1 /\ Agree(b, p, u \o x)  BY DEF Ending
<1> HIDE DEF s, k
<1>4. u \in Seq(Bytes) /\ Len(u) = k + c
  <2>1. u \in Seq(Bytes) /\ Len(u) = Len(s) + Len(after)  BY <1>1, ConcatSize
  <2> QED  BY <1>1, <2>1
<1>5. Len(b) \in Nat /\ Len(x) \in Nat /\ Len(u \o x) = k + c + Len(x)
  <2> HIDE DEF u
  <2>1. Len(u \o x) = Len(u) + Len(x) /\ Len(x) \in Nat  BY <1>4, ConcatSize
  <2>2. Len(b) \in Nat  OBVIOUS
  <2> QED  BY <1>4, <2>1, <2>2
<1>6. Agree(b, p, u) /\ Agree(b, p + (k + c), x)
  <2> HIDE DEF u
  <2>1. Agree(b, p, u) /\ Agree(b, p + Len(u), x)  BY <1>3, <1>4, <1>5, AgreeSplit
  <2> QED  BY <1>4, <2>1
<1>7. Agree(b, p, s) /\ Agree(b, q, after)
  <2>1. Agree(b, p, s \o after)  BY <1>6
  <2>2. Agree(b, p, s) /\ Agree(b, p + Len(s), after)  BY <1>1, <1>5, <2>1, AgreeSplit
  <2> QED  BY <1>1, <2>2
<1> HIDE DEF u
<1>8. /\ q \in Nat /\ q + c + Len(x) = Len(b) + 1 /\ p + k <= Len(b) + 1 /\ p < Len(b)
      /\ q + c \in (p + 1)..(Len(b) + 1) /\ p + (k + c) = q + c /\ (c = 1 => q + 1 <= Len(b) + 1)
  <2> DEFINE y == Len(x)  z == Len(b)  v == UTF8Length(t)
  <2>1. y \in Nat /\ z \in Nat /\ p + (k + c + y) = z + 1 /\ v \in Nat /\ k = v + 2  BY <1>2, <1>3, <1>5
  <2> HIDE DEF y, z, v
  <2>3. k >= 2  BY <2>1
  <2>2. Placed(p, k, c, y, z)  BY <1>1, <2>1, <2>3, Positions
  <2> QED  BY <2>2 DEF y, z, Placed
<1>9. ReadUint16(b, p) = UTF8Length(t) /\ ParseUTF8(b, p + 2, UTF8Length(t)) = t
  <2>1. Agree(b, p, String(t)) /\ p + Sized(t) <= Len(b) + 1  BY <1>7, <1>8 DEF s, k
  <2> QED  BY <2>1, StringRead
<1>10. ReadString(b, p) = [value |-> t, next |-> p + 2 + UTF8Length(t)]
  BY <1>9 DEF ReadString
<1>11. p + 2 + UTF8Length(t) = q  BY <1>2
<1> HIDE DEF q
<1>12. ReadString(b, p).value = t /\ ReadString(b, p).next = q  BY <1>10, <1>11
<1>13. c = 1 => b[q] = after[1]
  <2> SUFFICES ASSUME c = 1 PROVE b[q] = after[1]  OBVIOUS
  <2>1. 1 \in 1..Len(after) /\ q + 1 - 1 = q  BY <1>8
  <2> QED  BY <1>7, <1>8, <2>1 DEF Agree
<1>14. Agree(b, q + c, x)  BY <1>6, <1>8
<1> QED  BY <1>5, <1>8, <1>12, <1>13, <1>14 DEF TopicIs

\* What is read at i: the topics, and what came after the last of them.
TopicsBack(b, i, c, topics, after) ==
  ReadTopics(b, i, c) = topics /\ (topics # <<>> /\ c = 1 => b[Len(b)] = after[1])

\* A list of topics is read as it was written.
LEMMA TopicsRead ==
  ASSUME NEW topics, TopicList(topics), NEW after \in Seq(Bytes), NEW c \in {0, 1}, c = Len(after),
         NEW b \in Seq(Bytes), NEW i \in Nat \ {0},
         Ending(b, i, Topics(topics, after))
  PROVE  TopicsBack(b, i, c, topics, after)
<1> DEFINE m == Len(topics)
           D == 1..(m + 1)
           n == Len(b) + 1
<1>0. Agree(b, i, Topics(topics, after)) /\ i + Len(Topics(topics, after)) = Len(b) + 1
  BY DEF Ending
<1>1. PICK f, l : Topics(topics, after) = f[1] /\ Total(topics) = l[1] /\ Listed(topics, after, f, l)
  BY TopicsWritten
<1>2. PICK g : ReadTopics(b, i, c) = g[i] /\ \A p \in i..n : g[p] = TopicRead(b, c, g, p)
  BY TopicsOf
<1>3. m \in Nat /\ Len(b) \in Nat /\ topics \in Seq(Seq(Words)) /\ \A k \in 1..m : Text(topics[k])
  <2>1. m \in Nat /\ topics \in Seq(Seq(Words))  BY DEF TopicList
  <2>2. Len(b) \in Nat  OBVIOUS
  <2> QED  BY <2>1, <2>2 DEF TopicList
<1>4. /\ f \in [D -> Seq(Bytes)] /\ f[m + 1] = <<>>
      /\ \A k \in 1..m : f[k] = String(topics[k]) \o after \o f[k + 1]
  BY <1>1 DEF Listed
<1> HIDE DEF m
<1> DEFINE Good(k) == \A p \in i..n : p + Len(f[k]) = n /\ Agree(b, p, f[k]) =>
                        g[p] = SubSeq(topics, k, m) /\ (k <= m /\ c = 1 => b[Len(b)] = after[1])
           T == {k \in D : Good(k)}
<1>5. Descends(m, T)
  <2> SUFFICES ASSUME NEW k \in D, \A j \in (k + 1)..(m + 1) : Good(j),
                      NEW p \in i..n, p + Len(f[k]) = n, Agree(b, p, f[k])
               PROVE  g[p] = SubSeq(topics, k, m) /\ (k <= m /\ c = 1 => b[Len(b)] = after[1])
    BY <1>3 DEF Descends
  <2>1. p \in Nat \ {0} /\ g[p] = TopicRead(b, c, g, p)  BY <1>2, <1>3
  <2>2. CASE k = m + 1
    <3>1. ~(p < Len(b)) /\ ~(k <= m)
      <4>1. Len(f[k]) = 0  BY <1>4, <2>2
      <4> QED  BY <1>3, <2>1, <2>2, <4>1
    <3>2. g[p] = <<>>  BY <2>1, <3>1 DEF TopicRead
    <3>3. SubSeq(topics, k, m) = <<>>  BY <1>3, <2>2
    <3> QED  BY <3>1, <3>2, <3>3
  <2>3. CASE k \in 1..m
    <3> DEFINE t == topics[k]  x == f[k + 1]  q == ReadString(b, p).next
    <3>1. k + 1 \in D /\ k + 1 \in (k + 1)..(m + 1) /\ k \in Nat /\ k <= m  BY <1>3, <2>3
    <3>2. Text(t) /\ x \in Seq(Bytes) /\ f[k] = String(t) \o after \o x  BY <1>3, <1>4, <2>3, <3>1
    <3> HIDE DEF t, x
    <3>3. /\ p < Len(b) /\ ReadString(b, p).value = t /\ q \in Nat
          /\ q + c \in (p + 1)..n /\ q + c + Len(x) = n
          /\ Agree(b, q + c, x) /\ (c = 1 => b[q] = after[1])
      <4> DEFINE e == f[k]
      <4>1. Ending(b, p, e) /\ e = String(t) \o after \o x  BY <3>2 DEF Ending
      <4> HIDE DEF e
      <4>2. TopicIs(b, p, t, after, c, x)  BY <2>1, <3>2, <4>1, TopicAt
      <4> QED  BY <4>2 DEF TopicIs, q
    <3> HIDE DEF q
    <3>4. q + c \in i..n /\ q + c <= Len(b) + 1  BY <1>3, <2>1, <3>3
    <3>5. g[q + c] = SubSeq(topics, k + 1, m) /\ (k + 1 <= m /\ c = 1 => b[Len(b)] = after[1])
      <4>1. Good(k + 1)  BY <3>1
      <4> QED  BY <3>3, <3>4, <4>1 DEF x
    <3>6. g[p] = <<t>> \o g[q + c]  BY <2>1, <3>3, <3>4, Zenon DEF TopicRead, q
    <3>7. <<t>> \o SubSeq(topics, k + 1, m) = SubSeq(topics, k, m)
      <4> QED  BY <1>3, <2>3, FrontOf DEF t, m
    <3>8. c = 1 => b[Len(b)] = after[1]
      <4> SUFFICES ASSUME c = 1, ~(k + 1 <= m) PROVE b[Len(b)] = after[1]  BY <3>5
      <4>1. k + 1 = m + 1  BY <1>3, <3>1
      <4>2. Len(x) = 0  BY <1>4, <4>1 DEF x
      <4>3. q = Len(b)  BY <1>3, <3>3, <4>2
      <4> QED  BY <3>3, <4>3
    <3> QED  BY <3>5, <3>6, <3>7, <3>8, Zenon
  <2> QED  BY <1>3, <2>2, <2>3
<1>6. Good(1)
  <2>1. \A k \in 1..(m + 1) : k \in T
    <3> HIDE DEF T
    <3> QED  BY <1>5, Descent
  <2>2. 1 \in D  BY <1>3
  <2> QED  BY <2>1, <2>2
<1>7. i \in i..n
  <2>1. Topics(topics, after) \in Seq(Bytes)  BY TopicsSize
  <2>2. Len(Topics(topics, after)) \in Nat  BY <2>1
  <2> QED  BY <1>0, <1>3, <2>2
<1>8. g[i] = SubSeq(topics, 1, m) /\ (1 <= m /\ c = 1 => b[Len(b)] = after[1])  BY <1>0, <1>1, <1>6, <1>7
<1>9. SubSeq(topics, 1, m) = topics /\ (topics # <<>> => 1 <= m)  BY <1>3 DEF m
<1>10. ReadTopics(b, i, c) = topics /\ (topics # <<>> /\ c = 1 => b[Len(b)] = after[1])
  BY <1>2, <1>8, <1>9
<1> QED  BY <1>10 DEF TopicsBack

-----------------------------------------------------------------------------
(* What a server reads.                                                    *)

\* The bytes at the end, cut in two.
LEMMA EndingSplit ==
  ASSUME NEW b \in Seq(Bytes), NEW i \in Nat \ {0}, NEW u \in Seq(Bytes), NEW v \in Seq(Bytes),
         Ending(b, i, u \o v)
  PROVE  Agree(b, i, u) /\ i + Len(u) <= Len(b) + 1 /\ Ending(b, i + Len(u), v) /\ i + Len(u) \in Nat \ {0}
<1>1. Len(u \o v) = Len(u) + Len(v) /\ Len(u) \in Nat /\ Len(v) \in Nat  BY ConcatSize
<1>2. Len(b) \in Nat  OBVIOUS
<1> DEFINE w == u \o v
<1>3. i + Len(w) = Len(b) + 1 /\ Agree(b, i, w)  BY DEF Ending
<1>4. Agree(b, i, u) /\ Agree(b, i + Len(u), v)  BY <1>2, <1>3, AgreeSplit
<1>5. Len(w) = Len(u) + Len(v)  BY <1>1
<1> HIDE DEF w
<1> DEFINE x == Len(u)  y == Len(v)  z == Len(b)
<1>6. x \in Nat /\ y \in Nat /\ z \in Nat /\ i + (x + y) = z + 1  BY <1>1, <1>2, <1>3, <1>5
<1> HIDE DEF x, y, z
<1>7. i + x <= z + 1 /\ i + x + y = z + 1 /\ i + x \in Nat \ {0}  BY <1>6
<1> QED  BY <1>4, <1>7 DEF Ending, x, y, z

\* A packet of bytes, as many as it announces.
Whole(p) ==
  FirstByte(p) \in Bytes /\ Body(p) \in Seq(Bytes) /\ RemainingLength(p) = Len(Body(p))

\* Where the body begins, as its length tells.
BodyAt(e, p, j) ==
  /\ e \in Seq(Bytes) /\ j \in Nat \ {0}
  /\ DecodeMBI(e, 2) = [length |-> Len(Body(p)), next |-> j] /\ Ending(e, j, Body(p))

\* One byte, then m, then the body.
Joining(e, one, m, body) ==
  /\ one \in Seq(Bytes) /\ Len(one) = 1 /\ m \in Seq(Bytes) /\ body \in Seq(Bytes)
  /\ e = (one \o m) \o body

Headed(e, m, body) ==
  /\ e \in Seq(Bytes) /\ Len(e) = 1 + Len(m) + Len(body)
  /\ Agree(e, 2, m) /\ Ending(e, 2 + Len(m), body)

\* The three parts of a packet, one behind the other.
LEMMA HeadedIs ==
  ASSUME NEW e, NEW one, NEW m, NEW body, Joining(e, one, m, body)
  PROVE  Headed(e, m, body)
<1>0. /\ one \in Seq(Bytes) /\ Len(one) = 1 /\ m \in Seq(Bytes) /\ body \in Seq(Bytes)
      /\ e = (one \o m) \o body
  BY DEF Joining
<1> DEFINE u == one \o m
<1>1. u \in Seq(Bytes) /\ Len(u) = 1 + Len(m) /\ Len(m) \in Nat
  <2>1. u \in Seq(Bytes) /\ Len(u) = Len(one) + Len(m) /\ Len(m) \in Nat  BY <1>0, ConcatSize
  <2> QED  BY <1>0, <2>1
<1>2. e = u \o body  BY <1>0
<1> HIDE DEF u
<1>3. e \in Seq(Bytes) /\ Len(e) = Len(u) + Len(body) /\ Len(body) \in Nat
  BY <1>0, <1>1, <1>2, ConcatSize
<1>4. Ending(e, 1, u \o body)
  <2>1. Len(e) \in Nat  BY <1>3
  <2>2. 1 + Len(e) = Len(e) + 1 /\ \A k \in 1..Len(e) : 1 + k - 1 = k  BY <2>1
  <2>3. Ending(e, 1, e)  BY <2>2 DEF Ending, Agree
  <2> QED  BY <1>2, <2>3
<1>5. Agree(e, 1, u) /\ Ending(e, 1 + Len(u), body)
  <2>1. 1 \in Nat \ {0}  OBVIOUS
  <2> QED  BY <1>0, <1>1, <1>3, <1>4, <2>1, EndingSplit
<1>6. Agree(e, 1 + Len(one), m)
  <2>1. Agree(e, 1, one \o m)  BY <1>5 DEF u
  <2>2. Len(e) \in Nat /\ 1 \in Nat  BY <1>3
  <2> QED  BY <1>0, <2>1, <2>2, AgreeSplit
<1>7. 1 + Len(one) = 2 /\ 1 + Len(u) = 2 + Len(m)  BY <1>0, <1>1
<1>8. Len(e) = 1 + Len(m) + Len(body)  BY <1>1, <1>3
<1> QED  BY <1>3, <1>5, <1>6, <1>7, <1>8 DEF Headed

\* A packet is as long as it announces, and its body stands where its length
\* ends.
LEMMA Announced ==
  ASSUME NEW p, Whole(p), Fits(p)
  PROVE  \E j : BodyAt(Encode(p), p, j)
<1> DEFINE r == RemainingLength(p)
           m == EncodeMBI(r)
           body == Body(p)
           one == <<FirstByte(p)>>
           e == Encode(p)
<1>1. r \in Nat /\ r < 268435456 /\ r = Len(body) /\ body \in Seq(Bytes) /\ one \in Seq(Bytes) /\ Len(one) = 1
  <2>1. r = Len(body) /\ body \in Seq(Bytes) /\ FirstByte(p) \in Bytes  BY DEF Whole
  <2>2. r < 268435456  BY Weights DEF Fits
  <2>3. Len(body) \in Nat  BY <2>1
  <2> QED  BY <2>1, <2>2, <2>3
<1>2. m \in Seq(Bytes) /\ Len(m) \in Nat
  <2>1. PICK size : Written(r, EncodeMBI(r), size)
    <3> HIDE DEF r
    <3> QED  BY <1>1, DigitsOf
  <2>2. m \in Seq(Bytes)  BY <2>1 DEF Written
  <2> QED  BY <2>2
<1>3. e = (one \o m) \o body  BY DEF Encode
<1> HIDE DEF r, m, body, one, e
<1>4. Headed(e, m, body)
  <2>1. Joining(e, one, m, body)  BY <1>1, <1>2, <1>3 DEF Joining
  <2> QED  BY <2>1, HeadedIs
<1>5. e \in Seq(Bytes) /\ Len(e) = 1 + Len(m) + r /\ Agree(e, 2, m) /\ Ending(e, 2 + Len(m), body) /\ Len(e) \in Nat
  <2>1. Len(e) \in Nat  BY <1>4 DEF Headed
  <2> QED  BY <1>1, <1>4, <2>1 DEF Headed
<1>10. DecodeMBI(e, 2) = [length |-> r, next |-> 2 + Len(m)]
  <2>2. 2 \in 1..(Len(e) + 1) /\ 2 + Len(m) <= Len(e) + 1  BY <1>1, <1>2, <1>5
  <2>3. Agree(e, 2, EncodeMBI(r))  BY <1>5 DEF m
  <2>4. DecodeMBI(e, 2) = IF 2 + Len(EncodeMBI(r)) <= Len(e) + 1
             THEN [length |-> r, next |-> 2 + Len(EncodeMBI(r))] ELSE Incomplete
    BY <1>1, <1>5, <2>2, <2>3, LengthRead
  <2> QED  BY <2>2, <2>4 DEF m
<1>12. DecodeMBI(e, 2) = [length |-> Len(body), next |-> 2 + Len(m)]  BY <1>1, <1>10
<1>11. 2 + Len(m) \in Nat \ {0}  BY <1>2
<1>13. BodyAt(e, p, 2 + Len(m))  BY <1>5, <1>11, <1>12 DEF BodyAt, body
<1> QED  BY <1>13 DEF e

\* A packet that a server reads as it was meant, in the bytes that are sent.
Served(p) ==
  Whole(p) /\ \A j \in Nat \ {0} : Ending(Encode(p), j, Body(p)) => Read(Encode(p), j, p) = p

\* A packet that is served is read as it was asked for.
LEMMA ServedIsRead ==
  ASSUME NEW p, Served(p), Fits(p)
  PROVE  LET size == DecodeMBI(Encode(p), 2) IN
         size.next + size.length = Len(Encode(p)) + 1 /\ Read(Encode(p), size.next, p) = p
<1>1. PICK j : BodyAt(Encode(p), p, j)  BY Announced DEF Served
<1>2. DecodeMBI(Encode(p), 2).next = j /\ DecodeMBI(Encode(p), 2).length = Len(Body(p))
  BY <1>1 DEF BodyAt
<1>3. j + Len(Body(p)) = Len(Encode(p)) + 1  BY <1>1 DEF BodyAt, Ending
<1>4. Read(Encode(p), j, p) = p  BY <1>1 DEF BodyAt, Served
<1> QED  BY <1>2, <1>3, <1>4

\* What the client decodes, a server reads the same way.
LEMMA LegibleServed ==
  ASSUME NEW p, Legible(p), Fits(p), p.type \notin {"CONNECT", "SUBSCRIBE", "UNSUBSCRIBE"}
  PROVE  Served(p)
<1>1. Whole(p)  BY DEF Legible, Whole
<1>2. DecodeMessage(Encode(p), 1).packet = p  BY OneRead
<1>3. \A j : Read(Encode(p), j, p) = DecodeMessage(Encode(p), 1).packet  BY DEF Read
<1> QED  BY <1>1, <1>2, <1>3 DEF Served

\* The parts of a request of topics, of an identifier and what comes after each topic.
Asks(p, id, topics, after) ==
  /\ id \in Words /\ TopicList(topics) /\ after \in Seq(Bytes) /\ Len(after) \in {0, 1}
  /\ Body(p) = Uint16(id) \o Topics(topics, after)
  /\ RemainingLength(p) = 2 + (Total(topics) + (IF Len(after) = 0 THEN 0 ELSE Len(topics)))

\* A request is as long as it announces.
LEMMA AsksWhole ==
  ASSUME NEW p, NEW id, NEW topics, NEW after, Asks(p, id, topics, after)
  PROVE  Body(p) \in Seq(Bytes) /\ RemainingLength(p) = Len(Body(p))
<1> DEFINE u == Uint16(id)  v == Topics(topics, after)
           k == Total(topics) + (IF Len(after) = 0 THEN 0 ELSE Len(topics))
<1>1. u \in Seq(Bytes) /\ Len(u) = 2  BY Uint16Read DEF Asks
<1>2. v \in Seq(Bytes) /\ Len(v) = k  BY TopicsSize DEF Asks
<1>3. Body(p) = u \o v /\ RemainingLength(p) = 2 + k  BY DEF Asks
<1> HIDE DEF u, v, k
<1>4. u \o v \in Seq(Bytes) /\ Len(u \o v) = Len(u) + Len(v)  BY <1>1, <1>2, ConcatSize
<1> QED  BY <1>1, <1>2, <1>3, <1>4

\* A server reads the identifier, the topics and the quality of service.
LEMMA AsksRead ==
  ASSUME NEW p, NEW id, NEW topics, NEW after, Asks(p, id, topics, after), NEW c \in {0, 1}, c = Len(after),
         NEW b \in Seq(Bytes), NEW j \in Nat \ {0}, Ending(b, j, Body(p))
  PROVE  /\ ReadUint16(b, j) = id /\ ReadTopics(b, j + 2, c) = topics
         /\ topics # <<>> /\ c = 1 => b[Len(b)] = after[1]
<1> DEFINE u == Uint16(id)  v == Topics(topics, after)
<1>1. u \in Seq(Bytes) /\ Len(u) = 2 /\ id \in Words  BY Uint16Read DEF Asks
<1>2. v \in Seq(Bytes) /\ TopicList(topics) /\ after \in Seq(Bytes) /\ Len(after) \in {0, 1}
  BY TopicsSize DEF Asks
<1>3. Ending(b, j, u \o v)  BY DEF Asks
<1>4. Len(b) \in Nat  OBVIOUS
<1> HIDE DEF u, v
<1>5. Agree(b, j, u) /\ j + 2 <= Len(b) + 1 /\ Ending(b, j + 2, v) /\ j + 2 \in Nat \ {0}
  <2>1. Agree(b, j, u) /\ j + Len(u) <= Len(b) + 1 /\ Ending(b, j + Len(u), v) /\ j + Len(u) \in Nat \ {0}
    BY <1>1, <1>2, <1>3, EndingSplit
  <2> QED  BY <1>1, <2>1
<1>6. ReadUint16(b, j) = id
  <2>1. Agree(b, j, Uint16(id)) /\ j \in Nat  BY <1>5 DEF u
  <2> QED  BY <1>1, <1>4, <1>5, <2>1, Uint16Read
<1>7. Ending(b, j + 2, Topics(topics, after))  BY <1>5 DEF v
<1>8. ReadTopics(b, j + 2, c) = topics /\ (topics # <<>> /\ c = 1 => b[Len(b)] = after[1])
  <2> DEFINE i == j + 2
  <2>1. i \in Nat \ {0} /\ Ending(b, i, Topics(topics, after))  BY <1>5, <1>7
  <2> HIDE DEF i
  <2>2. TopicsBack(b, i, c, topics, after)  BY <1>2, <2>1, TopicsRead
  <2> QED  BY <2>2 DEF i, TopicsBack
<1> QED  BY <1>6, <1>8

\* A whole packet is of bytes.
LEMMA EncodedWhole ==
  ASSUME NEW p, Whole(p), Fits(p)
  PROVE  Encode(p) \in Seq(Bytes)
BY Announced DEF BodyAt

\* A server reads an UNSUBSCRIBE,
LEMMA ServedUnsubscribe ==
  ASSUME NEW p, p \in [type : {"UNSUBSCRIBE"}, id : Words \ {0}, topics : Seq(Seq(Words))],
         \A i \in DOMAIN p.topics : Text(p.topics[i]), Fits(p)
  PROVE  Served(p)
<1>1. /\ p.type = "UNSUBSCRIBE" /\ p.id \in Words /\ p.id # 0 /\ "id" \in DOMAIN p
      /\ p = [type |-> "UNSUBSCRIBE", id |-> p.id, topics |-> p.topics]
      /\ p.topics \in Seq(Seq(Words))
  <2> HIDE DEF Words
  <2> QED  OBVIOUS
<1>2. FirstByte(p) = 16 * 10 + 2  BY <1>1, TypeCodes DEF FirstByte
<1>3. FirstByte(p) \in Bytes
  <2>1. 16 * 10 + 2 \in Bytes  BY BytesAre
  <2> QED  BY <1>2, <2>1
<1>4. Identifier(p) = Uint16(p.id)  BY <1>1 DEF Identifier
<1>5. TopicList(p.topics)  BY <1>1 DEF TopicList
<1>6. Len(<<>>) = 0 /\ <<>> \in Seq(Bytes)  OBVIOUS
<1>7. Asks(p, p.id, p.topics, <<>>)
  <2>1. Body(p) = Uint16(p.id) \o Topics(p.topics, <<>>)  BY <1>1, <1>4 DEF Body
  <2>2. RemainingLength(p) = Len(Uint16(p.id)) + Total(p.topics)  BY <1>1, <1>4 DEF RemainingLength
  <2>3. Len(Uint16(p.id)) = 2 /\ Total(p.topics) \in Nat  BY <1>1, <1>5, <1>6, Uint16Read, TopicsSize
  <2> QED  BY <1>1, <1>5, <1>6, <2>1, <2>2, <2>3 DEF Asks
<1>8. Whole(p)  BY <1>3, <1>7, AsksWhole DEF Whole
<1>9. ASSUME NEW j \in Nat \ {0}, Ending(Encode(p), j, Body(p)) PROVE Read(Encode(p), j, p) = p
  <2>1. Encode(p) \in Seq(Bytes)  BY <1>8, EncodedWhole
  <2>2. ReadUint16(Encode(p), j) = p.id /\ ReadTopics(Encode(p), j + 2, 0) = p.topics
    <3>1. 0 \in {0, 1} /\ 0 = Len(<<>>)  BY <1>6
    <3> QED  BY <1>7, <1>9, <2>1, <3>1, AsksRead
  <2>3. Read(Encode(p), j, p) = [type |-> p.type, id |-> ReadUint16(Encode(p), j),
                                 topics |-> ReadTopics(Encode(p), j + 2, 0)]
    BY <1>1 DEF Read
  <2> QED  BY <1>1, <2>2, <2>3, Zenon
<1> QED  BY <1>8, <1>9 DEF Served

\* and a SUBSCRIBE, as they were asked for.
LEMMA ServedSubscribe ==
  ASSUME NEW p, p \in [type : {"SUBSCRIBE"}, id : Words \ {0}, topics : Seq(Seq(Words)), qos : 0..2],
         p.topics # <<>>, \A i \in DOMAIN p.topics : Text(p.topics[i]), Fits(p)
  PROVE  Served(p)
<1>1. /\ p.type = "SUBSCRIBE" /\ p.id \in Words /\ p.id # 0 /\ "id" \in DOMAIN p
      /\ p = [type |-> "SUBSCRIBE", id |-> p.id, topics |-> p.topics, qos |-> p.qos]
      /\ p.topics \in Seq(Seq(Words)) /\ p.qos \in 0..2
  <2> HIDE DEF Words
  <2> QED  OBVIOUS
<1>2. FirstByte(p) = 16 * 8 + 2  BY <1>1, TypeCodes DEF FirstByte
<1>3. FirstByte(p) \in Bytes
  <2>1. 16 * 8 + 2 \in Bytes  BY BytesAre
  <2> QED  BY <1>2, <2>1
<1>4. Identifier(p) = Uint16(p.id)  BY <1>1 DEF Identifier
<1>5. TopicList(p.topics) /\ Len(p.topics) \in Nat  BY <1>1 DEF TopicList
<1> DEFINE after == <<p.qos>>
<1>6. Len(after) = 1 /\ after \in Seq(Bytes) /\ after[1] = p.qos
  <2>1. p.qos \in Bytes  BY <1>1, BytesAre
  <2> QED  BY <2>1
<1>7. Asks(p, p.id, p.topics, after)
  <2>1. Body(p) = Uint16(p.id) \o Topics(p.topics, after)  BY <1>1, <1>4 DEF Body
  <2>2. RemainingLength(p) = Len(Uint16(p.id)) + (Total(p.topics) + Len(p.topics))
    BY <1>1, <1>4 DEF RemainingLength
  <2> HIDE DEF after
  <2>3. Len(Uint16(p.id)) = 2 /\ Total(p.topics) \in Nat  BY <1>1, <1>5, <1>6, Uint16Read, TopicsSize
  <2> QED  BY <1>1, <1>5, <1>6, <2>1, <2>2, <2>3 DEF Asks
<1> HIDE DEF after
<1>8. Whole(p)  BY <1>3, <1>7, AsksWhole DEF Whole
<1>9. ASSUME NEW j \in Nat \ {0}, Ending(Encode(p), j, Body(p)) PROVE Read(Encode(p), j, p) = p
  <2>1. Encode(p) \in Seq(Bytes)  BY <1>8, EncodedWhole
  <2>2. /\ ReadUint16(Encode(p), j) = p.id /\ ReadTopics(Encode(p), j + 2, 1) = p.topics
        /\ Last(Encode(p)) = p.qos
    <3>1. 1 \in {0, 1} /\ 1 = Len(after)  BY <1>6
    <3>2. /\ ReadUint16(Encode(p), j) = p.id /\ ReadTopics(Encode(p), j + 2, 1) = p.topics
          /\ Encode(p)[Len(Encode(p))] = after[1]
      BY <1>7, <1>9, <2>1, <3>1, AsksRead
    <3> QED  BY <1>6, <3>2 DEF Last
  <2>3. Read(Encode(p), j, p) = [type |-> p.type, id |-> ReadUint16(Encode(p), j),
                                 topics |-> ReadTopics(Encode(p), j + 2, 1), qos |-> Last(Encode(p))]
    BY <1>1 DEF Read
  <2> QED  BY <1>1, <2>2, <2>3, Zenon
<1> QED  BY <1>8, <1>9 DEF Served

-----------------------------------------------------------------------------
(* CONNECT.                                                                *)

\* The bytes x are in b, from i on.
At(b, i, x) ==
  x \in Seq(Bytes) /\ i \in Nat \ {0} /\ Agree(b, i, x) /\ i + Len(x) <= Len(b) + 1

\* Bytes found somewhere, cut in two.
LEMMA AtSplit ==
  ASSUME NEW b \in Seq(Bytes), NEW i, NEW x \in Seq(Bytes), NEW y \in Seq(Bytes), At(b, i, x \o y)
  PROVE  At(b, i, x) /\ At(b, i + Len(x), y)
<1> DEFINE z == x \o y
<1>1. Len(z) = Len(x) + Len(y) /\ Len(x) \in Nat /\ Len(y) \in Nat  BY ConcatSize
<1>2. Len(b) \in Nat  OBVIOUS
<1>3. i \in Nat \ {0} /\ Agree(b, i, z) /\ i + Len(z) <= Len(b) + 1  BY DEF At
<1>4. Agree(b, i, x) /\ Agree(b, i + Len(x), y)  BY <1>2, <1>3, AgreeSplit
<1> HIDE DEF z
<1> DEFINE m == Len(x)  n == Len(y)  t == Len(b)
<1>5. m \in Nat /\ n \in Nat /\ t \in Nat /\ i \in Nat /\ i # 0 /\ i + (m + n) <= t + 1
  BY <1>1, <1>2, <1>3
<1> HIDE DEF m, n, t
<1>6. i + m <= t + 1 /\ i + m + n <= t + 1 /\ i + m \in Nat \ {0}  BY <1>5
<1> QED  BY <1>3, <1>4, <1>6 DEF At, m, n, t

\* What a server reads of two bytes,
LEMMA WordAt ==
  ASSUME NEW b \in Seq(Bytes), NEW i, NEW n \in Words, At(b, i, Uint16(n))
  PROVE  ReadUint16(b, i) = n
<1>1. i \in Nat /\ Agree(b, i, Uint16(n)) /\ i + Len(Uint16(n)) <= Len(b) + 1  BY DEF At
<1>2. Len(b) \in Nat  OBVIOUS
<1>3. Len(Uint16(n)) = 2  BY Uint16Read
<1>4. i + 2 <= Len(b) + 1  BY <1>1, <1>3
<1> QED  BY <1>1, <1>2, <1>4, Uint16Read

\* of one,
LEMMA ByteAt ==
  ASSUME NEW b \in Seq(Bytes), NEW i, NEW d, At(b, i, <<d>>)
  PROVE  b[i] = d
<1>1. i \in Nat /\ Agree(b, i, <<d>>) /\ i + Len(<<d>>) <= Len(b) + 1  BY DEF At
<1>2. Len(<<d>>) = 1 /\ <<d>>[1] = d /\ 1 \in 1..1  OBVIOUS
<1>3. i + 1 <= Len(b) + 1 /\ i + 1 - 1 = i  BY <1>1, <1>2
<1> QED  BY <1>1, <1>2, <1>3 DEF Agree

\* and of a string.
LEMMA TextFound ==
  ASSUME NEW b \in Seq(Bytes), NEW i, NEW t, Text(t), At(b, i, String(t))
  PROVE  ReadString(b, i) = [value |-> t, next |-> i + Sized(t)]
<1>1. i \in Nat \ {0} /\ Agree(b, i, String(t)) /\ i + Len(String(t)) <= Len(b) + 1  BY DEF At
<1>2. Len(String(t)) = Sized(t) /\ Sized(t) = UTF8Length(t) + 2  BY StringSize DEF Sized
<1>3. i + Sized(t) <= Len(b) + 1  BY <1>1, <1>2
<1>4. /\ ReadUint16(b, i) = UTF8Length(t) /\ UTF8Length(t) \in Nat
      /\ ParseUTF8(b, i + 2, UTF8Length(t)) = t
  BY <1>1, <1>3, StringRead
<1>5. ReadString(b, i) = [value |-> t, next |-> i + 2 + UTF8Length(t)]  BY <1>4 DEF ReadString
<1>6. i + 2 + UTF8Length(t) = i + Sized(t)  BY <1>1, <1>2, <1>4
<1> QED  BY <1>5, <1>6

\* An option that is a text.
Spoken(o) == o = <<>> \/ (o = <<o[1]>> /\ Text(o[1]))

\* An option takes as many bytes as were counted for it.
LEMMA OptionSize ==
  ASSUME NEW o, Spoken(o)
  PROVE  Option(o) \in Seq(Bytes) /\ Len(Option(o)) = SizedOption(o) /\ SizedOption(o) \in Nat
<1>1. CASE o = <<>>
  <2>1. Option(o) = <<>> /\ SizedOption(o) = 0  BY <1>1 DEF Option, SizedOption
  <2>2. <<>> \in Seq(Bytes) /\ Len(<<>>) = 0  OBVIOUS
  <2> QED  BY <2>1, <2>2
<1>2. CASE o # <<>>
  <2>1. Option(o) = String(o[1]) /\ SizedOption(o) = Sized(o[1])  BY <1>2 DEF Option, SizedOption
  <2>2. Text(o[1])  BY <1>2 DEF Spoken
  <2> QED  BY <2>1, <2>2, StringSize
<1> QED  BY <1>1, <1>2

\* A server reads an option if its flag is set, and nothing if it is not.
LEMMA OptionFound ==
  ASSUME NEW b \in Seq(Bytes), NEW i, NEW o, Spoken(o), At(b, i, Option(o))
  PROVE  ReadOption(b, i, o # <<>>) = [value |-> o, next |-> i + SizedOption(o)]
<1>0. i \in Nat  BY DEF At
<1>1. CASE o = <<>>
  <2>1. SizedOption(o) = 0 /\ i + 0 = i  BY <1>0, <1>1 DEF SizedOption
  <2> QED  BY <1>1, <2>1 DEF ReadOption
<1>2. CASE o # <<>>
  <2>1. Option(o) = String(o[1]) /\ SizedOption(o) = Sized(o[1])  BY <1>2 DEF Option, SizedOption
  <2>2. Text(o[1]) /\ o = <<o[1]>>  BY <1>2 DEF Spoken
  <2>3. ReadString(b, i) = [value |-> o[1], next |-> i + Sized(o[1])]  BY <2>1, <2>2, TextFound
  <2>4. ReadOption(b, i, o # <<>>) = [ReadString(b, i) EXCEPT !.value = <<@>>]  BY <1>2 DEF ReadOption
  <2>5. ReadOption(b, i, o # <<>>) = [value |-> <<o[1]>>, next |-> i + Sized(o[1])]  BY <2>3, <2>4
  <2> QED  BY <2>1, <2>2, <2>5
<1> QED  BY <1>1, <1>2

\* The flags of CONNECT in one number, and one by one.
Composed(n, c, u, w, z, q, r) ==
  /\ c \in {0, 1} /\ u \in {0, 1} /\ w \in {0, 1} /\ z \in {0, 1} /\ r \in {0, 1} /\ q \in 0..2
  /\ n = 2 * c + 128 * u + 64 * w + (4 * z + 8 * q + 32 * r)

Decomposed(n, c, u, w, z, q, r) ==
  /\ n \in Nat /\ n < 256
  /\ (n \div 2) % 2 = c /\ (n \div 4) % 2 = z /\ (n \div 8) % 4 = q
  /\ (n \div 32) % 2 = r /\ (n \div 64) % 2 = w /\ (n \div 128) % 2 = u

\* The bits of the flags, taken apart.
LEMMA Bits ==
  ASSUME NEW n, NEW c, NEW u, NEW w, NEW z, NEW q, NEW r, Composed(n, c, u, w, z, q, r)
  PROVE  Decomposed(n, c, u, w, z, q, r)
BY SMTT(60) DEF Composed, Decomposed

\* The length of the name of the protocol.
LEMMA NameSize ==
  ASSUME NEW v \in 3..4
  PROVE  Protocol(v) \in Seq(Bytes) /\ Len(Protocol(v)) = (IF v = 3 THEN 9 ELSE 7)
<1>1. {0, 3, 4, 6, 77, 81, 73, 115, 100, 112, 84} \subseteq Bytes
  <2>1. \A d \in {0, 3, 4, 6, 77, 81, 73, 115, 100, 112, 84} : d \in Nat /\ d < 256  OBVIOUS
  <2> QED  BY <2>1, BytesAre
<1> HIDE DEF Bytes
<1>2. CASE v = 3
  <2>1. Protocol(v) = <<0, 6, 77, 81, 73, 115, 100, 112, 3>>  BY <1>2 DEF Protocol
  <2>2. <<0, 6, 77, 81, 73, 115, 100, 112, 3>> \in Seq(Bytes)  BY <1>1
  <2>3. Len(<<0, 6, 77, 81, 73, 115, 100, 112, 3>>) = 9  OBVIOUS
  <2> QED  BY <1>2, <2>1, <2>2, <2>3, Zenon
<1>3. CASE v = 4
  <2>1. Protocol(v) = <<0, 4, 77, 81, 84, 84, 4>>  BY <1>3 DEF Protocol
  <2>2. <<0, 4, 77, 81, 84, 84, 4>> \in Seq(Bytes)  BY <1>1
  <2>3. Len(<<0, 4, 77, 81, 84, 84, 4>>) = 7  OBVIOUS
  <2>4. v # 3  BY <1>3
  <2> QED  BY <2>1, <2>2, <2>3, <2>4, Zenon
<1> QED  BY <1>2, <1>3

\* What is read where the name of the protocol is.
Named(b, i, v) ==
  /\ Len(Protocol(v)) \in {7, 9} /\ Protocol(v) \in Seq(Bytes)
  /\ ReadString(b, i).next = i + Len(Protocol(v)) - 1 /\ b[ReadString(b, i).next] = v

\* A server finds the version behind that name.
LEMMA NameFound ==
  ASSUME NEW b \in Seq(Bytes), NEW i, NEW v \in 3..4, At(b, i, Protocol(v))
  PROVE  Named(b, i, v)
<1> DEFINE n == Len(Protocol(v))
<1>1. /\ i \in Nat \ {0} /\ Agree(b, i, Protocol(v)) /\ i + n <= Len(b) + 1 /\ Protocol(v) \in Seq(Bytes)
      /\ Len(b) \in Nat
  <2>1. Len(b) \in Nat  OBVIOUS
  <2> QED  BY <2>1 DEF At
<1>2. /\ n \in {7, 9} /\ Protocol(v)[1] = 0 /\ Protocol(v)[2] = n - 3 /\ Protocol(v)[n] = v
  <2>1. CASE v = 3  BY <2>1, NameSize DEF Protocol
  <2>2. CASE v = 4  BY <2>2, NameSize DEF Protocol
  <2> QED  BY <2>1, <2>2
<1> HIDE DEF n
<1>3. \A k \in 1..n : b[i + k - 1] = Protocol(v)[k]
  <2>1. \A k \in 1..n : i + k <= Len(b) + 1  BY <1>1, <1>2
  <2> QED  BY <1>1, <2>1 DEF Agree, n
<1>4. b[i] = 0 /\ b[i + 1] = n - 3 /\ b[i + n - 1] = v
  <2>1. 1 \in 1..n /\ 2 \in 1..n /\ n \in 1..n /\ i + 1 - 1 = i /\ i + 2 - 1 = i + 1  BY <1>1, <1>2
  <2>2. b[i + 1 - 1] = 0 /\ b[i + 2 - 1] = n - 3 /\ b[i + n - 1] = v  BY <1>2, <1>3, <2>1
  <2> QED  BY <2>1, <2>2
<1>5. ReadUint16(b, i) = n - 3  BY <1>2, <1>4 DEF ReadUint16
<1>6. ReadString(b, i).next = i + 2 + (n - 3)  BY <1>5 DEF ReadString
<1>7. i + 2 + (n - 3) = i + n - 1  BY <1>1, <1>2
<1> QED  BY <1>1, <1>2, <1>4, <1>6, <1>7 DEF Named, n

\* The bytes of a will.
WillBytes(w) ==
  IF w = <<>> THEN <<>> ELSE String(w[1].topic) \o Uint16(Len(w[1].payload)) \o w[1].payload

\* A will, or none.
Bequest(w) == w = <<>> \/ (w = <<w[1]>> /\ Will(w[1]))

\* A will takes as many bytes as were counted for it.
LEMMA WillSize ==
  ASSUME NEW w, Bequest(w)
  PROVE  WillBytes(w) \in Seq(Bytes) /\ Len(WillBytes(w)) = SizedWill(w) /\ SizedWill(w) \in Nat
<1>1. CASE w = <<>>
  <2>1. WillBytes(w) = <<>> /\ SizedWill(w) = 0  BY <1>1 DEF WillBytes, SizedWill
  <2>2. <<>> \in Seq(Bytes) /\ Len(<<>>) = 0  OBVIOUS
  <2> QED  BY <2>1, <2>2
<1>2. CASE w # <<>>
  <2> DEFINE s == String(w[1].topic)  u == Uint16(Len(w[1].payload))  x == w[1].payload
  <2>1. Text(w[1].topic) /\ Len(x) \in Words /\ x \in Seq(Bytes)  BY <1>2 DEF Bequest, Will
  <2>2. s \in Seq(Bytes) /\ Len(s) = Sized(w[1].topic) /\ Sized(w[1].topic) \in Nat  BY <2>1, StringSize
  <2>3. u \in Seq(Bytes) /\ Len(u) = 2  BY <2>1, Uint16Read
  <2>4. WillBytes(w) = (s \o u) \o x /\ SizedWill(w) = Sized(w[1].topic) + Len(x) + 2
    BY <1>2 DEF WillBytes, SizedWill
  <2> HIDE DEF s, u, x
  <2>5. s \o u \in Seq(Bytes) /\ Len(s \o u) = Len(s) + Len(u)  BY <2>2, <2>3, ConcatSize
  <2>6. (s \o u) \o x \in Seq(Bytes) /\ Len((s \o u) \o x) = Len(s \o u) + Len(x) /\ Len(x) \in Nat
    BY <2>1, <2>5, ConcatSize
  <2> QED  BY <2>2, <2>3, <2>4, <2>5, <2>6
<1> QED  BY <1>1, <1>2

\* What is read where a will is.
Bequeathed(b, i, w) ==
  LET topic == ReadOption(b, i, w # <<>>)
      size == ReadUint16(b, topic.next)
      after == topic.next + 2 + size IN
  w # <<>> => /\ topic.value[1] = w[1].topic /\ after = i + SizedWill(w)
              /\ SubSeq(b, after - size, after - 1) = w[1].payload

\* A server reads the topic and the payload of the will.
LEMMA WillFound ==
  ASSUME NEW b \in Seq(Bytes), NEW i, NEW w, Bequest(w), At(b, i, WillBytes(w))
  PROVE  Bequeathed(b, i, w)
<1> SUFFICES ASSUME w # <<>> PROVE Bequeathed(b, i, w)  BY DEF Bequeathed
<1> DEFINE t == w[1].topic  s == String(t)  x == w[1].payload  n == Len(x)  u == Uint16(n)  k == Sized(t)
<1>0. i \in Nat /\ Len(b) \in Nat
  <2>1. Len(b) \in Nat  OBVIOUS
  <2> QED  BY <2>1 DEF At
<1>1. Text(t) /\ n \in Words /\ x \in Seq(Bytes)  BY DEF Bequest, Will
<1>2. s \in Seq(Bytes) /\ Len(s) = k /\ k \in Nat  BY <1>1, StringSize
<1>3. u \in Seq(Bytes) /\ Len(u) = 2  BY <1>1, Uint16Read
<1>4. At(b, i, (s \o u) \o x)  BY DEF WillBytes
<1>5. At(b, i, s) /\ At(b, i + k, u) /\ At(b, i + k + 2, x)
  <2> HIDE DEF s, u, x, k, n
  <2>1. s \o u \in Seq(Bytes) /\ Len(s \o u) = Len(s) + Len(u)  BY <1>2, <1>3, ConcatSize
  <2>2. At(b, i, s \o u) /\ At(b, i + Len(s \o u), x)
    <3> DEFINE v == s \o u
    <3>1. At(b, i, v \o x) /\ v \in Seq(Bytes)  BY <1>4, <2>1
    <3> HIDE DEF v
    <3>2. At(b, i, v) /\ At(b, i + Len(v), x)  BY <1>1, <3>1, AtSplit
    <3> QED  BY <3>2 DEF v
  <2>3. At(b, i, s) /\ At(b, i + Len(s), u)  BY <1>2, <1>3, <2>2, AtSplit
  <2>4. i + Len(s \o u) = i + k + 2  BY <1>0, <1>2, <1>3, <2>1
  <2> QED  BY <1>2, <2>2, <2>3, <2>4
<1>6. ReadOption(b, i, w # <<>>) = [value |-> <<t>>, next |-> i + k]
  <2> DEFINE o == <<t>>
  <2>1. Spoken(o) /\ Option(o) = String(t) /\ o # <<>> /\ SizedOption(o) = k
    BY <1>1 DEF Spoken, Option, SizedOption
  <2>2. At(b, i, Option(o))  BY <1>5, <2>1
  <2> HIDE DEF o, k
  <2>3. ReadOption(b, i, o # <<>>) = [value |-> o, next |-> i + SizedOption(o)]
    BY <2>1, <2>2, OptionFound
  <2>4. (o # <<>>) = (w # <<>>)  BY <2>1
  <2>5. ReadOption(b, i, w # <<>>) = [value |-> o, next |-> i + k]  BY <2>1, <2>3, <2>4
  <2> QED  BY <2>5 DEF o
<1>7. ReadUint16(b, i + k) = n  BY <1>1, <1>5, WordAt
<1>8. SizedWill(w) = k + n + 2  BY DEF SizedWill
<1> DEFINE topic == ReadOption(b, i, w # <<>>)
<1>9. topic.value[1] = t /\ topic.next = i + k
  <2>1. <<t>>[1] = t  OBVIOUS
  <2> HIDE DEF t, k
  <2> QED  BY <1>6, <2>1
<1>10. SubSeq(b, i + k + 2, i + k + 2 + n - 1) = x
  <2> HIDE DEF x, k
  <2> DEFINE p == i + k + 2
  <2>1. p \in Nat \ {0} /\ Agree(b, p, x) /\ p + Len(x) <= Len(b) + 1  BY <1>5 DEF At
  <2> HIDE DEF p
  <2>2. SubSeq(b, p, p + Len(x) - 1) = x  BY <1>1, <2>1, BytesRead
  <2> QED  BY <2>2 DEF p
<1>11. n \in Nat  BY <1>1, WordsAre
<1> HIDE DEF t, k, n, x, topic
<1>12. /\ i + k + 2 + n = i + (k + n + 2) /\ i + k + 2 + n - n = i + k + 2
  BY <1>0, <1>2, <1>11
<1> DEFINE after == topic.next + 2 + ReadUint16(b, topic.next)
<1>13. after = i + k + 2 + n /\ ReadUint16(b, topic.next) = n  BY <1>7, <1>9
<1> HIDE DEF after
<1>14. SubSeq(b, after - ReadUint16(b, topic.next), after - 1) = x
  <2> DEFINE d == ReadUint16(b, topic.next)
  <2>0. d = n  BY <1>13
  <2> HIDE DEF d
  <2>1. after - d = i + k + 2  BY <1>0, <1>2, <1>11, <1>13, <2>0
  <2>2. after - 1 = i + k + 2 + n - 1  BY <1>0, <1>2, <1>11, <1>13
  <2>3. SubSeq(b, after - d, after - 1) = x  BY <1>10, <2>1, <2>2
  <2> QED  BY <2>3 DEF d
<1> QED  BY <1>8, <1>9, <1>12, <1>13, <1>14 DEF Bequeathed, topic, after, t, x

\* The CONNECT that the options of connect() make.
Connects(p) ==
  /\ p = [type |-> "CONNECT", version |-> p.version, clean |-> p.clean, keepAlive |-> p.keepAlive,
          clientId |-> p.clientId, will |-> p.will, user |-> p.user, password |-> p.password]
  /\ p.version \in 3..4 /\ p.clean \in BOOLEAN /\ p.keepAlive \in Words /\ Text(p.clientId)
  /\ Bequest(p.will) /\ Spoken(p.user) /\ Spoken(p.password)

\* The bit of a byte.
Set(n, bit) == (n \div bit) % 2 = 1

\* What the flags tell.
FlagsTell(n, p) ==
  /\ n \in Bytes
  /\ Set(n, 2) = p.clean /\ Set(n, 4) = (p.will # <<>>)
  /\ Set(n, 64) = (p.password # <<>>) /\ Set(n, 128) = (p.user # <<>>)
  /\ p.will # <<>> => (n \div 8) % 4 = p.will[1].qos /\ Set(n, 32) = p.will[1].retained

\* A flag is one bit.
LEMMA FlagIs ==
  ASSUME NEW x \in BOOLEAN
  PROVE  Flag(x) \in {0, 1} /\ (Flag(x) = 1) = x
BY DEF Flag

\* The flags of a CONNECT tell which options it has, and those of the will.
LEMMA FlagsAre ==
  ASSUME NEW p, Connects(p)
  PROVE  FlagsTell(ConnectFlags(p), p)
<1> DEFINE n == ConnectFlags(p)
           c == Flag(p.clean)  u == Flag(p.user # <<>>)  w == Flag(p.password # <<>>)
           z == Flag(p.will # <<>>)
           q == IF p.will = <<>> THEN 0 ELSE p.will[1].qos
           r == IF p.will = <<>> THEN 0 ELSE Flag(p.will[1].retained)
<1>1. p.clean \in BOOLEAN /\ Bequest(p.will)  BY DEF Connects
<1>2. p.will # <<>> => p.will[1].qos \in 0..2 /\ p.will[1].retained \in BOOLEAN
  <2> HIDE DEF Words, Bytes
  <2> QED  BY <1>1 DEF Bequest, Will
<1>3. c \in {0, 1} /\ (c = 1) = p.clean  BY <1>1, FlagIs
<1>4. (p.user # <<>>) \in BOOLEAN /\ (p.password # <<>>) \in BOOLEAN /\ (p.will # <<>>) \in BOOLEAN  OBVIOUS
<1>5. u \in {0, 1} /\ (u = 1) = (p.user # <<>>)  BY <1>4, FlagIs
<1>6. w \in {0, 1} /\ (w = 1) = (p.password # <<>>)  BY <1>4, FlagIs
<1>7. z \in {0, 1} /\ (z = 1) = (p.will # <<>>)  BY <1>4, FlagIs
<1>8. r \in {0, 1} /\ q \in 0..2 /\ (p.will # <<>> => q = p.will[1].qos /\ (r = 1) = p.will[1].retained)
  <2>1. CASE p.will = <<>>  BY <2>1
  <2>2. CASE p.will # <<>>
    <3>1. r = Flag(p.will[1].retained) /\ q = p.will[1].qos  BY <2>2
    <3> HIDE DEF r, q
    <3>2. r \in {0, 1} /\ (r = 1) = p.will[1].retained  BY <1>2, <2>2, <3>1, FlagIs
    <3> QED  BY <1>2, <2>2, <3>1, <3>2
  <2> QED  BY <2>1, <2>2
<1>9. n = 2 * c + 128 * u + 64 * w + (4 * z + 8 * q + 32 * r)
  <2> DEFINE k == 2 * c + 128 * u + 64 * w
  <2>1. CASE p.will = <<>>
    <3>1. n = k + 0 /\ z = 0 /\ q = 0 /\ r = 0  BY <2>1 DEF ConnectFlags, Flag
    <3> HIDE DEF k, n, z, q, r
    <3> QED  BY <3>1 DEF k
  <2>2. CASE p.will # <<>>
    <3>1. n = k + (4 + 8 * q + 32 * r) /\ z = 1  BY <2>2 DEF ConnectFlags, Flag
    <3>2. 4 * 1 = 4  OBVIOUS
    <3> HIDE DEF k, n, z, q, r
    <3> QED  BY <3>1, <3>2 DEF k
  <2> QED  BY <2>1, <2>2
<1> HIDE DEF n, c, u, w, z, q, r
<1>10. /\ n \in Nat /\ n < 256
       /\ (n \div 2) % 2 = c /\ (n \div 4) % 2 = z /\ (n \div 8) % 4 = q
       /\ (n \div 32) % 2 = r /\ (n \div 64) % 2 = w /\ (n \div 128) % 2 = u
  <2>1. /\ c \in {0, 1} /\ u \in {0, 1} /\ w \in {0, 1} /\ z \in {0, 1} /\ r \in {0, 1} /\ q \in 0..2
    BY <1>3, <1>5, <1>6, <1>7, <1>8
  <2>2. Composed(n, c, u, w, z, q, r)  BY <1>9, <2>1 DEF Composed
  <2>3. Decomposed(n, c, u, w, z, q, r)  BY <2>2, Bits
  <2> QED  BY <2>3 DEF Decomposed
<1>11. n \in Bytes  BY <1>10, BytesAre
<1>12. /\ Set(n, 2) = (c = 1) /\ Set(n, 4) = (z = 1) /\ Set(n, 32) = (r = 1) /\ Set(n, 64) = (w = 1)
       /\ Set(n, 128) = (u = 1)
  BY <1>10, Zenon DEF Set
<1>13. FlagsTell(n, p)  BY <1>3, <1>5, <1>6, <1>7, <1>8, <1>10, <1>11, <1>12, Zenon DEF FlagsTell
<1> QED  BY <1>13 DEF n

\* Seven pieces, one after the other.
LEMMA SevenSize ==
  ASSUME NEW a \in Seq(Bytes), NEW f \in Seq(Bytes), NEW k \in Seq(Bytes), NEW d \in Seq(Bytes),
         NEW w \in Seq(Bytes), NEW u \in Seq(Bytes), NEW x \in Seq(Bytes),
         NEW e, e = a \o f \o k \o d \o w \o u \o x
  PROVE  e \in Seq(Bytes) /\ Len(e) = Len(a) + Len(f) + Len(k) + Len(d) + Len(w) + Len(u) + Len(x)
<1> DEFINE s2 == a \o f  s3 == s2 \o k  s4 == s3 \o d  s5 == s4 \o w  s6 == s5 \o u  s7 == s6 \o x
<1>2. s2 \in Seq(Bytes) /\ Len(s2) = Len(a) + Len(f)  BY ConcatSize
<1> HIDE DEF s2
<1>3. s3 \in Seq(Bytes) /\ Len(s3) = Len(s2) + Len(k)  BY <1>2, ConcatSize
<1> HIDE DEF s3
<1>4. s4 \in Seq(Bytes) /\ Len(s4) = Len(s3) + Len(d)  BY <1>3, ConcatSize
<1> HIDE DEF s4
<1>5. s5 \in Seq(Bytes) /\ Len(s5) = Len(s4) + Len(w)  BY <1>4, ConcatSize
<1> HIDE DEF s5
<1>6. s6 \in Seq(Bytes) /\ Len(s6) = Len(s5) + Len(u)  BY <1>5, ConcatSize
<1> HIDE DEF s6
<1>7. s7 \in Seq(Bytes) /\ Len(s7) = Len(s6) + Len(x)  BY <1>6, ConcatSize
<1> HIDE DEF s7
<1>8. Len(s7) = Len(a) + Len(f) + Len(k) + Len(d) + Len(w) + Len(u) + Len(x)
  BY <1>2, <1>3, <1>4, <1>5, <1>6, <1>7
<1>9. e = s7  BY Zenon DEF s2, s3, s4, s5, s6, s7
<1> QED  BY <1>7, <1>8, <1>9

\* Where each of them is.
Laid(b, i, a, f, k, d, w, u, x) ==
  /\ At(b, i, a) /\ At(b, i + Len(a), f) /\ At(b, i + Len(a) + Len(f), k)
  /\ At(b, i + Len(a) + Len(f) + Len(k), d)
  /\ At(b, i + Len(a) + Len(f) + Len(k) + Len(d), w)
  /\ At(b, i + Len(a) + Len(f) + Len(k) + Len(d) + Len(w), u)
  /\ At(b, i + Len(a) + Len(f) + Len(k) + Len(d) + Len(w) + Len(u), x)

\* Seven parts in a row, each where those before it end.
LEMMA SevenLaid ==
  ASSUME NEW a \in Seq(Bytes), NEW f \in Seq(Bytes), NEW k \in Seq(Bytes), NEW d \in Seq(Bytes),
         NEW w \in Seq(Bytes), NEW u \in Seq(Bytes), NEW x \in Seq(Bytes),
         NEW b \in Seq(Bytes), NEW i, At(b, i, a \o f \o k \o d \o w \o u \o x)
  PROVE  Laid(b, i, a, f, k, d, w, u, x)
<1> DEFINE s2 == a \o f  s3 == s2 \o k  s4 == s3 \o d  s5 == s4 \o w  s6 == s5 \o u
<1>0. i \in Nat  BY DEF At
<1>1. At(b, i, s6 \o x)  OBVIOUS
<1>2. s2 \in Seq(Bytes) /\ Len(s2) = Len(a) + Len(f)  BY ConcatSize
<1> HIDE DEF s2
<1>3. s3 \in Seq(Bytes) /\ Len(s3) = Len(s2) + Len(k)  BY <1>2, ConcatSize
<1> HIDE DEF s3
<1>4. s4 \in Seq(Bytes) /\ Len(s4) = Len(s3) + Len(d)  BY <1>3, ConcatSize
<1> HIDE DEF s4
<1>5. s5 \in Seq(Bytes) /\ Len(s5) = Len(s4) + Len(w)  BY <1>4, ConcatSize
<1> HIDE DEF s5
<1>6. s6 \in Seq(Bytes) /\ Len(s6) = Len(s5) + Len(u)  BY <1>5, ConcatSize
<1> HIDE DEF s6
<1>7. At(b, i, s6) /\ At(b, i + Len(s6), x)  BY <1>1, <1>6, AtSplit
<1>8. At(b, i, s5) /\ At(b, i + Len(s5), u)  BY <1>5, <1>7, AtSplit DEF s6
<1>9. At(b, i, s4) /\ At(b, i + Len(s4), w)  BY <1>4, <1>8, AtSplit DEF s5
<1>10. At(b, i, s3) /\ At(b, i + Len(s3), d)  BY <1>3, <1>9, AtSplit DEF s4
<1>11. At(b, i, s2) /\ At(b, i + Len(s2), k)  BY <1>2, <1>10, AtSplit DEF s3
<1>12. At(b, i, a) /\ At(b, i + Len(a), f)  BY <1>11, AtSplit DEF s2
<1>13. Len(a) \in Nat /\ Len(f) \in Nat /\ Len(k) \in Nat /\ Len(d) \in Nat /\ Len(w) \in Nat /\ Len(u) \in Nat
  OBVIOUS
<1>14. /\ i + Len(s2) = i + Len(a) + Len(f) /\ i + Len(s3) = i + Len(a) + Len(f) + Len(k)
       /\ i + Len(s4) = i + Len(a) + Len(f) + Len(k) + Len(d)
       /\ i + Len(s5) = i + Len(a) + Len(f) + Len(k) + Len(d) + Len(w)
       /\ i + Len(s6) = i + Len(a) + Len(f) + Len(k) + Len(d) + Len(w) + Len(u)
  BY <1>0, <1>2, <1>3, <1>4, <1>5, <1>6, <1>13
<1> QED  BY <1>7, <1>8, <1>9, <1>10, <1>11, <1>12, <1>14, Zenon DEF Laid

\* The seven parts of a CONNECT, and the length that is computed for them.
LEMMA ConnectBody ==
  ASSUME NEW p, Connects(p)
  PROVE  /\ Body(p) = Protocol(p.version) \o <<ConnectFlags(p)>> \o Uint16(p.keepAlive) \o String(p.clientId)
                        \o WillBytes(p.will) \o Option(p.user) \o Option(p.password)
         /\ p.type = "CONNECT" /\ Identifier(p) = <<>>
         /\ RemainingLength(p) = Len(Identifier(p)) + (Len(Protocol(p.version)) + 3 + Sized(p.clientId)
              + SizedWill(p.will) + SizedOption(p.user) + SizedOption(p.password))
<1>1. p.type = "CONNECT" /\ "id" \notin DOMAIN p  BY DEF Connects
<1>2. Identifier(p) = <<>>  BY <1>1 DEF Identifier
<1> QED  BY <1>1, <1>2, Zenon DEF Body, WillBytes, RemainingLength

\* The pieces of CONNECT and their lengths.
Sizes(p) ==
  /\ Protocol(p.version) \in Seq(Bytes) /\ Len(Protocol(p.version)) \in {7, 9}
  /\ <<ConnectFlags(p)>> \in Seq(Bytes) /\ Len(<<ConnectFlags(p)>>) = 1
  /\ Uint16(p.keepAlive) \in Seq(Bytes) /\ Len(Uint16(p.keepAlive)) = 2
  /\ String(p.clientId) \in Seq(Bytes) /\ Len(String(p.clientId)) = Sized(p.clientId) /\ Sized(p.clientId) \in Nat
  /\ WillBytes(p.will) \in Seq(Bytes) /\ Len(WillBytes(p.will)) = SizedWill(p.will) /\ SizedWill(p.will) \in Nat
  /\ Option(p.user) \in Seq(Bytes) /\ Len(Option(p.user)) = SizedOption(p.user) /\ SizedOption(p.user) \in Nat
  /\ Option(p.password) \in Seq(Bytes) /\ Len(Option(p.password)) = SizedOption(p.password)
  /\ SizedOption(p.password) \in Nat

\* Each part takes as many bytes as were counted for it.
LEMMA ConnectSizes ==
  ASSUME NEW p, Connects(p)
  PROVE  Sizes(p)
<1>1. /\ p.version \in 3..4 /\ p.keepAlive \in Words /\ Text(p.clientId)
      /\ Bequest(p.will) /\ Spoken(p.user) /\ Spoken(p.password)
  BY DEF Connects
<1>2. Protocol(p.version) \in Seq(Bytes) /\ Len(Protocol(p.version)) \in {7, 9}
  <2>1. Protocol(p.version) \in Seq(Bytes) /\ Len(Protocol(p.version)) = (IF p.version = 3 THEN 9 ELSE 7)
    BY <1>1, NameSize
  <2> QED  BY <2>1
<1>3. <<ConnectFlags(p)>> \in Seq(Bytes) /\ Len(<<ConnectFlags(p)>>) = 1
  <2>1. ConnectFlags(p) \in Bytes  BY FlagsAre DEF FlagsTell
  <2> QED  BY <2>1
<1>4. Uint16(p.keepAlive) \in Seq(Bytes) /\ Len(Uint16(p.keepAlive)) = 2  BY <1>1, Uint16Read
<1>5. String(p.clientId) \in Seq(Bytes) /\ Len(String(p.clientId)) = Sized(p.clientId) /\ Sized(p.clientId) \in Nat
  BY <1>1, StringSize
<1>6. WillBytes(p.will) \in Seq(Bytes) /\ Len(WillBytes(p.will)) = SizedWill(p.will) /\ SizedWill(p.will) \in Nat
  BY <1>1, WillSize
<1>7. /\ Option(p.user) \in Seq(Bytes) /\ Len(Option(p.user)) = SizedOption(p.user) /\ SizedOption(p.user) \in Nat
      /\ Option(p.password) \in Seq(Bytes) /\ Len(Option(p.password)) = SizedOption(p.password)
      /\ SizedOption(p.password) \in Nat
  BY <1>1, OptionSize
<1> QED  BY <1>2, <1>3, <1>4, <1>5, <1>6, <1>7 DEF Sizes

\* A CONNECT is as long as it announces.
LEMMA ConnectWhole ==
  ASSUME NEW p, Connects(p)
  PROVE  Whole(p)
<1> DEFINE a == Protocol(p.version)  f == <<ConnectFlags(p)>>  k == Uint16(p.keepAlive)
           d == String(p.clientId)  w == WillBytes(p.will)  u == Option(p.user)  x == Option(p.password)
           n == Sized(p.clientId)  m == SizedWill(p.will)  y == SizedOption(p.user)  z == SizedOption(p.password)
<1>1. /\ a \in Seq(Bytes) /\ Len(a) \in {7, 9} /\ f \in Seq(Bytes) /\ Len(f) = 1
      /\ k \in Seq(Bytes) /\ Len(k) = 2 /\ d \in Seq(Bytes) /\ Len(d) = n
      /\ w \in Seq(Bytes) /\ Len(w) = m /\ u \in Seq(Bytes) /\ Len(u) = y
      /\ x \in Seq(Bytes) /\ Len(x) = z /\ n \in Nat /\ m \in Nat /\ y \in Nat /\ z \in Nat
  BY ConnectSizes DEF Sizes
<1>2. Body(p) = a \o f \o k \o d \o w \o u \o x /\ p.type = "CONNECT"  BY ConnectBody
<1>3. RemainingLength(p) = Len(a) + 3 + n + m + y + z
  <2> DEFINE s == Len(a) + 3 + n + m + y + z
  <2>1. RemainingLength(p) = Len(Identifier(p)) + s /\ Identifier(p) = <<>>  BY ConnectBody
  <2>2. Len(Identifier(p)) = 0  BY <2>1
  <2> HIDE DEF a, n, m, y, z
  <2>3. s \in Nat  BY <1>1
  <2> HIDE DEF s
  <2>4. RemainingLength(p) = s  BY <2>1, <2>2, <2>3
  <2> QED  BY <2>4 DEF s
<1>4. FirstByte(p) \in Bytes
  <2>1. FirstByte(p) = 16 * 1 + 0  BY <1>2, TypeCodes DEF FirstByte
  <2>2. 16 * 1 + 0 \in Bytes  BY BytesAre
  <2> QED  BY <2>1, <2>2
<1> HIDE DEF a, f, k, d, w, u, x, n, m, y, z
<1>5. Body(p) \in Seq(Bytes) /\ Len(Body(p)) = Len(a) + Len(f) + Len(k) + Len(d) + Len(w) + Len(u) + Len(x)
  <2>1. /\ a \in Seq(Bytes) /\ f \in Seq(Bytes) /\ k \in Seq(Bytes) /\ d \in Seq(Bytes)
        /\ w \in Seq(Bytes) /\ u \in Seq(Bytes) /\ x \in Seq(Bytes)
    BY <1>1
  <2> DEFINE e == Body(p)
  <2>2. e = a \o f \o k \o d \o w \o u \o x  BY <1>2
  <2> HIDE DEF e
  <2>3. e \in Seq(Bytes) /\ Len(e) = Len(a) + Len(f) + Len(k) + Len(d) + Len(w) + Len(u) + Len(x)
    BY <2>1, <2>2, SevenSize
  <2> QED  BY <2>3 DEF e
<1>6. Len(Body(p)) = RemainingLength(p)  BY <1>1, <1>3, <1>5
<1> QED  BY <1>4, <1>5, <1>6 DEF Whole

\* Where the parts of CONNECT are.
Parts(b, i, p) ==
  LET at == i + Len(Protocol(p.version))
      end == at + 3 + Sized(p.clientId)
      last == end + SizedWill(p.will) IN
  /\ At(b, i, Protocol(p.version)) /\ At(b, at, <<ConnectFlags(p)>>) /\ At(b, at + 1, Uint16(p.keepAlive))
  /\ At(b, at + 3, String(p.clientId)) /\ At(b, end, WillBytes(p.will))
  /\ At(b, last, Option(p.user)) /\ At(b, last + SizedOption(p.user), Option(p.password))

\* Each part of a CONNECT is where a server looks for it.
LEMMA PartsFound ==
  ASSUME NEW p, Connects(p), NEW b \in Seq(Bytes), NEW i, At(b, i, Body(p))
  PROVE  Parts(b, i, p)
<1> DEFINE a == Protocol(p.version)  f == <<ConnectFlags(p)>>  k == Uint16(p.keepAlive)
           d == String(p.clientId)  w == WillBytes(p.will)  u == Option(p.user)  x == Option(p.password)
           n == Sized(p.clientId)  m == SizedWill(p.will)  y == SizedOption(p.user)  l == Len(a)
<1>1. /\ a \in Seq(Bytes) /\ l \in Nat /\ f \in Seq(Bytes) /\ Len(f) = 1
      /\ k \in Seq(Bytes) /\ Len(k) = 2 /\ d \in Seq(Bytes) /\ Len(d) = n
      /\ w \in Seq(Bytes) /\ Len(w) = m /\ u \in Seq(Bytes) /\ Len(u) = y
      /\ x \in Seq(Bytes) /\ n \in Nat /\ m \in Nat /\ y \in Nat
  BY ConnectSizes DEF Sizes
<1>2. At(b, i, a \o f \o k \o d \o w \o u \o x) /\ i \in Nat  BY ConnectBody DEF At
<1> HIDE DEF f, k, d, w, u, x, n, m, y
<1>3. Laid(b, i, a, f, k, d, w, u, x)
  <2> HIDE DEF a
  <2> QED  BY <1>1, <1>2, SevenLaid
<1>4. /\ At(b, i, a) /\ At(b, i + l, f) /\ At(b, i + l + 1, k) /\ At(b, i + l + 1 + 2, d)
      /\ At(b, i + l + 1 + 2 + n, w) /\ At(b, i + l + 1 + 2 + n + m, u)
      /\ At(b, i + l + 1 + 2 + n + m + y, x)
  BY <1>1, <1>3, Zenon DEF Laid
<1> HIDE DEF l
<1>5. i + l + 1 + 2 = i + l + 3  BY <1>1, <1>2
<1>6. /\ At(b, i, a) /\ At(b, i + l, f) /\ At(b, i + l + 1, k) /\ At(b, i + l + 3, d)
      /\ At(b, i + l + 3 + n, w) /\ At(b, i + l + 3 + n + m, u) /\ At(b, i + l + 3 + n + m + y, x)
  BY <1>4, <1>5, Zenon
<1> QED  BY <1>6, Zenon DEF Parts, a, f, k, d, w, u, x, n, m, y, l

\* A server reads in a CONNECT what was asked for, whatever options there are.
LEMMA ConnectRead ==
  ASSUME NEW p, Connects(p), NEW b \in Seq(Bytes), NEW i, At(b, i, Body(p))
  PROVE  ReadConnect(b, i) = p
<1> DEFINE l == Len(Protocol(p.version))
           n == Sized(p.clientId)  m == SizedWill(p.will)  y == SizedOption(p.user)
           name == ReadString(b, i)
           flags == b[name.next + 1]
           id == ReadString(b, name.next + 4)
           topic == ReadOption(b, id.next, Set(flags, 4))
           size == IF Set(flags, 4) THEN ReadUint16(b, topic.next) ELSE 0
           after == IF Set(flags, 4) THEN topic.next + 2 + size ELSE id.next
           user == ReadOption(b, after, Set(flags, 128))
           password == ReadOption(b, user.next, Set(flags, 64))
           will == IF ~Set(flags, 4) THEN <<>>
                   ELSE <<[topic |-> topic.value[1], payload |-> SubSeq(b, after - size, after - 1),
                           qos |-> (flags \div 8) % 4, retained |-> Set(flags, 32)]>>
<1>0. ReadConnect(b, i) = [type |-> "CONNECT", version |-> b[name.next], clean |-> Set(flags, 2),
                           keepAlive |-> ReadUint16(b, name.next + 2), clientId |-> id.value,
                           will |-> will, user |-> user.value, password |-> password.value]
  BY DEF ReadConnect, Set
<1>1. /\ p = [type |-> "CONNECT", version |-> p.version, clean |-> p.clean, keepAlive |-> p.keepAlive,
              clientId |-> p.clientId, will |-> p.will, user |-> p.user, password |-> p.password]
      /\ p.version \in 3..4 /\ p.clean \in BOOLEAN /\ p.keepAlive \in Words /\ Text(p.clientId)
      /\ Bequest(p.will) /\ Spoken(p.user) /\ Spoken(p.password)
  BY DEF Connects
<1>2. /\ At(b, i, Protocol(p.version)) /\ At(b, i + l, <<ConnectFlags(p)>>)
      /\ At(b, i + l + 1, Uint16(p.keepAlive)) /\ At(b, i + l + 3, String(p.clientId))
      /\ At(b, i + l + 3 + n, WillBytes(p.will)) /\ At(b, i + l + 3 + n + m, Option(p.user))
      /\ At(b, i + l + 3 + n + m + y, Option(p.password)) /\ i \in Nat
  BY PartsFound, Zenon DEF Parts, At
<1>3. l \in {7, 9} /\ n \in Nat /\ m \in Nat /\ y \in Nat  BY ConnectSizes DEF Sizes
<1> HIDE DEF will, password, user, after, size, topic, id, flags, name
<1>4. name.next = i + l - 1 /\ b[name.next] = p.version
  BY <1>1, <1>2, NameFound DEF Named, name
<1> HIDE DEF l, n, m, y
<1>5. name.next + 1 = i + l /\ name.next + 2 = i + l + 1 /\ name.next + 4 = i + l + 3
  <2> DEFINE x == name.next
  <2>1. l \in Nat /\ l >= 7  BY <1>3
  <2>2. i \in Nat  BY <1>2, Zenon
  <2>3. x = i + l - 1  BY <1>4, Zenon
  <2> HIDE DEF x
  <2>4. x + 1 = i + l /\ x + 2 = i + l + 1 /\ x + 4 = i + l + 3  BY <2>1, <2>2, <2>3
  <2> QED  BY <2>4 DEF x
<1>6. flags = ConnectFlags(p)  BY <1>2, <1>5, ByteAt DEF flags
<1>7. FlagsTell(flags, p)  BY <1>6, FlagsAre
<1>8. ReadUint16(b, name.next + 2) = p.keepAlive  BY <1>1, <1>2, <1>5, WordAt
<1>9. id = [value |-> p.clientId, next |-> i + l + 3 + n]  BY <1>1, <1>2, <1>5, TextFound DEF id, n
<1>10. id.value = p.clientId /\ id.next = i + l + 3 + n  BY <1>9
<1>11. Bequeathed(b, id.next, p.will)  BY <1>1, <1>2, <1>10, WillFound
<1>12. after = i + l + 3 + n + m /\ will = p.will
  <2>1. CASE p.will = <<>>
    <3>1. ~Set(flags, 4)  BY <1>7, <2>1 DEF FlagsTell
    <3>2. m = 0  BY <2>1 DEF m, SizedWill
    <3>3. after = id.next /\ will = <<>>  BY <3>1 DEF after, will
    <3>4. i + l + 3 + n = i + l + 3 + n + m  BY <1>2, <1>3, <3>2
    <3> QED  BY <1>10, <2>1, <3>3, <3>4
  <2>2. CASE p.will # <<>>
    <3>1. /\ Set(flags, 4) /\ (flags \div 8) % 4 = p.will[1].qos /\ Set(flags, 32) = p.will[1].retained
          /\ Set(flags, 4) = (p.will # <<>>)
      BY <1>7, <2>2, Zenon DEF FlagsTell
    <3>2. topic = ReadOption(b, id.next, p.will # <<>>)  BY <3>1 DEF topic
    <3>3. size = ReadUint16(b, topic.next) /\ after = topic.next + 2 + size  BY <3>1 DEF size, after
    <3>4. /\ topic.value[1] = p.will[1].topic /\ after = id.next + m
          /\ SubSeq(b, after - size, after - 1) = p.will[1].payload
      BY <1>11, <2>2, <3>2, <3>3, Zenon DEF Bequeathed, m
    <3>5. will = <<[topic |-> p.will[1].topic, payload |-> p.will[1].payload,
                    qos |-> p.will[1].qos, retained |-> p.will[1].retained]>>
      BY <3>1, <3>4, Zenon DEF will
    <3>6. /\ p.will = <<p.will[1]>>
          /\ p.will[1] = [topic |-> p.will[1].topic, payload |-> p.will[1].payload,
                          qos |-> p.will[1].qos, retained |-> p.will[1].retained]
      <4>1. p.will = <<p.will[1]>> /\ Will(p.will[1])  BY <1>1, <2>2 DEF Bequest
      <4> DEFINE v == p.will[1]
      <4>2. v \in [topic : Seq(Words), payload : Seq(Bytes), qos : 0..2, retained : BOOLEAN]
        BY <4>1 DEF Will
      <4> HIDE DEF v, Words, Bytes
      <4>3. v = [topic |-> v.topic, payload |-> v.payload, qos |-> v.qos, retained |-> v.retained]
        BY <4>2
      <4> QED  BY <4>1, <4>3 DEF v
    <3> QED  BY <1>10, <3>4, <3>5, <3>6, Zenon
  <2> QED  BY <2>1, <2>2
<1>13. user = [value |-> p.user, next |-> i + l + 3 + n + m + y]
  <2>1. Set(flags, 128) = (p.user # <<>>)  BY <1>7 DEF FlagsTell
  <2>2. user = ReadOption(b, after, p.user # <<>>)  BY <2>1 DEF user
  <2> QED  BY <1>1, <1>2, <1>12, <2>2, OptionFound DEF y
<1>14. password.value = p.password
  <2>1. Set(flags, 64) = (p.password # <<>>)  BY <1>7 DEF FlagsTell
  <2>2. user.next = i + l + 3 + n + m + y  BY <1>13
  <2>3. password = ReadOption(b, i + l + 3 + n + m + y, p.password # <<>>)  BY <2>1, <2>2 DEF password
  <2>4. password = [value |-> p.password, next |-> i + l + 3 + n + m + y + SizedOption(p.password)]
    BY <1>1, <1>2, <2>3, OptionFound
  <2> QED  BY <2>4
<1>15. user.value = p.user /\ Set(flags, 2) = p.clean
  <2>1. Set(flags, 2) = p.clean  BY <1>7 DEF FlagsTell
  <2> QED  BY <1>13, <2>1
<1> QED  BY <1>0, <1>1, <1>4, <1>8, <1>10, <1>12, <1>14, <1>15, Zenon

-----------------------------------------------------------------------------
(* What the client sends is read.                                          *)

\* A string takes little more than a word can tell.
LEMMA SizedLimit ==
  ASSUME NEW t, Text(t)
  PROVE  Sized(t) \in Nat /\ Sized(t) < 65538
<1>1. UTF8Length(t) \in Nat /\ UTF8Length(t) < 65536  BY WordsAre DEF Text
<1> QED  BY <1>1 DEF Sized

\* A CONNECT is never too long for its length.
LEMMA ConnectFits ==
  ASSUME NEW p, Connects(p)
  PROVE  Fits(p)
<1> DEFINE l == Len(Protocol(p.version))  n == Sized(p.clientId)  m == SizedWill(p.will)
           y == SizedOption(p.user)  z == SizedOption(p.password)
<1>1. Text(p.clientId) /\ Bequest(p.will) /\ Spoken(p.user) /\ Spoken(p.password)  BY DEF Connects
<1>2. n \in Nat /\ n < 65538  BY <1>1, SizedLimit
<1>3. \A o : Spoken(o) => SizedOption(o) \in Nat /\ SizedOption(o) < 65538
  <2> SUFFICES ASSUME NEW o, Spoken(o) PROVE SizedOption(o) \in Nat /\ SizedOption(o) < 65538  OBVIOUS
  <2>1. CASE o = <<>>
    <3>1. SizedOption(o) = 0  BY <2>1 DEF SizedOption
    <3> QED  BY <3>1
  <2>2. CASE o # <<>>
    <3>1. SizedOption(o) = Sized(o[1]) /\ Text(o[1])  BY <2>2 DEF SizedOption, Spoken
    <3> QED  BY <3>1, SizedLimit
  <2> QED  BY <2>1, <2>2
<1>4. y \in Nat /\ y < 65538 /\ z \in Nat /\ z < 65538  BY <1>1, <1>3
<1>5. m \in Nat /\ m < 131078
  <2>1. CASE p.will = <<>>
    <3>1. m = 0  BY <2>1 DEF SizedWill
    <3> HIDE DEF m
    <3> QED  BY <3>1
  <2>2. CASE p.will # <<>>
    <3> DEFINE s == Sized(p.will[1].topic)  x == Len(p.will[1].payload)
    <3>1. Text(p.will[1].topic) /\ x \in Words  BY <1>1, <2>2 DEF Bequest, Will
    <3>2. s \in Nat /\ s < 65538 /\ x \in Nat /\ x < 65536  BY <3>1, SizedLimit, WordsAre
    <3>3. m = s + x + 2  BY <2>2 DEF SizedWill
    <3> HIDE DEF s, x, m
    <3> QED  BY <3>2, <3>3
  <2> QED  BY <2>1, <2>2
<1>6. l \in {7, 9}  BY ConnectSizes DEF Sizes
<1>7. RemainingLength(p) = l + 3 + n + m + y + z
  <2> DEFINE s == l + 3 + n + m + y + z
  <2>1. RemainingLength(p) = Len(Identifier(p)) + s /\ Identifier(p) = <<>>  BY ConnectBody
  <2>2. Len(Identifier(p)) = 0  BY <2>1
  <2> HIDE DEF l, n, m, y, z
  <2>3. s \in Nat  BY <1>2, <1>4, <1>5, <1>6
  <2> HIDE DEF s
  <2>4. RemainingLength(p) = s  BY <2>1, <2>2, <2>3
  <2> QED  BY <2>4 DEF s
<1> HIDE DEF l, n, m, y, z
<1>8. RemainingLength(p) < 268435456  BY <1>2, <1>4, <1>5, <1>6, <1>7
<1> QED  BY <1>8, Weights DEF Fits

\* connect() makes a CONNECT of the options it accepts, with any will.
LEMMA RequestConnects ==
  ASSUME NEW o, Settings(o), Accepted(o), NEW v, Bequest(v)
  PROVE  LET p == [Request(o) EXCEPT !.will = v] IN
         Connects(p) /\ (Request(o).user # <<>> \/ Request(o).password = <<>>)
<1> DEFINE p == [Request(o) EXCEPT !.will = v]
<1>1. /\ p = [type |-> "CONNECT", version |-> p.version, clean |-> p.clean, keepAlive |-> p.keepAlive,
              clientId |-> p.clientId, will |-> p.will, user |-> p.user, password |-> p.password]
      /\ p.version = Or(o.version, 4) /\ p.clean = Or(o.clean, TRUE) /\ p.keepAlive = Or(o.keepAlive, 60)
      /\ p.clientId = o.clientId /\ p.will = v /\ p.user = o.user /\ p.password = o.password
      /\ Request(o).user = o.user /\ Request(o).password = o.password
  <2> DEFINE a == Or(o.version, 4)  c == Or(o.clean, TRUE)  k == Or(o.keepAlive, 60)
  <2>1. Request(o) = [type |-> "CONNECT", version |-> a, clean |-> c, keepAlive |-> k,
                      clientId |-> o.clientId, will |-> o.will, user |-> o.user, password |-> o.password]
    BY DEF Request
  <2> HIDE DEF a, c, k
  <2>2. p = [type |-> "CONNECT", version |-> a, clean |-> c, keepAlive |-> k,
             clientId |-> o.clientId, will |-> v, user |-> o.user, password |-> o.password]
    BY <2>1
  <2> HIDE DEF p
  <2> QED  BY <2>1, <2>2 DEF a, c, k
<1> HIDE DEF p
<1>2. p.version \in 3..4
  <2>1. CASE o.version = <<>>  BY <1>1, <2>1 DEF Or
  <2>2. CASE o.version # <<>>  BY <1>1, <2>2 DEF Or, Accepted
  <2> QED  BY <2>1, <2>2
<1>3. p.clean \in BOOLEAN
  <2>1. CASE o.clean = <<>>  BY <1>1, <2>1 DEF Or
  <2>2. CASE o.clean # <<>>  BY <1>1, <2>2 DEF Or, Settings, Maybe
  <2> QED  BY <2>1, <2>2
<1>4. p.keepAlive \in Words
  <2>1. CASE o.keepAlive = <<>>
    <3>1. 60 \in Words  BY WordsAre
    <3> QED  BY <1>1, <2>1, <3>1 DEF Or
  <2>2. CASE o.keepAlive # <<>>
    <3> HIDE DEF Words
    <3> QED  BY <1>1, <2>2 DEF Or, Settings, Maybe
  <2> QED  BY <2>1, <2>2
<1>5. Text(p.clientId) /\ Bequest(p.will)  BY <1>1 DEF Settings
<1>6. Spoken(p.user) /\ Spoken(p.password)
  <2>1. \A x \in {o.user, o.password} : Maybe(x, Seq(Words)) /\ (x # <<>> => Text(x[1]))  BY DEF Settings
  <2>2. \A x \in {o.user, o.password} : Spoken(x)
    <3> HIDE DEF Words
    <3> QED  BY <2>1, Zenon DEF Maybe, Spoken
  <2> QED  BY <1>1, <2>2
<1>7. Request(o).user # <<>> \/ Request(o).password = <<>>  BY <1>1, Zenon DEF Accepted
<1>8. Connects(p)  BY <1>1, <1>2, <1>3, <1>4, <1>5, <1>6, Zenon DEF Connects
<1> QED  BY <1>7, <1>8 DEF p

\* A will as encode() writes it.
LEMMA WillWritten ==
  ASSUME NEW w, AskedWill(w), NEW b, b \in {<<>>, Content(w.payload)}
  PROVE  Bequest(<<[w EXCEPT !.payload = b]>>)
<1> DEFINE c == Content(w.payload)  x == [w EXCEPT !.payload = c]  y == [w EXCEPT !.payload = b]
<1>1. /\ x \in [topic : Seq(Words), payload : Seq(Bytes), qos : 0..2, retained : BOOLEAN]
      /\ Text(x.topic) /\ Len(x.payload) \in Words
  BY DEF AskedWill, Will
<1>2. b \in Seq(Bytes)
  <2>1. c \in Seq(Bytes)  BY ContentIs DEF AskedWill
  <2>2. <<>> \in Seq(Bytes)  OBVIOUS
  <2> HIDE DEF Bytes
  <2> QED  BY <2>1, <2>2
<1>3. Len(b) \in Words
  <2>1. CASE b = <<>>
    <3>1. Len(<<>>) = 0  OBVIOUS
    <3> QED  BY <2>1, <3>1, WordsAre
  <2>2. CASE b = c
    <3>1. "payload" \in DOMAIN w
      <4>1. DOMAIN x = DOMAIN w  OBVIOUS
      <4>2. "payload" \in DOMAIN x
        <5> HIDE DEF Bytes, Words, x
        <5> QED  BY <1>1
      <4> QED  BY <4>1, <4>2
    <3>2. x.payload = c  BY <3>1
    <3> QED  BY <1>1, <2>2, <3>2
  <2> QED  BY <2>1, <2>2
<1>4. /\ y \in [topic : Seq(Words), payload : Seq(Bytes), qos : 0..2, retained : BOOLEAN]
      /\ y.topic = x.topic /\ y.payload = b
  <2>1. y = [x EXCEPT !.payload = b]
    <3> HIDE DEF c
    <3> QED  OBVIOUS
  <2> HIDE DEF x, y, c, Bytes, Words
  <2> QED  BY <1>1, <1>2, <2>1
<1> HIDE DEF x, y
<1>5. Will(y)  BY <1>1, <1>3, <1>4 DEF Will
<1>6. Bequest(<<y>>)
  <2>1. <<y>>[1] = y  OBVIOUS
  <2> QED  BY <1>5, <2>1 DEF Bequest
<1> QED  BY <1>6 DEF y

\* A packet with a will that is no string and no Uint8Array.
Empty(p) == p.type = "CONNECT" /\ p.will # <<>> /\ p.will[1].payload.kind \in {"buffer", "view"}

\* A CONNECT is written with the will the application means, or an empty one.
LEMMA ConnectWritten ==
  ASSUME NEW o, Settings(o)
  PROVE  LET p == Request(o) IN
         /\ AsWritten(p) = IF Empty(p) THEN WithWill(p, <<>>) ELSE AsMeant(p)
         /\ \E v : Bequest(v) /\ AsWritten(p) = [p EXCEPT !.will = v]
<1> DEFINE p == Request(o)  w == o.will[1]
<1>1. p.type = "CONNECT" /\ p.will = o.will /\ "will" \in DOMAIN p /\ p = [p EXCEPT !.will = p.will]
  BY DEF Request
<1> HIDE DEF p
<1>2. CASE o.will = <<>>
  <2>1. ~LosesWill(p) /\ ~Empty(p)  BY <1>1, <1>2 DEF LosesWill, Empty
  <2>2. AsMeant(p) = p  BY <1>1, <1>2 DEF AsMeant
  <2>3. Bequest(<<>>)  BY DEF Bequest
  <2>4. p = [p EXCEPT !.will = <<>>]  BY <1>1, <1>2
  <2>5. AsWritten(p) = p  BY <2>1, <2>2 DEF AsWritten
  <2> QED  BY <2>1, <2>2, <2>3, <2>4, <2>5 DEF p
<1>3. CASE o.will # <<>>
  <2> DEFINE c == Content(w.payload)
  <2>1. AskedWill(w)  BY <1>3 DEF Settings
  <2>2. w.payload.kind \in {"bytes", "buffer", "view"}  BY <2>1, ElementsAre DEF AskedWill
  <2>3. p.will[1] = w  BY <1>1
  <2> HIDE DEF w
  <2>4. LosesWill(p) <=> Empty(p)  BY <1>1, <1>3, <2>2, <2>3 DEF LosesWill, Empty
  <2>5. AsMeant(p) = WithWill(p, c)  BY <1>1, <1>3, <2>3 DEF AsMeant
  <2>6. AsWritten(p) = IF Empty(p) THEN WithWill(p, <<>>) ELSE AsMeant(p)  BY <2>4 DEF AsWritten
  <2>7. PICK b \in {<<>>, c} : AsWritten(p) = WithWill(p, b)  BY <2>5, <2>6
  <2>8. Bequest(<<[w EXCEPT !.payload = b]>>)  BY <2>1, WillWritten
  <2>9. AsWritten(p) = [p EXCEPT !.will = <<[w EXCEPT !.payload = b]>>]  BY <2>3, <2>7 DEF WithWill
  <2> QED  BY <2>6, <2>8, <2>9 DEF p
<1> QED  BY <1>2, <1>3

\* A server reads it as it was asked for.
LEMMA ServedConnect ==
  ASSUME NEW p, Connects(p)
  PROVE  Served(p)
<1>1. Whole(p) /\ Fits(p)  BY ConnectWhole, ConnectFits
<1>2. p.type = "CONNECT"  BY ConnectBody
<1>3. ASSUME NEW j \in Nat \ {0}, Ending(Encode(p), j, Body(p)) PROVE Read(Encode(p), j, p) = p
  <2>1. Encode(p) \in Seq(Bytes) /\ Body(p) \in Seq(Bytes)  BY <1>1, EncodedWhole DEF Whole
  <2>2. j + Len(Body(p)) = Len(Encode(p)) + 1 /\ Agree(Encode(p), j, Body(p))  BY <1>3 DEF Ending
  <2>3. At(Encode(p), j, Body(p))
    <3>1. Len(Encode(p)) \in Nat  BY <2>1
    <3>2. j + Len(Body(p)) <= Len(Encode(p)) + 1  BY <2>2, <3>1
    <3> QED  BY <2>1, <2>2, <3>2 DEF At
  <2>4. ReadConnect(Encode(p), j) = p  BY <2>1, <2>3, ConnectRead
  <2> QED  BY <1>2, <2>4 DEF Read
<1> QED  BY <1>1, <1>3 DEF Served

\* And so every other packet of the client.
LEMMA ServedFromClient ==
  ASSUME NEW p, FromClient(p), Fits(p)
  PROVE  Served(p) /\ p.type # "CONNECT"
<1>1. CASE Publication(p)
  <2>1. p.type = "PUBLISH"  BY <1>1 DEF Publication
  <2> QED  BY <1>1, <2>1, LegiblePublication, LegibleServed
<1>2. CASE Acknowledgement(p)
  <2>1. p.type \in {"PUBACK", "PUBREC", "PUBREL", "PUBCOMP"} /\ p \in [type : {p.type}, id : Words \ {0}]
    BY <1>2 DEF Acknowledgement
  <2>2. p.type \in Acks  BY <2>1 DEF Acks
  <2>3. Legible(p)  BY <2>1, <2>2, LegibleAck
  <2>4. p.type \notin {"CONNECT", "SUBSCRIBE", "UNSUBSCRIBE"}  BY <2>1
  <2> QED  BY <2>3, <2>4, LegibleServed
<1>3. CASE /\ p \in [type : {"SUBSCRIBE"}, id : Words \ {0}, topics : Seq(Seq(Words)), qos : 0..2]
           /\ p.topics # <<>> /\ \A i \in DOMAIN p.topics : Text(p.topics[i])
  <2>1. p.type = "SUBSCRIBE"  BY <1>3
  <2>2. Served(p)  BY <1>3, ServedSubscribe
  <2> QED  BY <2>1, <2>2
<1>4. CASE /\ p \in [type : {"UNSUBSCRIBE"}, id : Words \ {0}, topics : Seq(Seq(Words))]
           /\ \A i \in DOMAIN p.topics : Text(p.topics[i])
  <2>1. p.type = "UNSUBSCRIBE"  BY <1>4
  <2>2. Served(p)  BY <1>4, ServedUnsubscribe
  <2> QED  BY <2>1, <2>2
<1>5. CASE p \in [type : {"PINGREQ", "DISCONNECT"}]
  <2>1. p.type \in {"PINGREQ", "PINGRESP", "DISCONNECT"} /\ p \in [type : {p.type}]  BY <1>5
  <2>2. Legible(p)  BY <2>1, LegiblePing
  <2>3. p.type \notin {"CONNECT", "SUBSCRIBE", "UNSUBSCRIBE"}  BY <2>1
  <2> QED  BY <2>2, <2>3, LegibleServed
<1> QED  BY <1>1, <1>2, <1>3, <1>4, <1>5, Zenon DEF FromClient

\* A packet that is no CONNECT is written as it is meant.
LEMMA OtherWritten ==
  ASSUME NEW p, p.type # "CONNECT"
  PROVE  AsWritten(p) = AsMeant(p) /\ AsMeant(p).type = p.type /\ ~Empty(p)
<1>1. AsWritten(p) = AsMeant(p) /\ ~Empty(p)  BY DEF AsWritten, LosesWill, Empty
<1>2. CASE p.type = "PUBLISH"
  <2> DEFINE c == Content(p.payload)
  <2>1. AsMeant(p) = [p EXCEPT !.payload = c]  BY <1>2 DEF AsMeant
  <2> HIDE DEF c
  <2> QED  BY <1>1, <2>1
<1>3. CASE p.type # "PUBLISH"
  <2>1. AsMeant(p) = p  BY <1>3 DEF AsMeant
  <2> QED  BY <1>1, <2>1
<1> QED  BY <1>2, <1>3

\* What a server is to read of a packet.
Expected(p) == IF Empty(p) THEN WithWill(p, <<>>) ELSE AsMeant(p)

\* What is encoded is written as what a server is to read, which is read.
LEMMA RequestedServed ==
  ASSUME Requested, request # <<>>
  PROVE  LET p == request[1] IN
         /\ AsWritten(p) = Expected(p) /\ AsWritten(p).type = p.type
         /\ Served(AsWritten(p)) /\ Fits(AsWritten(p))
         /\ p.type = "CONNECT" => p.user # <<>> \/ p.password = <<>>
<1> DEFINE p == request[1]
<1>1. CASE \E q \in Outbound : request = <<q>>
  <2>1. PICK q \in Outbound : request = <<q>>  BY <1>1
  <2>2. p = q  BY <2>1
  <2>3. q.type # "CONNECT" /\ FromClient(AsMeant(q)) /\ Fits(AsMeant(q))  BY WireAssumption DEF Asked
  <2>4. AsWritten(q) = AsMeant(q) /\ AsMeant(q).type = q.type /\ ~Empty(q)  BY <2>3, OtherWritten
  <2>5. Served(AsMeant(q))  BY <2>3, ServedFromClient
  <2> HIDE DEF p
  <2> QED  BY <2>2, <2>3, <2>4, <2>5 DEF Expected, p
<1>2. CASE \E o \in Options : Accepted(o) /\ request = <<Request(o)>>
  <2>1. PICK o \in Options : Accepted(o) /\ request = <<Request(o)>>  BY <1>2
  <2> DEFINE r == Request(o)
  <2>2. p = r  BY <2>1
  <2>3. Settings(o)  BY WireAssumption
  <2>4. AsWritten(r) = Expected(r)  BY <2>3, ConnectWritten DEF Expected
  <2>5. PICK v : Bequest(v) /\ AsWritten(r) = [r EXCEPT !.will = v]  BY <2>3, ConnectWritten
  <2> DEFINE x == [r EXCEPT !.will = v]
  <2>6. Connects(x) /\ (r.user # <<>> \/ r.password = <<>>)  BY <2>1, <2>3, <2>5, RequestConnects
  <2>7. x.type = r.type  BY DEF Request
  <2> HIDE DEF p, r, x
  <2>8. Served(x) /\ Fits(x)  BY <2>6, ServedConnect, ConnectFits
  <2>9. AsWritten(r) = x  BY <2>5 DEF x
  <2> QED  BY <2>2, <2>4, <2>6, <2>7, <2>8, <2>9 DEF p
<1> QED  BY <1>1, <1>2 DEF Requested

\* Of each of them ServerReadsRequests holds.
LEMMA RequestedRead == Requested => ServerReadsRequests
<1> SUFFICES ASSUME Requested, request # <<>> PROVE ServerReadsRequests  BY DEF ServerReadsRequests
<1> DEFINE p == request[1]  q == AsWritten(p)
<1>1. /\ q = Expected(p) /\ q.type = p.type /\ Served(q) /\ Fits(q)
      /\ p.type = "CONNECT" => p.user # <<>> \/ p.password = <<>>
  BY RequestedServed
<1> HIDE DEF p, q
<1>2. LET size == DecodeMBI(Encode(q), 2) IN
      size.next + size.length = Len(Encode(q)) + 1 /\ Read(Encode(q), size.next, q) = q
  BY <1>1, ServedIsRead
<1>3. \A b, i : Read(b, i, p) = Read(b, i, q)  BY <1>1 DEF Read
<1> QED  BY <1>1, <1>2, <1>3 DEF ServerReadsRequests, Expected, Empty, p, q

\* A packet of the client is as long as encode() announces, a server that follows
\* the standard reads in it what the application asked for, and a password never
\* comes without a user, whatever options connect() was given and of whatever kind
\* a payload is; but a will whose payload is neither a string nor a Uint8Array is
\* read with an empty one, which encode() writes for it.
THEOREM RequestsAreRead == Spec => []ServerReadsRequests
BY RequestedStep, RequestedRead, PTL DEF Spec
===============================================================================
