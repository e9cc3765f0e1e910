----------------------------- MODULE PipeProofs -----------------------------
(***************************************************************************)
(* Proofs about pipes: that the ring of one is a queue, for every size of  *)
(* ring and every set of byte values (Pipe), and that its ends and those   *)
(* who wait on it are accounted for, for every number of processes, pipes  *)
(* and fds and every size of ring (PipeCalls).                             *)
(***************************************************************************)
EXTENDS Pipe, PipeCalls, Integers, SequenceTheorems, FiniteSetTheorems, NaturalsInduction, TLAPS

-----------------------------------------------------------------------------
(* The ring. *)

(* A place less than twice the ring's size wraps around at most once. *)
LEMMA Wraps ==
    ASSUME NEW x \in Nat, x < SIZE + SIZE
    PROVE  /\ x % SIZE = IF x < SIZE THEN x ELSE x - SIZE
           /\ x % SIZE \in 0..SIZE - 1
BY SizeAssumption

(* What a ring m holds that has l bytes from place z on. *)
Hold(m, z, l) == [k \in 1..l |-> m[(z + k - 1) % SIZE]]

(* It is a sequence of l bytes. *)
LEMMA HeldType ==
    ASSUME NEW m \in [0..SIZE - 1 -> Value], NEW z \in 0..SIZE - 1, NEW l \in 0..SIZE
    PROVE  /\ Hold(m, z, l) \in Seq(Value)
           /\ Len(Hold(m, z, l)) = l
           /\ \A k \in 1..l : Hold(m, z, l)[k] = m[IF z + k - 1 < SIZE THEN z + k - 1
                                                   ELSE z + k - 1 - SIZE]
<1>1. ASSUME NEW k \in 1..l
      PROVE  /\ (z + k - 1) % SIZE \in 0..SIZE - 1
             /\ (z + k - 1) % SIZE = IF z + k - 1 < SIZE THEN z + k - 1 ELSE z + k - 1 - SIZE
  <2> DEFINE x == z + k - 1
  <2>1. x \in Nat /\ x < SIZE + SIZE   BY SizeAssumption
  <2> HIDE DEF x
  <2>2. x % SIZE \in 0..SIZE - 1 /\ x % SIZE = IF x < SIZE THEN x ELSE x - SIZE
    BY <2>1, Wraps
  <2> QED BY <2>1, <2>2, SizeAssumption DEF x
<1>2. \A k \in 1..l : m[(z + k - 1) % SIZE] \in Value
  BY ZenonT(30), <1>1
<1>3. Hold(m, z, l) \in [1..l -> Value] /\ l \in Nat
  BY <1>2, SizeAssumption DEF Hold
<1>4. Hold(m, z, l) \in Seq(Value) /\ Len(Hold(m, z, l)) = l
  BY <1>3
<1>5. \A k \in 1..l : Hold(m, z, l)[k] = m[(z + k - 1) % SIZE]
  BY DEF Hold
<1> QED BY ZenonT(30), <1>1, <1>4, <1>5

(* A part of a sequence, byte by byte. *)
LEMMA Part ==
    ASSUME NEW z \in Seq(Value), NEW a \in Nat, NEW b \in Nat, a <= b, b <= Len(z)
    PROVE  /\ SubSeq(z, a + 1, b) \in Seq(Value)
           /\ Len(SubSeq(z, a + 1, b)) = b - a
           /\ \A k \in 1..(b - a) : SubSeq(z, a + 1, b)[k] = z[a + k]
<1>1. \A i \in (a + 1)..b : z[i] \in Value   BY LenProperties
<1>2. a + 1 \in Int /\ b \in Int   OBVIOUS
<1>3. /\ SubSeq(z, a + 1, b) \in Seq(Value)
      /\ Len(SubSeq(z, a + 1, b)) = IF a + 1 <= b THEN b - (a + 1) + 1 ELSE 0
      /\ \A i \in 1 .. (b - (a + 1) + 1) : SubSeq(z, a + 1, b)[i] = z[a + 1 + i - 1]
  BY <1>1, <1>2, SubSeqProperties
<1> QED BY <1>3

(* What is left when the n oldest bytes of a ring are taken. *)
LEMMA HeldRest ==
    ASSUME NEW m \in [0..SIZE - 1 -> Value], NEW z \in 0..SIZE - 1, NEW l \in 0..SIZE,
           NEW n \in 0..l
    PROVE  /\ (z + n) % SIZE \in 0..SIZE - 1
           /\ Hold(m, (z + n) % SIZE, l - n) = SubSeq(Hold(m, z, l), n + 1, l)
<1> DEFINE t == (z + n) % SIZE
           all == Hold(m, z, l)
           rest == Hold(m, t, l - n)
<1>1. t \in 0..SIZE - 1 /\ t = IF z + n < SIZE THEN z + n ELSE z + n - SIZE
  <2> DEFINE x == z + n
  <2>1. x \in Nat /\ x < SIZE + SIZE   BY SizeAssumption
  <2> HIDE DEF x
  <2>2. x % SIZE \in 0..SIZE - 1 /\ x % SIZE = IF x < SIZE THEN x ELSE x - SIZE
    BY <2>1, Wraps
  <2> QED BY <2>1, <2>2, SizeAssumption DEF x
<1>2. n \in Nat /\ l \in Nat /\ n <= l /\ l - n \in 0..SIZE   BY SizeAssumption
<1> HIDE DEF t
<1>3. /\ all \in Seq(Value) /\ Len(all) = l
      /\ \A k \in 1..l : all[k] = m[IF z + k - 1 < SIZE THEN z + k - 1 ELSE z + k - 1 - SIZE]
  BY ZenonT(30), HeldType
<1>4. /\ rest \in Seq(Value) /\ Len(rest) = l - n
      /\ \A k \in 1..(l - n) : rest[k] = m[IF t + k - 1 < SIZE THEN t + k - 1 ELSE t + k - 1 - SIZE]
  BY ZenonT(30), <1>1, <1>2, HeldType
<1> HIDE DEF all, rest
<1>5. /\ SubSeq(all, n + 1, l) \in Seq(Value)
      /\ Len(SubSeq(all, n + 1, l)) = l - n
      /\ \A k \in 1..(l - n) : SubSeq(all, n + 1, l)[k] = all[n + k]
  BY SMTT(60), <1>2, <1>3, Part
<1>6. ASSUME NEW k \in 1..(l - n) PROVE rest[k] = all[n + k]
  <2>1. n + k \in 1..l   BY <1>2
  <2>2. (IF t + k - 1 < SIZE THEN t + k - 1 ELSE t + k - 1 - SIZE)
          = IF z + (n + k) - 1 < SIZE THEN z + (n + k) - 1 ELSE z + (n + k) - 1 - SIZE
    BY <1>1, <1>2, SizeAssumption
  <2> QED BY SMTT(60), <2>1, <2>2, <1>3, <1>4
<1>7. rest = SubSeq(all, n + 1, l)
  <2>1. Len(rest) = Len(SubSeq(all, n + 1, l))   BY <1>4, <1>5
  <2>2. \A k \in 1..Len(rest) : rest[k] = SubSeq(all, n + 1, l)[k]   BY <1>4, <1>5, <1>6
  <2> QED BY <2>1, <2>2, <1>4, <1>5, SeqEqual
<1> QED BY <1>1, <1>7 DEF t, all, rest

(* n bytes from the ring in two copies, the second from the ring's start. *)
TwoCopies(m, z, f, n) ==
    [k \in 1..f |-> m[z + k - 1]] \o [k \in 1..(n - f) |-> m[0 + k - 1]]

(* The first copy, of f bytes, ends with the n bytes or with the ring. *)
Split(z, f, n) == f \in 0..n /\ z + f <= SIZE /\ (f = n \/ f = SIZE - z)

(* They are the ring's oldest n bytes. *)
LEMMA HeldFirst ==
    ASSUME NEW m \in [0..SIZE - 1 -> Value], NEW z \in 0..SIZE - 1, NEW l \in 0..SIZE,
           NEW n \in 0..l, NEW f, Split(z, f, n)
    PROVE  /\ TwoCopies(m, z, f, n) = SubSeq(Hold(m, z, l), 1, n)
           /\ SubSeq(Hold(m, z, l), 1, n) \in Seq(Value)
<1>0. f \in 0..n /\ z + f <= SIZE /\ (f = n \/ f = SIZE - z)
  BY DEF Split
<1> DEFINE all == Hold(m, z, l)
           c == [k \in 1..f |-> m[z + k - 1]]
           d == [k \in 1..(n - f) |-> m[0 + k - 1]]
           both == c \o d
           part == SubSeq(all, 1, n)
<1>1. n \in Nat /\ l \in Nat /\ f \in Nat /\ n - f \in Nat /\ n <= l /\ f <= n
  BY <1>0, SizeAssumption
<1>2. /\ all \in Seq(Value) /\ Len(all) = l
      /\ \A k \in 1..l : all[k] = m[IF z + k - 1 < SIZE THEN z + k - 1 ELSE z + k - 1 - SIZE]
  BY ZenonT(30), HeldType
<1>3. c \in Seq(Value) /\ Len(c) = f /\ \A k \in 1..f : c[k] = m[z + k - 1]
  <2>1. \A k \in 1..f : z + k - 1 \in 0..SIZE - 1   BY <1>0, <1>1, SizeAssumption
  <2>2. c \in [1..f -> Value] /\ \A k \in 1..f : c[k] = m[z + k - 1]   BY <2>1
  <2> HIDE DEF c
  <2> QED BY <2>2, <1>1
<1>4. d \in Seq(Value) /\ Len(d) = n - f /\ \A k \in 1..(n - f) : d[k] = m[k - 1]
  <2>1. \A k \in 1..(n - f) : 0 + k - 1 \in 0..SIZE - 1 /\ 0 + k - 1 = k - 1
    BY <1>1, SizeAssumption
  <2>2. d \in [1..(n - f) -> Value]   BY <2>1
  <2>3. \A k \in 1..(n - f) : d[k] = m[k - 1]   BY <2>1
  <2> DEFINE j == n - f
  <2>4. d \in [1..j -> Value] /\ j \in Nat   BY <2>2, <1>1
  <2> HIDE DEF d, j
  <2>5. d \in Seq(Value) /\ Len(d) = j   BY <2>4
  <2> QED BY <2>3, <2>5 DEF j
<1> HIDE DEF all, c, d
<1>5. /\ both \in Seq(Value) /\ Len(both) = Len(c) + Len(d)
      /\ \A k \in 1..(Len(c) + Len(d)) : both[k] = IF k <= Len(c) THEN c[k] ELSE d[k - Len(c)]
  BY ZenonT(30), <1>3, <1>4, ConcatProperties
<1>6. part \in Seq(Value) /\ Len(part) = n /\ \A k \in 1..n : part[k] = all[k]
  <2>1. /\ SubSeq(all, 0 + 1, n) \in Seq(Value) /\ Len(SubSeq(all, 0 + 1, n)) = n - 0
        /\ \A k \in 1..(n - 0) : SubSeq(all, 0 + 1, n)[k] = all[0 + k]
    BY <1>1, <1>2, Part
  <2>2. 0 + 1 = 1 /\ n - 0 = n /\ \A k \in 1..n : 0 + k = k   BY <1>1
  <2> QED BY <2>1, <2>2
<1> HIDE DEF both, part
<1>7. Len(both) = n /\ Len(part) = n   BY <1>1, <1>3, <1>4, <1>5, <1>6
<1>8. ASSUME NEW k \in 1..n PROVE both[k] = part[k]
  <2>1. part[k] = all[k] /\ k \in 1..l   BY <1>1, <1>6
  <2>2. CASE k <= f
    <3>1. both[k] = c[k] /\ c[k] = m[z + k - 1]   BY <2>2, <1>1, <1>3, <1>4, <1>5
    <3>2. z + k - 1 < SIZE   BY <2>2, <1>0, <1>1, SizeAssumption
    <3> QED BY <2>1, <3>1, <3>2, <1>2
  <2>3. CASE ~(k <= f)
    <3>1. k - f \in 1..(n - f) /\ f = SIZE - z   BY <2>3, <1>0, <1>1
    <3>2. both[k] = d[k - f] /\ d[k - f] = m[(k - f) - 1]
      <4>1. both[k] = d[k - f]   BY <2>3, <1>1, <1>3, <1>4, <1>5
      <4> QED BY <3>1, <4>1, <1>4
    <3>3. ~(z + k - 1 < SIZE) /\ z + k - 1 - SIZE = (k - f) - 1
      BY <2>3, <3>1, <1>1, SizeAssumption
    <3> QED BY <2>1, <3>2, <3>3, <1>2
  <2> QED BY <2>2, <2>3
<1>9. both = part   BY <1>5, <1>6, <1>7, <1>8, SeqEqual
<1> QED BY <1>6, <1>9 DEF both, part, all, c, d, TwoCopies

(***************************************************************************)
(* A read copies the oldest bytes to its caller and leaves the others.     *)
(***************************************************************************)
LEMMA ReadTakes ==
    ASSUME TypeOK, NEW room \in Nat, Read(room)
    PROVE  /\ TypeOK'
           /\ len - len' \in 0..len
           /\ buf' = SubSeq(Contents, 1, len - len')
           /\ Contents' = SubSeq(Contents, (len - len') + 1, len)
<1> DEFINE n == Least(room, len)
           first == Least(n, SIZE - start)
           all == Hold(memory, start, len)
<1>1. /\ memory \in [0..SIZE - 1 -> Value] /\ start \in 0..SIZE - 1 /\ len \in 0..SIZE
      /\ memory' = memory
      /\ start' = (start + n) % SIZE /\ len' = len - n
      /\ buf' = Copied(start, first) \o Copied(0, n - first)
  BY DEF TypeOK, Read
<1>2. n \in 0..len /\ Split(start, first, n)
  BY <1>1, SizeAssumption DEF Least, Split
<1> HIDE DEF n, first
<1>3. len' \in 0..SIZE /\ len - len' = n
  <2>1. len' = len - n /\ len \in 0..SIZE   BY <1>1
  <2> QED BY <2>1, <1>2, SizeAssumption
<1>4. /\ start' \in 0..SIZE - 1
      /\ Hold(memory, start', len') = SubSeq(all, n + 1, len)
  BY ZenonT(30), <1>1, <1>2, HeldRest
<1>5. buf' = SubSeq(all, 1, n) /\ buf' \in Seq(Value)
  <2>1. buf' = TwoCopies(memory, start, first, n)
    BY <1>1 DEF Copied, TwoCopies
  <2>2. /\ memory \in [0..SIZE - 1 -> Value] /\ start \in 0..SIZE - 1 /\ len \in 0..SIZE
    BY <1>1
  <2> QED BY <2>1, <2>2, <1>2, HeldFirst
<1>6. Contents = all /\ Contents' = Hold(memory, start', len')
  BY <1>1 DEF Contents, Hold
<1>7. TypeOK'   BY <1>1, <1>3, <1>4, <1>5 DEF TypeOK
<1> HIDE DEF all
<1> QED BY ZenonT(30), <1>2, <1>3, <1>4, <1>5, <1>6, <1>7

(* A ring into which n bytes of b were copied from place a on, in two copies. *)
Filled(m, a, b, f, n) == Stored(Stored(m, a, b, 0, f), 0, b, f, n - f)

(* Which place of the ring w has which byte then. *)
Placed(m, a, b, f, n, w) ==
    /\ w \in [0..SIZE - 1 -> Value]
    /\ \A x \in 0..SIZE - 1 : w[x] = IF x < n - f THEN b[f + x + 1]
                                     ELSE IF a <= x /\ x < a + f THEN b[x - a + 1]
                                     ELSE m[x]

(* The two copies put the bytes there and leave the other places alone. *)
LEMMA FilledPlaces ==
    ASSUME NEW m \in [0..SIZE - 1 -> Value], NEW a \in 0..SIZE - 1, NEW n \in 0..SIZE,
           NEW f, Split(a, f, n), NEW b \in Seq(Value), n <= Len(b)
    PROVE  Placed(m, a, b, f, n, Filled(m, a, b, f, n))
<1> DEFINE g == [x \in 0..SIZE - 1 |-> IF x \in a..(a + f - 1) THEN b[0 + x - a + 1] ELSE m[x]]
           h == [x \in 0..SIZE - 1 |-> IF x \in 0..(0 + (n - f) - 1) THEN b[f + x - 0 + 1] ELSE g[x]]
<1>1. f \in 0..n /\ f \in Nat /\ n \in Nat /\ Len(b) \in Nat   BY SizeAssumption DEF Split
<1>2. \A i \in 1..n : b[i] \in Value   BY <1>1, LenProperties
<1>3. g = Stored(m, a, b, 0, f) /\ h = Filled(m, a, b, f, n)
  BY DEF Stored, Filled
<1>4. ASSUME NEW x \in 0..SIZE - 1
      PROVE  g[x] \in Value /\ g[x] = IF a <= x /\ x < a + f THEN b[x - a + 1] ELSE m[x]
  <2>1. x \in a..(a + f - 1) <=> a <= x /\ x < a + f   BY <1>1, SizeAssumption
  <2>2. CASE a <= x /\ x < a + f
    <3>1. 0 + x - a + 1 = x - a + 1 /\ x - a + 1 \in 1..n   BY <2>2, <1>1, SizeAssumption
    <3>2. g[x] = b[0 + x - a + 1]   BY <2>1, <2>2
    <3> QED BY <2>2, <3>1, <3>2, <1>2
  <2>3. CASE ~(a <= x /\ x < a + f)
    <3>1. g[x] = m[x]   BY <2>1, <2>3
    <3> QED BY <2>3, <3>1
  <2> QED BY <2>2, <2>3
<1>5. ASSUME NEW x \in 0..SIZE - 1
      PROVE  h[x] \in Value /\ h[x] = IF x < n - f THEN b[f + x + 1] ELSE g[x]
  <2>1. x \in 0..(0 + (n - f) - 1) <=> x < n - f   BY <1>1, SizeAssumption
  <2> HIDE DEF g
  <2>2. CASE x < n - f
    <3>1. f + x - 0 + 1 = f + x + 1 /\ f + x + 1 \in 1..n   BY <2>2, <1>1, SizeAssumption
    <3>2. h[x] = b[f + x - 0 + 1]   BY <2>1, <2>2
    <3> QED BY <2>2, <3>1, <3>2, <1>2
  <2>3. CASE ~(x < n - f)
    <3>1. h[x] = g[x]   BY <2>1, <2>3
    <3> QED BY <2>3, <3>1, <1>4
  <2> QED BY <2>2, <2>3
<1>6. h \in [0..SIZE - 1 -> Value]   BY <1>5
<1> HIDE DEF g, h
<1>7. Placed(m, a, b, f, n, h)   BY <1>4, <1>5, <1>6 DEF Placed
<1> QED BY <1>3, <1>7

(* The place after the newest of l bytes. *)
IsEnd(z, l, a) == a = (z + l) % SIZE

(* The ring w holds the first n bytes of b after those that m held. *)
Grown(m, z, l, b, n, w) ==
    /\ w \in [0..SIZE - 1 -> Value]
    /\ Hold(w, z, l + n) = Hold(m, z, l) \o SubSeq(b, 1, n)

(* Two copies to that place make a ring hold n bytes more. *)
LEMMA HeldMore ==
    ASSUME NEW m \in [0..SIZE - 1 -> Value], NEW z \in 0..SIZE - 1, NEW l \in 0..SIZE,
           NEW n \in Nat, n <= SIZE - l, NEW a, IsEnd(z, l, a),
           NEW f, Split(a, f, n), NEW b \in Seq(Value), n <= Len(b)
    PROVE  Grown(m, z, l, b, n, Filled(m, a, b, f, n))
<1> DEFINE w == Filled(m, a, b, f, n)
           old == Hold(m, z, l)
           new == Hold(w, z, l + n)
           part == SubSeq(b, 1, n)
           both == old \o part
<1>1. a \in 0..SIZE - 1 /\ a = IF z + l < SIZE THEN z + l ELSE z + l - SIZE
  <2> DEFINE x == z + l
  <2>1. x \in Nat /\ x < SIZE + SIZE   BY SizeAssumption
  <2> HIDE DEF x
  <2>2. x % SIZE \in 0..SIZE - 1 /\ x % SIZE = IF x < SIZE THEN x ELSE x - SIZE
    BY <2>1, Wraps
  <2> QED BY <2>1, <2>2, SizeAssumption DEF x, IsEnd
<1>2. /\ n \in 0..SIZE /\ l + n \in 0..SIZE /\ l \in Nat
      /\ f \in 0..n /\ a + f <= SIZE /\ (f = n \/ f = SIZE - a)
  BY SizeAssumption DEF Split
<1>3. /\ w \in [0..SIZE - 1 -> Value]
      /\ \A x \in 0..SIZE - 1 : w[x] = IF x < n - f THEN b[f + x + 1]
                                       ELSE IF a <= x /\ x < a + f THEN b[x - a + 1]
                                       ELSE m[x]
  <2>1. Placed(m, a, b, f, n, w)   BY SMTT(60), <1>1, <1>2, FilledPlaces
  <2> QED BY <2>1 DEF Placed
<1>4. /\ old \in Seq(Value) /\ Len(old) = l
      /\ \A k \in 1..l : old[k] = m[IF z + k - 1 < SIZE THEN z + k - 1 ELSE z + k - 1 - SIZE]
  BY ZenonT(30), HeldType
<1> HIDE DEF w
<1>5. /\ new \in Seq(Value) /\ Len(new) = l + n
      /\ \A k \in 1..(l + n) : new[k] = w[IF z + k - 1 < SIZE THEN z + k - 1
                                         ELSE z + k - 1 - SIZE]
  BY ZenonT(30), <1>2, <1>3, HeldType
<1>6. part \in Seq(Value) /\ Len(part) = n /\ \A k \in 1..n : part[k] = b[k]
  <2>1. /\ SubSeq(b, 0 + 1, n) \in Seq(Value) /\ Len(SubSeq(b, 0 + 1, n)) = n - 0
        /\ \A k \in 1..(n - 0) : SubSeq(b, 0 + 1, n)[k] = b[0 + k]
    BY Part
  <2>2. 0 + 1 = 1 /\ n - 0 = n /\ \A k \in 1..n : 0 + k = k   OBVIOUS
  <2> QED BY <2>1, <2>2
<1> HIDE DEF old, new, part
<1>7. /\ both \in Seq(Value) /\ Len(both) = Len(old) + Len(part)
      /\ \A k \in 1..(Len(old) + Len(part)) :
            both[k] = IF k <= Len(old) THEN old[k] ELSE part[k - Len(old)]
  BY ZenonT(30), <1>4, <1>6, ConcatProperties
<1> HIDE DEF both
<1>8. ASSUME NEW k \in 1..(l + n) PROVE new[k] = both[k]
  <2> DEFINE p == IF z + k - 1 < SIZE THEN z + k - 1 ELSE z + k - 1 - SIZE
  <2>1. new[k] = w[p] /\ p \in 0..SIZE - 1   BY SMTT(60), <1>2, <1>5, SizeAssumption
  <2>2. CASE k <= l
    <3>1. both[k] = old[k] /\ old[k] = m[p]   BY <2>2, <1>2, <1>4, <1>6, <1>7
    <3>2. ~(p < n - f) /\ ~(a <= p /\ p < a + f)   BY <2>2, <1>1, <1>2, SizeAssumption
    <3> HIDE DEF p
    <3> QED BY <2>1, <3>1, <3>2, <1>3
  <2>3. CASE ~(k <= l)
    <3>1. both[k] = part[k - l] /\ k - l \in 1..n   BY <2>3, <1>2, <1>4, <1>6, <1>7
    <3>2. part[k - l] = b[k - l]   BY <3>1, <1>6
    <3>3. CASE p < n - f
      <4>1. f + p + 1 = k - l   BY <2>3, <3>3, <1>1, <1>2, SizeAssumption
      <4> HIDE DEF p
      <4>2. w[p] = b[f + p + 1]   BY <2>1, <3>3, <1>3
      <4> QED BY <2>1, <3>1, <3>2, <4>1, <4>2
    <3>4. CASE ~(p < n - f)
      <4>1. a <= p /\ p < a + f /\ p - a + 1 = k - l   BY <2>3, <3>4, <1>1, <1>2, SizeAssumption
      <4> HIDE DEF p
      <4>2. w[p] = b[p - a + 1]   BY <2>1, <3>4, <4>1, <1>3
      <4> QED BY <2>1, <3>1, <3>2, <4>1, <4>2
    <3> QED BY <3>3, <3>4
  <2> QED BY <2>2, <2>3
<1>9. new = both
  <2>1. Len(new) = Len(both) /\ Len(new) = l + n   BY <1>4, <1>5, <1>6, <1>7
  <2> QED BY ZenonT(30), <2>1, <1>5, <1>7, <1>8, SeqEqual
<1> QED BY <1>3, <1>9 DEF Grown, new, both, old, part, w

(***************************************************************************)
(* A write adds the first of its bytes to the queue, as many as fit.       *)
(***************************************************************************)
LEMMA WriteAdds ==
    ASSUME TypeOK, NEW bytes \in Seq(Value), Write(bytes)
    PROVE  /\ TypeOK'
           /\ len' - len \in 1..(SIZE - len)
           /\ len' - len = Least(Len(bytes), SIZE - len)
           /\ buf' = bytes
           /\ Contents' = Contents \o SubSeq(bytes, 1, len' - len)
<1> DEFINE n == Least(Len(bytes), SIZE - len)
           at == (start + len) % SIZE
           first == Least(n, SIZE - at)
<1>1. /\ memory \in [0..SIZE - 1 -> Value] /\ start \in 0..SIZE - 1 /\ len \in 0..SIZE
      /\ n > 0
      /\ memory' = Filled(memory, at, bytes, first, n)
      /\ start' = start /\ buf' = bytes
  BY DEF TypeOK, Write, Filled
<1>2. len' = len + n   BY DEF Write
<1>3. n \in Nat /\ n <= SIZE - len /\ n <= Len(bytes)
  <2>1. Len(bytes) \in Nat   BY LenProperties
  <2> QED BY <2>1, <1>1, SizeAssumption DEF Least
<1>4. at \in 0..SIZE - 1
  <2> DEFINE x == start + len
  <2>1. x \in Nat /\ x < SIZE + SIZE   BY <1>1, SizeAssumption
  <2> HIDE DEF x
  <2>2. x % SIZE \in 0..SIZE - 1   BY <2>1, Wraps
  <2> QED BY <2>2 DEF x
<1> HIDE DEF n
<1>5. Split(at, first, n)
  <2> HIDE DEF at
  <2> QED BY <1>3, <1>4, SizeAssumption DEF Least, Split
<1>6. IsEnd(start, len, at)   BY DEF IsEnd
<1> HIDE DEF at, first
<1>7. /\ memory' \in [0..SIZE - 1 -> Value]
      /\ Hold(memory', start, len + n) = Hold(memory, start, len) \o SubSeq(bytes, 1, n)
  <2>1. Grown(memory, start, len, bytes, n, memory')
    BY <1>1, <1>3, <1>5, <1>6, HeldMore
  <2> QED BY ZenonT(30), <2>1 DEF Grown
<1>8. len' \in 0..SIZE /\ len' - len = n /\ n \in 1..(SIZE - len)
  BY <1>1, <1>2, <1>3, SizeAssumption
<1>9. Contents = Hold(memory, start, len) /\ Contents' = Hold(memory', start, len + n)
  BY <1>1, <1>2 DEF Contents, Hold
<1>10. TypeOK'   BY <1>1, <1>7, <1>8 DEF TypeOK
<1>11. n = Least(Len(bytes), SIZE - len)   BY DEF n
<1> QED BY ZenonT(30), <1>1, <1>3, <1>7, <1>8, <1>9, <1>10, <1>11

(* What the ring holds is a sequence of len bytes. *)
LEMMA ContentsType ==
    ASSUME TypeOK
    PROVE  Contents \in Seq(Value) /\ Len(Contents) = len
<1>1. Contents = Hold(memory, start, len)   BY DEF Contents, Hold
<1> QED BY <1>1, HeldType DEF TypeOK

(* One step of the ring is one step of the queue, or none. *)
LEMMA StepIsQueued ==
    ASSUME TypeOK, [Next]_vars
    PROVE  TypeOK' /\ [Queue!Next]_<<Contents, buf>>
<1>1. CASE UNCHANGED vars
  BY <1>1 DEF vars, TypeOK, Contents
<1>2. ASSUME NEW room \in 0..SIZE, Read(room)
      PROVE  TypeOK' /\ Queue!Next
  <2> DEFINE n == len - len'
  <2>1. /\ TypeOK' /\ n \in 0..len /\ buf' = SubSeq(Contents, 1, n)
        /\ Contents' = SubSeq(Contents, n + 1, len)
    BY <1>2, ReadTakes, SizeAssumption
  <2>2. Len(Contents) = len /\ len \in 0..SIZE
    BY ContentsType DEF TypeOK
  <2> HIDE DEF n
  <2>3. n \in 0..SIZE /\ n <= Len(Contents)   BY <2>1, <2>2, SizeAssumption
  <2>4. Queue!Take(n)   BY <2>1, <2>2, <2>3 DEF Queue!Take
  <2> QED BY <2>1, <2>3, <2>4 DEF Queue!Next
<1>3. ASSUME NEW m \in 1..SIZE + 1, NEW bytes \in [1..m -> Value], Write(bytes)
      PROVE  TypeOK' /\ Queue!Next
  <2> DEFINE n == len' - len
  <2>1. bytes \in Seq(Value)
    <3>1. m \in Nat   BY SizeAssumption
    <3> QED BY <3>1
  <2>2. /\ TypeOK' /\ n \in 1..(SIZE - len) /\ n = Least(Len(bytes), SIZE - len)
        /\ buf' = bytes /\ Contents' = Contents \o SubSeq(bytes, 1, n)
    BY SMTT(60), <1>3, <2>1, WriteAdds
  <2>3. Len(Contents) = len /\ len \in 0..SIZE
    BY ContentsType DEF TypeOK
  <2> HIDE DEF n
  <2>4. n \in 1..SIZE   BY <2>2, <2>3, SizeAssumption
  <2>5. Queue!Put(n)   BY <2>1, <2>2, <2>3 DEF Queue!Put, Least
  <2> QED BY <2>2, <2>4, <2>5 DEF Queue!Next
<1> QED BY <1>1, <1>2, <1>3 DEF Next

(***************************************************************************)
(* The places of the ring stay within its memory, for every ring size      *)
(* (pipe.rs, read and write).                                              *)
(***************************************************************************)
THEOREM RingTypeCorrect == Spec => []TypeOK
<1>1. Init => TypeOK   BY SizeAssumption DEF Init, TypeOK
<1>2. TypeOK /\ [Next]_vars => TypeOK'   BY StepIsQueued
<1> QED BY <1>1, <1>2, PTL DEF Spec

(***************************************************************************)
(* A pipe's ring implements a queue: whatever its size and the lengths of  *)
(* the reads and writes, bytes come out in the order they went in.         *)
(***************************************************************************)
THEOREM RingIsFifo == Spec => ImplementsFifo
<1>1. Init => Queue!Init
  <2> SUFFICES ASSUME Init PROVE Contents = <<>> /\ buf = <<>>   BY DEF Queue!Init
  <2>1. TypeOK /\ len = 0   BY SizeAssumption DEF Init, TypeOK
  <2>2. Contents \in Seq(Value) /\ Len(Contents) = 0   BY <2>1, ContentsType
  <2>3. buf = <<>>   BY DEF Init
  <2> QED BY <2>2, <2>3, EmptySeq
<1>2. TypeOK /\ [Next]_vars => [Queue!Next]_<<Contents, buf>>   BY StepIsQueued
<1> QED BY <1>1, <1>2, RingTypeCorrect, PTL DEF Spec, ImplementsFifo, Queue!Spec

-----------------------------------------------------------------------------
(* The ends of pipes, and the calls. *)

(* The constants: a process has some fds, a ring holds some bytes (32 and  *)
(* 16384 in the kernel), and None is no end of a pipe and no call.         *)
Sizes ==
    FDS \in Nat /\ RING_SIZE \in Nat \ {0} /\ None \notin End \cup (End \X (1..RING_SIZE))

(* An end is open exactly while somebody has it. *)
Counted(x) == \A e \in End : x.open[e] = IF Held(x, e) THEN 1 ELSE 0

(* Who waits is in a call that can do nothing now. *)
NothingToDo(x, p) ==
    LET i == x.call[p][1][1]
    IN  IF x.call[p][1][2] = "read"
        THEN x.len[i] = 0 /\ x.open[<<i, "write">>] = 1
        ELSE x.len[i] = RING_SIZE /\ x.open[<<i, "read">>] = 1
HasReason(x, p) == x.call[p] # None /\ ~x.killed[p] /\ NothingToDo(x, p)
Reasons(x) == \A p \in Proc : x.st[p] = "waiting" => HasReason(x, p)

(* A process that is not there has nothing. *)
FreeHasNone(x) ==
    \A p \in Proc : x.st[p] = "free" =>
        x.call[p] = None /\ ~x.killed[p] /\ \A f \in 1..FDS : x.fds[p][f] = None

Good(x) == x \in States /\ Counted(x) /\ Reasons(x) /\ FreeHasNone(x)

-----------------------------------------------------------------------------
(* The other end of a call's pipe is an end. *)
LEMMA CallEnds ==
    ASSUME NEW x \in States, NEW p \in Proc, x.call[p] # None
    PROVE  /\ x.call[p] \in End \X (1..RING_SIZE) /\ x.call[p][1] \in End
           /\ x.call[p][1][1] \in PipeId /\ x.call[p][1][2] \in Side
           /\ x.call[p][2] \in 1..RING_SIZE
           /\ \A side \in Side : <<x.call[p][1][1], side>> \in End
<1>1. x.call[p] \in End \X (1..RING_SIZE)
  BY DEF States
<1>2. x.call[p][1] \in End /\ x.call[p][2] \in 1..RING_SIZE
  BY <1>1
<1> QED BY <1>1, <1>2 DEF End

(* The ends that nobody has any more, and who waits on their pipes. *)
Gone(x, ends) == {e \in ends : ~Held(x, e)}
Woken(x, ends) == {p \in Proc : /\ x.st[p] = "waiting"
                                /\ \E e \in Gone(x, ends) : e[1] = x.call[p][1][1]}

(* What Release leaves alone, and what it changes. *)
LEMMA ReleaseFields ==
    ASSUME NEW x \in States, NEW ends
    PROVE  LET w == Release(x, ends)
           IN  /\ w.len = x.len /\ w.fds = x.fds /\ w.call = x.call /\ w.killed = x.killed
               /\ w.open = [e \in End |-> IF e \in Gone(x, ends) THEN x.open[e] - 1
                                          ELSE x.open[e]]
               /\ w.st = [p \in Proc |-> IF p \in Woken(x, ends) THEN "ready" ELSE x.st[p]]
               /\ w.open \in [End -> 0..1] => w \in States
<1> DEFINE open == [e \in End |-> IF e \in Gone(x, ends) THEN x.open[e] - 1 ELSE x.open[e]]
           st == [p \in Proc |-> IF p \in Woken(x, ends) THEN "ready" ELSE x.st[p]]
           w == Release(x, ends)
<1>1. w = [x EXCEPT !.open = open, !.st = st]
  BY DEF Release, Gone, Woken
<1>2. st \in [Proc -> {"free", "ready", "waiting"}]
  BY DEF States
<1> HIDE DEF open, st, w
<1>3. /\ w.len = x.len /\ w.fds = x.fds /\ w.call = x.call /\ w.killed = x.killed
      /\ w.open = open /\ w.st = st
  BY <1>1 DEF States
<1>4. open \in [End -> 0..1] => w \in States
  BY ZenonT(30), <1>1, <1>2 DEF States
<1> QED BY <1>3, <1>4 DEF open, st, w

(* The references that are dropped are the only ones of their ends that    *)
(* the counts have too many.                                               *)
LEMMA ReleaseKeeps ==
    ASSUME Sizes, NEW x \in States, Reasons(x), FreeHasNone(x), NEW ends \in SUBSET End,
           \A e \in End : x.open[e] = IF Held(x, e) \/ e \in ends THEN 1 ELSE 0
    PROVE  Good(Release(x, ends))
<1> DEFINE w == Release(x, ends)
           gone == Gone(x, ends)
           wake == Woken(x, ends)
           open == [e \in End |-> IF e \in gone THEN x.open[e] - 1 ELSE x.open[e]]
           st == [p \in Proc |-> IF p \in wake THEN "ready" ELSE x.st[p]]
<1>1. /\ w.len = x.len /\ w.fds = x.fds /\ w.call = x.call /\ w.killed = x.killed
      /\ w.open = open /\ w.st = st
      /\ w.open \in [End -> 0..1] => w \in States
  BY ReleaseFields
<1> USE DEF Gone, Woken
<1>2. \A e \in End : open[e] = IF Held(x, e) THEN 1 ELSE 0
  <2> SUFFICES ASSUME NEW e \in End PROVE open[e] = IF Held(x, e) THEN 1 ELSE 0
    OBVIOUS
  <2>1. CASE Held(x, e)
    BY <2>1
  <2>2. CASE ~Held(x, e) /\ e \in ends
    BY <2>2
  <2>3. CASE ~Held(x, e) /\ e \notin ends
    BY <2>3
  <2> QED BY <2>1, <2>2, <2>3
<1>3. \A p \in Proc : /\ st[p] \in {"free", "ready", "waiting"}
                      /\ st[p] = "free" <=> x.st[p] = "free"
                      /\ st[p] = "waiting" => x.st[p] = "waiting" /\ p \notin wake
  BY DEF States
<1>4. open \in [End -> 0..1] /\ st \in [Proc -> {"free", "ready", "waiting"}]
  BY <1>2, <1>3
<1>5. \A e \in End : e \notin gone => open[e] = x.open[e]
  OBVIOUS
<1>6. ASSUME NEW p \in Proc, st[p] = "waiting" PROVE HasReason(w, p)
  <2> DEFINE i == x.call[p][1][1]
  <2>1. HasReason(x, p) /\ p \notin wake /\ x.st[p] = "waiting" /\ x.call[p] # None
    BY <1>3, <1>6 DEF Reasons, HasReason
  <2>2. \A side \in Side : <<i, side>> \in End
    BY <2>1, CallEnds
  <2>3. \A side \in Side : <<i, side>> \notin gone
    BY <2>1
  <2>4. \A side \in Side : open[<<i, side>>] = x.open[<<i, side>>]
    BY <1>5, <2>2, <2>3
  <2>5. open[<<i, "read">>] = x.open[<<i, "read">>] /\ open[<<i, "write">>] = x.open[<<i, "write">>]
    BY <2>4 DEF Side
  <2> HIDE DEF open, st, gone, wake
  <2> QED BY <1>1, <2>1, <2>5 DEF HasReason, NothingToDo
<1> HIDE DEF open, st, gone, wake, w
<1>7. w \in States
  BY <1>1, <1>4
<1>8. Counted(w)
  BY <1>1, <1>2 DEF Counted, Held, HasEnd
<1>9. Reasons(w)
  BY <1>1, <1>6 DEF Reasons
<1>10. FreeHasNone(w)
  BY <1>1, <1>3 DEF FreeHasNone
<1> QED BY <1>7, <1>8, <1>9, <1>10 DEF Good, w

(* A call that returns drops its reference. *)
LEMMA ReturnKeeps ==
    ASSUME Sizes, NEW x, Good(x), NEW p \in Proc, x.call[p] # None, x.st[p] = "ready"
    PROVE  Good(Return(x, p))
<1> DEFINE y == [x EXCEPT !.call[p] = None]
           end == x.call[p][1]
<1>1. x \in States /\ end \in End
  BY CallEnds DEF Good
<1>2. /\ y.call = [x.call EXCEPT ![p] = None]
      /\ y.len = x.len /\ y.open = x.open /\ y.fds = x.fds /\ y.st = x.st
      /\ y.killed = x.killed
      /\ y \in States
  BY ZenonT(30), <1>1 DEF States
<1> HIDE DEF y
<1>3. \A q \in Proc : y.call[q] = IF q = p THEN None ELSE x.call[q]
  BY <1>1, <1>2 DEF States
<1>4. \A e \in End : Held(x, e) <=> Held(y, e) \/ e = end
  BY <1>2, <1>3 DEF Held, HasEnd
<1>5. \A e \in End : y.open[e] = IF Held(y, e) \/ e \in {end} THEN 1 ELSE 0
  BY <1>2, <1>4 DEF Good, Counted
<1>6. Reasons(y)
  BY <1>2, <1>3 DEF Good, Reasons, HasReason, NothingToDo
<1>7. FreeHasNone(y)
  BY <1>2, <1>3 DEF Good, FreeHasNone
<1>8. Good(Release(y, {end}))
  BY <1>1, <1>2, <1>5, <1>6, <1>7, ReleaseKeeps
<1> QED BY <1>8 DEF Return, y

(* When the number of bytes changes, those who wait on the pipe wake. *)
LEMMA WakeKeeps ==
    ASSUME Sizes, NEW x, Good(x), NEW i \in PipeId, NEW m \in 0..RING_SIZE
    PROVE  LET w == WakePipe([x EXCEPT !.len[i] = m], i)
           IN  /\ Good(w) /\ w.call = x.call
               /\ \A p \in Proc : x.st[p] = "ready" => w.st[p] = "ready"
<1> DEFINE y == [x EXCEPT !.len[i] = m]
           st == [p \in Proc |-> IF y.st[p] = "waiting" /\ y.call[p][1][1] = i THEN "ready"
                                 ELSE y.st[p]]
           w == WakePipe(y, i)
<1>1. x \in States
  BY DEF Good
<1>2. /\ y.len = [x.len EXCEPT ![i] = m]
      /\ y.open = x.open /\ y.fds = x.fds /\ y.call = x.call /\ y.st = x.st
      /\ y.killed = x.killed
      /\ y \in States
  BY ZenonT(30), <1>1 DEF States
<1> HIDE DEF y
<1>3. w = [y EXCEPT !.st = st]
  BY DEF WakePipe
<1>4. st \in [Proc -> {"free", "ready", "waiting"}]
  BY <1>2 DEF States
<1>5. \A p \in Proc : /\ st[p] = "free" <=> x.st[p] = "free"
                      /\ st[p] = "waiting" => x.st[p] = "waiting" /\ x.call[p][1][1] # i
                      /\ x.st[p] = "ready" => st[p] = "ready"
  BY <1>2
<1> HIDE DEF st, w
<1>6. /\ w.len = [x.len EXCEPT ![i] = m]
      /\ w.open = x.open /\ w.fds = x.fds /\ w.call = x.call /\ w.st = st
      /\ w.killed = x.killed
      /\ w \in States
  BY SMTT(60), <1>2, <1>3, <1>4 DEF States
<1>7. Counted(w)
  BY <1>6 DEF Good, Counted, Held, HasEnd
<1>8. FreeHasNone(w)
  BY <1>5, <1>6 DEF Good, FreeHasNone
<1>9. ASSUME NEW p \in Proc, st[p] = "waiting" PROVE HasReason(w, p)
  <2>1. HasReason(x, p) /\ x.call[p][1][1] # i
    BY <1>5, <1>9 DEF Good, Reasons
  <2>2. x.call[p][1][1] \in PipeId
    BY <1>1, <2>1, CallEnds DEF HasReason, NothingToDo
  <2>3. w.len[x.call[p][1][1]] = x.len[x.call[p][1][1]]
    BY <1>1, <1>6, <2>1, <2>2 DEF States
  <2> QED BY <1>6, <2>1, <2>3 DEF HasReason, NothingToDo
<1>10. Reasons(w)
  BY <1>6, <1>9 DEF Reasons
<1> QED BY <1>5, <1>6, <1>7, <1>8, <1>10 DEF Good, w, y

(* A process that can do nothing waits, unless it was killed. *)
LEMMA PipeWaitKeeps ==
    ASSUME Sizes, NEW x, Good(x), NEW p \in Proc, x.call[p] # None, x.st[p] = "ready",
           NothingToDo(x, p)
    PROVE  Good(PipeWait(x, p))
<1> DEFINE w == [x EXCEPT !.st[p] = "waiting"]
<1>1. CASE x.killed[p]
  BY <1>1, ReturnKeeps DEF PipeWait
<1>2. CASE ~x.killed[p]
  <2>1. x \in States
    BY DEF Good
  <2>2. /\ w.st = [x.st EXCEPT ![p] = "waiting"]
        /\ w.len = x.len /\ w.open = x.open /\ w.fds = x.fds /\ w.call = x.call
        /\ w.killed = x.killed
        /\ w \in States
    BY ZenonT(30), <2>1 DEF States
  <2>3. PipeWait(x, p) = w
    BY <1>2 DEF PipeWait
  <2> HIDE DEF w
  <2>4. \A q \in Proc : w.st[q] = IF q = p THEN "waiting" ELSE x.st[q]
    BY <2>1, <2>2 DEF States
  <2>5. Counted(w)
    BY <2>2 DEF Good, Counted, Held, HasEnd
  <2>6. FreeHasNone(w)
    BY <2>2, <2>4 DEF Good, FreeHasNone
  <2>7. HasReason(x, p)
    BY <1>2 DEF HasReason
  <2>8. Reasons(w)
    BY ZenonT(30), <2>2, <2>4, <2>7 DEF Good, Reasons, HasReason, NothingToDo
  <2> QED BY <2>2, <2>3, <2>5, <2>6, <2>8 DEF Good
<1> QED BY <1>1, <1>2

(* A read or a write, begun or begun again. *)
LEMMA TransferKeeps ==
    ASSUME Sizes, NEW x, Good(x), NEW p \in Proc, x.call[p] # None, x.st[p] = "ready"
    PROVE  Good(Transfer(x, p))
<1> DEFINE i == x.call[p][1][1]
           asked == x.call[p][2]
<1>1. /\ x \in States /\ i \in PipeId /\ x.call[p][1][2] \in Side /\ asked \in 1..RING_SIZE
      /\ <<i, "read">> \in End /\ <<i, "write">> \in End
      /\ x.len[i] \in 0..RING_SIZE
      /\ x.open[<<i, "read">>] \in 0..1 /\ x.open[<<i, "write">>] \in 0..1
  <2>1. x \in States
    BY DEF Good
  <2>2. /\ i \in PipeId /\ x.call[p][1][2] \in Side /\ asked \in 1..RING_SIZE
        /\ <<i, "read">> \in End /\ <<i, "write">> \in End
    BY <2>1, CallEnds DEF Side
  <2> HIDE DEF i
  <2> QED BY <2>1, <2>2 DEF States
<1>2. CASE x.call[p][1][2] = "read"
  <2> DEFINE n == Fewer(asked, x.len[i])
             w == WakePipe([x EXCEPT !.len[i] = @ - n], i)
  <2>1. Transfer(x, p) = IF n > 0 THEN Return(w, p)
                         ELSE IF x.open[<<i, "write">>] = 0 THEN Return(x, p)
                         ELSE PipeWait(x, p)
    BY <1>2 DEF Transfer, ReadPipe
  <2>2. x.len[i] - n \in 0..RING_SIZE /\ (~(n > 0) => x.len[i] = 0)
    <3>1. x.len[i] \in 0..RING_SIZE /\ asked \in 1..RING_SIZE /\ RING_SIZE \in Nat
      BY <1>1 DEF Sizes
    <3> HIDE DEF i, asked
    <3> QED BY <3>1 DEF Fewer
  <2>3. CASE n > 0
    <3>1. Good(w) /\ w.call = x.call /\ w.st[p] = "ready"
      <4> DEFINE m == x.len[i] - n
      <4>1. w = WakePipe([x EXCEPT !.len[i] = m], i)
        OBVIOUS
      <4>2. m \in 0..RING_SIZE
        BY <2>2
      <4> HIDE DEF m, w, i
      <4> QED BY <1>1, <4>1, <4>2, WakeKeeps
    <3> HIDE DEF w
    <3>2. Good(Return(w, p))
      BY <3>1, ReturnKeeps
    <3> QED BY <2>1, <2>3, <3>2
  <2>4. CASE ~(n > 0)
    <3>1. x.open[<<i, "write">>] # 0 => Good(PipeWait(x, p))
      <4>1. x.open[<<i, "write">>] # 0 => NothingToDo(x, p)
        <5>1. x.len[i] = 0 /\ x.open[<<i, "write">>] \in 0..1
          BY ZenonT(30), <1>1, <2>2, <2>4
        <5>2. x.open[<<i, "write">>] # 0 => x.open[<<i, "write">>] = 1
          <6> HIDE DEF i
          <6> QED BY <5>1
        <5> HIDE DEF n, w, asked
        <5> QED BY <1>2, <5>1, <5>2 DEF NothingToDo
      <4> QED BY <4>1, PipeWaitKeeps
    <3>2. Good(Return(x, p))
      BY ReturnKeeps
    <3> HIDE DEF n, w, i
    <3> QED BY <2>1, <2>4, <3>1, <3>2
  <2> QED BY <2>3, <2>4
<1>3. CASE x.call[p][1][2] = "write"
  <2> DEFINE n == Fewer(asked, RING_SIZE - x.len[i])
             w == WakePipe([x EXCEPT !.len[i] = @ + n], i)
  <2>1. Transfer(x, p) = IF x.open[<<i, "read">>] = 0 THEN Return(x, p)
                         ELSE IF n > 0 THEN Return(w, p)
                         ELSE PipeWait(x, p)
    BY <1>3 DEF Transfer, WritePipe
  <2>2. x.len[i] + n \in 0..RING_SIZE /\ (~(n > 0) => x.len[i] = RING_SIZE)
    <3>1. x.len[i] \in 0..RING_SIZE /\ asked \in 1..RING_SIZE /\ RING_SIZE \in Nat
      BY <1>1 DEF Sizes
    <3> HIDE DEF i, asked
    <3> QED BY <3>1 DEF Fewer
  <2>3. CASE x.open[<<i, "read">>] = 0
    BY <2>1, <2>3, ReturnKeeps
  <2>4. CASE x.open[<<i, "read">>] # 0 /\ n > 0
    <3>1. Good(w) /\ w.call = x.call /\ w.st[p] = "ready"
      <4> DEFINE m == x.len[i] + n
      <4>1. w = WakePipe([x EXCEPT !.len[i] = m], i)
        OBVIOUS
      <4>2. m \in 0..RING_SIZE
        BY <2>2
      <4> HIDE DEF m, w, i
      <4> QED BY <1>1, <4>1, <4>2, WakeKeeps
    <3> HIDE DEF w
    <3>2. Good(Return(w, p))
      BY <3>1, ReturnKeeps
    <3> QED BY <2>1, <2>4, <3>2
  <2>5. CASE x.open[<<i, "read">>] # 0 /\ ~(n > 0)
    <3>1. Good(PipeWait(x, p))
      <4>1. NothingToDo(x, p)
        <5>1. x.len[i] = RING_SIZE /\ x.open[<<i, "read">>] \in 0..1
          BY ZenonT(30), <1>1, <2>2, <2>5
        <5>2. x.open[<<i, "read">>] = 1
          <6> HIDE DEF i
          <6> QED BY <5>1, <2>5
        <5> HIDE DEF n, w, asked
        <5> QED BY <1>3, <5>1, <5>2 DEF NothingToDo
      <4> QED BY <4>1, PipeWaitKeeps
    <3> HIDE DEF n, w, i
    <3> QED BY <2>1, <2>5, <3>1
  <2> QED BY <2>3, <2>4, <2>5
<1> QED BY <1>1, <1>2, <1>3 DEF Side

-----------------------------------------------------------------------------
(* A set of numbers has a smallest one. *)
LEMMA MinIsIn ==
    ASSUME NEW S \in SUBSET Nat, S # {} PROVE Min(S) \in S
<1> DEFINE less == {ss \in Nat \X Nat : ss[1] < ss[2]}
<1>1. IsWellFoundedOn(less, Nat)
  BY NatLessThanWellFounded DEF OpToRel
<1> HIDE DEF less
<1>2. \E m \in S : \A n \in S : ~(<<n, m>> \in less)
  BY ZenonT(30), <1>1, WFMin
<1>3. PICK m \in S : \A n \in S : ~(<<n, m>> \in less)
  BY <1>2
<1>4. ASSUME NEW n \in S PROVE m <= n
  <2>1. m \in Nat /\ n \in Nat
    OBVIOUS
  <2>2. <<n, m>> \in Nat \X Nat /\ <<n, m>>[1] = n /\ <<n, m>>[2] = m
    BY <2>1
  <2>3. ~(n < m)
    BY <1>3, <2>2 DEF less
  <2> QED BY <2>1, <2>3
<1>5. \E x \in S : \A y \in S : x =< y
  BY <1>4
<1> QED BY ZenonT(30), <1>5 DEF Min

(* The pipe call finds two fds. *)
LEMMA TwoFree ==
    ASSUME Sizes, NEW p, Cardinality(Free(p)) >= 2
    PROVE  LET r == Min(Free(p))
           IN  r \in Free(p) /\ Min(Free(p) \ {r}) \in Free(p) \ {r}
<1> DEFINE F == Free(p)
           r == Min(F)
<1>1. F \in SUBSET (1..FDS) /\ IsFiniteSet(1..FDS)
  <2>1. F \in SUBSET (1..FDS)
    BY DEF Free
  <2>2. IsFiniteSet(1..FDS)
    <3>1. 1 \in Int /\ FDS \in Int
      BY DEF Sizes
    <3> QED BY <3>1, FS_Interval
  <2> QED BY <2>1, <2>2
<1> HIDE DEF F
<1>2. IsFiniteSet(F) /\ F \in SUBSET Nat
  <2>1. IsFiniteSet(F)
    BY ZenonT(30), <1>1, FS_Subset
  <2>2. F \in SUBSET Nat
    BY <1>1
  <2> QED BY <2>1, <2>2
<1>3. F # {}
  BY FS_EmptySet DEF F
<1>4. r \in F
  BY <1>2, <1>3, MinIsIn
<1> HIDE DEF r
<1>5. IsFiniteSet(F \ {r}) /\ Cardinality(F \ {r}) = Cardinality(F) - 1 /\ Cardinality(F) \in Nat
  BY <1>2, <1>4, FS_RemoveElement, FS_CardinalityType
<1>6. F \ {r} # {}
  <2>1. Cardinality(F) >= 2
    BY DEF F
  <2>2. Cardinality(F \ {r}) # 0
    BY <1>5, <2>1
  <2> QED BY <2>2, FS_EmptySet
<1>7. Min(F \ {r}) \in F \ {r}
  BY <1>2, <1>6, MinIsIn
<1> QED BY <1>4, <1>7 DEF F, r

(* A new pipe: nobody had its ends, so that nobody waits on it. *)
LEMMA PipeCallKeeps ==
    ASSUME Sizes, Good(s), NEW p \in Proc, PipeCall(p) PROVE Good(s')
<1>1. PICK i \in PipeId :
        /\ s.open[<<i, "read">>] = 0 /\ s.open[<<i, "write">>] = 0
        /\ LET r == Min(Free(p))
               w == Min(Free(p) \ {r})
           IN s' = [s EXCEPT !.len[i] = 0,
                             !.open[<<i, "read">>] = 1, !.open[<<i, "write">>] = 1,
                             !.fds[p][r] = <<i, "read">>, !.fds[p][w] = <<i, "write">>]
  BY ZenonT(30) DEF PipeCall
<1> DEFINE r == Min(Free(p))
           w == Min(Free(p) \ {r})
           re == <<i, "read">>
           we == <<i, "write">>
           fdp == [f \in 1..FDS |-> IF f = r THEN re ELSE IF f = w THEN we ELSE s.fds[p][f]]
           fds == [s.fds EXCEPT ![p] = fdp]
           lns == [s.len EXCEPT ![i] = 0]
           open == [e \in End |-> IF e[1] = i THEN 1 ELSE s.open[e]]
<1>2. s \in States /\ s.st[p] = "ready"
  BY DEF Good, PipeCall, Runs
<1>3. r \in Free(p) /\ w \in Free(p) \ {r}
  BY TwoFree DEF PipeCall
<1>4. /\ r \in 1..FDS /\ w \in 1..FDS /\ r # w
      /\ s.fds[p][r] = None /\ s.fds[p][w] = None
  BY <1>3 DEF Free
<1>5. s' = [s EXCEPT !.len[i] = 0, !.open[re] = 1, !.open[we] = 1,
                     !.fds[p][r] = re, !.fds[p][w] = we]
  BY <1>1
<1>6. re \in End /\ we \in End /\ re # we /\ re[1] = i /\ we[1] = i
  BY DEF End, Side
<1>7. \A e \in End : e[1] = i <=> e = re \/ e = we
  BY DEF End, Side
<1> HIDE DEF r, w, re, we
<1>8. /\ s.fds[p] \in [1..FDS -> End \cup {None}] /\ s.open \in [End -> 0..1]
      /\ s.len \in [PipeId -> 0..RING_SIZE] /\ s.fds \in [Proc -> [1..FDS -> End \cup {None}]]
  BY <1>2 DEF States
<1>9. [[s.open EXCEPT ![re] = 1] EXCEPT ![we] = 1] = open
  BY <1>6, <1>7, <1>8
<1>10. [[s.fds EXCEPT ![p][r] = re] EXCEPT ![p][w] = we] = fds
  BY ZenonT(30), <1>4, <1>8
<1>11. fdp \in [1..FDS -> End \cup {None}]
  BY ZenonT(30), <1>6, <1>8
<1>12. /\ lns \in [PipeId -> 0..RING_SIZE] /\ open \in [End -> 0..1]
       /\ fds \in [Proc -> [1..FDS -> End \cup {None}]]
  BY <1>8, <1>11 DEF Sizes
<1>13. /\ fdp[r] = re /\ fdp[w] = we
       /\ \A f \in 1..FDS : f # r /\ f # w => fdp[f] = s.fds[p][f]
  BY <1>4
<1>14. /\ fds[p] = fdp /\ \A q \in Proc \ {p} : fds[q] = s.fds[q]
  BY <1>8
<1>15. /\ \A e \in End : open[e] = IF e = re \/ e = we THEN 1 ELSE s.open[e]
       /\ \A j \in PipeId \ {i} : lns[j] = s.len[j]
  BY <1>7, <1>8
<1>16. /\ s'.len = lns /\ s'.open = open /\ s'.fds = fds
       /\ s'.call = s.call /\ s'.st = s.st /\ s'.killed = s.killed
       /\ s' \in States
  <2>1. s' = [s EXCEPT !.len = lns, !.open = open, !.fds = fds]
    BY ZenonT(30), <1>2, <1>5, <1>9, <1>10 DEF States
  <2> HIDE DEF lns, open, fds
  <2> QED BY ZenonT(30), <1>2, <1>12, <2>1 DEF States
<1> HIDE DEF lns, open, fds, fdp
<1>17. re # None /\ we # None
  BY <1>6 DEF Sizes
<1>18. \A e \in End : Held(s', e) <=> Held(s, e) \/ e = re \/ e = we
  <2> SUFFICES ASSUME NEW e \in End
               PROVE  Held(s', e) <=> Held(s, e) \/ e = re \/ e = we
    OBVIOUS
  <2>1. e # None
    BY DEF Sizes
  <2>2. \A q \in Proc \ {p} : HasEnd(s', q, e) <=> HasEnd(s, q, e)
    BY <1>14, <1>16 DEF HasEnd
  <2>3. HasEnd(s', p, e) <=> HasEnd(s, p, e) \/ e = re \/ e = we
    BY <1>4, <1>13, <1>14, <1>16, <2>1 DEF HasEnd
  <2> QED BY <2>2, <2>3 DEF Held
<1>19. Counted(s')
  BY <1>15, <1>16, <1>18 DEF Good, Counted
<1>20. FreeHasNone(s')
  BY <1>2, <1>14, <1>16 DEF Good, FreeHasNone
<1>21. ASSUME NEW q \in Proc, s.st[q] = "waiting" PROVE HasReason(s', q)
  <2> DEFINE c == s.call[q][1]
  <2>1. HasReason(s, q) /\ s.call[q] # None
    BY <1>21 DEF Good, Reasons, HasReason
  <2>2. c \in End /\ c[1] \in PipeId /\ <<c[1], "read">> \in End /\ <<c[1], "write">> \in End
    BY <1>2, <2>1, CallEnds DEF Side
  <2>3. Held(s, c)
    BY <2>1 DEF Held, HasEnd
  <2>4. s.open[c] = 1
    BY <2>2, <2>3 DEF Good, Counted
  <2>5. c[1] # i
    BY <1>1, <1>7, <2>2, <2>4 DEF re, we
  <2>6. <<c[1], "read">>[1] = c[1] /\ <<c[1], "write">>[1] = c[1]
    OBVIOUS
  <2>7. /\ s'.len[c[1]] = s.len[c[1]]
        /\ s'.open[<<c[1], "read">>] = s.open[<<c[1], "read">>]
        /\ s'.open[<<c[1], "write">>] = s.open[<<c[1], "write">>]
    BY <1>7, <1>15, <1>16, <2>2, <2>5, <2>6
  <2> QED BY <1>16, <2>1, <2>7 DEF HasReason, NothingToDo
<1>22. Reasons(s')
  BY <1>16, <1>21 DEF Reasons
<1> QED BY <1>16, <1>19, <1>20, <1>22 DEF Good

(* What an fd has. *)
LEMMA FdTypes ==
    ASSUME NEW x \in States
    PROVE  /\ x.fds \in [Proc -> [1..FDS -> End \cup {None}]]
           /\ \A p \in Proc : x.fds[p] \in [1..FDS -> End \cup {None}]
           /\ \A p \in Proc, f \in 1..FDS : x.fds[p][f] # None => x.fds[p][f] \in End
<1>1. x.fds \in [Proc -> [1..FDS -> End \cup {None}]]
  BY DEF States
<1>2. \A p \in Proc : x.fds[p] \in [1..FDS -> End \cup {None}]
  BY <1>1
<1>3. ASSUME NEW p \in Proc, NEW f \in 1..FDS PROVE x.fds[p][f] \in End \cup {None}
  BY ZenonT(30), <1>2
<1> QED BY <1>1, <1>2, <1>3

(* A read or write begins: the call has an end that an fd has. *)
LEMMA CallKeeps ==
    ASSUME Sizes, Good(s), NEW p \in Proc, NEW f \in 1..FDS, NEW n \in 1..RING_SIZE, Call(p, f, n)
    PROVE  Good(s')
<1> DEFINE e0 == s.fds[p][f]
           c == <<e0, n>>
           x == [s EXCEPT !.call[p] = c]
<1>1. s \in States /\ s.st[p] = "ready" /\ s.call[p] = None
  BY DEF Good, Call, Runs
<1>2. e0 \in End
  BY <1>1, FdTypes DEF Call
<1>3. c \in End \X (1..RING_SIZE) /\ c # None /\ c[1] = e0
  <2>1. c \in End \X (1..RING_SIZE) /\ c[1] = e0
    BY <1>2
  <2> QED BY <2>1 DEF Sizes
<1> HIDE DEF c
<1>4. /\ x.call = [s.call EXCEPT ![p] = c]
      /\ x.len = s.len /\ x.open = s.open /\ x.fds = s.fds /\ x.st = s.st
      /\ x.killed = s.killed
      /\ x \in States
  BY ZenonT(30), <1>1, <1>3 DEF States
<1>5. s' = Transfer(x, p)
  BY DEF Call, c
<1> HIDE DEF x
<1>6. \A q \in Proc : x.call[q] = IF q = p THEN c ELSE s.call[q]
  BY <1>1, <1>4 DEF States
<1>7. \A e \in End : Held(x, e) <=> Held(s, e)
  <2> SUFFICES ASSUME NEW e \in End PROVE Held(x, e) <=> Held(s, e)
    OBVIOUS
  <2>1. \A q \in Proc : HasEnd(x, q, e) <=> HasEnd(s, q, e)
    BY <1>1, <1>3, <1>4, <1>6 DEF HasEnd
  <2> QED BY <2>1 DEF Held
<1>8. Counted(x)
  BY <1>4, <1>7 DEF Good, Counted
<1>9. Reasons(x)
  BY <1>1, <1>4, <1>6 DEF Good, Reasons, HasReason, NothingToDo
<1>10. FreeHasNone(x)
  BY <1>1, <1>4, <1>6 DEF Good, FreeHasNone
<1>11. Good(x) /\ x.call[p] # None /\ x.st[p] = "ready"
  BY <1>1, <1>3, <1>4, <1>6, <1>8, <1>9, <1>10 DEF Good
<1> QED BY <1>5, <1>11, TransferKeeps

(* A process that was woken makes its call again. *)
LEMMA ResumeKeeps ==
    ASSUME Sizes, Good(s), NEW p \in Proc, Resume(p) PROVE Good(s')
BY TransferKeeps DEF Resume

(* close drops the reference of one fd. *)
LEMMA CloseKeeps ==
    ASSUME Sizes, Good(s), NEW p \in Proc, NEW f \in 1..FDS, Close(p, f) PROVE Good(s')
<1> DEFINE end == s.fds[p][f]
           fdp == [s.fds[p] EXCEPT ![f] = None]
           fds == [s.fds EXCEPT ![p] = fdp]
           y == [s EXCEPT !.fds[p][f] = None]
<1>1. s \in States /\ s.st[p] = "ready" /\ end # None
  BY DEF Good, Close, Runs
<1>2. /\ end \in End /\ s.fds[p] \in [1..FDS -> End \cup {None}]
      /\ s.fds \in [Proc -> [1..FDS -> End \cup {None}]]
  BY <1>1, FdTypes
<1>3. fdp \in [1..FDS -> End \cup {None}] /\ fds \in [Proc -> [1..FDS -> End \cup {None}]]
  BY <1>2
<1>4. /\ \A g \in 1..FDS : fdp[g] = IF g = f THEN None ELSE s.fds[p][g]
      /\ fds[p] = fdp /\ \A q \in Proc \ {p} : fds[q] = s.fds[q]
  BY ZenonT(30), <1>2
<1>5. y = [s EXCEPT !.fds = fds]
  BY <1>1 DEF States
<1>6. s' = Release(y, {end})
  BY DEF Close
<1> HIDE DEF fdp, fds, y
<1>7. /\ y.fds = fds /\ y.len = s.len /\ y.open = s.open /\ y.call = s.call /\ y.st = s.st
      /\ y.killed = s.killed
      /\ y \in States
  BY ZenonT(30), <1>1, <1>3, <1>5 DEF States
<1>8. \A e \in End : Held(s, e) <=> Held(y, e) \/ e = end
  <2> SUFFICES ASSUME NEW e \in End PROVE Held(s, e) <=> Held(y, e) \/ e = end
    OBVIOUS
  <2>1. e # None
    BY DEF Sizes
  <2>2. \A q \in Proc \ {p} : HasEnd(y, q, e) <=> HasEnd(s, q, e)
    BY <1>4, <1>7 DEF HasEnd
  <2>3. HasEnd(s, p, e) <=> HasEnd(y, p, e) \/ e = end
    BY <1>4, <1>7, <2>1 DEF HasEnd
  <2> QED BY <2>2, <2>3 DEF Held
<1>9. \A e \in End : y.open[e] = IF Held(y, e) \/ e \in {end} THEN 1 ELSE 0
  BY <1>7, <1>8 DEF Good, Counted
<1>10. Reasons(y)
  BY <1>7 DEF Good, Reasons, HasReason, NothingToDo
<1>11. FreeHasNone(y)
  BY <1>1, <1>4, <1>7 DEF Good, FreeHasNone
<1> QED BY <1>2, <1>6, <1>7, <1>9, <1>10, <1>11, ReleaseKeeps

(* The reasons last as long as the pipes, the calls and the marks of those *)
(* who wait do.                                                            *)
LEMMA ReasonsLast ==
    ASSUME NEW x, NEW y, Reasons(x), y.len = x.len, y.open = x.open, y.call = x.call,
           \A p \in Proc : y.st[p] = "waiting" => x.st[p] = "waiting" /\ y.killed[p] = x.killed[p]
    PROVE  Reasons(y)
<1>1. ASSUME NEW p \in Proc, HasReason(x, p), y.killed[p] = x.killed[p] PROVE HasReason(y, p)
  BY <1>1 DEF HasReason, NothingToDo
<1> QED BY <1>1 DEF Reasons

(* A child has ends that its parent has. *)
LEMMA SpawnKeeps ==
    ASSUME Sizes, Good(s), NEW p \in Proc, NEW q \in Proc, Spawn(p, q) PROVE Good(s')
<1>1. PICK maps \in [1..FDS -> 0..FDS] :
        /\ \A f \in 1..FDS : maps[f] # 0 => s.fds[p][maps[f]] # None
        /\ s' = [s EXCEPT !.st[q] = "ready",
                          !.fds[q] = [f \in 1..FDS |-> IF maps[f] = 0 THEN None
                                                       ELSE s.fds[p][maps[f]]]]
  BY ZenonT(30) DEF Spawn
<1> DEFINE fdq == [f \in 1..FDS |-> IF maps[f] = 0 THEN None ELSE s.fds[p][maps[f]]]
<1>2. s \in States /\ s.st[q] = "free" /\ s.st[p] = "ready" /\ p # q
  BY DEF Good, Spawn, Runs
<1>3. \A f \in 1..FDS : maps[f] # 0 => maps[f] \in 1..FDS
  BY DEF Sizes
<1>4. fdq \in [1..FDS -> End \cup {None}]
  <2>1. s.fds[p] \in [1..FDS -> End \cup {None}]
    BY <1>2, FdTypes
  <2>2. \A f \in 1..FDS : maps[f] # 0 => s.fds[p][maps[f]] \in End \cup {None}
    BY ZenonT(30), <1>3, <2>1
  <2> QED BY <2>2
<1>5. \A f \in 1..FDS : fdq[f] = None \/ \E g \in 1..FDS : fdq[f] = s.fds[p][g]
  BY <1>3
<1>6. s' = [s EXCEPT !.st[q] = "ready", !.fds[q] = fdq]
  BY <1>1
<1> HIDE DEF fdq
<1>7. /\ s'.fds = [s.fds EXCEPT ![q] = fdq] /\ s'.st = [s.st EXCEPT ![q] = "ready"]
      /\ s'.len = s.len /\ s'.open = s.open /\ s'.call = s.call /\ s'.killed = s.killed
      /\ s' \in States
  BY ZenonT(30), <1>2, <1>4, <1>6 DEF States
<1>8. /\ \A r \in Proc : s'.st[r] = IF r = q THEN "ready" ELSE s.st[r]
      /\ \A r \in Proc : s'.fds[r] = IF r = q THEN fdq ELSE s.fds[r]
  BY <1>2, <1>7 DEF States
<1>9. s.call[q] = None /\ \A f \in 1..FDS : s.fds[q][f] = None
  BY <1>2 DEF Good, FreeHasNone
<1>10. \A e \in End : Held(s', e) <=> Held(s, e)
  <2> SUFFICES ASSUME NEW e \in End PROVE Held(s', e) <=> Held(s, e)
    OBVIOUS
  <2>1. e # None
    BY DEF Sizes
  <2>2. \A r \in Proc \ {q} : HasEnd(s', r, e) <=> HasEnd(s, r, e)
    BY <1>7, <1>8 DEF HasEnd
  <2>3. HasEnd(s', q, e) => HasEnd(s, p, e)
    BY <1>5, <1>7, <1>8, <1>9, <2>1 DEF HasEnd
  <2>4. ~HasEnd(s, q, e)
    BY <1>9, <2>1 DEF HasEnd
  <2> QED BY <2>2, <2>3, <2>4 DEF Held
<1>11. Counted(s')
  BY <1>7, <1>10 DEF Good, Counted
<1>12. Reasons(s')
  BY <1>7, <1>8, ReasonsLast DEF Good
<1>13. FreeHasNone(s')
  BY <1>7, <1>8 DEF Good, FreeHasNone
<1> QED BY <1>7, <1>11, <1>12, <1>13 DEF Good

(* A process without files is there. *)
LEMMA StartKeeps ==
    ASSUME Sizes, Good(s), NEW q \in Proc, Start(q) PROVE Good(s')
<1>1. s \in States /\ s.st[q] = "free"
  BY DEF Good, Start
<1>2. /\ s'.st = [s.st EXCEPT ![q] = "ready"]
      /\ s'.len = s.len /\ s'.open = s.open /\ s'.fds = s.fds /\ s'.call = s.call
      /\ s'.killed = s.killed
      /\ s' \in States
  BY ZenonT(30), <1>1 DEF Start, States
<1>3. \A r \in Proc : s'.st[r] = IF r = q THEN "ready" ELSE s.st[r]
  BY <1>1, <1>2 DEF States
<1>4. Counted(s')
  BY <1>2 DEF Good, Counted, Held, HasEnd
<1>5. Reasons(s')
  BY <1>2, <1>3, ReasonsLast DEF Good
<1>6. FreeHasNone(s')
  BY <1>2, <1>3 DEF Good, FreeHasNone
<1> QED BY <1>2, <1>4, <1>5, <1>6 DEF Good

(* A process that is killed waits no longer. *)
LEMMA KillKeeps ==
    ASSUME Sizes, Good(s), NEW p \in Proc, Kill(p) PROVE Good(s')
<1>1. s \in States /\ s.st[p] # "free"
  BY DEF Good, Kill
<1>2. /\ s'.st = [s.st EXCEPT ![p] = "ready"] /\ s'.killed = [s.killed EXCEPT ![p] = TRUE]
      /\ s'.len = s.len /\ s'.open = s.open /\ s'.fds = s.fds /\ s'.call = s.call
  BY <1>1 DEF Kill, States
<1>3. s' \in States
  BY ZenonT(30), <1>1 DEF Kill, States
<1>4. /\ \A r \in Proc : s'.st[r] = IF r = p THEN "ready" ELSE s.st[r]
      /\ \A r \in Proc \ {p} : s'.killed[r] = s.killed[r]
  BY <1>1, <1>2 DEF States
<1>5. Counted(s')
  BY <1>2 DEF Good, Counted, Held, HasEnd
<1>6. Reasons(s')
  BY <1>2, <1>4, ReasonsLast DEF Good
<1>7. FreeHasNone(s')
  BY <1>1, <1>2, <1>4 DEF Good, FreeHasNone
<1> QED BY <1>3, <1>5, <1>6, <1>7 DEF Good

(* A process that ends drops the references of all its fds. *)
LEMMA EndProcessKeeps ==
    ASSUME Sizes, Good(s), NEW p \in Proc, EndProcess(p) PROVE Good(s')
<1> DEFINE none == [f \in 1..FDS |-> None]
           y == [s EXCEPT !.st[p] = "free", !.killed[p] = FALSE, !.fds[p] = none]
           ends == EndsOf(s, p)
<1>1. s \in States /\ s.st[p] = "ready" /\ s.call[p] = None
  BY DEF Good, EndProcess
<1>2. none \in [1..FDS -> End \cup {None}] /\ \A f \in 1..FDS : none[f] = None
  OBVIOUS
<1>3. s' = Release(y, ends)
  BY DEF EndProcess
<1> HIDE DEF none
<1>4. /\ y.st = [s.st EXCEPT ![p] = "free"] /\ y.killed = [s.killed EXCEPT ![p] = FALSE]
      /\ y.fds = [s.fds EXCEPT ![p] = none]
      /\ y.len = s.len /\ y.open = s.open /\ y.call = s.call
  BY <1>1 DEF States
<1>5. y \in States
  BY ZenonT(30), <1>1, <1>2 DEF States
<1> HIDE DEF y
<1>6. /\ \A r \in Proc : y.st[r] = IF r = p THEN "free" ELSE s.st[r]
      /\ \A r \in Proc : y.fds[r] = IF r = p THEN none ELSE s.fds[r]
      /\ ~y.killed[p] /\ \A r \in Proc \ {p} : y.killed[r] = s.killed[r]
  BY <1>1, <1>4 DEF States
<1>7. \A e \in End : Held(s, e) <=> Held(y, e) \/ e \in ends
  <2> SUFFICES ASSUME NEW e \in End PROVE Held(s, e) <=> Held(y, e) \/ e \in ends
    OBVIOUS
  <2>1. e # None
    BY DEF Sizes
  <2>2. \A r \in Proc \ {p} : HasEnd(y, r, e) <=> HasEnd(s, r, e)
    BY <1>4, <1>6 DEF HasEnd
  <2>3. ~HasEnd(y, p, e)
    BY ZenonT(30), <1>1, <1>2, <1>4, <1>6, <2>1 DEF HasEnd
  <2> QED BY <2>2, <2>3 DEF Held, EndsOf
<1>8. \A e \in End : y.open[e] = IF Held(y, e) \/ e \in ends THEN 1 ELSE 0
  BY <1>4, <1>7 DEF Good, Counted
<1>9. Reasons(y)
  BY <1>4, <1>6, ReasonsLast DEF Good
<1>10. FreeHasNone(y)
  <2>1. y.call[p] = None /\ ~y.killed[p] /\ \A f \in 1..FDS : y.fds[p][f] = None
    BY ZenonT(30), <1>1, <1>2, <1>4, <1>6
  <2>2. \A r \in Proc \ {p} : y.st[r] = s.st[r] /\ y.fds[r] = s.fds[r] /\ y.call[r] = s.call[r]
                              /\ y.killed[r] = s.killed[r]
    BY <1>4, <1>6
  <2> QED BY <2>1, <2>2 DEF Good, FreeHasNone
<1>11. ends \in SUBSET End
  BY DEF EndsOf
<1> HIDE DEF ends
<1> QED BY <1>3, <1>5, <1>8, <1>9, <1>10, <1>11, ReleaseKeeps

-----------------------------------------------------------------------------
(***************************************************************************)
(* The inductive invariant: the references and the counts of open ends     *)
(* agree, who waits has a reason, and a process that is not there has no   *)
(* files.                                                                  *)
(***************************************************************************)
PInv == Good(s)

(* No process is there, and no pipe. *)
LEMMA InitGood ==
    ASSUME Sizes, PipesInit PROVE Good(s)
<1>1. s \in States
  BY DEF PipesInit, States, Sizes
<1>2. Counted(s)
  <2> SUFFICES ASSUME NEW e \in End PROVE s.open[e] = 0 /\ ~Held(s, e)
    BY DEF Counted
  <2>1. e # None
    BY DEF Sizes
  <2> QED BY <2>1 DEF PipesInit, Held, HasEnd
<1>3. Reasons(s) /\ FreeHasNone(s)
  BY DEF PipesInit, Reasons, FreeHasNone
<1> QED BY <1>1, <1>2, <1>3 DEF Good

(* A step of any process keeps it. *)
LEMMA NextKeeps ==
    ASSUME Sizes, Good(s), PipesNext PROVE Good(s')
<1>1. PICK p \in Proc :
        \/ PipeCall(p) \/ Resume(p) \/ Start(p) \/ Kill(p) \/ EndProcess(p)
        \/ \E f \in 1..FDS : Close(p, f) \/ \E n \in 1..RING_SIZE : Call(p, f, n)
        \/ \E q \in Proc : Spawn(p, q)
  BY DEF PipesNext
<1>2. CASE PipeCall(p)
  BY <1>2, PipeCallKeeps
<1>3. CASE Resume(p)
  BY <1>3, ResumeKeeps
<1>4. CASE Start(p)
  BY <1>4, StartKeeps
<1>5. CASE Kill(p)
  BY <1>5, KillKeeps
<1>6. CASE EndProcess(p)
  BY <1>6, EndProcessKeeps
<1>7. CASE \E f \in 1..FDS : Close(p, f)
  BY <1>7, CloseKeeps
<1>8. CASE \E f \in 1..FDS, n \in 1..RING_SIZE : Call(p, f, n)
  BY <1>8, CallKeeps
<1>9. CASE \E q \in Proc : Spawn(p, q)
  BY <1>9, SpawnKeeps
<1> QED BY <1>1, <1>2, <1>3, <1>4, <1>5, <1>6, <1>7, <1>8, <1>9

(***************************************************************************)
(* For every number of processes, pipes and fds and every size of a ring:  *)
(* an end of a pipe is open exactly while an fd or a call has it, and      *)
(* nobody waits on a pipe without a reason (kernel/src/pipe.rs and         *)
(* syscall/pipes.rs).                                                      *)
(***************************************************************************)
THEOREM PipesStaySound == ASSUME Sizes PROVE PipesSpec => []PipesSound
<1>1. PipesInit => PInv
  BY InitGood DEF PInv
<1>2. PInv /\ [PipesNext]_s => PInv'
  BY NextKeeps DEF PInv
<1>3. PInv => PipesSound
  <2> SUFFICES ASSUME Good(s) PROVE EndsCounted /\ WaitsForAReason
    BY DEF PipesSound, PInv
  <2>1. EndsCounted
    BY DEF Good, Counted, EndsCounted, PipesTyped
  <2>2. WaitsForAReason
    <3>1. \A p \in Proc : s.st[p] = "waiting" => ~s.killed[p] /\ NothingToDo(s, p)
      BY DEF Good, Reasons, HasReason
    <3> QED BY <3>1, Zenon DEF NothingToDo, WaitsForAReason
  <2> QED BY <2>1, <2>2
<1> QED BY <1>1, <1>2, <1>3, PTL DEF PipesSpec
=============================================================================
