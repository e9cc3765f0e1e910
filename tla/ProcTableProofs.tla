-------------------------- MODULE ProcTableProofs --------------------------
(***************************************************************************)
(* What each operation on the process table keeps, first of the table      *)
(* itself, then of families: parents and their children, and the groups    *)
(* that share the console.  Lemmas for ProcessesProofs.                    *)
(***************************************************************************)
EXTENDS ProcTable, WellFoundedInduction, TLAPS

(***************************************************************************)
(* Counting pids.  The lemmas assume these facts, which ProcessesProofs    *)
(* takes last, from the theorems on finite sets (CountingHolds): they do   *)
(* not use those theorems themselves.                                      *)
(***************************************************************************)
Counting ==
    /\ Cardinality({}) = 0
    /\ \A S \in SUBSET Pid : Cardinality(S) \in Nat /\ Enumerations(S) # {}
    /\ \A S \in SUBSET Pid : \A x \in Pid \ S :
          Cardinality(S \cup {x}) = Cardinality(S) + 1
    /\ \A S \in SUBSET Pid : \A T \in SUBSET S : Cardinality(T) <= Cardinality(S)
    /\ \A S, T \in SUBSET Pid :
          Surjection(S, T) # {} => Cardinality(T) <= Cardinality(S)
    /\ \A c \in Seq(Pid) : IsInjective(c) => Cardinality(Range(c)) = Len(c)

-----------------------------------------------------------------------------
(* Sequences: their shape, and what joining, cutting and widening gives. *)
LEMMA SeqShape ==
    ASSUME NEW S, NEW a \in Seq(S)
    PROVE  /\ Len(a) \in Nat /\ (a # <<>> => Len(a) > 0)
           /\ DOMAIN a = 1..Len(a) /\ a \in [1..Len(a) -> S]
  OBVIOUS

LEMMA SeqWidens ==
    ASSUME NEW S, NEW T, S \subseteq T, NEW a \in Seq(S) PROVE a \in Seq(T)
  OBVIOUS

LEMMA SeqOfAll ==
    ASSUME NEW S, NEW n \in Nat, NEW a \in [1..n -> S]
    PROVE  a \in Seq(S) /\ Len(a) = n
  OBVIOUS

LEMMA SeqJoins ==
    ASSUME NEW S, NEW a \in Seq(S), NEW b \in Seq(S)
    PROVE  /\ a \o b \in Seq(S) /\ Len(a \o b) = Len(a) + Len(b)
           /\ \A i \in 1..(Len(a) + Len(b)) :
                 (a \o b)[i] = IF i <= Len(a) THEN a[i] ELSE b[i - Len(a)]
  OBVIOUS

LEMMA SeqTail ==
    ASSUME NEW S, NEW a \in Seq(S), a # <<>>
    PROVE  /\ Head(a) \in S /\ Head(a) = a[1]
           /\ Tail(a) \in Seq(S) /\ Len(Tail(a)) = Len(a) - 1
           /\ \A i \in 1..(Len(a) - 1) : Tail(a)[i] = a[i + 1]
  OBVIOUS

LEMMA SeqAppends ==
    ASSUME NEW S, NEW a \in Seq(S), NEW x \in S
    PROVE  /\ Append(a, x) \in Seq(S) /\ Append(a, x) # <<>>
           /\ Len(Append(a, x)) = Len(a) + 1 /\ Append(a, x)[Len(a) + 1] = x
           /\ \A i \in 1..Len(a) : Append(a, x)[i] = a[i]
           /\ Append(a, x) = a \o <<x>>
  OBVIOUS

(* The elements of a set of pids in an order are each of them once. *)
LEMMA InOrderEnumerates ==
    ASSUME Counting, NEW S \in SUBSET Pid, NEW rank
    PROVE  /\ InOrder(S, rank) \in Seq(S)
           /\ IsInjective(InOrder(S, rank))
           /\ Range(InOrder(S, rank)) = S
<1> DEFINE n == Cardinality(S)
           all == Enumerations(S)
           sorted == {s \in all : Ranked(s, rank)}
           from == IF sorted = {} THEN all ELSE sorted
<1>1. n \in Nat /\ all # {}
  BY DEF Counting
<1>2. from # {} /\ from \subseteq all
  BY <1>1
<1>3. InOrder(S, rank) \in all
  BY <1>2 DEF InOrder
<1>4. /\ InOrder(S, rank) \in [1..n -> S]
      /\ IsInjective(InOrder(S, rank))
      /\ \A x \in S : \E i \in 1..n : InOrder(S, rank)[i] = x
  BY <1>3 DEF Enumerations, Bijection, Injection, Surjection
<1>5. InOrder(S, rank) \in Seq(S)
  BY <1>1, <1>4, SeqOfAll
<1>6. Range(InOrder(S, rank)) = S
  BY <1>4 DEF Range
<1> QED
  BY <1>4, <1>5, <1>6

(* Sequences without repetition, and their elements. *)
LEMMA ConcatDistinct ==
    ASSUME NEW S, NEW a \in Seq(S), NEW b \in Seq(S),
           IsInjective(a), IsInjective(b), Range(a) \cap Range(b) = {}
    PROVE  /\ a \o b \in Seq(S)
           /\ IsInjective(a \o b)
           /\ Range(a \o b) = Range(a) \cup Range(b)
<1> DEFINE c == a \o b
<1>1. /\ c \in Seq(S)
      /\ Len(c) = Len(a) + Len(b)
      /\ \A i \in 1..Len(a) + Len(b) :
            c[i] = IF i <= Len(a) THEN a[i] ELSE b[i - Len(a)]
  BY SeqJoins
<1>2. /\ DOMAIN a = 1..Len(a) /\ DOMAIN b = 1..Len(b)
      /\ DOMAIN c = 1..(Len(a) + Len(b))
      /\ Len(a) \in Nat /\ Len(b) \in Nat
  BY <1>1, SeqShape
<1>3. Range(c) = Range(a) \cup Range(b)
  <2>1. ASSUME NEW i \in DOMAIN c PROVE c[i] \in Range(a) \cup Range(b)
    BY <1>1, <1>2 DEF Range
  <2>2. ASSUME NEW i \in DOMAIN a PROVE i \in DOMAIN c /\ c[i] = a[i]
    BY <1>1, <1>2
  <2>3. ASSUME NEW i \in DOMAIN b
        PROVE  i + Len(a) \in DOMAIN c /\ c[i + Len(a)] = b[i]
    BY <1>1, <1>2
  <2>4. ASSUME NEW x \in Range(c) PROVE x \in Range(a) \cup Range(b)
    BY <2>1 DEF Range
  <2>5. ASSUME NEW x \in Range(a) PROVE x \in Range(c)
    BY <2>2 DEF Range
  <2>6. ASSUME NEW x \in Range(b) PROVE x \in Range(c)
    <3>1. PICK i \in DOMAIN b : b[i] = x
      BY DEF Range
    <3> QED BY ZenonT(30), <2>3, <3>1 DEF Range
  <2> QED BY <2>4, <2>5, <2>6
<1>4. ASSUME NEW i \in DOMAIN c, NEW j \in DOMAIN c, c[i] = c[j]
      PROVE  i = j
  <2>1. CASE i <= Len(a) /\ j <= Len(a)
    BY <1>1, <1>2, <1>4, <2>1 DEF IsInjective
  <2>2. CASE i > Len(a) /\ j > Len(a)
    <3>1. i - Len(a) \in DOMAIN b /\ j - Len(a) \in DOMAIN b
      BY <1>2, <2>2
    <3>2. b[i - Len(a)] = b[j - Len(a)]
      BY <1>1, <1>2, <1>4, <2>2
    <3> QED
      BY <1>2, <3>1, <3>2 DEF IsInjective
  <2>3. CASE i <= Len(a) /\ j > Len(a)
    <3>1. c[i] \in Range(a) /\ c[j] \in Range(b)
      <4>1. i \in DOMAIN a /\ j - Len(a) \in DOMAIN b
        BY <1>2, <2>3
      <4> QED BY <1>1, <1>2, <2>3, <4>1 DEF Range
    <3> QED BY <1>4, <3>1
  <2>4. CASE i > Len(a) /\ j <= Len(a)
    <3>1. c[j] \in Range(a) /\ c[i] \in Range(b)
      <4>1. j \in DOMAIN a /\ i - Len(a) \in DOMAIN b
        BY <1>2, <2>4
      <4> QED BY <1>1, <1>2, <2>4, <4>1 DEF Range
    <3> QED BY <1>4, <3>1
  <2> QED BY <1>2, <2>1, <2>2, <2>3, <2>4
<1> QED BY <1>1, <1>3, <1>4 DEF IsInjective

(* A new element at the end of a sequence without repetition. *)
LEMMA AppendDistinct ==
    ASSUME NEW S, NEW a \in Seq(S), NEW x \in S, IsInjective(a), x \notin Range(a)
    PROVE  /\ Append(a, x) \in Seq(S)
           /\ IsInjective(Append(a, x))
           /\ Range(Append(a, x)) = Range(a) \cup {x}
<1> DEFINE b == <<x>>
<1>1. b \in Seq(S) /\ IsInjective(b) /\ Range(b) = {x}
  BY DEF IsInjective, Range
<1>2. Append(a, x) = a \o b
  BY SeqAppends
<1> HIDE DEF b
<1> QED BY <1>1, <1>2, ConcatDistinct

(* A sequence without repetition loses its head, which comes no more. *)
LEMMA TailDistinct ==
    ASSUME NEW S, NEW a \in Seq(S), a # <<>>, IsInjective(a)
    PROVE  /\ Head(a) \in S /\ Head(a) \in Range(a) /\ Tail(a) \in Seq(S)
           /\ IsInjective(Tail(a))
           /\ Range(Tail(a)) = Range(a) \ {Head(a)}
<1>1. /\ Len(a) \in Nat /\ Len(a) > 0 /\ Head(a) \in S /\ Head(a) = a[1]
      /\ Tail(a) \in Seq(S) /\ Len(Tail(a)) = Len(a) - 1
      /\ \A i \in 1 .. Len(Tail(a)) : Tail(a)[i] = a[i + 1]
      /\ DOMAIN a = 1..Len(a) /\ DOMAIN Tail(a) = 1..(Len(a) - 1)
  BY SeqTail, SeqShape
<1>2. IsInjective(Tail(a))
  BY <1>1 DEF IsInjective
<1>3. ASSUME NEW x \in Range(Tail(a)) PROVE x \in Range(a) /\ x # Head(a)
  BY <1>1 DEF Range, IsInjective
<1>4. ASSUME NEW x \in Range(a), x # Head(a) PROVE x \in Range(Tail(a))
  <2>1. PICK i \in 1..Len(a) : a[i] = x
    BY <1>1 DEF Range
  <2>2. i # 1 /\ i - 1 \in 1..(Len(a) - 1) /\ Tail(a)[i - 1] = x
    BY <1>1, <1>4, <2>1
  <2> QED BY ZenonT(30), <1>1, <2>2 DEF Range
<1>5. Head(a) \in Range(a)
  BY <1>1 DEF Range
<1> QED BY <1>1, <1>2, <1>3, <1>4, <1>5

(* Position finds an element that is there. *)
LEMMA PositionFinds ==
    ASSUME NEW S, NEW c \in Seq(S), NEW x \in Range(c)
    PROVE  Position(c, x) \in 1..Len(c) /\ c[Position(c, x)] = x
<1>1. DOMAIN c = 1..Len(c)
  BY SeqShape
<1>2. \E i \in DOMAIN c : c[i] = x
  BY DEF Range
<1> QED BY <1>1, <1>2 DEF Position

-----------------------------------------------------------------------------
(* The table between two steps, and in the middle of one. *)

(* The run queue has the ready processes, and only the current one runs. *)
Queued(s) == /\ IsInjective(s.ready)
             /\ Range(s.ready) = {p \in Pid : s.st[p] = "Ready"}
             /\ \A p \in Pid : s.st[p] = "Running" => p = s.current

(* No pid from the next on has been used. *)
NextFree(s) == s.next # 0 => \A p \in Pid : p >= s.next => s.st[p] = "Free"

(* The chain of the console's holders: process 1's group, then others, none *)
(* of them twice.                                                           *)
IsChain(c) == c # <<>> /\ Head(c) = INIT /\ IsInjective(c)
Held(s) == IsChain(s.console)

TableOK(s) == s \in Table /\ Queued(s) /\ NextFree(s) /\ Held(s)

(* The queue r is q with others behind. *)
Extends(q, r) == Len(q) <= Len(r) /\ \A i \in 1..Len(q) : r[i] = q[i]

(* w is s after wake-ups, kills and ticks: who was blocked may be ready,   *)
(* behind those who were, and who was marked meanwhile is not blocked and  *)
(* not process 1.                                                          *)
Stirred(s, w) ==
    /\ TableOK(w)
    /\ w.ppid = s.ppid /\ w.pgid = s.pgid /\ w.next = s.next
    /\ w.current = s.current /\ w.console = s.console
    /\ \A p \in Pid : w.st[p] = s.st[p] \/ (s.st[p] \in Blocked /\ w.st[p] = "Ready")
    /\ \A p \in Pid : w.killed[p] => s.killed[p] \/ w.st[p] \notin Blocked
    /\ INIT \in Pid => (w.killed[INIT] => s.killed[INIT])
    /\ \A p \in Pid : s.killed[p] => w.killed[p]
    /\ \A p \in Pid : w.st[p] = "Console" => w.arg[p] = s.arg[p]
    /\ Extends(s.ready, w.ready)

(* An unchanged table counts as stirred. *)
LEMMA StirredReflexive == ASSUME NEW s, TableOK(s) PROVE Stirred(s, s)
<1>1. Len(s.ready) \in Nat
  BY SeqShape DEF TableOK, Table
<1> QED BY <1>1 DEF Stirred, Extends, TableOK, Table

(* Two operations that stir the table stir it together. *)
LEMMA StirredTransitive ==
    ASSUME NEW s, NEW v, NEW w, Stirred(s, v), Stirred(v, w)
    PROVE  TableOK(s) => Stirred(s, w)
<1> HAVE TableOK(s)
<1>1. Len(s.ready) \in Nat /\ Len(v.ready) \in Nat /\ Len(w.ready) \in Nat
  BY SeqShape DEF Stirred, TableOK, Table
<1>2. Extends(s.ready, w.ready)
  BY <1>1 DEF Extends, Stirred
<1>3. ASSUME NEW p \in Pid
      PROVE  /\ w.st[p] = s.st[p] \/ (s.st[p] \in Blocked /\ w.st[p] = "Ready")
             /\ w.killed[p] => s.killed[p] \/ w.st[p] \notin Blocked
             /\ s.killed[p] => w.killed[p]
             /\ w.st[p] = "Console" => w.arg[p] = s.arg[p]
  BY DEF Stirred, Blocked
<1> QED BY <1>2, <1>3 DEF Stirred

(* A wake-up adds who was blocked to the queue. *)
LEMMA WakeStirs ==
    ASSUME Counting, NEW s, TableOK(s), NEW S \in SUBSET Pid
    PROVE  Stirred(s, Wake(s, S))
<1> DEFINE woken == {p \in S : s.st[p] \in Blocked}
           row == InOrder(woken, [p \in woken |-> p])
           w == Wake(s, S)
<1>1. s \in Table /\ s.ready \in Seq(Pid)
  BY DEF TableOK, Table
<1>2. row \in Seq(Pid) /\ IsInjective(row) /\ Range(row) = woken
  <2>1. woken \in SUBSET Pid
    OBVIOUS
  <2>2. row \in Seq(woken) /\ IsInjective(row) /\ Range(row) = woken
    BY ZenonT(30), <2>1, InOrderEnumerates
  <2> QED BY <2>1, <2>2, SeqWidens
<1>3. Range(s.ready) \cap woken = {}
  BY DEF TableOK, Queued, Blocked
<1>0. IsInjective(s.ready)
  BY DEF TableOK, Queued
<1>4. /\ s.ready \o row \in Seq(Pid)
      /\ IsInjective(s.ready \o row)
      /\ Range(s.ready \o row) = Range(s.ready) \cup woken
  <2> HIDE DEF row, woken
  <2> QED BY <1>0, <1>1, <1>2, <1>3, ConcatDistinct
<1>5. /\ w.st = [p \in Pid |-> IF p \in woken THEN "Ready" ELSE s.st[p]]
      /\ w.arg = [p \in Pid |-> IF p \in woken THEN 0 ELSE s.arg[p]]
      /\ w.ready = s.ready \o row
      /\ w.ppid = s.ppid /\ w.pgid = s.pgid /\ w.killed = s.killed
      /\ w.next = s.next /\ w.current = s.current /\ w.slice = s.slice
      /\ w.console = s.console
      /\ w \in Table
  <2> HIDE DEF row
  <2> QED BY ZenonT(30), <1>1, <1>4 DEF Wake, Table, States, row
<1>8. Extends(s.ready, w.ready)
  <2> HIDE DEF row, w
  <2>1. Len(s.ready) \in Nat /\ Len(row) \in Nat
    BY <1>1, <1>2, SeqShape
  <2>2. /\ Len(s.ready \o row) = Len(s.ready) + Len(row)
        /\ \A i \in 1..Len(s.ready) + Len(row) :
              (s.ready \o row)[i] = IF i <= Len(s.ready) THEN s.ready[i]
                                   ELSE row[i - Len(s.ready)]
    BY <1>1, <1>2, SeqJoins
  <2> QED BY <1>5, <2>1, <2>2 DEF Extends
<1> HIDE DEF row, w
<1>6. Queued(w)
  BY <1>3, <1>4, <1>5 DEF TableOK, Queued, Table, Blocked
<1>7. NextFree(w) /\ Held(w)
  BY <1>5 DEF TableOK, NextFree, Held, Blocked, Table
<1> QED BY SMTT(60), <1>5, <1>6, <1>7, <1>8 DEF Stirred, TableOK, w, Table, Blocked

(* Table::wake_all, wake_waiting and wake_sleepers only make blocked       *)
(* processes ready.                                                        *)
LEMMA WakeOpsStir ==
    ASSUME Counting, NEW s, TableOK(s)
    PROVE  /\ \A why, arg : Stirred(s, WakeAll(s, why, arg))
           /\ \A g : Stirred(s, WakeWaiting(s, g))
           /\ Stirred(s, WakeSleepers(s))
  BY WakeStirs DEF WakeAll, WakeWaiting, WakeSleepers

(* Ticks change due times and the slice alone. *)
LEMMA ElapseStirs == ASSUME NEW s, TableOK(s) PROVE Stirred(s, Elapse(s))
<1> DEFINE arg == [p \in Pid |-> IF s.st[p] = "Sleep" /\ s.arg[p] > 0
                              THEN s.arg[p] - 1 ELSE s.arg[p]]
           w == Elapse(s)
<1>0. arg \in [Pid -> Nat] /\ w = [s EXCEPT !.arg = arg]
  BY DEF TableOK, Table, Elapse
<1>1. /\ w \in Table /\ s \in Table
      /\ w.st = s.st /\ w.ready = s.ready
      /\ w.ppid = s.ppid /\ w.pgid = s.pgid /\ w.killed = s.killed
      /\ w.next = s.next /\ w.current = s.current /\ w.console = s.console
      /\ w.arg = arg
  <2> HIDE DEF arg, w
  <2> QED BY ZenonT(30), <1>0 DEF TableOK, Table
<1> HIDE DEF w
<1>2. TableOK(w)
  BY <1>1 DEF TableOK, Queued, NextFree, Held
<1>3. Extends(s.ready, w.ready)
  BY <1>1, SeqShape DEF Extends, Table
<1> QED BY <1>1, <1>2, <1>3 DEF Stirred, w

(* Table::tick changes no more than the slice that is left. *)
LEMMA TickStirs ==
    ASSUME NEW s, TableOK(s), NEW n \in Nat PROVE Stirred(s, Tick(s, n))
<1> DEFINE slice == IF n < s.slice THEN s.slice - n
                    ELSE SLICE - ((n - s.slice) % SLICE)
           w == Tick(s, n)
<1>1. slice \in 1..SLICE
  <2>1. s.slice \in 1..SLICE /\ SLICE \in Nat \ {0}
    BY SliceAssumption DEF TableOK, Table
  <2>2. CASE n < s.slice
    BY <2>1, <2>2
  <2>3. CASE n >= s.slice
    <3>1. (n - s.slice) % SLICE \in 0..(SLICE - 1)
      BY <2>1, <2>3
    <3> QED BY <2>1, <2>3, <3>1
  <2> QED BY <2>1, <2>2, <2>3
<1>2. /\ w \in Table /\ s \in Table
      /\ w.st = s.st /\ w.ready = s.ready
      /\ w.ppid = s.ppid /\ w.pgid = s.pgid /\ w.killed = s.killed
      /\ w.next = s.next /\ w.current = s.current /\ w.console = s.console
      /\ w.arg = s.arg
  <2> HIDE DEF slice
  <2>1. w = [s EXCEPT !.slice = slice]
    BY DEF Tick, slice
  <2> QED BY ZenonT(30), <1>1, <2>1 DEF TableOK, Table
<1> HIDE DEF w
<1>3. TableOK(w)
  BY <1>2 DEF TableOK, Queued, NextFree, Held
<1>4. Extends(s.ready, w.ready)
  BY <1>2, SeqShape DEF Extends, Table
<1> QED BY <1>2, <1>3, <1>4 DEF Stirred, w

(* A kill marks processes, of which no blocked one stays blocked. *)
LEMMA MarkStirs ==
    ASSUME Counting, NEW s, TableOK(s), NEW S \in SUBSET Pid, INIT \notin S
    PROVE  /\ Stirred(s, Mark(s, S))
           /\ \A p \in S \cap Alive(s) : Mark(s, S).killed[p]
<1> DEFINE hit == S \cap Alive(s)
           m == [s EXCEPT !.killed = [p \in Pid |-> p \in hit \/ @[p]]]
           w == Mark(s, S)
<1>1. /\ m \in Table /\ s \in Table
      /\ m.killed = [p \in Pid |-> p \in hit \/ s.killed[p]]
      /\ m.st = s.st /\ m.ready = s.ready
      /\ m.ppid = s.ppid /\ m.pgid = s.pgid
      /\ m.next = s.next /\ m.current = s.current /\ m.console = s.console
      /\ m.arg = s.arg
  <2> HIDE DEF hit
  <2> QED BY ZenonT(30) DEF TableOK, Table
<1>2. w = Wake(m, hit)
  BY DEF Mark
<1> HIDE DEF m, w
<1>3. TableOK(m)
  BY <1>1 DEF TableOK, Queued, NextFree, Held
<1>4. Stirred(m, w)
  BY <1>2, <1>3, WakeStirs
<1>5. \A p \in hit : w.st[p] \notin Blocked
  <2>1. w.st = [p \in Pid |-> IF p \in {q \in hit : m.st[q] \in Blocked} THEN "Ready"
                             ELSE m.st[p]]
    BY <1>1, <1>2 DEF Wake, Table
  <2> QED BY <2>1 DEF Blocked
<1>6. \A p \in Pid : m.killed[p] => w.killed[p]
  BY <1>4 DEF Stirred
<1>7. \A p \in hit : w.killed[p]
  BY ZenonT(30), <1>1, <1>6
<1>8. ASSUME NEW p \in Pid
      PROVE  /\ w.killed[p] => s.killed[p] \/ w.st[p] \notin Blocked
             /\ s.killed[p] => w.killed[p]
             /\ p = INIT => (w.killed[p] => s.killed[p])
  <2>1. /\ w.killed[p] => m.killed[p] \/ w.st[p] \notin Blocked
        /\ p = INIT => (w.killed[p] => m.killed[p])
    BY <1>4 DEF Stirred
  <2>2. m.killed[p] => p \in hit \/ s.killed[p]
    BY ZenonT(30), <1>1
  <2>3. s.killed[p] => m.killed[p]
    BY ZenonT(30), <1>1
  <2> QED BY <1>5, <1>6, <2>1, <2>2, <2>3
<1>9. Stirred(s, w)
  <2>1. /\ TableOK(w)
        /\ w.ppid = s.ppid /\ w.pgid = s.pgid /\ w.next = s.next
        /\ w.current = s.current /\ w.console = s.console
        /\ Extends(s.ready, w.ready)
    BY <1>1, <1>4 DEF Stirred
  <2>2. \A p \in Pid : w.st[p] = s.st[p] \/ (s.st[p] \in Blocked /\ w.st[p] = "Ready")
    BY <1>1, <1>4 DEF Stirred
  <2>3. \A p \in Pid : w.st[p] = "Console" => w.arg[p] = s.arg[p]
    BY <1>1, <1>4 DEF Stirred
  <2> QED BY <1>8, <2>1, <2>2, <2>3 DEF Stirred
<1> QED BY <1>7, <1>9 DEF w

(* Table::kill and kill_all_but_init mark and wake, and leave process 1    *)
(* alone.                                                                  *)
LEMMA KillStirs ==
    ASSUME Counting, NEW s, TableOK(s)
    PROVE  /\ \A S \in SUBSET Pid : Stirred(s, Kill(s, S))
           /\ \A S \in SUBSET Pid : INIT \notin S =>
                 \A p \in S \cap Alive(s) : Kill(s, S).killed[p]
           /\ Stirred(s, KillAllButInit(s))
           /\ \A p \in Alive(s) \ {INIT} : KillAllButInit(s).killed[p]
<1>1. Entries(s) \ {INIT} \in SUBSET Pid /\ INIT \notin Entries(s) \ {INIT}
  BY DEF Entries
<1>2. Alive(s) \ {INIT} \subseteq (Entries(s) \ {INIT}) \cap Alive(s)
  BY DEF Alive
<1>3. /\ Stirred(s, KillAllButInit(s))
      /\ \A p \in Alive(s) \ {INIT} : KillAllButInit(s).killed[p]
  BY <1>1, <1>2, MarkStirs DEF KillAllButInit
<1> QED BY <1>3, MarkStirs, StirredReflexive DEF Kill

-----------------------------------------------------------------------------
(* Operations of the running process. *)

(* It blocks. *)
LEMMA BlockOnKeeps ==
    ASSUME NEW s, TableOK(s), s.current # 0,
           s.st[s.current] = "Running", NEW why \in Blocked, NEW n \in Nat
    PROVE  LET w == BlockOn(s, why, n)
           IN  /\ TableOK(w)
               /\ w.st = [s.st EXCEPT ![s.current] = why]
               /\ w.arg = [s.arg EXCEPT ![s.current] = n]
               /\ w.ppid = s.ppid /\ w.pgid = s.pgid /\ w.killed = s.killed
               /\ w.next = s.next /\ w.current = s.current /\ w.console = s.console
               /\ w.ready = s.ready
<1> DEFINE w == BlockOn(s, why, n)
<1>1. s \in Table /\ s.current \in Pid
  BY PidAssumption DEF TableOK, Table, Pid
<1>2. /\ w \in Table
      /\ w.st = [s.st EXCEPT ![s.current] = why]
      /\ w.arg = [s.arg EXCEPT ![s.current] = n]
      /\ w.ppid = s.ppid /\ w.pgid = s.pgid /\ w.killed = s.killed
      /\ w.next = s.next /\ w.current = s.current /\ w.console = s.console
      /\ w.ready = s.ready
  BY ZenonT(30), <1>1 DEF BlockOn, Table, States
<1> HIDE DEF w
<1>4. \A p \in Pid : /\ w.st[p] = "Ready" <=> s.st[p] = "Ready"
                     /\ w.st[p] = "Running" => s.st[p] = "Running"
                     /\ w.st[p] = "Free" <=> s.st[p] = "Free"
  BY SMTT(60), <1>1, <1>2 DEF Table, Blocked
<1>3. TableOK(w)
  <2>1. {p \in Pid : w.st[p] = "Ready"} = {p \in Pid : s.st[p] = "Ready"}
    BY <1>4
  <2> QED BY <1>2, <1>4, <2>1 DEF TableOK, Queued, NextFree, Held
<1> QED BY <1>2, <1>3 DEF w

(* It ends: nothing about its group or its marks changes. *)
LEMMA DeadKeeps ==
    ASSUME NEW s, TableOK(s), NEW pid \in Pid, s.st[pid] = "Running"
    PROVE  LET w == Dead(s, pid)
           IN  /\ TableOK(w)
               /\ w.st = [s.st EXCEPT ![pid] = "Zombie"]
               /\ w.ppid = [c \in Pid |-> IF c \in Children(s, pid) THEN INIT ELSE s.ppid[c]]
               /\ w.pgid = s.pgid /\ w.killed = s.killed
               /\ w.next = s.next /\ w.current = s.current /\ w.console = s.console
               /\ w.ready = s.ready /\ w.arg = [s.arg EXCEPT ![pid] = 0]
<1> DEFINE w == Dead(s, pid)
           ppid == [c \in Pid |-> IF c \in Children(s, pid) THEN INIT ELSE s.ppid[c]]
<1>1. s \in Table /\ ppid \in [Pid -> 0..PIDMAX]
  BY PidAssumption DEF TableOK, Table, INIT
<1>2. /\ w \in Table
      /\ w.st = [s.st EXCEPT ![pid] = "Zombie"]
      /\ w.ppid = ppid /\ w.ready = s.ready /\ w.arg = [s.arg EXCEPT ![pid] = 0]
      /\ w.pgid = s.pgid /\ w.killed = s.killed
      /\ w.next = s.next /\ w.current = s.current /\ w.console = s.console
  <2>1. w = [s EXCEPT !.st[pid] = "Zombie", !.arg[pid] = 0, !.ready = @, !.ppid = ppid]
    BY DEF Dead
  <2> HIDE DEF w, ppid
  <2> QED BY ZenonT(30), <1>1, <2>1 DEF Table, States
<1> HIDE DEF w, ppid
<1>4. \A p \in Pid : /\ w.st[p] = "Ready" <=> s.st[p] = "Ready"
                     /\ w.st[p] = "Running" => s.st[p] = "Running"
                     /\ w.st[p] = "Free" <=> s.st[p] = "Free"
  BY <1>1, <1>2 DEF Table
<1>3. TableOK(w)
  <2>1. {p \in Pid : w.st[p] = "Ready"} = {p \in Pid : s.st[p] = "Ready"}
    BY <1>4
  <2> QED BY <1>2, <1>4, <2>1 DEF TableOK, Queued, NextFree, Held
<1> QED BY <1>2, <1>3 DEF w, ppid

(* Table::end, after the process is marked dead, only passes children on   *)
(* and wakes.                                                              *)
LEMMA EndStirs ==
    ASSUME Counting, NEW s, TableOK(s), NEW pid \in Pid, s.st[pid] = "Running"
    PROVE  Stirred(Dead(s, pid), End(s, pid))
<1> DEFINE dead == Dead(s, pid)
           parent == {p \in {s.ppid[pid]} : InWait(dead, p)}
           orphaned == \E c \in Children(s, pid) : s.st[c] = "Zombie"
           adopter == {p \in {INIT} : orphaned /\ InWait(dead, p)}
<1>1. TableOK(dead)
  BY ZenonT(30), DeadKeeps
<1>2. parent \in SUBSET Pid /\ adopter \in SUBSET Pid
  BY DEF InWait
<1>3. Stirred(dead, Wake(dead, parent))
  BY <1>1, <1>2, WakeStirs
<1>4. Stirred(Wake(dead, parent), Wake(Wake(dead, parent), adopter))
  <2>1. TableOK(Wake(dead, parent))
    BY <1>3 DEF Stirred
  <2> HIDE DEF dead, parent, adopter
  <2> QED BY <1>2, <2>1, WakeStirs
<1>5. End(s, pid) = Wake(Wake(dead, parent), adopter)
  BY DEF End
<1> QED BY <1>1, <1>3, <1>4, <1>5, StirredTransitive

(* Who may have waited for this end is woken: the parent, and process 1 if *)
(* it is left a zombie.                                                    *)
LEMMA EndWakes ==
    ASSUME Counting, NEW s, TableOK(s), INIT \in Pid,
           NEW pid \in Pid, s.st[pid] = "Running"
    PROVE  /\ ~InWait(End(s, pid), s.ppid[pid])
           /\ (\E c \in Children(s, pid) : s.st[c] = "Zombie") => ~InWait(End(s, pid), INIT)
<1> DEFINE dead == Dead(s, pid)
           parent == {p \in {s.ppid[pid]} : InWait(dead, p)}
           orphaned == \E c \in Children(s, pid) : s.st[c] = "Zombie"
           adopter == {p \in {INIT} : orphaned /\ InWait(dead, p)}
           told == Wake(dead, parent)
           w == Wake(told, adopter)
<1>1. TableOK(dead)
  BY ZenonT(30), DeadKeeps
<1>2. parent \in SUBSET Pid /\ adopter \in SUBSET Pid
  BY DEF InWait
<1>3. End(s, pid) = w
  BY DEF End
<1>4. orphaned => (InWait(dead, INIT) => INIT \in adopter)
  OBVIOUS
<1>5. InWait(dead, s.ppid[pid]) => s.ppid[pid] \in parent
  OBVIOUS
<1>6. ASSUME NEW x, TableOK(x), NEW S \in SUBSET Pid, NEW p \in Pid
      PROVE  /\ InWait(Wake(x, S), p) => InWait(x, p) /\ p \notin S
  <2>1. Wake(x, S).st = [q \in Pid |-> IF q \in {y \in S : x.st[y] \in Blocked} THEN "Ready"
                                       ELSE x.st[q]]
    BY <1>6 DEF Wake, TableOK, Table
  <2> QED BY <1>6, <2>1 DEF InWait, Blocked
<1> HIDE DEF dead, parent, adopter, orphaned
<1>7. TableOK(told)
  BY <1>1, <1>2, WakeStirs DEF Stirred
<1>8. \A p \in Pid : InWait(told, p) => InWait(dead, p) /\ p \notin parent
  BY <1>1, <1>2, <1>6
<1> HIDE DEF told
<1>9. \A p \in Pid : InWait(w, p) => InWait(told, p) /\ p \notin adopter
  BY <1>2, <1>6, <1>7
<1> HIDE DEF w
<1>10. ~InWait(w, s.ppid[pid])
  BY <1>5, <1>8, <1>9 DEF InWait
<1>11. orphaned => ~InWait(w, INIT)
  BY <1>4, <1>8, <1>9
<1> QED BY <1>3, <1>10, <1>11 DEF orphaned

(* The queue r is q with others behind, and perhaps without its head. *)
Advanced(q, r) ==
    \E x \in Seq(Pid) : /\ IsInjective(x)
                        /\ Extends(q, x)
                        /\ r = x \/ (x # <<>> /\ r = Tail(x))

(* Who stays in the queue has no more before it than it had. *)
LEMMA AdvancedOvertakesNone ==
    ASSUME NEW q \in Seq(Pid), NEW r \in Seq(Pid), IsInjective(q), IsInjective(r),
           Advanced(q, r), NEW p \in Range(q) \cap Range(r)
    PROVE  Position(r, p) <= Position(q, p)
<1> DEFINE i == Position(q, p)
           j == Position(r, p)
<1>1. i \in 1..Len(q) /\ q[i] = p /\ j \in 1..Len(r) /\ r[j] = p
  BY PositionFinds
<1>2. PICK x \in Seq(Pid) : /\ IsInjective(x) /\ Extends(q, x)
                            /\ r = x \/ (x # <<>> /\ r = Tail(x))
  BY DEF Advanced
<1> HIDE DEF i, j
<1>3. /\ Len(q) \in Nat /\ Len(x) \in Nat /\ Len(r) \in Nat
      /\ DOMAIN x = 1..Len(x)
  BY SeqShape
<1>4. i \in 1..Len(x) /\ x[i] = p
  BY <1>1, <1>2, <1>3 DEF Extends
<1>5. CASE r = x
  <2>1. i = j
    BY <1>1, <1>2, <1>3, <1>4, <1>5 DEF IsInjective
  <2> QED BY <1>1, <1>3, <2>1 DEF i, j
<1>6. CASE x # <<>> /\ r = Tail(x)
  <2>1. Len(r) = Len(x) - 1 /\ \A k \in 1..Len(r) : r[k] = x[k + 1]
    BY <1>6, SeqTail
  <2>2. j + 1 \in 1..Len(x) /\ x[j + 1] = p
    BY <1>1, <1>3, <2>1
  <2>3. i = j + 1
    BY <1>2, <1>3, <1>4, <2>2 DEF IsInjective
  <2>4. j <= i
    BY <1>1, <1>3, <2>3
  <2> QED BY <2>4 DEF i, j
<1> QED BY <1>2, <1>5, <1>6

(* It gives up the CPU. *)
Ran == {"Ready", "Running"}

(* Table::schedule keeps the queue exact and runs its head. *)
LEMMA ScheduleKeeps ==
    ASSUME NEW s, TableOK(s)
    PROVE  LET w == Schedule(s)
           IN  /\ TableOK(w)
               /\ w.current # 0 => w.st[w.current] = "Running"
               /\ w.ppid = s.ppid /\ w.pgid = s.pgid /\ w.killed = s.killed
               /\ w.next = s.next /\ w.console = s.console /\ w.arg = s.arg
               /\ \A p \in Pid : w.st[p] = s.st[p] \/ {w.st[p], s.st[p]} \subseteq Ran
               /\ Advanced(s.ready, w.ready)
<1> DEFINE me == s.current
           preempted == me # 0 /\ s.st[me] = "Running"
           queue == IF preempted THEN Append(s.ready, me) ELSE s.ready
           next == IF queue = <<>> THEN 0 ELSE Head(queue)
           st == [p \in Pid |-> IF p = next THEN "Running"
                               ELSE IF preempted /\ p = me THEN "Ready" ELSE s.st[p]]
           rest == IF queue = <<>> THEN <<>> ELSE Tail(queue)
           w == Schedule(s)
<1>1. /\ s \in Table /\ s.ready \in Seq(Pid) /\ IsInjective(s.ready)
      /\ s.st \in [Pid -> States]
      /\ me # 0 => me \in Pid
      /\ 0 \notin Pid
  BY PidAssumption DEF TableOK, Queued, Table, Pid
<1>4. \A p \in Pid : s.st[p] = "Running" => preempted /\ p = me
  BY <1>1 DEF TableOK, Queued
<1>2. /\ queue \in Seq(Pid) /\ IsInjective(queue)
      /\ Range(queue) = {p \in Pid : s.st[p] \in Ran}
  <2>1. CASE preempted
    <3>1. me \in Pid /\ me \notin Range(s.ready)
      BY <1>1, <2>1 DEF TableOK, Queued
    <3>2. /\ queue \in Seq(Pid) /\ IsInjective(queue)
          /\ Range(queue) = Range(s.ready) \cup {me}
      BY <1>1, <2>1, <3>1, AppendDistinct
    <3> QED BY <2>1, <3>1, <3>2 DEF TableOK, Queued, Ran
  <2>2. CASE ~preempted
    <3>1. {p \in Pid : s.st[p] \in Ran} = {p \in Pid : s.st[p] = "Ready"}
      BY <1>4, <2>2 DEF Ran
    <3>2. queue = s.ready
      BY <2>2
    <3> QED BY <1>1, <3>1, <3>2 DEF TableOK, Queued
  <2> QED BY <2>1, <2>2
<1>11. Extends(s.ready, queue)
  <2>1. Len(s.ready) \in Nat
    BY <1>1, SeqShape
  <2>2. CASE preempted
    <3>1. queue = Append(s.ready, me) /\ me \in Pid
      BY <1>1, <2>2
    <3>2. /\ Len(Append(s.ready, me)) = Len(s.ready) + 1
          /\ \A i \in 1..Len(s.ready) : Append(s.ready, me)[i] = s.ready[i]
      <4> HIDE DEF queue, me, preempted
      <4> QED BY <1>1, <3>1, SeqAppends
    <3> HIDE DEF queue, me, preempted
    <3> QED BY <2>1, <3>1, <3>2 DEF Extends
  <2>3. CASE ~preempted
    <3>1. queue = s.ready
      BY <2>3
    <3> HIDE DEF queue
    <3> QED BY <2>1, <3>1 DEF Extends
  <2> QED BY <2>2, <2>3
<1> HIDE DEF queue, preempted, me, st, w
<1>12. Advanced(s.ready, rest)
  BY <1>2, <1>11 DEF Advanced
<1>3. /\ rest \in Seq(Pid) /\ IsInjective(rest)
      /\ Range(rest) = Range(queue) \ {next}
      /\ next # 0 => next \in Range(queue)
      /\ next \in 0..PIDMAX
  <2>1. CASE queue = <<>>
    BY <2>1, <1>2, PidAssumption DEF IsInjective, Range
  <2>2. CASE queue # <<>>
    <3>1. next = Head(queue) /\ rest = Tail(queue)
      BY <2>2
    <3>2. /\ rest \in Seq(Pid) /\ IsInjective(rest)
          /\ Range(rest) = Range(queue) \ {next} /\ next \in Range(queue)
      <4> HIDE DEF rest, next
      <4>1. /\ Tail(queue) \in Seq(Pid) /\ IsInjective(Tail(queue))
            /\ Range(Tail(queue)) = Range(queue) \ {Head(queue)}
            /\ Head(queue) \in Range(queue)
        BY <1>2, <2>2, TailDistinct
      <4> QED BY <3>1, <4>1
    <3>3. next \in Pid
      BY <1>2, <3>2
    <3> QED BY <3>2, <3>3, PidAssumption DEF Pid
  <2> QED BY <2>1, <2>2
<1> HIDE DEF rest, next
<1>5. st \in [Pid -> States]
  BY <1>1 DEF States, st
<1>6. /\ w \in Table
      /\ w.st = st /\ w.ready = rest /\ w.current = next
      /\ w.ppid = s.ppid /\ w.pgid = s.pgid /\ w.killed = s.killed
      /\ w.next = s.next /\ w.console = s.console /\ w.arg = s.arg
  <2>1. w = [s EXCEPT !.st = st, !.ready = rest, !.current = next, !.slice = SLICE]
    BY DEF Schedule, queue, rest, next, st, preempted, me, w
  <2>2. SLICE \in 1..SLICE
    BY SliceAssumption
  <2> QED BY ZenonT(30), <1>1, <1>3, <1>5, <2>1, <2>2 DEF Table
<1>7. \A p \in Pid : /\ st[p] = s.st[p] \/ {st[p], s.st[p]} \subseteq Ran
                     /\ st[p] = "Ready" <=> p # next /\ s.st[p] \in Ran
                     /\ st[p] = "Running" => p = next
                     /\ p = next => st[p] = "Running"
  <2> SUFFICES ASSUME NEW p \in Pid
               PROVE  /\ st[p] = s.st[p] \/ {st[p], s.st[p]} \subseteq Ran
                      /\ st[p] = "Ready" <=> p # next /\ s.st[p] \in Ran
                      /\ st[p] = "Running" => p = next
                      /\ p = next => st[p] = "Running"
    OBVIOUS
  <2>1. st[p] = IF p = next THEN "Running"
                ELSE IF preempted /\ p = me THEN "Ready" ELSE s.st[p]
    BY DEF st
  <2>2. p = next => s.st[p] \in Ran
    BY <1>1, <1>2, <1>3
  <2>3. preempted /\ p = me => s.st[p] = "Running"
    BY DEF preempted
  <2> QED BY <1>4, <2>1, <2>2, <2>3 DEF Ran
<1>8. Queued(w)
  <2>1. Range(rest) = {p \in Pid : st[p] = "Ready"}
    BY <1>2, <1>3, <1>7
  <2> QED BY <1>3, <1>6, <1>7, <2>1 DEF Queued
<1>9. NextFree(w) /\ Held(w)
  BY <1>6, <1>7 DEF TableOK, NextFree, Held, Ran
<1>10. w.current # 0 => w.st[w.current] = "Running"
  BY <1>2, <1>3, <1>6, <1>7
<1>13. Advanced(s.ready, w.ready)
  BY <1>6, <1>12
<1> QED BY <1>6, <1>7, <1>8, <1>9, <1>10, <1>13 DEF TableOK, w

(* w is s after wake-ups, kills and ticks, and perhaps a switch: nobody    *)
(* comes or goes, and who is blocked was blocked on the same.              *)
Later(s, w) ==
    /\ w.ppid = s.ppid /\ w.pgid = s.pgid /\ w.next = s.next /\ w.console = s.console
    /\ \A p \in Pid : /\ w.st[p] = "Free" <=> s.st[p] = "Free"
                      /\ w.st[p] = "Zombie" <=> s.st[p] = "Zombie"
                      /\ w.st[p] \in Blocked => w.st[p] = s.st[p]
                      /\ w.st[p] = "Console" => w.arg[p] = s.arg[p]
                      /\ s.killed[p] => w.killed[p]
    /\ Advanced(s.ready, w.ready)

(* A stirred table is a later one, without a switch. *)
LEMMA StirredIsLater ==
    ASSUME NEW s, NEW w, TableOK(s), Stirred(s, w) PROVE Later(s, w)
<1>1. w.ready \in Seq(Pid) /\ IsInjective(w.ready)
  BY DEF Stirred, TableOK, Table, Queued
<1>2. Advanced(s.ready, w.ready)
  BY <1>1 DEF Advanced, Stirred
<1>3. ASSUME NEW p \in Pid
      PROVE  /\ w.st[p] = "Free" <=> s.st[p] = "Free"
             /\ w.st[p] = "Zombie" <=> s.st[p] = "Zombie"
             /\ w.st[p] \in Blocked => w.st[p] = s.st[p]
             /\ w.st[p] = "Console" => w.arg[p] = s.arg[p]
             /\ s.killed[p] => w.killed[p]
  BY DEF Stirred, Blocked
<1> QED BY <1>2, <1>3 DEF Later, Stirred

(* What was stirred before is later after. *)
LEMMA LaterAfterStirred ==
    ASSUME NEW s, NEW v, NEW w, TableOK(s), Stirred(s, v), Later(v, w)
    PROVE  Later(s, w)
<1>1. PICK x \in Seq(Pid) : /\ IsInjective(x) /\ Extends(v.ready, x)
                            /\ w.ready = x \/ (x # <<>> /\ w.ready = Tail(x))
  BY DEF Later, Advanced
<1>2. Len(s.ready) \in Nat /\ Len(v.ready) \in Nat /\ Len(x) \in Nat
  BY SeqShape DEF Stirred, TableOK, Table
<1>3. Extends(s.ready, x)
  BY <1>1, <1>2 DEF Extends, Stirred
<1>4. Advanced(s.ready, w.ready)
  BY <1>1, <1>3 DEF Advanced
<1>5. ASSUME NEW p \in Pid
      PROVE  /\ w.st[p] = "Free" <=> s.st[p] = "Free"
             /\ w.st[p] = "Zombie" <=> s.st[p] = "Zombie"
             /\ w.st[p] \in Blocked => w.st[p] = s.st[p]
             /\ w.st[p] = "Console" => w.arg[p] = s.arg[p]
             /\ s.killed[p] => w.killed[p]
  <2>1. /\ v.st[p] = s.st[p] \/ (s.st[p] \in Blocked /\ v.st[p] = "Ready")
        /\ s.killed[p] => v.killed[p]
        /\ v.st[p] = "Console" => v.arg[p] = s.arg[p]
    BY DEF Stirred
  <2>2. /\ w.st[p] = "Free" <=> v.st[p] = "Free"
        /\ w.st[p] = "Zombie" <=> v.st[p] = "Zombie"
        /\ w.st[p] \in Blocked => w.st[p] = v.st[p]
        /\ w.st[p] = "Console" => w.arg[p] = v.arg[p]
        /\ v.killed[p] => w.killed[p]
    BY DEF Later
  <2> QED BY <2>1, <2>2 DEF Blocked
<1> QED BY <1>4, <1>5 DEF Later, Stirred

(* So is the table after a switch. *)
LEMMA SwitchedIsLater == ASSUME NEW s, TableOK(s) PROVE Later(s, Schedule(s))
<1> DEFINE w == Schedule(s)
<1>1. /\ w.ppid = s.ppid /\ w.pgid = s.pgid /\ w.killed = s.killed
      /\ w.next = s.next /\ w.console = s.console /\ w.arg = s.arg
      /\ \A p \in Pid : w.st[p] = s.st[p] \/ {w.st[p], s.st[p]} \subseteq Ran
      /\ Advanced(s.ready, w.ready)
  BY ScheduleKeeps
<1> HIDE DEF w
<1>2. \A p \in Pid : /\ w.st[p] = "Free" <=> s.st[p] = "Free"
                     /\ w.st[p] = "Zombie" <=> s.st[p] = "Zombie"
                     /\ w.st[p] \in Blocked => w.st[p] = s.st[p]
  BY <1>1 DEF Ran, Blocked
<1>3. Later(s, w)
  BY <1>1, <1>2 DEF Later
<1> QED BY <1>3 DEF w

(* It is given a child. *)
Inserted(s, parent, g, w) ==
    /\ TableOK(w)
    /\ s.next \in Pid /\ s.st[s.next] = "Free"
    /\ w.st = [s.st EXCEPT ![s.next] = "Ready"]
    /\ w.ppid = [s.ppid EXCEPT ![s.next] = parent]
    /\ w.pgid = [s.pgid EXCEPT ![s.next] = GroupOf(s, parent, g)]
    /\ w.killed = s.killed /\ w.arg = s.arg
    /\ w.current = s.current /\ w.console = s.console
    /\ w.next # 0 => w.next = s.next + 1
    /\ Extends(s.ready, w.ready)

(* Table::insert adds one ready process, at the end of the queue. *)
LEMMA InsertKeeps ==
    ASSUME NEW s, TableOK(s), s.next # 0, NEW parent \in 0..PIDMAX, NEW g,
           GroupOf(s, parent, g) \in 0..PIDMAX
    PROVE  Inserted(s, parent, g, Insert(s, parent, g))
<1> DEFINE w == Insert(s, parent, g)
           pid == s.next
           next == IF pid = PIDMAX THEN 0 ELSE pid + 1
           group == GroupOf(s, parent, g)
           queue == Append(s.ready, pid)
<1>1. /\ s \in Table /\ s.ready \in Seq(Pid)
      /\ pid \in Pid /\ pid \in Nat /\ s.st[pid] = "Free"
      /\ next \in 0..PIDMAX
      /\ next # 0 => next > pid
  <2>1. s \in Table /\ s.ready \in Seq(Pid) /\ pid \in Pid /\ pid \in Nat
    <3>1. s \in Table   BY DEF TableOK
    <3>2. s.ready \in Seq(Pid) /\ pid \in 0..PIDMAX   BY <3>1 DEF Table
    <3>3. pid # 0   OBVIOUS
    <3> HIDE DEF pid
    <3> QED BY <3>1, <3>2, <3>3, PidAssumption DEF Pid
  <2>2. s.st[pid] = "Free"
    <3>1. \A p \in Pid : p >= pid => s.st[p] = "Free"
      BY DEF TableOK, NextFree
    <3> HIDE DEF pid
    <3> QED BY <2>1, <3>1
  <2> HIDE DEF pid
  <2>3. next \in 0..PIDMAX /\ (next # 0 => next > pid)
    BY <2>1, PidAssumption DEF Pid
  <2> QED BY <2>1, <2>2, <2>3
<1>2. /\ queue \in Seq(Pid) /\ IsInjective(queue)
      /\ Range(queue) = Range(s.ready) \cup {pid}
  <2>1. pid \notin Range(s.ready) /\ IsInjective(s.ready)
    BY <1>1 DEF TableOK, Queued
  <2> HIDE DEF pid
  <2> QED BY <1>1, <2>1, AppendDistinct
<1>3. /\ w \in Table
      /\ w.st = [s.st EXCEPT ![pid] = "Ready"]
      /\ w.ppid = [s.ppid EXCEPT ![pid] = parent]
      /\ w.pgid = [s.pgid EXCEPT ![pid] = group]
      /\ w.next = next /\ w.ready = queue
      /\ w.killed = s.killed /\ w.arg = s.arg
      /\ w.current = s.current /\ w.console = s.console
  <2>1. w = [s EXCEPT !.next = next, !.st[pid] = "Ready", !.ppid[pid] = parent,
                      !.pgid[pid] = group, !.ready = queue]
    BY DEF Insert
  <2> HIDE DEF w, next, group, queue
  <2> QED BY ZenonT(30), <1>1, <1>2, <2>1 DEF Table, States, group
<1> HIDE DEF w, next, group, queue
<1>4. \A p \in Pid : /\ w.st[p] = "Ready" <=> s.st[p] = "Ready" \/ p = pid
                     /\ w.st[p] = "Running" => s.st[p] = "Running"
                     /\ w.st[p] = "Free" <=> s.st[p] = "Free" /\ p # pid
  BY ZenonT(30), <1>1, <1>3 DEF Table
<1>5. Queued(w)
  <2>1. {p \in Pid : w.st[p] = "Ready"} = {p \in Pid : s.st[p] = "Ready"} \cup {pid}
    BY <1>1, <1>4
  <2> QED BY <1>2, <1>3, <1>4, <2>1 DEF TableOK, Queued
<1>6. NextFree(w) /\ Held(w)
  BY <1>1, <1>3, <1>4 DEF TableOK, NextFree, Held, next, Pid
<1>7. Extends(s.ready, w.ready)
  <2> HIDE DEF pid
  <2>1. /\ Len(queue) = Len(s.ready) + 1
        /\ \A i \in 1..Len(s.ready) : queue[i] = s.ready[i]
        /\ Len(s.ready) \in Nat
    BY <1>1, SeqAppends, SeqShape DEF queue
  <2> QED BY <1>3, <2>1 DEF Extends
<1>8. w.next # 0 => w.next = s.next + 1
  BY <1>3 DEF next
<1> QED BY <1>1, <1>3, <1>5, <1>6, <1>7, <1>8 DEF Inserted, TableOK, w, group

(* It collects a child. *)
LEMMA ReapKeeps ==
    ASSUME NEW s, TableOK(s), NEW z \in Pid, s.st[z] = "Zombie"
    PROVE  LET w == Reap(s, z)
           IN  /\ TableOK(w)
               /\ w.st = [s.st EXCEPT ![z] = "Free"]
               /\ w.ppid = [s.ppid EXCEPT ![z] = 0]
               /\ w.pgid = [s.pgid EXCEPT ![z] = 0]
               /\ w.killed = [s.killed EXCEPT ![z] = FALSE]
               /\ w.next = s.next /\ w.arg = s.arg /\ w.ready = s.ready
               /\ w.current = s.current /\ w.console = s.console
<1> DEFINE w == Reap(s, z)
<1>1. s \in Table
  BY DEF TableOK
<1>2. /\ w \in Table
      /\ w.st = [s.st EXCEPT ![z] = "Free"]
      /\ w.ppid = [s.ppid EXCEPT ![z] = 0]
      /\ w.pgid = [s.pgid EXCEPT ![z] = 0]
      /\ w.killed = [s.killed EXCEPT ![z] = FALSE]
      /\ w.next = s.next /\ w.arg = s.arg /\ w.ready = s.ready
      /\ w.current = s.current /\ w.console = s.console
  <2> DEFINE st == [s.st EXCEPT ![z] = "Free"]
             ppid == [s.ppid EXCEPT ![z] = 0]
             pgid == [s.pgid EXCEPT ![z] = 0]
             killed == [s.killed EXCEPT ![z] = FALSE]
  <2>1. st \in [Pid -> States] /\ killed \in [Pid -> BOOLEAN]
    BY <1>1 DEF Table, States
  <2>2. ppid \in [Pid -> 0..PIDMAX] /\ pgid \in [Pid -> 0..PIDMAX]
    BY <1>1, PidAssumption DEF Table
  <2>3. w = [s EXCEPT !.st = st, !.ppid = ppid, !.pgid = pgid, !.killed = killed]
    BY <1>1 DEF Reap, Table
  <2> HIDE DEF w, st, ppid, pgid, killed
  <2>4. /\ w \in Table /\ w.st = st /\ w.ppid = ppid /\ w.pgid = pgid
        /\ w.killed = killed
        /\ w.next = s.next /\ w.arg = s.arg /\ w.ready = s.ready
        /\ w.current = s.current /\ w.console = s.console
    BY ZenonT(30), <1>1, <2>1, <2>2, <2>3 DEF Table
  <2> QED BY <2>4 DEF st, ppid, pgid, killed
<1> HIDE DEF w
<1>3. \A p \in Pid : /\ w.st[p] = "Ready" <=> s.st[p] = "Ready"
                     /\ w.st[p] = "Running" <=> s.st[p] = "Running"
                     /\ s.st[p] = "Free" => w.st[p] = "Free"
  BY <1>1, <1>2 DEF Table
<1>4. TableOK(w)
  <2>1. {p \in Pid : w.st[p] = "Ready"} = {p \in Pid : s.st[p] = "Ready"}
    BY <1>3
  <2> QED BY <1>2, <1>3, <2>1 DEF TableOK, Queued, NextFree, Held
<1> QED BY <1>2, <1>4 DEF w

-----------------------------------------------------------------------------
(* The chain of the console's holders. *)

(* The top of a chain of holders is a group. *)
LEMMA ForegroundType ==
    ASSUME NEW c \in Seq(Pid), IsChain(c) PROVE Foreground(c) \in Pid
<1>1. Len(c) \in Nat /\ Len(c) # 0
  BY SeqShape DEF IsChain
<1> QED BY <1>1 DEF Foreground

(* Holders::give to a group in the chain makes it the top. *)
LEMMA CutToKeeps ==
    ASSUME NEW c \in Seq(Pid), IsChain(c), NEW g \in Range(c)
    PROVE  /\ CutTo(c, g) \in Seq(Pid) /\ IsChain(CutTo(c, g))
           /\ Foreground(CutTo(c, g)) = g
           /\ Range(CutTo(c, g)) \subseteq Range(c)
<1> DEFINE n == Position(c, g)
           d == CutTo(c, g)
<1>1. n \in 1..Len(c) /\ c[n] = g /\ Len(c) \in Nat /\ DOMAIN c = 1..Len(c)
  BY PositionFinds, SeqShape
<1>2. 1 \in 1..(Len(c) + 1) /\ n \in 0..Len(c) /\ n \in Nat /\ n >= 1
  BY <1>1
<1>3. /\ SubSeq(c, 1, n) \in Seq(Pid) /\ Len(SubSeq(c, 1, n)) = n
      /\ \A i \in 1..n : SubSeq(c, 1, n)[i] = c[i]
  <2> HIDE DEF n
  <2>1. SubSeq(c, 1, n) = [i \in 1..n |-> c[i]]
    BY <1>1, <1>2
  <2>2. \A i \in 1..n : c[i] \in Pid
    BY <1>1, <1>2
  <2> QED BY <1>2, <2>1, <2>2
<1>4. d \in Seq(Pid) /\ Len(d) = n /\ DOMAIN d = 1..n /\ \A i \in 1..n : d[i] = c[i]
  BY <1>3, SeqShape DEF CutTo
<1> HIDE DEF n, d
<1>5. d # <<>> /\ Head(d) = Head(c)
  BY <1>1, <1>2, <1>4
<1>6. IsInjective(d)
  BY <1>1, <1>2, <1>4 DEF IsChain, IsInjective
<1>7. Foreground(d) = g
  BY <1>1, <1>2, <1>4 DEF Foreground
<1>8. Range(d) \subseteq Range(c)
  BY <1>1, <1>2, <1>4 DEF Range
<1> QED BY <1>4, <1>5, <1>6, <1>7, <1>8 DEF IsChain, d

(* Groups that are gone leave the chain of holders, but for process 1's. *)
LEMMA KeptKeeps ==
    ASSUME Counting, NEW c \in Seq(Pid), IsChain(c), NEW exists
    PROVE  /\ Kept(c, exists) \in Seq(Pid) /\ IsChain(Kept(c, exists))
           /\ Range(Kept(c, exists)) = {INIT} \cup (Range(c) \cap exists)
<1> DEFINE rest == Range(Tail(c)) \cap exists
           row == InOrder(rest, [g \in rest |-> Position(c, g)])
           one == <<Head(c)>>
<1>1. /\ Tail(c) \in Seq(Pid) /\ Head(c) \in Pid
      /\ Range(Tail(c)) = Range(c) \ {INIT} /\ INIT \in Range(c)
      /\ Head(c) = INIT
  BY TailDistinct DEF IsChain
<1>2. Range(c) \subseteq Pid
  BY SeqShape DEF Range
<1>3. rest \in SUBSET Pid
  BY <1>1, <1>2
<1>4. row \in Seq(Pid) /\ IsInjective(row) /\ Range(row) = rest
  <2>1. row \in Seq(rest) /\ IsInjective(row) /\ Range(row) = rest
    BY ZenonT(30), <1>3, InOrderEnumerates
  <2> QED BY ZenonT(30), <1>3, <2>1, SeqWidens
<1>5. one \in Seq(Pid) /\ IsInjective(one) /\ Range(one) = {INIT}
  BY <1>1 DEF IsInjective, Range
<1>6. Range(one) \cap Range(row) = {}
  BY ZenonT(30), <1>1, <1>4, <1>5
<1>7. Kept(c, exists) = one \o row
  BY DEF Kept
<1> HIDE DEF one, row
<1>8. /\ one \o row \in Seq(Pid) /\ IsInjective(one \o row)
      /\ Range(one \o row) = {INIT} \cup rest
  <2> HIDE DEF rest
  <2> QED BY <1>4, <1>5, <1>6, ConcatDistinct
<1>9. one \o row # <<>> /\ Head(one \o row) = INIT
  <2>1. one = <<INIT>>
    BY <1>1 DEF one
  <2> QED BY <1>4, <1>5, <2>1
<1> QED BY <1>1, <1>7, <1>8, <1>9 DEF IsChain

(* Holders::give, whether it succeeds or not, leaves a chain. *)
LEMMA GiveKeeps ==
    ASSUME Counting, NEW c \in Seq(Pid), IsChain(c), NEW by, NEW to \in Pid, NEW exists
    PROVE  LET give == Give(c, by, to, exists)
           IN  /\ give.chain \in Seq(Pid) /\ IsChain(give.chain)
               /\ give.err = "ok" => Foreground(give.chain) = to
               /\ Foreground(give.chain) \in Pid
<1> DEFINE kept == Kept(c, exists)
           cut == CutTo(kept, by)
           give == Give(c, by, to, exists)
<1>1. kept \in Seq(Pid) /\ IsChain(kept)
  BY KeptKeeps
<1>2. CASE ~Holds(kept, by)
  <2>1. give = [chain |-> kept, err |-> "EPERM"]
    BY <1>2 DEF Give
  <2> QED BY <1>1, <2>1, ForegroundType
<1>3. CASE Holds(kept, by)
  <2>1. by \in Range(kept) /\ cut \in Seq(Pid) /\ IsChain(cut)
    BY <1>1, <1>3, CutToKeeps DEF Holds
  <2>2. CASE Holds(cut, to)
    <3>1. give = [chain |-> CutTo(cut, to), err |-> "ok"]
      BY <1>3, <2>2 DEF Give
    <3>2. /\ CutTo(cut, to) \in Seq(Pid) /\ IsChain(CutTo(cut, to))
          /\ Foreground(CutTo(cut, to)) = to
      BY <2>1, <2>2, CutToKeeps DEF Holds
    <3> QED BY <3>1, <3>2
  <2>3. CASE ~Holds(cut, to) /\ Len(cut) < MAX
    <3>1. give = [chain |-> Append(cut, to), err |-> "ok"]
      BY <1>3, <2>3 DEF Give
    <3>2. Append(cut, to) \in Seq(Pid) /\ IsInjective(Append(cut, to))
      <4> HIDE DEF cut
      <4> QED BY <2>1, <2>3, AppendDistinct DEF Holds, IsChain
    <3>3. Head(Append(cut, to)) = INIT /\ Append(cut, to) # <<>>
      <4> HIDE DEF cut
      <4> QED BY <2>1 DEF IsChain
    <3>4. Foreground(Append(cut, to)) = to
      <4> HIDE DEF cut
      <4> QED BY <2>1, SeqAppends, SeqShape DEF Foreground
    <3> QED BY <3>1, <3>2, <3>3, <3>4 DEF IsChain
  <2>4. CASE ~Holds(cut, to) /\ ~(Len(cut) < MAX)
    <3>1. give = [chain |-> cut, err |-> "EAGAIN"]
      BY <1>3, <2>4 DEF Give
    <3> QED BY <2>1, <3>1, ForegroundType
  <2> QED BY <2>2, <2>3, <2>4
<1> QED BY <1>2, <1>3

-----------------------------------------------------------------------------
(* What holds of every table the kernel makes; Settled adds that who has   *)
(* the CPU runs, which holds but between a block or an end and the switch. *)
Sound(s) == /\ TableOK(s)
            /\ \A p \in Pid : s.killed[p] => s.st[p] \notin Blocked
            /\ ~s.killed[INIT]
Settled(s) == Sound(s) /\ (s.current # 0 => s.st[s.current] = "Running")

(* Process 1 is a process, and 0, the idle task, is none. *)
LEMMA InitIsPid == INIT \in Pid /\ 0 \notin Pid /\ INIT # 0
  BY PidAssumption DEF INIT, Pid

(* A stirred table is as sound as it was. *)
LEMMA StirredSound ==
    ASSUME NEW s, NEW w, Stirred(s, w), Sound(s)
    PROVE  Sound(w) /\ (Settled(s) => Settled(w))
<1>1. Sound(w)
  BY InitIsPid DEF Stirred, Sound
<1>2. ASSUME Settled(s) PROVE Settled(w)
  <2>1. s.current # 0 => s.current \in Pid
    BY DEF Sound, TableOK, Table, Pid
  <2> QED BY <1>1, <1>2, <2>1 DEF Settled, Stirred, Blocked
<1> QED BY <1>1, <1>2

(* A new chain of holders, whose readers wake. *)
LEMMA ChainSound ==
    ASSUME NEW s, Sound(s), NEW c \in Seq(Pid), IsChain(c)
    PROVE  LET w == [s EXCEPT !.console = c]
           IN  /\ Sound(w) /\ (Settled(s) => Settled(w))
               /\ w.console = c
<1> DEFINE w == [s EXCEPT !.console = c]
<1>1. /\ w \in Table /\ s \in Table
      /\ w.st = s.st /\ w.ready = s.ready /\ w.killed = s.killed
      /\ w.next = s.next /\ w.current = s.current /\ w.console = c
  BY ZenonT(30) DEF Sound, TableOK, Table
<1> HIDE DEF w
<1>2. TableOK(w)
  BY <1>1 DEF Sound, TableOK, Queued, NextFree, Held
<1> QED BY <1>1, <1>2 DEF Sound, Settled, w

(* A set of numbers has a smallest one. *)
LEMMA SmallestExists ==
    ASSUME NEW S \in SUBSET Nat, S # {} PROVE \E p \in S : \A q \in S : p <= q
<1> DEFINE less == {ss \in Nat \X Nat : ss[1] < ss[2]}
<1>1. IsWellFoundedOn(less, Nat)
  BY NatLessThanWellFounded DEF OpToRel
<1> HIDE DEF less
<1>2. \E p \in S : \A q \in S : ~(<<q, p>> \in less)
  BY ZenonT(30), <1>1, WFMin
<1>3. PICK p \in S : \A q \in S : ~(<<q, p>> \in less)
  BY <1>2
<1>4. ASSUME NEW q \in S PROVE p <= q
  <2>1. p \in Nat /\ q \in Nat
    OBVIOUS
  <2>2. <<q, p>> \in Nat \X Nat /\ <<q, p>>[1] = q /\ <<q, p>>[2] = p
    BY <2>1
  <2>3. ~(q < p)
    BY <1>3, <2>2 DEF less
  <2> QED BY <2>1, <2>3
<1> QED BY <1>4

-----------------------------------------------------------------------------
(* What holds of the processes of a table s, whose waits are for wanted    *)
(* and whose foreground group, as the terminal has it, is f.               *)

(* Every process is in a group that was numbered before the next process,  *)
(* process 1 in its own, and there are not too many.                       *)
Born(s) ==
    /\ s.pgid[INIT] = INIT
    /\ \A p \in Entries(s) : s.pgid[p] \in Pid /\ (s.next # 0 => s.pgid[p] < s.next)
    /\ Cardinality(Entries(s)) <= MAX

(* Process 1 lives, and every other process has a parent that does. *)
Kin(s) == /\ INIT \in Alive(s)
          /\ \A p \in Entries(s) \ {INIT} : s.ppid[p] \in Alive(s) \ {p}

(* The child that p waits for. *)
Awaits(p, wanted) == IF p = INIT THEN 0 ELSE wanted[p]

(* Who waits has a child to wait for, and none that has ended. *)
Awaited(s, wanted) ==
    \A p \in Pid : InWait(s, p) => /\ Mine(s, p, Awaits(p, wanted)) # {}
                                   /\ Ended(s, p, Awaits(p, wanted)) = {}

(* Who reads the console is in the foreground. *)
Readers(s, f) == \A p \in Pid : s.st[p] = "Console" => s.pgid[p] = f /\ s.arg[p] = 0

(* The foreground group, while it has an entry, is the top of the chain;   *)
(* its number does not come again.                                         *)
Front(s, f) == /\ f \in Groups(s) => Foreground(s.console) = f
               /\ s.next # 0 => f < s.next

Family(s, wanted, f) ==
    Born(s) /\ Kin(s) /\ Awaited(s, wanted) /\ Readers(s, f) /\ Front(s, f)

(* Process 1 keeps its children, nobody comes, and marks stay. *)
Continues(s, w) == /\ Children(s, INIT) \subseteq Children(w, INIT)
                   /\ Alive(w) \subseteq Alive(s)
                   /\ \A p \in Alive(w) : s.killed[p] => w.killed[p]

(* What a later table continues it continues too. *)
LEMMA LaterContinues ==
    ASSUME NEW s, NEW v, NEW w, Continues(s, v), Later(v, w)
    PROVE  Continues(s, w)
<1>1. Entries(w) = Entries(v) /\ Alive(w) = Alive(v)
  BY DEF Later, Entries, Alive
<1>2. Children(w, INIT) = Children(v, INIT)
  BY <1>1 DEF Children, Later
<1>3. \A p \in Alive(w) : v.killed[p] => w.killed[p]
  BY DEF Later, Alive, Entries
<1> QED BY <1>1, <1>2, <1>3 DEF Continues

(* Entries that only wake, tick or switch are the same family. *)
LEMMA LaterKin ==
    ASSUME NEW s, NEW w, NEW wanted, Later(s, w), Born(s), Kin(s), Awaited(s, wanted)
    PROVE  /\ Born(w) /\ Kin(w) /\ Awaited(w, wanted)
           /\ Groups(w) = Groups(s) /\ Children(w, INIT) = Children(s, INIT)
<1>1. Entries(w) = Entries(s) /\ Alive(w) = Alive(s)
  BY DEF Later, Entries, Alive
<1>2. \A p : Children(w, p) = Children(s, p)
  BY <1>1 DEF Children, Later
<1>3. \A p, c : Mine(w, p, c) = Mine(s, p, c)
  BY <1>2 DEF Mine
<1>4. \A p, c : Ended(w, p, c) = Ended(s, p, c)
  <2> SUFFICES ASSUME NEW p, NEW c PROVE Ended(w, p, c) = Ended(s, p, c)
    OBVIOUS
  <2>1. \A x \in Mine(s, p, c) : x \in Pid
    BY DEF Mine, Children, Entries
  <2> QED BY <1>3, <2>1 DEF Ended, Later
<1>5. Groups(w) = Groups(s)
  BY <1>1 DEF Groups, Later
<1>6. \A p \in Pid : InWait(w, p) => InWait(s, p)
  BY DEF InWait, Later, Blocked
<1>7. Born(w) /\ Kin(w)
  BY <1>1 DEF Born, Kin, Later
<1>8. Awaited(w, wanted)
  BY <1>3, <1>4, <1>6 DEF Awaited
<1> QED BY <1>2, <1>5, <1>7, <1>8

(* So are its readers and its foreground group. *)
LEMMA LaterFamily ==
    ASSUME NEW s, NEW w, NEW wanted, NEW f, Later(s, w), Family(s, wanted, f)
    PROVE  Family(w, wanted, f)
<1>1. Born(w) /\ Kin(w) /\ Awaited(w, wanted) /\ Groups(w) = Groups(s)
  BY LaterKin DEF Family
<1>2. Readers(w, f)
  BY DEF Readers, Family, Later, Blocked
<1>3. Front(w, f)
  BY <1>1 DEF Front, Family, Later
<1> QED BY <1>1, <1>2, <1>3 DEF Family

(* The child that a process that does not wait would wait for is free to   *)
(* change.                                                                 *)
LEMMA WantFamily ==
    ASSUME NEW s, NEW wanted \in [Pid -> 0..PIDMAX], NEW f, NEW p \in Pid, NEW c,
           Family(s, wanted, f), p = INIT \/ ~InWait(s, p)
    PROVE  Family(s, [wanted EXCEPT ![p] = c], f)
<1>1. ASSUME NEW q \in Pid, InWait(s, q)
      PROVE  Awaits(q, [wanted EXCEPT ![p] = c]) = Awaits(q, wanted)
  BY <1>1 DEF Awaits
<1>2. Awaited(s, [wanted EXCEPT ![p] = c])
  BY ZenonT(30), <1>1 DEF Family, Awaited
<1> QED BY <1>2 DEF Family

(* The running process blocks, if it has a child to wait for, or the       *)
(* console to read.                                                        *)
LEMMA BlockFamily ==
    ASSUME NEW s, Settled(s), s.current \in Pid, NEW wanted, NEW f,
           Family(s, wanted, f), NEW why \in Blocked, NEW n \in Nat,
           why \in {"Wait", "WaitCtrlC"} =>
              /\ Mine(s, s.current, Awaits(s.current, wanted)) # {}
              /\ Ended(s, s.current, Awaits(s.current, wanted)) = {},
           why = "Console" => s.pgid[s.current] = f /\ n = 0
    PROVE  /\ Family(BlockOn(s, why, n), wanted, f)
           /\ Continues(s, BlockOn(s, why, n))
<1> DEFINE w == BlockOn(s, why, n)
           me == s.current
<1>1. /\ s.st \in [Pid -> States] /\ s.arg \in [Pid -> Nat]
      /\ s.st[me] = "Running" /\ TableOK(s) /\ me # 0
  BY InitIsPid DEF Settled, Sound, TableOK, Table
<1>2. /\ w.st = [s.st EXCEPT ![me] = why]
      /\ w.arg = [s.arg EXCEPT ![me] = n]
      /\ w.ppid = s.ppid /\ w.pgid = s.pgid /\ w.next = s.next /\ w.console = s.console
      /\ w.killed = s.killed
  BY <1>1, BlockOnKeeps
<1> HIDE DEF w
<1>3. \A p \in Pid : /\ p # me => w.st[p] = s.st[p] /\ w.arg[p] = s.arg[p]
                     /\ w.st[p] = "Free" <=> s.st[p] = "Free"
                     /\ w.st[p] = "Zombie" <=> s.st[p] = "Zombie"
  BY <1>1, <1>2 DEF Blocked
<1>4. w.st[me] = why /\ w.arg[me] = n
  BY <1>1, <1>2
<1>5. Entries(w) = Entries(s) /\ Alive(w) = Alive(s)
  BY <1>3 DEF Entries, Alive
<1>6. \A p, c : Mine(w, p, c) = Mine(s, p, c)
  BY <1>2, <1>5 DEF Mine, Children
<1>7. \A p, c : Ended(w, p, c) = Ended(s, p, c)
  <2> SUFFICES ASSUME NEW p, NEW c PROVE Ended(w, p, c) = Ended(s, p, c)
    OBVIOUS
  <2>1. \A x \in Mine(s, p, c) : x \in Pid
    BY DEF Mine, Children, Entries
  <2> QED BY <1>3, <1>6, <2>1 DEF Ended
<1>8. Born(w) /\ Kin(w)
  BY <1>2, <1>5 DEF Born, Kin, Family
<1>9. Awaited(w, wanted)
  <2> SUFFICES ASSUME NEW p \in Pid, InWait(w, p)
               PROVE  /\ Mine(w, p, Awaits(p, wanted)) # {}
                      /\ Ended(w, p, Awaits(p, wanted)) = {}
    BY DEF Awaited
  <2>1. CASE p = me
    BY <1>4, <1>6, <1>7, <2>1 DEF InWait
  <2>2. CASE p # me
    <3>1. InWait(s, p)
      BY <1>3, <2>2 DEF InWait
    <3> QED BY <1>6, <1>7, <3>1 DEF Family, Awaited
  <2> QED BY <2>1, <2>2
<1>10. Readers(w, f)
  BY <1>2, <1>3, <1>4 DEF Readers, Family
<1>11. Front(w, f)
  BY <1>2, <1>5 DEF Front, Family, Groups
<1>12. Family(w, wanted, f)
  BY <1>8, <1>9, <1>10, <1>11 DEF Family
<1>13. Continues(s, w)
  BY <1>2, <1>5 DEF Continues, Children
<1> QED BY <1>12, <1>13 DEF w

(* The running process, not process 1, ends. *)
LEMMA EndFamily ==
    ASSUME Counting, NEW s, Settled(s), NEW p \in Pid, p = s.current, p # INIT,
           NEW wanted, NEW f, Family(s, wanted, f)
    PROVE  Family(End(s, p), wanted, f) /\ Continues(s, End(s, p))
<1> DEFINE d == Dead(s, p)
           w == End(s, p)
           orphaned == \E c \in Children(s, p) : s.st[c] = "Zombie"
<1>1. /\ s.st \in [Pid -> States] /\ s.arg \in [Pid -> Nat]
      /\ s.st[p] = "Running" /\ TableOK(s) /\ INIT \in Pid
  BY SMTT(60), InitIsPid DEF Settled, Sound, TableOK, Table
<1>2. /\ d.st = [s.st EXCEPT ![p] = "Zombie"]
      /\ d.ppid = [c \in Pid |-> IF c \in Children(s, p) THEN INIT ELSE s.ppid[c]]
      /\ d.arg = [s.arg EXCEPT ![p] = 0]
      /\ d.pgid = s.pgid /\ d.next = s.next /\ d.console = s.console
      /\ d.killed = s.killed
  BY <1>1, DeadKeeps
<1>3. Stirred(d, w)
  BY <1>1, EndStirs
<1>4. ~InWait(w, s.ppid[p]) /\ (orphaned => ~InWait(w, INIT))
  BY <1>1, EndWakes
<1> HIDE DEF d, w
<1>5. ASSUME NEW q \in Pid
      PROVE  /\ w.st[q] = "Free" <=> s.st[q] = "Free"
             /\ w.st[q] = "Zombie" <=> s.st[q] = "Zombie" \/ q = p
             /\ w.st[q] \in Blocked => w.st[q] = s.st[q] /\ q # p
             /\ w.st[q] = "Console" => w.arg[q] = s.arg[q]
             /\ s.killed[q] => w.killed[q]
  <2>1. /\ w.st[q] = d.st[q] \/ (d.st[q] \in Blocked /\ w.st[q] = "Ready")
        /\ w.st[q] = "Console" => w.arg[q] = d.arg[q]
        /\ d.killed[q] => w.killed[q]
    BY <1>3 DEF Stirred
  <2>2. d.st[q] = IF q = p THEN "Zombie" ELSE s.st[q]
    BY <1>1, <1>2
  <2>3. q # p => d.arg[q] = s.arg[q]
    BY <1>1, <1>2
  <2> QED BY <1>1, <1>2, <2>1, <2>2, <2>3 DEF Blocked
<1>6. /\ \A c \in Pid : w.ppid[c] = IF c \in Children(s, p) THEN INIT ELSE s.ppid[c]
      /\ w.pgid = s.pgid /\ w.next = s.next /\ w.console = s.console
  BY <1>2, <1>3 DEF Stirred
<1>7. Entries(w) = Entries(s) /\ Alive(w) = Alive(s) \ {p}
  BY <1>5 DEF Entries, Alive
<1>8. p \in Entries(s) \ {INIT} /\ s.ppid[p] # p
  BY <1>1 DEF Entries, Family, Kin
<1>9. Born(w)
  BY <1>6, <1>7 DEF Born, Family
<1>10. Kin(w)
  <2>1. INIT \in Alive(w)
    BY <1>7 DEF Kin, Family
  <2>2. ASSUME NEW q \in Entries(w) \ {INIT} PROVE w.ppid[q] \in Alive(w) \ {q}
    <3>1. q \in Pid /\ s.ppid[q] \in Alive(s) \ {q}
      BY <1>7 DEF Kin, Family, Entries
    <3>2. q \notin Children(s, p) => s.ppid[q] # p
      BY <1>7 DEF Children
    <3> QED BY <1>6, <1>7, <2>1, <3>1, <3>2
  <2> QED BY <2>1, <2>2 DEF Kin
<1>11. Children(s, INIT) \subseteq Children(w, INIT)
  BY <1>6, <1>7 DEF Children, Entries
<1>12. Awaited(w, wanted)
  <2> SUFFICES ASSUME NEW q \in Pid, InWait(w, q)
               PROVE  /\ Mine(w, q, Awaits(q, wanted)) # {}
                      /\ Ended(w, q, Awaits(q, wanted)) = {}
    BY DEF Awaited
  <2>1. InWait(s, q) /\ q # p /\ q # s.ppid[p] /\ (orphaned => q # INIT)
    BY <1>4, <1>5 DEF InWait, Blocked
  <2>2. /\ Mine(s, q, Awaits(q, wanted)) # {}
        /\ Ended(s, q, Awaits(q, wanted)) = {}
    BY <2>1 DEF Family, Awaited
  <2>3. CASE q = INIT
    <3>1. Awaits(q, wanted) = 0
      BY <2>3 DEF Awaits
    <3>2. Mine(w, q, 0) # {}
      BY <1>11, <2>2, <2>3, <3>1 DEF Mine
    <3>3. ASSUME NEW c \in Children(w, INIT) PROVE w.st[c] # "Zombie"
      <4>1. c \in Pid /\ c \in Entries(s) /\ w.ppid[c] = INIT
        BY <1>7 DEF Children, Entries
      <4>2. CASE c \in Children(s, p)
        <5>1. s.st[c] # "Zombie" /\ s.ppid[c] = p
          BY <2>1, <2>3, <4>2 DEF Children
        <5> QED BY <1>5, <1>8, <4>1, <5>1
      <4>3. CASE c \notin Children(s, p)
        <5>1. s.ppid[c] = INIT
          BY <1>6, <4>1, <4>3
        <5>2. c \in Mine(s, q, 0) /\ c # p
          BY <2>1, <2>3, <4>1, <5>1 DEF Mine, Children
        <5>3. s.st[c] # "Zombie"
          BY <2>2, <3>1, <5>2 DEF Ended
        <5> QED BY <1>5, <4>1, <5>2, <5>3
      <4> QED BY <4>2, <4>3
    <3>4. Ended(w, q, 0) = {}
      BY <2>3, <3>3 DEF Ended, Mine
    <3> QED BY <3>1, <3>2, <3>4
  <2>4. CASE q # INIT
    <3>1. Children(w, q) = Children(s, q)
      BY <1>6, <1>7, <2>1, <2>4 DEF Children, Entries
    <3>2. \A c \in Children(s, q) : c \in Pid /\ c # p
      BY <2>1 DEF Children, Entries
    <3>3. \A c \in Children(s, q) : w.st[c] = "Zombie" <=> s.st[c] = "Zombie"
      BY <1>5, <3>2
    <3> QED BY <2>2, <3>1, <3>3 DEF Mine, Ended
  <2> QED BY <2>3, <2>4
<1>13. Readers(w, f)
  BY <1>5, <1>6 DEF Readers, Family, Blocked
<1>14. Front(w, f)
  BY <1>6, <1>7 DEF Front, Family, Groups
<1>15. Family(w, wanted, f)
  BY <1>9, <1>10, <1>12, <1>13, <1>14 DEF Family
<1>16. Continues(s, w)
  BY <1>5, <1>7, <1>11 DEF Continues, Alive, Entries
<1> QED BY <1>15, <1>16 DEF w

(* The running process collects a child that has ended. *)
LEMMA ReapFamily ==
    ASSUME Counting, NEW s, Settled(s), s.current \in Pid,
           NEW wanted, NEW f, Family(s, wanted, f),
           NEW z \in Children(s, s.current), s.st[z] = "Zombie"
    PROVE  LET w == Reap(s, z)
           IN  /\ Family(w, wanted, f)
               /\ Children(s, INIT) \ {z} \subseteq Children(w, INIT)
               /\ s.current # INIT => Continues(s, w)
               /\ Alive(w) = Alive(s) /\ \A p \in Alive(w) : s.killed[p] => w.killed[p]
               /\ w.ready = s.ready /\ w.st = [s.st EXCEPT ![z] = "Free"]
<1> DEFINE w == Reap(s, z)
           me == s.current
<1>1. /\ s.st \in [Pid -> States] /\ s.ppid \in [Pid -> 0..PIDMAX]
      /\ s.pgid \in [Pid -> 0..PIDMAX] /\ s.killed \in [Pid -> BOOLEAN]
      /\ s.st[me] = "Running" /\ TableOK(s) /\ INIT \in Pid
      /\ z \in Pid /\ s.ppid[z] = me
  BY ZenonT(30), InitIsPid DEF Settled, Sound, TableOK, Table, Children, Entries
<1>2. /\ w.st = [s.st EXCEPT ![z] = "Free"]
      /\ w.ppid = [s.ppid EXCEPT ![z] = 0]
      /\ w.pgid = [s.pgid EXCEPT ![z] = 0]
      /\ w.killed = [s.killed EXCEPT ![z] = FALSE]
      /\ w.next = s.next /\ w.arg = s.arg /\ w.ready = s.ready
      /\ w.console = s.console
  BY ZenonT(30), <1>1, ReapKeeps
<1> HIDE DEF w
<1>3. \A q \in Pid : q # z => /\ w.st[q] = s.st[q] /\ w.ppid[q] = s.ppid[q]
                             /\ w.pgid[q] = s.pgid[q] /\ w.killed[q] = s.killed[q]
  BY <1>1, <1>2
<1>4. w.st[z] = "Free"
  BY <1>1, <1>2
<1>5. Entries(w) = Entries(s) \ {z} /\ Alive(w) = Alive(s) /\ z \notin Alive(s)
  BY <1>3, <1>4 DEF Entries, Alive
<1>6. z # INIT /\ z \in Entries(s)
  BY <1>1 DEF Family, Kin, Alive, Entries
<1>7. Cardinality(Entries(w)) <= MAX
  <2>1. Entries(s) \in SUBSET Pid /\ Entries(w) \in SUBSET Entries(s)
    BY <1>5 DEF Entries
  <2>2. /\ Cardinality(Entries(w)) <= Cardinality(Entries(s))
        /\ Cardinality(Entries(w)) \in Nat /\ Cardinality(Entries(s)) \in Nat
    BY <2>1 DEF Counting
  <2> QED BY <2>2, MaxAssumption DEF Family, Born
<1>8. Born(w)
  BY <1>1, <1>2, <1>3, <1>5, <1>6, <1>7 DEF Born, Family, Entries
<1>9. Kin(w)
  BY <1>3, <1>5 DEF Kin, Family, Entries
<1>10. \A q \in Pid : Children(w, q) = Children(s, q) \ {z}
  BY <1>3, <1>5 DEF Children, Entries
<1>11. Awaited(w, wanted)
  <2> SUFFICES ASSUME NEW q \in Pid, InWait(w, q)
               PROVE  /\ Mine(w, q, Awaits(q, wanted)) # {}
                      /\ Ended(w, q, Awaits(q, wanted)) = {}
    BY DEF Awaited
  <2>1. InWait(s, q) /\ q # me
    BY <1>1, <1>3, <1>4 DEF InWait
  <2>2. Children(w, q) = Children(s, q)
    BY <1>1, <1>10, <2>1 DEF Children
  <2>3. \A c \in Children(s, q) : w.st[c] = s.st[c]
    BY <1>1, <1>3, <2>1 DEF Children, Entries
  <2>4. /\ Mine(s, q, Awaits(q, wanted)) # {}
        /\ Ended(s, q, Awaits(q, wanted)) = {}
    BY <2>1 DEF Family, Awaited
  <2> QED BY <2>2, <2>3, <2>4 DEF Mine, Ended
<1>12. Readers(w, f)
  BY <1>2, <1>3, <1>4 DEF Readers, Family
<1>13. Front(w, f)
  <2>1. Groups(w) \subseteq Groups(s)
    BY <1>3, <1>5 DEF Groups, Entries
  <2> QED BY <1>2, <2>1 DEF Front, Family
<1>14. Family(w, wanted, f)
  BY <1>8, <1>9, <1>11, <1>12, <1>13 DEF Family
<1>15. Alive(w) = Alive(s) /\ \A p \in Alive(w) : s.killed[p] => w.killed[p]
  BY <1>3, <1>5 DEF Alive, Entries
<1>16. Children(s, INIT) \ {z} \subseteq Children(w, INIT)
  BY <1>1, <1>10
<1>17. me # INIT => Continues(s, w)
  BY <1>1, <1>15, <1>16 DEF Continues, Children
<1> QED BY <1>2, <1>14, <1>15, <1>16, <1>17 DEF w

-----------------------------------------------------------------------------
(* The chain of the console's holders. *)

(* Elements of different ranks can be put in the order of their ranks: by  *)
(* induction on the number of elements, the lowest first.                  *)
LEMMA SortedExists ==
    ASSUME Counting, NEW R \in SUBSET Pid, NEW rank \in [R -> Nat],
           \A x, y \in R : rank[x] = rank[y] => x = y
    PROVE  \E e \in Enumerations(R) : Ranked(e, rank)
<1> DEFINE Sorted(S) == \E e \in Enumerations(S) : Ranked(e, rank)
           bad == {n \in Nat : \E S \in SUBSET R : Cardinality(S) = n /\ ~Sorted(S)}
<1>1. ASSUME NEW S \in SUBSET R PROVE S \in SUBSET Pid /\ Cardinality(S) \in Nat
  BY DEF Counting
<1>2. SUFFICES ASSUME ~Sorted(R) PROVE FALSE
  OBVIOUS
<1>3. Cardinality(R) \in bad
  BY <1>1, <1>2
<1>4. PICK n \in bad : \A m \in bad : n <= m
  <2> HIDE DEF bad
  <2>1. bad \in SUBSET Nat /\ bad # {}
    BY <1>3 DEF bad
  <2> QED BY <2>1, SmallestExists
<1>5. PICK S \in SUBSET R : Cardinality(S) = n /\ ~Sorted(S)
  OBVIOUS
<1>6. n \in Nat
  OBVIOUS
<1>7. S # {}
  <2> SUFFICES ASSUME S = {} PROVE FALSE
    OBVIOUS
  <2>1. Cardinality({}) = 0
    BY DEF Counting
  <2>2. <<>> \in Enumerations({})
    BY <2>1 DEF Enumerations, Bijection, Injection, Surjection, IsInjective
  <2>3. Ranked(<<>>, rank)
    BY DEF Ranked
  <2> QED BY <1>5, <2>2, <2>3
<1>8. PICK x \in S : \A y \in S : rank[x] <= rank[y]
  <2>1. {rank[y] : y \in S} \in SUBSET Nat /\ {rank[y] : y \in S} # {}
    BY <1>7
  <2>2. \E k \in {rank[y] : y \in S} : \A l \in {rank[y] : y \in S} : k <= l
    BY ZenonT(30), <2>1, SmallestExists
  <2> QED BY <2>2
<1> DEFINE T == S \ {x}
<1>9. T \in SUBSET R /\ Cardinality(T) = n - 1 /\ n - 1 \in Nat
  <2>1. T \in SUBSET Pid /\ x \in Pid \ T /\ S = T \cup {x}
    BY <1>1
  <2>2. Cardinality(T) \in Nat
    BY <1>1
  <2> HIDE DEF T
  <2>3. Cardinality(T \cup {x}) = Cardinality(T) + 1
    BY <2>1 DEF Counting
  <2> QED BY <1>5, <2>1, <2>2, <2>3
<1>10. Sorted(T)
  <2>1. n - 1 \notin bad
    BY <1>4, <1>6, <1>9
  <2> HIDE DEF Sorted, T
  <2> QED BY <1>9, <2>1
<1>11. PICK e \in Enumerations(T) : Ranked(e, rank)
  BY <1>10
<1>12. /\ e \in [1..(n - 1) -> T]
       /\ \A i, j \in 1..(n - 1) : e[i] = e[j] => i = j
       /\ \A y \in T : \E i \in 1..(n - 1) : e[i] = y
       /\ \A i, j \in 1..(n - 1) : i < j => rank[e[i]] < rank[e[j]]
  <2>1. e \in Bijection(1..(n - 1), T)
    BY <1>9, <1>11 DEF Enumerations
  <2>2. e \in [1..(n - 1) -> T] /\ IsInjective(e)
    BY <2>1 DEF Bijection, Injection
  <2> QED BY <1>11, <2>1, <2>2 DEF Bijection, Surjection, IsInjective, Ranked
<1> DEFINE d == [i \in 1..n |-> IF i = 1 THEN x ELSE e[i - 1]]
<1>13. \A i \in 1..n : i # 1 => i - 1 \in 1..(n - 1) /\ d[i] = e[i - 1] /\ d[i] \in T
  BY <1>6, <1>12
<1>14. d \in [1..n -> S] /\ d[1] = x /\ 1 \in 1..n /\ DOMAIN d = 1..n
  BY <1>6, <1>9, <1>13
<1> HIDE DEF d
<1>15. IsInjective(d)
  <2>1. SUFFICES ASSUME NEW a \in 1..n, NEW b \in 1..n, d[a] = d[b] PROVE a = b
    BY <1>14 DEF IsInjective
  <2>2. CASE a = 1 \/ b = 1
    BY <1>13, <1>14, <2>1, <2>2
  <2>3. CASE a # 1 /\ b # 1
    <3>1. a - 1 \in 1..(n - 1) /\ b - 1 \in 1..(n - 1) /\ e[a - 1] = e[b - 1]
      BY <1>13, <2>1, <2>3
    <3>2. a - 1 = b - 1
      BY <1>12, <3>1
    <3> QED BY <3>2
  <2> QED BY <2>2, <2>3
<1>16. \A y \in S : \E i \in 1..n : d[i] = y
  <2> SUFFICES ASSUME NEW y \in S PROVE \E i \in 1..n : d[i] = y
    OBVIOUS
  <2>1. CASE y = x
    BY <1>14, <2>1
  <2>2. CASE y # x
    <3>1. PICK i \in 1..(n - 1) : e[i] = y
      BY <1>12, <2>2
    <3>2. i + 1 \in 1..n /\ i + 1 # 1 /\ (i + 1) - 1 = i
      BY <1>6, <3>1
    <3> QED BY SMTT(60), <1>13, <3>1, <3>2
  <2> QED BY <2>1, <2>2
<1>17. Ranked(d, rank)
  <2> SUFFICES ASSUME NEW i \in 1..n, NEW j \in 1..n, i < j
               PROVE  rank[d[i]] < rank[d[j]]
    BY <1>14 DEF Ranked
  <2>1. j # 1 /\ j - 1 \in 1..(n - 1) /\ d[j] = e[j - 1] /\ d[j] \in T
    BY <1>6, <1>13
  <2>2. CASE i = 1
    <3>1. rank[x] <= rank[d[j]] /\ rank[x] # rank[d[j]]
      BY <1>8, <2>1
    <3>2. rank[x] \in Nat /\ rank[d[j]] \in Nat
      BY <2>1
    <3> QED BY <1>14, <2>2, <3>1, <3>2
  <2>3. CASE i # 1
    <3>1. i - 1 \in 1..(n - 1) /\ d[i] = e[i - 1] /\ i - 1 < j - 1
      BY <1>6, <1>13, <2>3
    <3> QED BY <1>12, <2>1, <3>1
  <2> QED BY <2>2, <2>3
<1>18. d \in Enumerations(S)
  BY <1>5, <1>14, <1>15, <1>16 DEF Enumerations, Bijection, Injection, Surjection
<1> QED BY <1>5, <1>17, <1>18

(* The top of a chain is one of its groups. *)
LEMMA TopIsHolder ==
    ASSUME NEW c \in Seq(Pid), IsChain(c) PROVE Foreground(c) \in Range(c)
<1>1. Len(c) \in Nat /\ Len(c) # 0 /\ DOMAIN c = 1..Len(c)
  BY SeqShape DEF IsChain
<1> QED BY <1>1 DEF Foreground, Range

(* Groups that are gone leave the chain in its order: its top, if it is    *)
(* not gone, stays the top.                                                *)
LEMMA KeptTop ==
    ASSUME Counting, NEW c \in Seq(Pid), IsChain(c),
           NEW exists, Foreground(c) \in exists
    PROVE  Foreground(Kept(c, exists)) = Foreground(c)
<1> DEFINE f == Foreground(c)
           kept == Kept(c, exists)
           rest == Range(Tail(c)) \cap exists
           rank == [g \in rest |-> Position(c, g)]
           row == InOrder(rest, rank)
<1>1. /\ kept \in Seq(Pid) /\ IsChain(kept)
      /\ Range(kept) = {INIT} \cup (Range(c) \cap exists)
  BY KeptKeeps
<1>2. /\ Len(c) \in Nat /\ Len(c) # 0 /\ DOMAIN c = 1..Len(c)
      /\ c[1] = INIT /\ IsInjective(c) /\ f = c[Len(c)] /\ f \in Range(c)
  BY SeqShape, TopIsHolder DEF IsChain, Foreground
<1>3. /\ Range(Tail(c)) = Range(c) \ {INIT} /\ Tail(c) \in Seq(Pid)
      /\ Head(c) = INIT
  BY TailDistinct DEF IsChain
<1>4. CASE f = INIT
  <2>1. Len(c) = 1
    <3>1. 1 \in DOMAIN c /\ Len(c) \in DOMAIN c /\ c[1] = c[Len(c)]
      BY <1>2, <1>4
    <3> QED BY <1>2, <3>1 DEF IsInjective
  <2>2. Range(c) = {INIT}
    BY <1>2, <2>1 DEF Range
  <2>3. Foreground(kept) \in {INIT}
    <3> HIDE DEF kept
    <3> QED BY <1>1, <2>2, TopIsHolder
  <2> QED BY <1>4, <2>3
<1>5. CASE f # INIT
  <2>1. rest \in SUBSET Pid
    BY <1>3, SeqShape DEF Range
  <2>2. \A g \in rest : Position(c, g) \in 1..Len(c) /\ c[Position(c, g)] = g
    BY <1>3, PositionFinds
  <2>3. rank \in [rest -> Nat]
    BY <1>2, <2>2
  <2>4. \A x, y \in rest : rank[x] = rank[y] => x = y
    BY <2>2
  <2>5. f \in rest /\ rank[f] = Len(c)
    <3>1. f \in rest
      BY <1>2, <1>3, <1>5
    <3>2. Position(c, f) = Len(c)
      BY <1>2, <2>2, <3>1 DEF IsInjective
    <3> QED BY <3>1, <3>2
  <2>6. kept = <<Head(c)>> \o row
    BY DEF Kept
  <2>7. \A x \in rest : rank[x] <= Len(c)
    BY <1>2, <2>2
  <2> HIDE DEF rest, rank, kept, f
  <2>8. row \in Enumerations(rest) /\ Ranked(row, rank)
    <3>1. \E e \in Enumerations(rest) : Ranked(e, rank)
      BY ZenonT(30), <2>1, <2>3, <2>4, SortedExists
    <3> QED BY <3>1 DEF InOrder
  <2> DEFINE n == Cardinality(rest)
  <2>9. /\ n \in Nat /\ row \in [1..n -> rest]
        /\ \A x \in rest : \E i \in 1..n : row[i] = x
    BY <2>1, <2>8 DEF Counting, Enumerations, Bijection, Injection, Surjection
  <2> HIDE DEF n, row
  <2>10. PICK k \in 1..n : row[k] = f
    BY <2>5, <2>9
  <2>11. k = n
    <3> SUFFICES ASSUME k # n PROVE FALSE
      OBVIOUS
    <3>1. k < n /\ n \in 1..n /\ row[n] \in rest
      BY <2>9, <2>10
    <3>2. rank[f] < rank[row[n]]
      BY <2>8, <2>9, <2>10, <3>1 DEF Ranked
    <3>3. rank[row[n]] <= Len(c) /\ rank[row[n]] \in Nat
      BY <2>3, <2>7, <3>1
    <3> QED BY <1>2, <2>5, <3>2, <3>3
  <2>12. row \in Seq(Pid) /\ Len(row) = n
    <3>1. row \in [1..n -> Pid]
      BY <2>1, <2>9
    <3> QED BY <2>9, <3>1, SeqOfAll
  <2>13. <<Head(c)>> \in Seq(Pid) /\ Len(<<Head(c)>>) = 1
    BY <1>3, InitIsPid
  <2>14. Len(kept) = n + 1 /\ kept[n + 1] = row[n]
    <3>1. /\ Len(kept) = 1 + n
          /\ \A i \in 1..(1 + n) : kept[i] = IF i <= 1 THEN <<Head(c)>>[i] ELSE row[i - 1]
      BY <2>6, <2>12, <2>13, SeqJoins
    <3> QED BY <2>9, <2>10, <3>1
  <2> QED BY <2>10, <2>11, <2>14 DEF Foreground, f, kept
<1> QED BY <1>4, <1>5

(* There is room in the chain for every group: a chain that lacks one is   *)
(* shorter than the number of groups, and so of processes.                 *)
LEMMA RoomForAll ==
    ASSUME Counting, NEW s, TableOK(s), Born(s), INIT \in Alive(s),
           NEW by, NEW to \in Groups(s)
    PROVE  Give(s.console, by, to, Groups(s)).err # "EAGAIN"
<1> DEFINE kept == Kept(s.console, Groups(s))
           cut == CutTo(kept, by)
           give == Give(s.console, by, to, Groups(s))
<1>1. s.console \in Seq(Pid) /\ IsChain(s.console)
  BY DEF TableOK, Table, Held
<1>2. /\ kept \in Seq(Pid) /\ IsChain(kept)
      /\ Range(kept) = {INIT} \cup (Range(s.console) \cap Groups(s))
  BY <1>1, KeptKeeps
<1>3. INIT \in Groups(s)
  BY DEF Born, Alive, Groups
<1> HIDE DEF kept
<1>4. ASSUME Holds(kept, by), ~Holds(cut, to) PROVE Len(cut) < MAX
  <2>1. /\ cut \in Seq(Pid) /\ IsChain(cut) /\ Range(cut) \subseteq Groups(s)
        /\ to \notin Range(cut)
    <3>1. cut \in Seq(Pid) /\ IsChain(cut) /\ Range(cut) \subseteq Range(kept)
      BY <1>2, <1>4, CutToKeeps DEF Holds
    <3> QED BY <1>2, <1>3, <1>4, <3>1 DEF Holds
  <2> HIDE DEF cut
  <2>2. Entries(s) \in SUBSET Pid /\ Groups(s) \in SUBSET Pid
    BY DEF Entries, Groups, Born
  <2>3. Cardinality(Entries(s)) \in Nat /\ Cardinality(Groups(s)) \in Nat
    BY <2>2 DEF Counting
  <2>4. Cardinality(Groups(s)) <= Cardinality(Entries(s))
    <3> DEFINE g == [p \in Entries(s) |-> s.pgid[p]]
    <3>1. g \in Surjection(Entries(s), Groups(s))
      BY DEF Groups, Surjection
    <3> HIDE DEF g
    <3> QED BY <2>2, <3>1 DEF Counting
  <2>5. /\ Len(cut) \in Nat /\ Cardinality(Range(cut)) = Len(cut)
        /\ Cardinality(Range(cut) \cup {to}) = Len(cut) + 1
    <3>1. Len(cut) \in Nat /\ Cardinality(Range(cut)) = Len(cut)
      BY <2>1, SeqShape DEF Counting, IsChain
    <3>2. Range(cut) \in SUBSET Pid /\ to \in Pid \ Range(cut)
      BY <2>1, <2>2
    <3> QED BY <3>1, <3>2 DEF Counting
  <2>6. Cardinality(Range(cut) \cup {to}) <= Cardinality(Groups(s))
    <3>1. Range(cut) \cup {to} \in SUBSET Groups(s)
      BY <2>1
    <3> QED BY <2>2, <3>1 DEF Counting
  <2>7. Cardinality(Entries(s)) <= MAX
    BY DEF Born
  <2> QED BY <2>3, <2>4, <2>5, <2>6, <2>7, MaxAssumption
<1> QED BY <1>4 DEF Give, kept

(* Giving the console either succeeds, or fails because the giver does not *)
(* hold it, and then leaves the top of the chain if it is not gone.        *)
LEMMA GiveAgrees ==
    ASSUME Counting, NEW s, TableOK(s), Born(s), INIT \in Alive(s), NEW by,
           NEW to \in Groups(s), to \in Pid, NEW f, Front(s, f)
    PROVE  LET give == Give(s.console, by, to, Groups(s))
           IN  /\ give.chain \in Seq(Pid) /\ IsChain(give.chain)
               /\ give.err = "ok" => Foreground(give.chain) = to
               /\ give.err # "ok" => (f \in Groups(s) => Foreground(give.chain) = f)
<1> DEFINE kept == Kept(s.console, Groups(s))
           give == Give(s.console, by, to, Groups(s))
<1>1. s.console \in Seq(Pid) /\ IsChain(s.console)
  BY DEF TableOK, Table, Held
<1>2. /\ give.chain \in Seq(Pid) /\ IsChain(give.chain)
      /\ give.err = "ok" => Foreground(give.chain) = to
  BY <1>1, GiveKeeps
<1>3. give.err # "EAGAIN"
  BY RoomForAll
<1>4. ASSUME give.err # "ok" PROVE give.chain = kept
  BY <1>3, <1>4 DEF Give
<1>5. ASSUME f \in Groups(s) PROVE Foreground(kept) = f
  BY <1>1, <1>5, KeptTop DEF Front
<1> HIDE DEF give, kept
<1>6. ASSUME give.err # "ok", f \in Groups(s) PROVE Foreground(give.chain) = f
  BY <1>4, <1>5, <1>6
<1> QED BY <1>2, <1>6 DEF give

-----------------------------------------------------------------------------
(* A new child, and the console handed on. *)

(* The running process is given a child, in a group that exists or is new. *)
LEMMA InsertFamily ==
    ASSUME Counting, NEW s, Settled(s), HasRoom(s), NEW p \in Pid, p = s.current, NEW g,
           GroupOf(s, p, g) \in Groups(s) \cup {s.next},
           NEW wanted, NEW f \in Pid, Family(s, wanted, f)
    PROVE  LET w == Insert(s, p, g)
           IN  /\ Family(w, wanted, f)
               /\ Children(s, INIT) \subseteq Children(w, INIT)
               /\ s.next \in Children(w, p)
               /\ w.pgid[s.next] = GroupOf(s, p, g) /\ s.next \in Alive(w)
               /\ w.pgid[p] = s.pgid[p] /\ w.console = s.console /\ p # s.next
               /\ Extends(s.ready, w.ready)
<1> DEFINE w == Insert(s, p, g)
           new == s.next
           group == GroupOf(s, p, g)
<1>1. /\ s.st \in [Pid -> States] /\ s.ppid \in [Pid -> 0..PIDMAX]
      /\ s.pgid \in [Pid -> 0..PIDMAX] /\ s.next \in 0..PIDMAX
      /\ s.st[p] = "Running" /\ TableOK(s) /\ INIT \in Pid /\ new # 0
  BY ZenonT(30), InitIsPid DEF Settled, Sound, TableOK, Table, HasRoom
<1>2. group \in 0..PIDMAX /\ group \in Groups(s) \cup {new} /\ p \in 0..PIDMAX
  <2>1. Pid \subseteq 0..PIDMAX /\ Entries(s) \subseteq Pid
    BY DEF Pid, Entries
  <2>2. \A q \in Entries(s) : s.pgid[q] \in 0..PIDMAX
    BY <1>1, <2>1
  <2>3. Groups(s) \subseteq 0..PIDMAX
    BY <2>2 DEF Groups
  <2> HIDE DEF group
  <2> QED BY <1>1, <2>1, <2>3 DEF group
<1>3. /\ new \in Pid /\ s.st[new] = "Free"
      /\ w.st = [s.st EXCEPT ![new] = "Ready"]
      /\ w.ppid = [s.ppid EXCEPT ![new] = p]
      /\ w.pgid = [s.pgid EXCEPT ![new] = group]
      /\ w.killed = s.killed /\ w.arg = s.arg /\ w.console = s.console
      /\ w.next # 0 => w.next = new + 1
      /\ Extends(s.ready, w.ready) /\ w \in Table
  <2>1. Inserted(s, p, g, w)
    BY <1>1, <1>2, InsertKeeps
  <2> QED BY ZenonT(30), <2>1 DEF Inserted, TableOK
<1> HIDE DEF w, group, new
<1>4. \A q \in Pid : q # new => /\ w.st[q] = s.st[q] /\ w.ppid[q] = s.ppid[q]
                               /\ w.pgid[q] = s.pgid[q]
  BY <1>1, <1>3
<1>5. w.st[new] = "Ready" /\ w.ppid[new] = p /\ w.pgid[new] = group
  BY <1>1, <1>3
<1>6. /\ Entries(w) = Entries(s) \cup {new} /\ Alive(w) = Alive(s) \cup {new}
      /\ new \notin Entries(s) /\ p # new /\ p \in Alive(s)
  <2>1. new \notin Entries(s) /\ p # new /\ p \in Alive(s) /\ new \in Pid
    BY <1>1, <1>3 DEF Entries, Alive
  <2>2. \A q \in Pid : w.st[q] # "Free" <=> s.st[q] # "Free" \/ q = new
    BY <1>4, <1>5, <2>1 DEF Entries
  <2>3. \A q \in Pid : w.st[q] \notin {"Free", "Zombie"} <=> s.st[q] \notin {"Free", "Zombie"} \/ q = new
    BY <1>4, <1>5, <2>1 DEF Entries
  <2>4. Entries(w) = Entries(s) \cup {new}
    BY <2>1, <2>2 DEF Entries
  <2>5. Alive(w) = Alive(s) \cup {new}
    BY <2>1, <2>3 DEF Entries, Alive
  <2> QED BY <2>1, <2>4, <2>5
<1>7. Cardinality(Entries(w)) <= MAX
  <2>1. Entries(s) \in SUBSET Pid /\ Cardinality(Entries(s)) < MAX
    BY DEF Entries, HasRoom
  <2>2. Cardinality(Entries(s)) \in Nat /\ Cardinality(Entries(w)) = Cardinality(Entries(s)) + 1
    <3>1. new \in Pid \ Entries(s) /\ Entries(w) = Entries(s) \cup {new}
      BY <1>3, <1>6
    <3> QED BY <2>1, <3>1 DEF Counting
  <2> QED BY <2>1, <2>2, MaxAssumption
<1>8. /\ group \in Pid /\ group <= new
      /\ \A q \in Entries(s) : s.pgid[q] \in Pid /\ s.pgid[q] < new
  <2>1. \A q \in Entries(s) : s.pgid[q] \in Pid /\ s.pgid[q] < new
    BY <1>1 DEF Family, Born, new
  <2>2. \A x \in Groups(s) : x \in Pid /\ x < new
    BY <2>1 DEF Groups
  <2>3. group \in Pid /\ group <= new
    BY <1>2, <1>3, <2>2 DEF Pid
  <2> QED BY <2>1, <2>3
<1>9. Born(w)
  <2>1. w.pgid[INIT] = INIT
    BY <1>4, <1>6 DEF Family, Born, Kin, Alive, Entries
  <2>2. \A q \in Entries(w) : w.pgid[q] \in Pid /\ w.pgid[q] <= new
    BY <1>4, <1>5, <1>6, <1>8 DEF Entries, Pid
  <2>3. \A q \in Entries(w) : w.next # 0 => w.pgid[q] < w.next
    BY <1>3, <2>2 DEF Pid
  <2> QED BY <1>7, <2>1, <2>2, <2>3 DEF Born
<1>10. Kin(w)
  BY <1>4, <1>5, <1>6 DEF Family, Kin, Entries
<1>11. \A q \in Pid : q # p => Children(w, q) = Children(s, q)
  BY <1>4, <1>5, <1>6 DEF Children, Entries
<1>12. Awaited(w, wanted)
  <2> SUFFICES ASSUME NEW q \in Pid, InWait(w, q)
               PROVE  /\ Mine(w, q, Awaits(q, wanted)) # {}
                      /\ Ended(w, q, Awaits(q, wanted)) = {}
    BY DEF Awaited
  <2>1. InWait(s, q) /\ q # p
    BY <1>1, <1>4, <1>5, <1>6 DEF InWait
  <2>2. Children(w, q) = Children(s, q)
    BY <1>11, <2>1
  <2>3. \A c \in Children(s, q) : w.st[c] = s.st[c]
    BY <1>4, <1>6 DEF Children, Entries
  <2>4. /\ Mine(s, q, Awaits(q, wanted)) # {}
        /\ Ended(s, q, Awaits(q, wanted)) = {}
    BY <2>1 DEF Family, Awaited
  <2> QED BY <2>2, <2>3, <2>4 DEF Mine, Ended
<1>13. Readers(w, f)
  BY <1>3, <1>4, <1>5 DEF Readers, Family
<1>14. Front(w, f)
  <2>1. f < new
    BY <1>1 DEF Family, Front, new
  <2>2. ASSUME f \in Groups(w) PROVE f \in Groups(s)
    <3>1. PICK q \in Entries(w) : f = w.pgid[q]
      BY <2>2 DEF Groups
    <3>2. CASE q = new
      BY <1>2, <1>3, <1>5, <2>1, <3>1, <3>2 DEF Pid
    <3>3. CASE q # new
      BY <1>4, <1>6, <3>1, <3>3 DEF Groups, Entries
    <3> QED BY <3>2, <3>3
  <2>3. w.next # 0 => f < w.next
    BY <1>3, <2>1 DEF Pid
  <2> QED BY <1>3, <2>2, <2>3 DEF Front, Family
<1>15. Family(w, wanted, f)
  BY <1>9, <1>10, <1>12, <1>13, <1>14 DEF Family
<1>16. Children(s, INIT) \subseteq Children(w, INIT) /\ new \in Children(w, p)
  BY <1>4, <1>5, <1>6 DEF Children, Entries
<1> QED BY ZenonT(30), <1>3, <1>4, <1>5, <1>6, <1>15, <1>16 DEF w, new, group

(* A new chain is all that changes, and its readers wake. *)
Handed(s, c, w) ==
    /\ \A wanted : Born(s) /\ Kin(s) /\ Awaited(s, wanted) =>
                     Born(w) /\ Kin(w) /\ Awaited(w, wanted)
    /\ Groups(w) = Groups(s) /\ w.next = s.next /\ w.console = c
    /\ Children(w, INIT) = Children(s, INIT)
    /\ Alive(w) = Alive(s) /\ \A p \in Pid : s.killed[p] => w.killed[p]
    /\ Extends(s.ready, w.ready)

(* A change of the chain alone leaves the family as it is. *)
LEMMA ChainHanded ==
    ASSUME NEW s, Sound(s), NEW c \in Seq(Pid), IsChain(c)
    PROVE  LET w == [s EXCEPT !.console = c]
           IN  /\ Handed(s, c, w) /\ w.st = s.st /\ w.arg = s.arg /\ w.pgid = s.pgid
               /\ w.killed = s.killed /\ w.ready = s.ready
<1> DEFINE w == [s EXCEPT !.console = c]
<1>1. /\ w.st = s.st /\ w.ready = s.ready /\ w.killed = s.killed /\ w.arg = s.arg
      /\ w.pgid = s.pgid /\ w.ppid = s.ppid
      /\ w.next = s.next /\ w.current = s.current /\ w.console = c
      /\ s.ready \in Seq(Pid)
  BY DEF Sound, TableOK, Table
<1> HIDE DEF w
<1>2. Entries(w) = Entries(s) /\ Alive(w) = Alive(s) /\ Groups(w) = Groups(s)
  BY <1>1 DEF Entries, Alive, Groups
<1>3. \A p : Children(w, p) = Children(s, p)
  BY <1>1, <1>2 DEF Children
<1>4. \A p, x : Mine(w, p, x) = Mine(s, p, x) /\ Ended(w, p, x) = Ended(s, p, x)
  BY <1>1, <1>3 DEF Mine, Ended
<1>5. ASSUME Born(s), Kin(s), NEW wanted, Awaited(s, wanted)
      PROVE  Born(w) /\ Kin(w) /\ Awaited(w, wanted)
  <2>1. Born(w) /\ Kin(w)
    BY <1>1, <1>2, <1>5 DEF Born, Kin
  <2>2. Awaited(w, wanted)
    BY <1>1, <1>4, <1>5 DEF Awaited, InWait
  <2> QED BY <2>1, <2>2
<1>6. Extends(s.ready, w.ready)
  BY <1>1, SeqShape DEF Extends
<1> QED BY <1>1, <1>2, <1>3, <1>5, <1>6 DEF Handed, w

(* Once the readers have been woken, there are none. *)
LEMMA ReadersHanded ==
    ASSUME Counting, NEW s, Sound(s), NEW c \in Seq(Pid), IsChain(c),
           NEW f, Readers(s, f)
    PROVE  LET w == WakeAll([s EXCEPT !.console = c], "Console", 0)
           IN  Handed(s, c, w) /\ \A p \in Pid : w.st[p] # "Console"
<1> DEFINE given == [s EXCEPT !.console = c]
           who == {p \in Pid : given.st[p] = "Console" /\ given.arg[p] = 0}
           w == WakeAll(given, "Console", 0)
<1>1. /\ Handed(s, c, given) /\ given.st = s.st /\ given.arg = s.arg
      /\ given.killed = s.killed /\ given.ready = s.ready
  BY ChainHanded
<1>2. Sound(given)
  BY ChainSound
<1> HIDE DEF given
<1>3. Stirred(given, w) /\ TableOK(given)
  BY <1>2, WakeOpsStir DEF Sound
<1>4. Later(given, w)
  BY <1>3, StirredIsLater
<1>5. \A p \in Pid : w.st[p] # "Console"
  <2>1. w = Wake(given, who)
    BY DEF WakeAll
  <2>2. w.st = [p \in Pid |-> IF p \in {q \in who : given.st[q] \in Blocked} THEN "Ready"
                             ELSE given.st[p]]
    <3> HIDE DEF who, w
    <3> QED BY <1>3, <2>1 DEF Wake, TableOK, Table
  <2>3. \A p \in Pid : given.st[p] = "Console" => p \in who
    BY <1>1 DEF Readers
  <2> HIDE DEF who, w
  <2> QED BY <2>2, <2>3 DEF Blocked
<1> HIDE DEF w
<1>6. \A wanted : Born(s) /\ Kin(s) /\ Awaited(s, wanted) =>
                     Born(w) /\ Kin(w) /\ Awaited(w, wanted)
  BY <1>1, <1>4, LaterKin DEF Handed
<1>7. Entries(w) = Entries(given) /\ Alive(w) = Alive(given)
  BY <1>4 DEF Later, Entries, Alive
<1>8. Groups(w) = Groups(given) /\ Children(w, INIT) = Children(given, INIT)
  BY <1>4, <1>7 DEF Groups, Children, Later
<1>9. \A p \in Pid : s.killed[p] => w.killed[p]
  BY <1>1, <1>3 DEF Stirred
<1>10. Extends(s.ready, w.ready) /\ w.next = given.next /\ w.console = given.console
  BY <1>1, <1>3 DEF Stirred
<1>11. Handed(s, c, w)
  BY <1>1, <1>6, <1>7, <1>8, <1>9, <1>10 DEF Handed
<1> QED BY <1>5, <1>11 DEF w, given
=============================================================================
