-------------------------------- MODULE Pipe --------------------------------
(***************************************************************************)
(* A pipe's ring (kernel/src/pipe.rs, Pipe::read and Pipe::write): SIZE    *)
(* bytes of memory, where the oldest byte is and how many there are.  A    *)
(* read or a write that reaches the end of the memory goes on at its       *)
(* start, in two copies.  The ends and the waiting are in PipeCalls.       *)
(***************************************************************************)
EXTENDS Naturals, Sequences

CONSTANTS SIZE,         \* the ring's bytes (16384)
          Value         \* the values of a byte

ASSUME SizeAssumption == SIZE \in Nat \ {0}

VARIABLES memory, start, len,
          buf           \* the buffer of the last call: what a read copied
                        \* to its caller, or what a write was given

vars == <<memory, start, len, buf>>

Least(a, b) == IF a < b THEN a ELSE b

Init == /\ memory \in [0..SIZE - 1 -> Value]
        /\ start = 0
        /\ len = 0
        /\ buf = <<>>

(***************************************************************************)
(* copy_from_slice: n bytes of the ring from place from on to the caller;  *)
(* the caller's bytes s[a + 1], s[a + 2], ... to the ring.                 *)
(***************************************************************************)
Copied(from, n) == [k \in 1..n |-> memory[from + k - 1]]
Stored(m, from, s, a, n) ==
    [x \in DOMAIN m |-> IF x \in from..from + n - 1 THEN s[a + x - from + 1] ELSE m[x]]

(* A read into a buffer of room bytes, of a ring that holds some. *)
Read(room) ==
    /\ len > 0
    /\ LET n     == Least(room, len)
           first == Least(n, SIZE - start)
       IN  /\ buf' = Copied(start, first) \o Copied(0, n - first)
           /\ start' = (start + n) % SIZE
           /\ len' = len - n
    /\ UNCHANGED memory

(* A slip: the second copy repeats the first's bytes. *)
WriteAtStart(bytes) ==
    LET n     == Least(Len(bytes), SIZE - len)
        at    == (start + len) % SIZE
        first == Least(n, SIZE - at)
    IN  /\ n > 0
        /\ memory' = Stored(Stored(memory, at, bytes, 0, first), 0, bytes, 0, n - first)
        /\ len' = len + n
        /\ buf' = bytes
        /\ UNCHANGED start

(* A write of bytes, to a ring with room for some. *)
Write(bytes) ==
    LET n     == Least(Len(bytes), SIZE - len)
        at    == (start + len) % SIZE
        first == Least(n, SIZE - at)
    IN  /\ n > 0
        /\ memory' = Stored(Stored(memory, at, bytes, 0, first), 0, bytes, first, n - first)
        /\ len' = len + n
        /\ buf' = bytes
        /\ UNCHANGED start

Next == \/ \E room \in 0..SIZE : Read(room)
        \/ \E n \in 1..SIZE + 1 : \E bytes \in [1..n -> Value] : Write(bytes)
Spec == Init /\ [][Next]_vars
-----------------------------------------------------------------------------
(* The ring's places stay within its memory. *)
TypeOK == /\ memory \in [0..SIZE - 1 -> Value]
          /\ start \in 0..SIZE - 1
          /\ len \in 0..SIZE
          /\ buf \in Seq(Value)

(* What the ring holds, oldest first. *)
Contents == [k \in 1..len |-> memory[(start + k - 1) % SIZE]]

Queue == INSTANCE Fifo WITH queue <- Contents

(***************************************************************************)
(* The ring is a queue: a read gives its caller the oldest bytes, and      *)
(* takes those out; a write puts the first bytes it is given behind the    *)
(* others, as many as fit.  None is lost, doubled or invented where the    *)
(* ring wraps around.                                                      *)
(***************************************************************************)
ImplementsFifo == Queue!Spec
=============================================================================
