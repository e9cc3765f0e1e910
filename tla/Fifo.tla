-------------------------------- MODULE Fifo --------------------------------
(***************************************************************************)
(* What a pipe promises (kernel/src/pipe.rs, the comment at its head): a   *)
(* queue of at most SIZE bytes, from whose front a read takes what there   *)
(* is up to its length and at whose back a write puts what fits.  A longer *)
(* read or write than SIZE does what one of SIZE does.                     *)
(***************************************************************************)
EXTENDS Naturals, Sequences

CONSTANTS SIZE,         \* the bytes a pipe holds (16384)
          Value         \* the values of a byte

VARIABLES queue,
          buf           \* the buffer of the last read or write

Init == queue = <<>> /\ buf = <<>>

(* A read that gives its caller n bytes. *)
Take(n) == /\ n <= Len(queue)
           /\ buf' = SubSeq(queue, 1, n)
           /\ queue' = SubSeq(queue, n + 1, Len(queue))

(* A write of buf', of which n bytes fit. *)
Put(n) == /\ buf' \in Seq(Value)
          /\ n = IF Len(buf') < SIZE - Len(queue) THEN Len(buf') ELSE SIZE - Len(queue)
          /\ queue' = queue \o SubSeq(buf', 1, n)

Next == \/ \E n \in 0..SIZE : Take(n)
        \/ \E n \in 1..SIZE : Put(n)
Spec == Init /\ [][Next]_<<queue, buf>>
=============================================================================
