------------------------------ MODULE TeeStack ------------------------------
(***************************************************************************)
(* The console's tees (kernel/src/tee.rs): files that get a copy of what   *)
(* the console is given.  A stack s is a record of the tees, oldest first, *)
(* and of those whose process ended (closing).  A tee has its owner, its   *)
(* file (NoFile once a write failed), the bytes that wait for it and the   *)
(* error of the write that failed.  A flush writes through Write(w, file,  *)
(* bytes), which gives the world w after it and the error.                 *)
(***************************************************************************)
EXTENDS Integers, Sequences, SequencesExt

CONSTANTS TEES, TEES_EACH, TEE_CHUNK, ECHO_MAX, NoFile,
          Write(_, _, _)

NoTees == [tees |-> <<>>, closing |-> <<>>]
NewTee(owner, file) == [owner |-> owner, file |-> file, pending |-> <<>>, error |-> "OK"]

Push(s, owner, file) ==
    LET mine == SelectSeq(s.tees, LAMBDA t : t.owner = owner)
    IN  IF Len(mine) >= TEES_EACH \/ Len(s.tees) >= TEES THEN [s |-> s, err |-> "EBUSY"]
        ELSE [s |-> [s EXCEPT !.tees = Append(@, NewTee(owner, file))], err |-> "OK"]

IsCopying(s) == \E i \in DOMAIN s.tees : s.tees[i].file # NoFile

AddTo(t, bytes) == IF t.file = NoFile THEN t ELSE [t EXCEPT !.pending = @ \o bytes]

Add(s, bytes) == [s EXCEPT !.tees = [i \in DOMAIN @ |-> AddTo(@[i], bytes)]]

(* Echo is dropped beyond ECHO_MAX of waiting copies. *)
EchoKept(t, bytes) == Min({Len(bytes), Max({0, ECHO_MAX - Len(t.pending)})})

AddEcho(s, bytes) ==
    [s EXCEPT !.tees = [i \in DOMAIN @ |->
        LET n == EchoKept(@[i], bytes) IN AddTo(@[i], [j \in 1..n |-> bytes[j]])]]

(* A slip: the tee that failed goes on. *)
WrittenGoesOn(t, err) == [t EXCEPT !.pending = <<>>, !.error = err]

(* Once a write fails the tee gets no more copies and keeps the error. *)
Written(t, err) ==
    IF err = "OK" THEN [t EXCEPT !.pending = <<>>]
    ELSE [t EXCEPT !.pending = <<>>, !.file = NoFile, !.error = err]

WriteOut(t, w) ==
    IF t.file = NoFile \/ t.pending = <<>> THEN [t |-> t, w |-> w, err |-> "OK"]
    ELSE LET r == Write(w, t.file, t.pending) IN [t |-> Written(t, r.err), w |-> r.w, err |-> r.err]

(* Every tee with enough waiting, oldest first, then the ones closing for  *)
(* the last time; a failure of one leaves the others.                      *)
Flush(s, w, all) ==
    LET due(t) == all \/ Len(t.pending) >= TEE_CHUNK
        one(acc, t) ==
            LET r == WriteOut(t, acc.w)
            IN  IF due(t) THEN [tees |-> Append(acc.tees, r.t), w |-> r.w]
                ELSE [acc EXCEPT !.tees = Append(@, t)]
        open == FoldLeft(one, [tees |-> <<>>, w |-> w], s.tees)
        last(acc, t) == LET r == WriteOut(t, acc.w)
                        IN  [tees |-> Append(acc.tees, r.t), w |-> r.w]
        closed == FoldLeft(last, [tees |-> <<>>, w |-> open.w], s.closing)
    IN  [s |-> [tees |-> open.tees, closing |-> <<>>], w |-> closed.w, ended |-> closed.tees]

(* The owner's newest tee goes, after what waits for it is written; the    *)
(* answer is its write's error, now or before.                             *)
Pop(s, w, owner) ==
    LET mine == {i \in DOMAIN s.tees : s.tees[i].owner = owner}
        i == Max(mine)
        r == WriteOut(s.tees[i], w)
    IN  IF mine = {} THEN [s |-> s, w |-> w, err |-> "EINVAL", popped |-> <<>>]
        ELSE [s |-> [s EXCEPT !.tees = RemoveAt(@, i)], w |-> r.w, popped |-> <<r.t>>,
              err |-> IF r.t.error # "OK" THEN r.t.error ELSE r.err]

End(s, owner) ==
    [tees |-> SelectSeq(s.tees, LAMBDA t : t.owner # owner),
     closing |-> s.closing \o SelectSeq(s.tees, LAMBDA t : t.owner = owner /\ t.file # NoFile)]

Files(s) == {t.file : t \in Range(s.tees \o s.closing)} \ {NoFile}
=============================================================================
