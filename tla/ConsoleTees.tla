---------------------------- MODULE ConsoleTees -----------------------------
(***************************************************************************)
(* The tees at work (kernel/src/tty.rs): processes push and pop tees,      *)
(* write to the console and end, typing is echoed from ticks, and the disk *)
(* the files are on fills up and gets room again.  Each tee has a file of  *)
(* its own here; w is what the files hold and the room left on the disk.   *)
(* The ghost seen is all the console was given since each file was pushed, *)
(* and done what the tees that finished in the last step came to.          *)
(***************************************************************************)
EXTENDS Integers, Sequences, SequencesExt

CONSTANTS TEES, TEES_EACH, TEE_CHUNK, ECHO_MAX, NoFile,
          Owners, TeeFiles, ROOM,   \* room on the disk, at most
          Outputs, Echoes,          \* what is written and echoed at once
          SEEN                      \* the most a file is given (a bound)

VARIABLES ts, w, seen, done
vars == <<ts, w, seen, done>>

(* Writes all of bytes, or ENOSPC with as much of them as fits. *)
WriteTee(d, file, bytes) ==
    LET n == IF Len(bytes) <= d.room THEN Len(bytes) ELSE d.room
    IN  [w |-> [data |-> [d.data EXCEPT ![file] = @ \o SubSeq(bytes, 1, n)], room |-> d.room - n],
         err |-> IF n = Len(bytes) THEN "OK" ELSE "ENOSPC"]

INSTANCE TeeStack WITH Write <- WriteTee

Init ==
    /\ ts = NoTees
    /\ w \in [data : {[f \in TeeFiles |-> <<>>]}, room : 0..ROOM]
    /\ seen = [f \in TeeFiles |-> <<>>]
    /\ done = {}

Given(bytes) == [f \in TeeFiles |-> IF f \in Files(ts) THEN seen[f] \o bytes ELSE seen[f]]
Fits(bytes) == \A f \in Files(ts) : Len(seen[f]) + Len(bytes) <= SEEN

(* How a finished tee came out: its error, and what its file has. *)
IsOutput(b) == b \in UNION {Range(o) : o \in Outputs}
Outcome(file, err, d) ==
    [err |-> err, whole |-> SelectSeq(d.data[file], IsOutput) = SelectSeq(seen[file], IsOutput),
     short |-> Len(d.data[file]) < Len(seen[file])]

PushTee(p) ==
    /\ TeeFiles \ Files(ts) # {}
    /\ LET f == Min(TeeFiles \ Files(ts))
           r == Push(ts, p, f)
       IN   /\ ts' = r.s
            /\ w' = IF r.err = "OK" THEN [w EXCEPT !.data[f] = <<>>] ELSE w
            /\ seen' = IF r.err = "OK" THEN [seen EXCEPT ![f] = <<>>] ELSE seen
            /\ done' = {}

(* A file's tee is told from the file it had, before a failure took it. *)
PopTee(p) ==
    LET r == Pop(ts, w, p)
        i == Max({j \in DOMAIN ts.tees : ts.tees[j].owner = p})
    IN  /\ ts' = r.s /\ w' = r.w
        /\ done' = IF r.popped = <<>> THEN {}
                   ELSE IF ts.tees[i].file = NoFile THEN {[err |-> r.err, whole |-> FALSE, short |-> TRUE]}
                   ELSE {Outcome(ts.tees[i].file, r.err, r.w)}
        /\ UNCHANGED seen

FlushTees(s, all) ==
    LET r == Flush(s, w, all)
    IN  /\ ts' = r.s /\ w' = r.w
        /\ done' = {Outcome(s.closing[i].file, r.ended[i].error, r.w) : i \in DOMAIN s.closing}

(* tty::write *)
ConsoleWrite(bytes) ==
    /\ IsCopying(ts)
    /\ Fits(bytes)
    /\ FlushTees(Add(ts, bytes), FALSE)
    /\ seen' = Given(bytes)

(* tty::output: from a tick, where no file is written. *)
Echo(bytes) ==
    /\ Fits(bytes)
    /\ ts' = AddEcho(ts, bytes)
    /\ seen' = Given(bytes)
    /\ done' = {} /\ UNCHANGED w

ReadConsole == FlushTees(ts, FALSE) /\ UNCHANGED seen    \* flush_due_tees
SyncTees == FlushTees(ts, TRUE) /\ UNCHANGED seen

EndProcess(p) == ts' = End(ts, p) /\ done' = {} /\ UNCHANGED <<w, seen>>

(* Something else frees room on the disk, or takes it. *)
RoomChanges == \E n \in 0..ROOM : w' = [w EXCEPT !.room = n] /\ done' = {} /\ UNCHANGED <<ts, seen>>

Next ==
    \/ \E p \in Owners : PushTee(p) \/ PopTee(p) \/ EndProcess(p)
    \/ \E b \in Outputs : ConsoleWrite(b)
    \/ \E b \in Echoes : Echo(b)
    \/ ReadConsole \/ SyncTees \/ RoomChanges

Spec == Init /\ [][Next]_vars

(***************************************************************************)
(* TeesComplete: a transcript has everything its process could see on the  *)
(* console.  While a tee is copied to, its file and what waits hold all    *)
(* the output since it was pushed, in order (echo may be dropped), however *)
(* the writes, ticks, flushes and the disk's filling up fall; and when it  *)
(* is popped, or closed after its process ended, it answers OK only if the *)
(* file has all the output, and an error only if something is missing      *)
(* (kernel/src/tee.rs:107).                                                *)
(***************************************************************************)
TeesComplete ==
    /\ \A t \in Range(ts.tees \o ts.closing) : t.file # NoFile =>
           SelectSeq(w.data[t.file] \o t.pending, IsOutput) = SelectSeq(seen[t.file], IsOutput)
    /\ \A d \in done : IF d.err = "OK" THEN d.whole ELSE d.short
=============================================================================
