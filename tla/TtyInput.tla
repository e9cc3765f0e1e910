------------------------------ MODULE TtyInput ------------------------------
(***************************************************************************)
(* The console's input as the process side of the kernel sees it           *)
(* (kernel/src/tty.rs, input.rs): the mode, a Ctrl-C typed in line mode    *)
(* that nobody took yet, and what waits to be read:                        *)
(*   "empty"    nothing                                                    *)
(*   "partial"  a line being typed (line mode)                             *)
(*   "ready"    something to read: a line or an end of input in line mode, *)
(*              bytes in raw mode                                          *)
(*   "ctrlC"    a Ctrl-C, then the oldest byte, in raw mode                *)
(* An operator that depends on the bytes typed gives the set of inputs     *)
(* there may be afterwards.                                                *)
(***************************************************************************)

TtyInputs == {i \in [line : BOOLEAN, interrupted : BOOLEAN,
                     buf : {"empty", "partial", "ready", "ctrlC"}] :
                 IF i.line THEN i.buf # "ctrlC"
                 ELSE i.buf # "partial" /\ ~i.interrupted}

NewInput == [line |-> FALSE, interrupted |-> FALSE, buf |-> "empty"]

HasInput(i) == i.buf \in {"ready", "ctrlC"}
HasRawCtrlC(i) == i.buf = "ctrlC"

(***************************************************************************)
(* What the keys that came since the last poll, if any, make of the input. *)
(* Only a Ctrl-C drops what can be read; in raw mode it then comes first.  *)
(***************************************************************************)
Polled(i) ==
    {j \in TtyInputs :
        /\ j.line = i.line
        /\ i.interrupted => j.interrupted
        /\ CASE i.buf = "ready" -> j.buf \in {"ready", "ctrlC"} \/ j.interrupted
             [] i.buf = "ctrlC" -> j.buf = "ctrlC"
             [] OTHER           -> TRUE}

(* The console goes to line mode or to raw mode. *)
SetLineMode(i, line) ==
    IF line = i.line THEN {i}
    ELSE {j \in TtyInputs :
            /\ j.line = line
            /\ line => j.interrupted = (i.buf = "ctrlC")
            /\ line /\ i.buf = "empty" => j.buf = "empty"
            /\ ~line => IF i.interrupted THEN j.buf = "ctrlC"
                        ELSE CASE i.buf = "empty"   -> j.buf = "empty"
                               [] i.buf = "partial" -> j.buf = "ready"
                               [] i.buf = "ready"   -> j.buf \in {"empty", "ready"}}

(* A read of some of what waits. *)
ReadInput(i) ==
    {j \in TtyInputs : /\ j.line = i.line
                       /\ j.interrupted = i.interrupted
                       /\ j.buf # "ctrlC"}

(* The Ctrl-C that waits in raw mode is taken. *)
TakeRawCtrlC(i) == {[i EXCEPT !.buf = b] : b \in {"empty", "ready"}}

(* A slip: it is taken from a group that has ended, too. *)
TakeCtrlCAlways(i, alive) == [i EXCEPT !.interrupted = FALSE]

(* A Ctrl-C typed in line mode is taken, for a group that still exists. *)
TakeCtrlC(i, alive) ==
    [i EXCEPT !.interrupted = @ /\ ~alive]
=============================================================================
