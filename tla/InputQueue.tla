----------------------------- MODULE InputQueue -----------------------------
(***************************************************************************)
(* The console's line discipline (kernel/src/line.rs): its state as a      *)
(* record d, each method as an operator.  A byte is [b, shown, more]: its  *)
(* class, how often the screen has shown it since it was typed (0..2, what *)
(* the echo buffer is for), and whether its key's sequence goes on after   *)
(* it.  A line that waits has a byte at least, so <<>> in ready stands for *)
(* the end of input (None).                                                *)
(***************************************************************************)
EXTENDS Naturals, Sequences, SequencesExt


CONSTANT LINE_MAX       \* the bytes typed and not read that are kept (4096)

(***************************************************************************)
(* Ctrl-C, Ctrl-D, Backspace and Escape, CR and LF; "[" and a letter,      *)
(* which characters and escape sequences share; the first and the other    *)
(* bytes of a character that has two; a control character without a        *)
(* function.                                                               *)
(***************************************************************************)
Classes == {"^C", "^D", "DEL", "ESC", "CR", "LF", "[", "a", "lead", "cont", "ctl"}
Printable == {"[", "a", "lead", "cont"}
Byte == [b : Classes, shown : 0..2, more : BOOLEAN]

NewLine == [line |-> <<>>, ready |-> <<>>, waiting |-> 0, after_cr |-> FALSE]

HasLine(d) == d.ready # <<>>

(* The byte is shown, unless it was before and goes in quietly. *)
Echoed(x, quiet) == IF quiet THEN x ELSE [x EXCEPT !.shown = IF @ < 2 THEN @ + 1 ELSE 2]

(* The line being typed joins the ones that wait. *)
HandOver(d) ==
    [d EXCEPT !.waiting = @ + Len(d.line), !.ready = Append(@, d.line), !.line = <<>>]

(* A slip: waiting forgets that an end of input counts. *)
EndOfInputUncounted(d) ==
    IF d.line # <<>> THEN HandOver(d)
    ELSE IF d.waiting < LINE_MAX THEN [d EXCEPT !.ready = Append(@, <<>>)]
    ELSE d

(* Ctrl-D hands over what was typed, or is the end of input. *)
EndOfInput(d) ==
    IF d.line # <<>> THEN HandOver(d)
    ELSE IF d.waiting < LINE_MAX
    THEN [d EXCEPT !.ready = Append(@, <<>>), !.waiting = @ + 1]
    ELSE d

(* Enter, if the line feed fits. *)
Enter(d, x, quiet) ==
    IF d.waiting + Len(d.line) < LINE_MAX
    THEN HandOver([d EXCEPT !.line = Append(@, Echoed([x EXCEPT !.b = "LF"], quiet))])
    ELSE d

(* Backspace takes back the last character, all of its bytes. *)
Erase(d) ==
    LET first == {i \in DOMAIN d.line : d.line[i].b # "cont"}
    IN [d EXCEPT !.line = IF first = {} THEN <<>> ELSE SubSeq(@, 1, Max(first) - 1)]

(* A character, if it fits with the line feed after it. *)
Type(d, x, quiet) ==
    IF d.waiting + Len(d.line) + 2 <= LINE_MAX
    THEN [d EXCEPT !.line = Append(@, Echoed(x, quiet))]
    ELSE d

(***************************************************************************)
(* One key's bytes: an escape sequence does nothing, and a LF right after  *)
(* a CR is the same Enter.  What a raw reader left of a sequence is keys.  *)
(***************************************************************************)
Input(before, key, quiet) ==
    LET x == [Head(key) EXCEPT !.more = FALSE]
        d == [before EXCEPT !.after_cr = FALSE]
    IN  CASE Len(key) # 1                       -> d
          [] x.b = "^C"                         -> NewLine
          [] x.b = "LF" /\ before.after_cr      -> d
          [] x.b \in {"CR", "LF"}               ->
                [Enter(d, x, quiet) EXCEPT !.after_cr = (x.b = "CR")]
          [] x.b = "^D"                         -> EndOfInput(d)
          [] x.b = "DEL"                        -> Erase(d)
          [] x.b \in Printable                  -> Type(d, x, quiet)
          [] OTHER                              -> d

(* Whether the key is Ctrl-C, for the foreground group. *)
IsCtrlC(key) == Len(key) = 1 /\ Head(key).b = "^C"

(***************************************************************************)
(* A read of n > 0 bytes from the oldest line, which HasLine: never more   *)
(* than the line, whose rest waits.                                        *)
(***************************************************************************)
ReadLine(d, n) ==
    LET first == Head(d.ready)
        k     == IF n < Len(first) THEN n ELSE Len(first)
    IN  IF first = <<>> THEN [d EXCEPT !.ready = Tail(@), !.waiting = @ - 1]
        ELSE [d EXCEPT !.waiting = @ - k,
                       !.ready = IF k = Len(first) THEN Tail(@)
                                 ELSE <<SubSeq(first, k + 1, Len(first))>> \o Tail(@)]

(* Everything typed and not read, as raw bytes; ends of input are dropped. *)
TakeAll(d) == FlattenSeq(d.ready) \o d.line

-----------------------------------------------------------------------------
(***************************************************************************)
(* The console's input (kernel/src/input.rs): the raw queue, the serial    *)
(* line's half-arrived escape sequences, the two modes and the way of what *)
(* was typed from one to the other.  q is the InputQueue; its echo buffer  *)
(* is emptied by every caller at once (kernel/src/tty.rs) and stands in    *)
(* the bytes' shown.  The time a sequence may take is left open: it may    *)
(* expire whenever it is not complete.                                     *)
(***************************************************************************)


CONSTANTS QUEUE_MAX,    \* the raw bytes kept (4096)
          SEQUENCE_MAX, \* the longest escape sequence kept while it arrives (8)
          Typed         \* the classes of the bytes typed

VARIABLE q

Raw(c) == [b |-> c, shown |-> 0, more |-> FALSE]

NewQueue == [bytes |-> <<>>, taken_cr |-> FALSE, echoed |-> 0, sequence |-> <<>>,
             line_mode |-> FALSE, line |-> NewLine, interrupted |-> FALSE]

(* The end of an escape sequence. *)
Final(x) == x.b \in {"[", "a"}

(***************************************************************************)
(* The bytes cut into keys: ESC [ up to its final byte is one, every other *)
(* byte is one.                                                            *)
(***************************************************************************)
KeyLength(s) ==
    IF Len(s) > 1 /\ s[1].b = "ESC" /\ s[2].b = "["
    THEN Min({i \in 3..Len(s) : Final(s[i])} \cup {Len(s)})
    ELSE 1

RECURSIVE Keys(_)
Keys(s) ==
    IF s = <<>> THEN <<>>
    ELSE <<SubSeq(s, 1, KeyLength(s))>> \o Keys(SubSeq(s, KeyLength(s) + 1, Len(s)))

(* The line discipline gets bytes, a key at a time. *)
ToLine(i, s, quiet) ==
    [i EXCEPT !.line = FoldLeft(LAMBDA d, key : Input(d, key, quiet), @, Keys(s)),
              !.interrupted = @ \/ \E k \in 1..Len(Keys(s)) : IsCtrlC(Keys(s)[k])]

LastCtrlC(s) == {k \in DOMAIN s : s[k].b = "^C" /\ \A m \in DOMAIN s : s[m].b = "^C" => m <= k}

(***************************************************************************)
(* Adds input; what does not fit is dropped.  A Ctrl-C drops what came     *)
(* before it, and a half-arrived sequence.                                 *)
(***************************************************************************)
Push(i, s) ==
    IF i.line_mode
    THEN ToLine(IF LastCtrlC(s) = {} THEN i ELSE [i EXCEPT !.sequence = <<>>], s, FALSE)
    ELSE LET kept == IF LastCtrlC(s) = {} THEN i
                     ELSE [i EXCEPT !.bytes = <<>>, !.echoed = 0, !.sequence = <<>>]
             new  == IF LastCtrlC(s) = {} THEN s
                     ELSE SubSeq(s, Max(LastCtrlC(s)), Len(s))
             room == QUEUE_MAX - Len(kept.bytes)
         IN [kept EXCEPT !.bytes = @ \o SubSeq(new, 1, IF Len(new) < room THEN Len(new) ELSE room)]
-----------------------------------------------------------------------------
(* A sequence's bytes, marked as such. *)
Marked(s) == [k \in DOMAIN s |-> [s[k] EXCEPT !.more = k < Len(s)]]

(* A whole escape sequence: all of it goes in or nothing. *)
PushWhole(i, s) ==
    IF Len(i.bytes) + Len(s) <= QUEUE_MAX THEN Push(i, Marked(s)) ELSE i

(***************************************************************************)
(* A byte from the serial line.  An escape sequence waits until it is      *)
(* complete.                                                               *)
(***************************************************************************)
PushSerial(i, x) ==
    LET s    == Append(i.sequence, x)
        done == \/ Len(s) = 2 /\ s[2].b # "["
                \/ Len(s) > 2 /\ Final(x)
        none == [i EXCEPT !.sequence = <<>>]
    IN  IF x.b = "^C" \/ (i.sequence = <<>> /\ x.b # "ESC") THEN Push(i, <<x>>)
        ELSE IF done THEN PushWhole(none, s)
        ELSE IF Len(s) >= SEQUENCE_MAX THEN none
        ELSE [i EXCEPT !.sequence = s]

(* An Escape alone is the key; the start of a longer sequence is dropped. *)
Expire(i) ==
    LET none == [i EXCEPT !.sequence = <<>>]
    IN  IF Len(i.sequence) = 1 THEN Push(none, i.sequence) ELSE none

(* A slip: what was typed ahead also stays in the raw queue. *)
ToLineModeKeeps(i) ==
    Push([i EXCEPT !.line_mode = TRUE, !.echoed = 0, !.taken_cr = FALSE,
                   !.line.after_cr = i.taken_cr], i.bytes)

(* To line mode: what was typed ahead goes through the line discipline. *)
ToLineMode(i) ==
    LET quiet == IF i.echoed < Len(i.bytes) THEN i.echoed ELSE Len(i.bytes)
        empty == [i EXCEPT !.line_mode = TRUE, !.bytes = <<>>, !.echoed = 0,
                           !.taken_cr = FALSE, !.line.after_cr = i.taken_cr]
    IN  Push(ToLine(empty, SubSeq(i.bytes, 1, quiet), TRUE),
             SubSeq(i.bytes, quiet + 1, Len(i.bytes)))

(* A slip: what is handed back counts as never shown. *)
ToRawModeUnshown(i) ==
    LET empty == [i EXCEPT !.line_mode = FALSE, !.line = NewLine, !.interrupted = FALSE]
    IN  Push(IF i.interrupted THEN Push(empty, <<Raw("^C")>>) ELSE empty, TakeAll(i.line))

(* A slip: the Ctrl-C that nobody took comes after what was typed. *)
ToRawModeCtrlCLast(i) ==
    LET empty == [i EXCEPT !.line_mode = FALSE, !.line = NewLine, !.interrupted = FALSE]
        full  == Push(empty, TakeAll(i.line))
        back  == IF i.interrupted THEN Push(full, <<Raw("^C")>>) ELSE full
    IN  [back EXCEPT !.echoed = Len(back.bytes)]

(* To raw mode: what was typed and not read is raw input again. *)
ToRawMode(i) ==
    LET empty == [i EXCEPT !.line_mode = FALSE, !.line = NewLine, !.interrupted = FALSE]
        back  == Push(IF i.interrupted THEN Push(empty, <<Raw("^C")>>) ELSE empty,
                      TakeAll(i.line))
    IN  [back EXCEPT !.echoed = Len(back.bytes)]

Less(a, b) == IF a > b THEN a - b ELSE 0

(* n of the oldest raw bytes are taken. *)
TakeBytes(i, n) ==
    [i EXCEPT !.bytes = SubSeq(@, n + 1, Len(@)), !.echoed = Less(@, n),
              !.taken_cr = (i.bytes[n].b = "CR")]

IsEmpty(i) == i.bytes = <<>> /\ ~HasLine(i.line)
HasRawInterrupt(i) == i.bytes # <<>> /\ Head(i.bytes).b = "^C"
-----------------------------------------------------------------------------
Init == q = NewQueue

(* A key of a USB keyboard: a byte, or an editing key's sequence. *)
KeyByte == \E c \in Typed : q' = Push(q, <<Raw(c)>>)
KeySequence == {"ESC", "[", "a"} \subseteq Typed
               /\ q' = PushWhole(q, <<Raw("ESC"), Raw("["), Raw("a")>>)

Serial == \E c \in Typed : q' = PushSerial(q, Raw(c))
SequenceExpires == q.sequence # <<>> /\ q' = Expire(q)

SetLineMode == ~q.line_mode /\ q' = ToLineMode(q)
SetRawMode == q.line_mode /\ q' = ToRawMode(q)

(* A program's read with room for n bytes. *)
ReadRaw(n) == /\ ~q.line_mode
              /\ n <= Len(q.bytes)
              /\ q' = TakeBytes(q, n)
ReadALine(n) == /\ q.line_mode
                /\ HasLine(q.line)
                /\ q' = [q EXCEPT !.line = ReadLine(@, n)]

(* The shell's WAIT_CTRL_C takes a raw Ctrl-C; the error screen a key. *)
TakeRawInterrupt == HasRawInterrupt(q) /\ q' = TakeBytes(q, 1)
Pop == q.bytes # <<>> /\ q' = TakeBytes(q, 1)

(* A slip: what was typed after it is dropped with it. *)
TakeLineInterruptFlushes ==
    q.interrupted /\ q' = [q EXCEPT !.interrupted = FALSE, !.line = NewLine]

(* A Ctrl-C of line mode is taken for a foreground group that lives. *)
TakeLineInterrupt == q.interrupted /\ q' = [q EXCEPT !.interrupted = FALSE]

Next ==
    \/ KeyByte \/ KeySequence \/ Serial \/ SequenceExpires
    \/ SetLineMode \/ SetRawMode
    \/ \E n \in 1..QUEUE_MAX : ReadRaw(n) \/ ReadALine(n)
    \/ TakeRawInterrupt \/ Pop \/ TakeLineInterrupt

Spec == Init /\ [][Next]_q
-----------------------------------------------------------------------------
(* What is typed and not read, in line mode. *)
Unread(i) == TakeAll(i.line)

(* The state is well-formed, the queue and a sequence within their limits. *)
TypeOK ==
    /\ q.bytes \in Seq(Byte) /\ Len(q.bytes) <= QUEUE_MAX
    /\ q.sequence \in Seq(Byte) /\ Len(q.sequence) < SEQUENCE_MAX
    /\ q.echoed \in Nat
    /\ {q.taken_cr, q.line_mode, q.interrupted, q.line.after_cr} \subseteq BOOLEAN
    /\ q.line.line \in Seq(Byte)
    /\ \A k \in DOMAIN q.line.ready : q.line.ready[k] \in Seq(Byte)

(***************************************************************************)
(* Half a sequence would reach the reader as other keys (push_key,         *)
(* push_serial): however full the queue is, it never ends within one.      *)
(***************************************************************************)
WholeSequences == q.bytes # <<>> => ~Last(q.bytes).more

(***************************************************************************)
(* The counters the code subtracts from never go below zero: waiting is    *)
(* what the lines that wait hold, an end of input counting as one, at most *)
(* LINE_MAX with the line being typed (line.rs), and no more bytes count   *)
(* as shown than there are (input.rs).  The queues keep their limits, and  *)
(* at the limit no sequence is cut.                                        *)
(***************************************************************************)
Bounded ==
    /\ TypeOK /\ WholeSequences
    /\ q.line.waiting = FoldLeft(LAMBDA sum, l : sum + (IF l = <<>> THEN 1 ELSE Len(l)),
                                 0, q.line.ready)
    /\ q.line.waiting + Len(q.line.line) <= LINE_MAX
    /\ q.echoed <= Len(q.bytes)

(***************************************************************************)
(* What was typed is in one place: in raw mode the line discipline has     *)
(* nothing and no Ctrl-C waits for a group, in line mode the raw queue has *)
(* nothing.  A raw Ctrl-C is the oldest byte, so that has_raw_interrupt    *)
(* need look no further.                                                   *)
(***************************************************************************)
OnePlace ==
    /\ ~q.line_mode => Unread(q) = <<>> /\ ~HasLine(q.line) /\ ~q.interrupted
    /\ q.line_mode => q.bytes = <<>> /\ q.echoed = 0
    /\ \A k \in DOMAIN q.bytes : q.bytes[k].b = "^C" => k = 1

(***************************************************************************)
(* Every character is shown exactly once, however often the mode changes   *)
(* while it waits: what the line discipline has was shown, and of the raw  *)
(* bytes exactly the first `echoed` were (Ctrl-C is never shown).          *)
(***************************************************************************)
EchoedOnce ==
    /\ \A k \in DOMAIN Unread(q) : Unread(q)[k].shown = 1
    /\ \A k \in DOMAIN q.bytes :
          q.bytes[k].b # "^C" => q.bytes[k].shown = IF k <= q.echoed THEN 1 ELSE 0

(***************************************************************************)
(* A program that goes to raw mode and back loses nothing that was typed,  *)
(* and a Ctrl-C that nobody took stays one (set_line_mode).  The exception *)
(* is a Ctrl-C with LINE_MAX bytes after it: together they do not fit in   *)
(* the raw queue, and the last byte is dropped.                            *)
(***************************************************************************)
RoundTrip ==
    q.line_mode =>
        LET back == ToLineMode(ToRawMode(q))
            kept == IF q.interrupted /\ Len(Unread(q)) = QUEUE_MAX
                    THEN QUEUE_MAX - 1 ELSE Len(Unread(q))
        IN  /\ back.interrupted = q.interrupted
            /\ Len(Unread(back)) = kept
            /\ \A k \in 1..kept : Unread(back)[k].b = Unread(q)[k].b

(* The queue as the processes see it. *)
Seen == [line |-> q.line_mode, interrupted |-> q.interrupted,
         buf |-> CASE HasRawInterrupt(q)      -> "ctrlC"
                   [] ~IsEmpty(q)             -> "ready"
                   [] q.line.line # <<>>      -> "partial"
                   [] OTHER                   -> "empty"]
Tty == INSTANCE TtyInput

(* What the rest of the kernel is promised: TtyInput, one step per method. *)
KeysCome == Seen' \in Tty!Polled(Seen)
ModeIsSet == \E line \in BOOLEAN : Seen' \in Tty!SetLineMode(Seen, line)
InputIsRead == Tty!HasInput(Seen) /\ Seen' \in Tty!ReadInput(Seen)
RawIsTaken == Tty!HasRawCtrlC(Seen) /\ Seen' \in Tty!TakeRawCtrlC(Seen)
LineIsTaken == \E alive \in BOOLEAN : Seen' = Tty!TakeCtrlC(Seen, alive)

(***************************************************************************)
(* The input queue does what the processes are modelled with: every method *)
(* is a step of the abstract console or changes nothing it shows.          *)
(***************************************************************************)
ImplementsTty ==
    /\ Seen = Tty!NewInput
    /\ [][KeysCome \/ ModeIsSet \/ InputIsRead \/ RawIsTaken \/ LineIsTaken]_Seen
=============================================================================
