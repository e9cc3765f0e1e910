------------------------------ MODULE Keyboard ------------------------------
(***************************************************************************)
(* The driver of one boot keyboard (crates/usb/src/hid/keyboard.rs) with   *)
(* its layout (keymap.rs) and the host's queue of key events (host.rs),    *)
(* against a keyboard that sends any report and whose endpoint may fail.   *)
(* Times are what is left until they come; those in the past count only as *)
(* far as the code can tell them apart.                                    *)
(***************************************************************************)
EXTENDS Naturals, Integers, Sequences, FiniteSets

LOCAL INSTANCE SequencesExt
LOCAL INSTANCE Functions

CONSTANTS Usage,            \* the usages that are typed: letters, digits, "caps", "none"
          KEYS,             \* usages of a report (6)
          REPEAT_DELAY, REPEAT_INTERVAL, RETRY_INTERVAL,
          MAX_RECOVERIES,   \* failed recoveries in a row (3)
          MAX_EVENTS        \* key events kept for the console (256)

VARIABLES kb,         \* struct BootKeyboard
          endpoint,   \* the interrupt-IN transfer: idle, queued, or its outcome
          events,     \* the host's key events
          down,       \* ghost: keys pressed and not released, as the events tell it
          amiss       \* ghost: an event that does not fit the ones before it

vars == <<kb, endpoint, events, down, amiss>>

NoKey == "-"             \* usage 0
Empty == [i \in 1..KEYS |-> NoKey]
NoRepeat == [u |-> NoKey, left |-> 0]
ErrorRollOver == "roll over"
Report == [shift : BOOLEAN, usages : [1..KEYS -> Usage \cup {NoKey, ErrorRollOver}]]

NoReport == [shift |-> FALSE, usages |-> Empty]
Errors == {"stall", "disconnected"}
With(st) == [st |-> st, report |-> NoReport]

(* A keyboard that was set up: SET_PROTOCOL, SET_IDLE, the first transfer. *)
Started ==
    [keys |-> Empty, shift |-> FALSE, caps_lock |-> FALSE, leds |-> FALSE,
     repeat |-> NoRepeat, state |-> "running", retry |-> 0, attempts |-> 0]

(* keymap::key: letters by Shift and Caps Lock, digits by Shift. *)
Key(u, k) ==
    CASE u \in {"a", "b"} -> <<u, k.shift # k.caps_lock>>
      [] u \in {"1", "2"} -> <<u, k.shift>>
      [] OTHER -> <<u, FALSE>>
HasKey(u) == u # "none"

(* emit: an event, for a usage the layout has.  x is the keyboard with the *)
(* events it has produced.                                                 *)
Emit(x, u, pressed) ==
    IF ~HasKey(u) THEN x
    ELSE [x EXCEPT !.out = Append(@, [key |-> Key(u, x.k), u |-> u, pressed |-> pressed])]

(* Lock keys do not repeat. *)
repeats(u) == u # "caps"

Releases(x, u) ==
    LET y == Emit(x, u, FALSE)
    IN  IF y.k.repeat.u = u THEN [y EXCEPT !.k.repeat = NoRepeat] ELSE y

Presses(x, u) ==
    LET y == IF u = "caps" THEN [x EXCEPT !.k.caps_lock = ~@] ELSE x
        z == Emit(y, u, TRUE)
    IN  IF repeats(u) THEN [z EXCEPT !.k.repeat = [u |-> u, left |-> REPEAT_DELAY]] ELSE z

(***************************************************************************)
(* report: what is no longer there is released, what is new is pressed, in *)
(* the report's order.  A keyboard with too many keys down changes nothing.*)
(***************************************************************************)
TakeReport(x, r) ==
    IF ErrorRollOver \in Range(r.usages) THEN x
    ELSE LET keys == [i \in 1..KEYS |-> IF \E j \in 1..i - 1 : r.usages[j] = r.usages[i] THEN NoKey ELSE r.usages[i]]
             gone == SelectSeq(x.k.keys, LAMBDA u : u # NoKey /\ u \notin Range(keys))
             new  == SelectSeq(keys, LAMBDA u : u # NoKey /\ u \notin Range(x.k.keys))
             y    == FoldLeft(Releases, [x EXCEPT !.k.shift = r.shift], gone)
         IN  [FoldLeft(Presses, y, new) EXCEPT !.k.keys = keys]

(* repeat_due: one repeat at most, and the next one in time. *)
RepeatDue(x) ==
    IF x.k.repeat.u = NoKey \/ x.k.repeat.left > 0 THEN x
    ELSE [Emit(x, x.k.repeat.u, TRUE)
            EXCEPT !.k.repeat.left = IF @ + REPEAT_INTERVAL <= 0 THEN REPEAT_INTERVAL ELSE @ + REPEAT_INTERVAL]

(* A slip: the keys stay as they were when the endpoint failed. *)
FailKeeps(x, e) ==
    [x EXCEPT !.k.repeat = NoRepeat,
              !.k.state = IF e = "disconnected" THEN "stopped" ELSE "failed",
              !.k.retry = 0, !.k.attempts = 0]

(* fail: every key is released, and recovery waits for service. *)
Fail(x, e) ==
    LET y == FoldLeft(LAMBDA z, u : Emit(z, u, FALSE), x, SelectSeq(x.k.keys, LAMBDA u : u # NoKey))
    IN  [y EXCEPT !.k.keys = Empty, !.k.repeat = NoRepeat,
                  !.k.state = IF e = "disconnected" THEN "stopped" ELSE "failed",
                  !.k.retry = 0, !.k.attempts = 0]

-----------------------------------------------------------------------------
(* What an event tells: a press of a key that is down is a repeat of it. *)
Follow(seen, e) ==
    IF e.pressed
    THEN [down |-> seen.down \cup {e.u}, amiss |-> seen.amiss]
    ELSE [down |-> seen.down \ {e.u}, amiss |-> seen.amiss \/ e.u \notin seen.down]

Truncated(s) == IF Len(s) > MAX_EVENTS THEN SubSeq(s, 1, MAX_EVENTS) ELSE s

Produce(x) ==
    LET seen == FoldLeft(Follow, [down |-> down, amiss |-> amiss], x.out)
    IN  /\ kb' = x.k
        /\ events' = Truncated(events \o x.out)
        /\ down' = seen.down
        /\ amiss' = seen.amiss

(* poll: a finished report is taken and the next transfer queued. *)
Poll ==
    LET x == [k |-> kb, out |-> <<>>]
    IN  IF kb.state # "running" \/ endpoint.st \in {"idle", "queued"}
        THEN Produce(RepeatDue(x)) /\ UNCHANGED endpoint
        ELSE IF endpoint.st \in Errors
        THEN Produce(RepeatDue(Fail(x, endpoint.st))) /\ endpoint' = With("idle")
        ELSE \/ Produce(RepeatDue(TakeReport(x, endpoint.report))) /\ endpoint' = With("queued")
             \/ \E e \in Errors :
                    Produce(RepeatDue(Fail(TakeReport(x, endpoint.report), e))) /\ endpoint' = With("idle")

(* service: recovery of a failed endpoint, and the Caps Lock LED. *)
Recover(recovered) ==
    IF recovered THEN [kb EXCEPT !.state = "running", !.attempts = 0]
    ELSE IF kb.attempts + 1 >= MAX_RECOVERIES THEN [kb EXCEPT !.state = "stopped", !.attempts = 0]
    ELSE [kb EXCEPT !.retry = RETRY_INTERVAL, !.attempts = @ + 1]

Led(k) == IF k.state = "running" THEN [k EXCEPT !.leds = k.caps_lock] ELSE k

Service ==
    /\ IF kb.state = "failed"
       THEN /\ kb.retry = 0
            /\ \E recovered \in BOOLEAN :
                  /\ kb' = Led(Recover(recovered))
                  /\ endpoint' = With(IF recovered THEN "queued" ELSE "idle")
       ELSE kb' = Led(kb) /\ UNCHANGED endpoint
    /\ UNCHANGED <<events, down, amiss>>

(* The console takes a key; time goes by; the keyboard sends or fails. *)
NextKey ==
    /\ events # <<>>
    /\ events' = Tail(events)
    /\ UNCHANGED <<kb, endpoint, down, amiss>>

Tick ==
    /\ kb' = [kb EXCEPT !.retry = IF @ > 0 THEN @ - 1 ELSE 0,
                        !.repeat.left = IF kb.repeat.u # NoKey /\ @ > -REPEAT_INTERVAL THEN @ - 1 ELSE @]
    /\ UNCHANGED <<endpoint, events, down, amiss>>

Sends ==
    /\ endpoint.st = "queued"
    /\ \/ \E r \in Report : endpoint' = [st |-> "done", report |-> r]
       \/ \E e \in Errors : endpoint' = With(e)
    /\ UNCHANGED <<kb, events, down, amiss>>

Init ==
    /\ kb = Started /\ endpoint = With("queued") /\ events = <<>> /\ down = {} /\ amiss = FALSE

Next == Poll \/ Service \/ NextKey \/ Tick \/ Sends

Spec == Init /\ [][Next]_vars

-----------------------------------------------------------------------------
(***************************************************************************)
(* What the events say is down is what the last report said: no key is     *)
(* released twice, none stays down when the keyboard fails or goes, and    *)
(* only a key that is held repeats (report, fail, repeat_due).             *)
(***************************************************************************)
KeysMatch ==
    /\ ~amiss
    /\ down = {u \in Range(kb.keys) \ {NoKey} : HasKey(u)}
    /\ kb.repeat.u # NoKey => kb.state = "running" /\ kb.repeat.u \in Range(kb.keys)
    /\ kb.state # "running" => down = {}
=============================================================================
