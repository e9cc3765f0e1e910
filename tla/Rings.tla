-------------------------------- MODULE Rings --------------------------------
(***************************************************************************)
(* The rings of crates/usb/src/xhci/ring.rs, dword by dword: those the     *)
(* xHCI driver fills and its controller empties (struct ProducerRing), and *)
(* the one the controller fills and the driver empties (struct EventRing). *)
(* A TRB is its body (dwords 0 to 2) and its control dword, which has the  *)
(* cycle bit and is written last.  The other side may look between any two *)
(* writes.                                                                 *)
(***************************************************************************)
EXTENDS Naturals, Sequences

CONSTANTS LINK_INDEX,   \* TRBs before the Link TRB (255)
          QUEUED,       \* TRBs of what is queued at a time: a command, a transfer
          TRBS,         \* TRBs of the event ring (256)
          Body          \* what TRBs say

VARIABLES ring,     \* struct ProducerRing and its segment
          writes,   \* dwords push has still to write
          hc,       \* the controller: struct Consumer
          queue     \* ghost: TRBs handed over and not taken

VARIABLES ering,    \* struct EventRing, its segment and ERDP
          post,     \* the controller: where it is, and what it is writing
          posted    \* ghost: events handed over and not seen

ringVars == <<ring, writes, hc, queue>>
eventVars == <<ering, post, posted>>
ringsVars == <<ringVars, eventVars>>

Nothing == "nothing"
NoOpTrb == "no op"
Link == "link"
ControlWord(cycle, chain) == [cycle |-> cycle, chain |-> chain]

(* new: zeroed memory, and a Link TRB the controller does not pass yet. *)
NewRing ==
    [body    |-> [i \in 0..LINK_INDEX |-> IF i = LINK_INDEX THEN Link ELSE Nothing],
     control |-> [i \in 0..LINK_INDEX |-> ControlWord(FALSE, FALSE)],
     index   |-> 0,
     cycle   |-> TRUE]

(* A slip: the dword with the cycle bit goes first. *)
WriteControlFirst(i, body, control) ==
    <<[at |-> i, body |-> Nothing, control |-> control], [at |-> i, body |-> body, control |-> control]>>

(* write: the dword with the cycle bit hands the TRB over, so it is last.  *)
(* Before, the TRB keeps its old one.                                      *)
Write(i, body, control) ==
    <<[at |-> i, body |-> body, control |-> ring.control[i]], [at |-> i, body |-> body, control |-> control]>>

(***************************************************************************)
(* push: the TRB with this lap's cycle bit; behind the last one the link,  *)
(* which carries the chain bit on, and the next lap.                       *)
(***************************************************************************)
Push(body, chain) ==
    /\ writes = <<>>
    /\ Len(queue) < QUEUED
    /\ LET wraps == ring.index + 1 = LINK_INDEX
       IN  /\ writes' = Write(ring.index, body, ControlWord(ring.cycle, chain))
                        \o (IF wraps THEN Write(LINK_INDEX, Link, ControlWord(ring.cycle, chain)) ELSE <<>>)
           /\ ring' = [ring EXCEPT !.index = IF wraps THEN 0 ELSE @ + 1,
                                   !.cycle = IF wraps THEN ~@ ELSE @]
    /\ queue' = Append(queue, [body |-> body, chain |-> chain])
    /\ UNCHANGED hc

WriteDword ==
    /\ writes # <<>>
    /\ LET w == Head(writes)
       IN  ring' = [ring EXCEPT !.body[w.at] = w.body, !.control[w.at] = w.control]
    /\ writes' = Tail(writes)
    /\ UNCHANGED <<hc, queue>>

(* Consumer::peek: across the link, whose toggle bit flips the cycle. *)
Peek ==
    IF hc.at = LINK_INDEX /\ ring.control[LINK_INDEX].cycle = hc.cycle
    THEN [at |-> 0, cycle |-> ~hc.cycle] ELSE hc

(* The controller takes the next TRB (advance). *)
Take ==
    /\ Peek.at # LINK_INDEX
    /\ ring.control[Peek.at].cycle = Peek.cycle
    /\ hc' = [Peek EXCEPT !.at = @ + 1]
    /\ queue' = Tail(queue)
    /\ UNCHANGED <<ring, writes>>

(* replace, of a command the ring was stopped on (abort_command): a No Op  *)
(* with the cycle bit the command has.  A command is never chained.        *)
Replace ==
    /\ writes = <<>> /\ Len(queue) = 1 /\ ~queue[1].chain
    /\ LET i == IF ring.index = 0 THEN LINK_INDEX - 1 ELSE ring.index - 1
       IN  ring' = [ring EXCEPT !.body[i] = NoOpTrb, !.control[i] = ControlWord(@.cycle, FALSE)]
    /\ queue' = <<[body |-> NoOpTrb, chain |-> FALSE]>>
    /\ UNCHANGED <<writes, hc>>

(* Set TR Dequeue Pointer to enqueue_pointer: what was queued is skipped. *)
SetRingDequeue ==
    /\ writes = <<>>
    /\ hc' = [at |-> ring.index, cycle |-> ring.cycle]
    /\ queue' = <<>>
    /\ UNCHANGED <<ring, writes>>

RingInit == ring = NewRing /\ writes = <<>> /\ hc = [at |-> 0, cycle |-> TRUE] /\ queue = <<>>

RingNext ==
    \/ \E b \in Body, c \in BOOLEAN : Push(b, c)
    \/ WriteDword \/ Take \/ Replace \/ SetRingDequeue

-----------------------------------------------------------------------------
(* The event ring and the loop of Xhci::poll.  The controller is the fake  *)
(* of testing/xhci/rings.rs.                                               *)

NewEvents ==
    [body  |-> [i \in 0..TRBS - 1 |-> Nothing], cycles |-> [i \in 0..TRBS - 1 |-> FALSE],
     index |-> 0, cycle |-> TRUE, erdp |-> 0, reading |-> FALSE, seen |-> 0]

(* post: an event, as long as the ring has room behind ERDP.  Its control  *)
(* dword is written last.                                                  *)
Post(body) ==
    /\ post.event = Nothing
    /\ (post.enqueue + 1) % TRBS # ering.erdp
    /\ post' = [post EXCEPT !.event = body]
    /\ ering' = [ering EXCEPT !.body[post.enqueue] = body]
    /\ UNCHANGED posted

Posted ==
    /\ post.event # Nothing
    /\ LET next == (post.enqueue + 1) % TRBS
       IN  post' = [enqueue |-> next, cycle |-> IF next = 0 THEN ~post.cycle ELSE post.cycle, event |-> Nothing]
    /\ ering' = [ering EXCEPT !.cycles[post.enqueue] = post.cycle]
    /\ posted' = Append(posted, post.event)

(* next: the control dword first, the rest once it says the event is there.*)
Look ==
    /\ ~ering.reading /\ ering.seen < TRBS
    /\ ering.cycles[ering.index] = ering.cycle
    /\ ering' = [ering EXCEPT !.reading = TRUE]
    /\ UNCHANGED <<post, posted>>

Seen ==
    /\ ering.reading
    /\ LET next == (ering.index + 1) % TRBS
       IN  ering' = [ering EXCEPT !.index = next, !.cycle = IF next = 0 THEN ~@ ELSE @,
                                    !.reading = FALSE, !.seen = @ + 1]
    /\ posted' = Tail(posted)
    /\ UNCHANGED post

(* poll's end: ERDP is told how far the driver is (dequeue_pointer). *)
EventPolled ==
    /\ ~ering.reading /\ ering.seen > 0
    /\ ering' = [ering EXCEPT !.erdp = ering.index, !.seen = 0]
    /\ UNCHANGED <<post, posted>>

EventInit ==
    /\ ering = NewEvents
    /\ post = [enqueue |-> 0, cycle |-> TRUE, event |-> Nothing]
    /\ posted = <<>>

EventNext == (\E b \in Body : Post(b)) \/ Posted \/ Look \/ Seen \/ EventPolled

RingsInit == RingInit /\ EventInit

RingsNext ==
    \/ RingNext /\ UNCHANGED eventVars
    \/ EventNext /\ UNCHANGED ringVars

RingsSpec == RingsInit /\ [][RingsNext]_ringsVars

-----------------------------------------------------------------------------
(* What the controller finds n places on, as the cycle bits tell it. *)
Lap(n) == Peek.at + n >= LINK_INDEX
Place(n) == (Peek.at + n) % LINK_INDEX
Finds(n) ==
    /\ Peek.at # LINK_INDEX
    /\ Lap(n) => ring.control[LINK_INDEX].cycle = Peek.cycle
    /\ ring.control[Place(n)].cycle = (Peek.cycle # Lap(n))

(***************************************************************************)
(* The cycle bits say what they should: between any two writes the         *)
(* controller finds the TRBs that were pushed, whole, in order and no      *)
(* others, all of them once push has returned; and the link in the middle  *)
(* of a transfer is chained like it (push, replace).                       *)
(***************************************************************************)
RingAgrees ==
    /\ \A n \in 0..LINK_INDEX - 1 : Finds(n) => n < Len(queue)
    /\ \A n \in 0..Len(queue) - 1 :
          /\ writes = <<>> => Finds(n)
          /\ Finds(n) => /\ ring.body[Place(n)] = queue[n + 1].body
                         /\ ring.control[Place(n)].chain = queue[n + 1].chain
          /\ Finds(n) /\ Lap(n) /\ n > 0 /\ ~Lap(n - 1) =>
                ring.control[LINK_INDEX].chain = queue[n].chain

(* What the driver finds n places on, as the cycle bits tell it. *)
EventAt(n) == (ering.index + n) % TRBS
Shows(n) == ering.cycles[EventAt(n)] = (ering.cycle # (ering.index + n >= TRBS))

(***************************************************************************)
(* Between any two writes the driver finds the events that were posted,    *)
(* whole, in order and no others, however the laps of the two sides lie    *)
(* (next, dequeue_pointer).                                                *)
(***************************************************************************)
EventsAgree ==
    /\ \A n \in 0..TRBS - 1 : Shows(n) <=> n < Len(posted)
    /\ \A n \in 0..Len(posted) - 1 : ering.body[EventAt(n)] = posted[n + 1]

(* The cycle bits of both kinds of ring tell each side exactly what the    *)
(* other one has handed over (ProducerRing, EventRing).                    *)
RingsAgree == RingAgrees /\ EventsAgree
=============================================================================
