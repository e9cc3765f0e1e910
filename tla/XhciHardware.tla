---------------------------- MODULE XhciHardware ----------------------------
(***************************************************************************)
(* An xHCI controller with one root port, as the driver in                 *)
(* crates/usb/src/xhci meets it: translated from the controller that the   *)
(* driver's tests run against (crates/usb/src/testing/xhci), whose knobs   *)
(* (a command that hangs, an abort that keeps its place, a device that     *)
(* does not answer) are choices here.  A ring is the queue of what the     *)
(* driver handed over (Rings shows that it is one), and addresses on it    *)
(* are used again after RING of them.                                      *)
(*                                                                         *)
(* "stale" marks what belongs to a request that the driver has given up:   *)
(* the controller does not know it, the properties do.                     *)
(***************************************************************************)
EXTENDS Naturals, Sequences, FiniteSets

LOCAL INSTANCE SequencesExt

CONSTANTS SLOTS,        \* the device slots (64)
          RING          \* the TRBs of a ring before its link (255)

ASSUME SlotsAssumption == SLOTS \in Nat \ {0}
ASSUME RingAssumption == RING \in Nat \ (0..2)

VARIABLES hw,           \* the controller: its command ring and its slots
          port,         \* the root port and the device on it
          events        \* the event ring

Slot == 1..SLOTS
Ep == {"ep0", "bulk"}

NoEp == [st |-> "disabled", queue |-> <<>>, mem |-> 0]
NoSlot == [st |-> "none", mem |-> 0, eps |-> [e \in Ep |-> NoEp]]

(***************************************************************************)
(* R/S is 1, the command ring is stopped and empty with its dequeue        *)
(* pointer at the start, no slot is enabled.  "broken" is set by a step    *)
(* that the specification of the hardware forbids the driver.              *)
(***************************************************************************)
After(i) == (i % RING) + 1
NewController ==
    [run |-> TRUE, failed |-> FALSE, crr |-> FALSE, abort |-> FALSE,
     commands |-> <<>>, next |-> 1, slots |-> [s \in Slot |-> NoSlot], broken |-> FALSE]

(***************************************************************************)
(* A port without a device.  "address" is the slot that gave the device    *)
(* its address; "training" and "reset" are what goes on, "same" that the   *)
(* device is the one that was there when the reset began.  "plugs" is how  *)
(* often a device may still be plugged in.                                 *)
(***************************************************************************)
EmptyPort(three, plugs) ==
    [usb3 |-> three, dev |-> FALSE, plugs |-> plugs, address |-> 0, ccs |-> FALSE,
     ped |-> FALSE, link |-> "rx_detect", changes |-> {},
     training |-> FALSE, reset |-> "no", same |-> FALSE]

CommandEvent(c, code, slot) ==
    [type |-> "command", trb |-> c.trb, code |-> code, slot |-> slot, stale |-> c.stale]
TransferEvent(s, e, trb, code, stale) ==
    [type |-> "transfer", slot |-> s, ep |-> e, trb |-> trb, code |-> code, stale |-> stale]
PortEvent == [type |-> "port"]

-----------------------------------------------------------------------------
(* Commands.  An outcome is the controller afterwards, the completion code,*)
(* the slot it names, and the events posted before the completion.         *)

Outcome(h, code, slot) == [hw |-> h, code |-> code, slot |-> slot, before |-> <<>>]

EpState(h, s, e) == h.slots[s].eps[e].st
SetEp(h, s, e, ep) == [h EXCEPT !.slots[s].eps[e] = ep]

(* The lowest free slot. *)
EnableSlot(h) ==
    LET free == {s \in Slot : h.slots[s].st = "none"}
    IN  IF free = {} THEN {Outcome(h, "no slots", 0)}
        ELSE LET s == CHOOSE s \in free : \A o \in free : s <= o
             IN  {Outcome([h EXCEPT !.slots[s] = [NoSlot EXCEPT !.st = "enabled"]], "ok", s)}

DisableSlot(h, s) ==
    {IF h.slots[s].st = "none" THEN Outcome(h, "not enabled", s)
     ELSE Outcome([h EXCEPT !.slots[s] = NoSlot], "ok", s)}

(***************************************************************************)
(* Address Device: SET_ADDRESS goes to the device on the port, if it is    *)
(* there, enabled and answers; EP0 starts over on the ring it is given.    *)
(***************************************************************************)
AddressDevice(h, c) ==
    LET addressed == [st |-> "addressed", mem |-> c.mem,
                      eps |-> [NoSlot.eps EXCEPT !["ep0"] =
                                   [st |-> "running", queue |-> <<>>, mem |-> c.mem]]]
    IN  IF h.slots[c.slot].st = "none" THEN {Outcome(h, "not enabled", c.slot)}
        ELSE IF h.slots[c.slot].st # "enabled" THEN {Outcome(h, "context state", c.slot)}
        ELSE {Outcome(h, "error", c.slot)} \cup
             {Outcome([h EXCEPT !.slots[c.slot] = addressed], "ok", c.slot) :
                 answers \in {x \in {TRUE} : port.dev /\ port.ped}}

EvaluateContext(h, c) ==
    {IF h.slots[c.slot].st = "none" THEN Outcome(h, "not enabled", c.slot)
     ELSE IF h.slots[c.slot].st = "enabled" THEN Outcome(h, "context state", c.slot)
     ELSE Outcome(h, "ok", c.slot)}

(***************************************************************************)
(* Configure Endpoint: the endpoint starts over, on the ring it is given.  *)
(* Dropping an endpoint that runs, and adding one that is there without    *)
(* dropping it, is forbidden.                                              *)
(***************************************************************************)
ConfigureEndpoint(h, c) ==
    LET old  == EpState(h, c.slot, "bulk")
        done == [h EXCEPT !.slots[c.slot].st = "configured",
                          !.slots[c.slot].eps["bulk"] =
                              [st |-> "running", queue |-> <<>>, mem |-> c.mem],
                          !.broken = \/ @
                                     \/ c.drop /\ old \in {"disabled", "running"}
                                     \/ ~c.drop /\ old # "disabled"]
    IN  {IF h.slots[c.slot].st = "none" THEN Outcome(h, "not enabled", c.slot)
         ELSE IF h.slots[c.slot].st = "enabled" THEN Outcome(h, "context state", c.slot)
         ELSE Outcome(done, "ok", c.slot)}

(* The code for an endpoint that is not there or not in one of the states. *)
Refused(h, c, states) ==
    IF h.slots[c.slot].st = "none" THEN "not enabled"
    ELSE IF EpState(h, c.slot, c.ep) = "disabled" THEN "no endpoint"
    ELSE IF EpState(h, c.slot, c.ep) \notin states THEN "context state"
    ELSE "ok"

ResetEndpoint(h, c) ==
    LET code == Refused(h, c, {"halted"})
    IN  {IF code = "ok" THEN Outcome([h EXCEPT !.slots[c.slot].eps[c.ep].st = "stopped"], code, c.slot)
         ELSE Outcome(h, code, c.slot)}

(* Stop Endpoint: a TD in progress ends with a Stopped event. *)
StopEndpoint(h, c) ==
    LET code  == Refused(h, c, {"running"})
        queue == h.slots[c.slot].eps[c.ep].queue
        done  == Outcome([h EXCEPT !.slots[c.slot].eps[c.ep].st = "stopped"], code, c.slot)
    IN  IF code # "ok" THEN {Outcome(h, code, c.slot)}
        ELSE {done} \cup
             {[done EXCEPT !.before = <<TransferEvent(c.slot, c.ep, trb, "stopped", Head(queue).stale)>>] :
                 trb \in IF queue = <<>> THEN {} ELSE Range(Head(queue).trbs)}

(* Set TR Dequeue Pointer, to where the next TRB will go. *)
SetTrDequeue(h, c) ==
    LET code == Refused(h, c, {"stopped"})
    IN  {IF code = "ok" THEN Outcome([h EXCEPT !.slots[c.slot].eps[c.ep].queue = <<>>], code, c.slot)
         ELSE Outcome(h, code, c.slot)}

Outcomes(h, c) ==
    CASE c.kind = "no op" -> {Outcome(h, "ok", 0)}
      [] c.kind = "enable slot" -> EnableSlot(h)
      [] c.kind = "disable slot" -> DisableSlot(h, c.slot)
      [] c.kind = "address device" -> AddressDevice(h, c)
      [] c.kind = "evaluate context" -> EvaluateContext(h, c)
      [] c.kind = "configure endpoint" -> ConfigureEndpoint(h, c)
      [] c.kind = "reset endpoint" -> ResetEndpoint(h, c)
      [] c.kind = "stop endpoint" -> StopEndpoint(h, c)
      [] c.kind = "set tr dequeue" -> SetTrDequeue(h, c)

(* The command at the head of the ring is executed, whenever that is. *)
Execute ==
    /\ hw.run /\ hw.crr /\ hw.commands # <<>>
    /\ LET c == Head(hw.commands)
       IN  \E o \in Outcomes([hw EXCEPT !.commands = Tail(@), !.next = After(@)], c) :
              /\ hw' = o.hw
              /\ events' = events \o o.before \o <<CommandEvent(c, o.code, o.slot)>>
              /\ port' = IF c.kind = "address device" /\ o.code = "ok"
                         THEN [port EXCEPT !.address = c.slot] ELSE port

(***************************************************************************)
(* CRCR.CA: the ring stops, past the command it hangs on or on it, with a  *)
(* Command Ring Stopped event that names the next TRB.                     *)
(***************************************************************************)
AbortCommands ==
    /\ hw.run /\ hw.abort /\ hw.crr
    /\ \E keep \in IF hw.commands = <<>> THEN {TRUE} ELSE BOOLEAN :
          LET stopped == [hw EXCEPT !.crr = FALSE, !.abort = FALSE,
                                    !.commands = IF keep THEN @ ELSE Tail(@),
                                    !.next = IF keep THEN @ ELSE After(@)]
              end     == [type |-> "command", trb |-> stopped.next, code |-> "ring stopped",
                          slot |-> 0, stale |-> TRUE]
          IN  /\ hw' = stopped
              /\ events' = events
                     \o (IF keep THEN <<>> ELSE <<CommandEvent(Head(hw.commands), "aborted", 0)>>)
                     \o <<end>>
    /\ UNCHANGED port

(* A host system error: the controller halts at once.  Nobody looks at the *)
(* event ring or the commands again.                                       *)
HostSystemError ==
    /\ hw.run
    /\ hw' = [hw EXCEPT !.failed = TRUE, !.run = FALSE, !.commands = <<>>]
    /\ events' = <<>>
    /\ UNCHANGED port

-----------------------------------------------------------------------------
(* Transfers.  A TD is the TRBs of one request: setup, data and status on  *)
(* EP0, one Normal TRB elsewhere.                                          *)

(* The device on the port answers the slot that gave it its address. *)
Reached(s) == port.dev /\ port.address = s

Runs(s, e) == hw.run /\ EpState(hw, s, e) = "running" /\ hw.slots[s].eps[e].queue # <<>>

(***************************************************************************)
(* A TD ends well: a data stage that came short has an event of its own,   *)
(* then the last TRB's follows; a short Normal TRB has one Short Packet.   *)
(***************************************************************************)
TransferDone(s, e) ==
    /\ Runs(s, e) /\ Reached(s)
    /\ \E short \in BOOLEAN :
          LET td   == Head(hw.slots[s].eps[e].queue)
              last == td.trbs[Len(td.trbs)]
          IN  /\ short => e = "bulk" \/ Len(td.trbs) = 3
              /\ events' = events \o
                    (IF e = "bulk"
                     THEN <<TransferEvent(s, e, last, IF short THEN "short" ELSE "ok", td.stale)>>
                     ELSE (IF short THEN <<TransferEvent(s, e, td.trbs[2], "short", td.stale)>> ELSE <<>>)
                          \o <<TransferEvent(s, e, last, "ok", td.stale)>>)
              /\ hw' = [hw EXCEPT !.slots[s].eps[e].queue = Tail(@)]
    /\ UNCHANGED port

(***************************************************************************)
(* A TD fails on one of its TRBs: a STALL or a babble of the device, or a  *)
(* transaction error when it is gone.  The endpoint halts on that TRB.     *)
(***************************************************************************)
TransferFails(s, e) ==
    /\ Runs(s, e)
    /\ LET td == Head(hw.slots[s].eps[e].queue)
       IN  \E trb \in Range(td.trbs), code \in IF Reached(s) THEN {"stall", "error"} ELSE {"error"} :
              events' = Append(events, TransferEvent(s, e, trb, code, td.stale))
    /\ hw' = [hw EXCEPT !.slots[s].eps[e].st = "halted"]
    /\ UNCHANGED port

-----------------------------------------------------------------------------
(* The root port. *)

(* Change bits rise; an event only when none was set before. *)
SetChanges(p, bits) ==
    /\ port' = [p EXCEPT !.changes = @ \cup bits]
    /\ events' = IF p.changes = {} /\ bits # {} THEN Append(events, PortEvent) ELSE events

(* A USB 2 device shows at once; a USB 3 link trains first. *)
Plug ==
    /\ ~port.dev /\ port.plugs > 0
    /\ LET p == [port EXCEPT !.dev = TRUE, !.plugs = @ - 1, !.address = 0, !.same = FALSE,
                             !.training = port.usb3, !.ccs = ~port.usb3, !.link = "polling"]
       IN  SetChanges(p, IF port.usb3 THEN {} ELSE {"csc"})
    /\ UNCHANGED hw

Unplug ==
    /\ port.dev
    /\ LET p == [port EXCEPT !.dev = FALSE, !.address = 0, !.ccs = FALSE, !.ped = FALSE,
                             !.link = "rx_detect", !.training = FALSE, !.same = FALSE]
       IN  SetChanges(p, IF port.ccs THEN {"csc"} ELSE {})
    /\ UNCHANGED hw

(* Link training ends: enabled in U0, or in SS.Inactive. *)
Trained ==
    /\ port.training
    /\ \E up \in BOOLEAN :
          SetChanges([port EXCEPT !.training = FALSE, !.ccs = TRUE, !.ped = up,
                                  !.link = IF up THEN "u0" ELSE "inactive"], {"csc"})
    /\ UNCHANGED hw

(* The reset ends: the device that stayed is enabled, a warm reset also    *)
(* reports the connect and the link change that it caused.                 *)
ResetDone ==
    /\ port.reset # "no"
    /\ LET up == port.dev /\ port.same
           p  == [port EXCEPT !.reset = "no", !.ccs = @ \/ up, !.ped = @ \/ up,
                              !.link = IF up THEN "u0" ELSE @]
       IN  SetChanges(p, IF port.reset = "hot" THEN {"prc"}
                         ELSE {"prc", "wrc"} \cup IF port.dev THEN {"csc", "plc"} ELSE {})
    /\ UNCHANGED hw

(***************************************************************************)
(* A write of PORTSC: the change bits written as 1 are cleared (and no     *)
(* other), and PR or WPR starts a reset, which disables the port and puts  *)
(* the device back to address 0.                                           *)
(***************************************************************************)
ClearPort(bits) == [port EXCEPT !.changes = @ \ bits]
StartReset(kind) ==
    [port EXCEPT !.reset = kind, !.ped = FALSE, !.address = 0, !.same = TRUE, !.training = FALSE]

-----------------------------------------------------------------------------
(* Doorbells.  They must not be rung once the driver halted the controller,*)
(* nor for a slot or an endpoint that is not there.                        *)

Halted(h) == ~h.run /\ ~h.failed

CommandDoorbell(h) == [h EXCEPT !.crr = TRUE, !.broken = @ \/ Halted(h)]

SlotDoorbell(h, s, e) ==
    [h EXCEPT !.broken = @ \/ Halted(h) \/ EpState(h, s, e) = "disabled",
              !.slots[s].eps[e].st = IF @ = "stopped" THEN "running" ELSE @]

(* What the hardware does by itself, a host system error aside. *)
HardwareStep ==
    \/ Execute
    \/ AbortCommands
    \/ \E s \in Slot, e \in Ep : TransferDone(s, e) \/ TransferFails(s, e)
    \/ Plug
    \/ Unplug
    \/ Trained
    \/ ResetDone
=============================================================================
