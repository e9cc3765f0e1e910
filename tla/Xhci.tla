-------------------------------- MODULE Xhci --------------------------------
(***************************************************************************)
(* The xHCI driver (crates/usb/src/xhci) and the host that runs it         *)
(* (host.rs), against XhciHardware.  The driver is one thread of control:  *)
(* "k" is where it is (the label, the labels its calls return to and its   *)
(* locals) and "d" is its data.  Between two labels the hardware may take  *)
(* any steps: every label is a place where the driver reads a register,    *)
(* rings a doorbell or polls.  A wait may run out at any of its polls.     *)
(***************************************************************************)
EXTENDS XhciHardware

LOCAL INSTANCE SequencesExt

CONSTANTS MEMORY,       \* DMA allocations that fit: a slot's or an endpoint's
          Budgets,      \* the bounds a behaviour may start with (see Budget)
          REQUESTS,     \* the control requests of an enumeration (4)
          ATTACH_TRIES  \* setups of one device (3)

ASSUME MemoryAssumption == MEMORY \in Nat

(***************************************************************************)
(* The bounds of a behaviour: the port's protocol, how often a device is   *)
(* plugged in, how many commands time out, how often the class drivers     *)
(* call, and whether the controller may break.                             *)
(***************************************************************************)
Budget == [usb3 : BOOLEAN, plugs : Nat, aborts : 0..(RING - 1), uses : Nat, breaks : BOOLEAN]
ASSUME BudgetsAssumption == Budgets \subseteq Budget
ASSUME RequestsAssumption == REQUESTS \in Nat \ {0}
ASSUME TriesAssumption == ATTACH_TRIES \in Nat \ {0}

VARIABLES d,            \* the driver's data
          k,            \* its control
          mem           \* the DMA memory in use

vars == <<hw, port, events, d, k, mem>>

(* A slot of the driver and its configured endpoint, or none. *)
NoEndpoint == [on |-> FALSE, kind |-> "bulk", mem |-> 0, index |-> 1, transfer |-> "idle", trb |-> 0, lost |-> FALSE]
NoDevice == [on |-> FALSE, mem |-> 0, index |-> 1, control |-> "none", trbs |-> <<>>,
             lost |-> FALSE, bulk |-> NoEndpoint, recover |-> FALSE]
NoPending == [trb |-> 0, code |-> "none", slot |-> 0]

(* Xhci::new has started the controller; the first scan is to come. *)
NewDriver(b) ==
    [dead |-> FALSE, pending |-> NoPending, stopped |-> FALSE, flag |-> FALSE, first |-> TRUE,
     index |-> 1, slots |-> [s \in Slot |-> NoDevice], crossed |-> FALSE,
     aborts |-> b.aborts, uses |-> b.uses, breaks |-> b.breaks]

Idle == [pc |-> "idle", stack |-> <<>>, res |-> "ok", slot |-> 1, ep |-> "ep0", try |-> 1,
         step |-> 0, seen |-> {}, ccs |-> FALSE, first |-> FALSE, wait |-> "none", fail |-> "ok",
         mem |-> {}]

-----------------------------------------------------------------------------
(* Control. *)

At(label) == k.pc = label
Goto(label) == [k EXCEPT !.pc = label]
CallTo(label, back) == [k EXCEPT !.pc = label, !.stack = Append(@, back)]
Return(result) ==
    IF k.stack = <<>> THEN Idle
    ELSE [k EXCEPT !.pc = Last(k.stack), !.stack = Front(@), !.res = result]
Fails(label, result) == [k EXCEPT !.pc = label, !.res = result]

-----------------------------------------------------------------------------
(* Events. *)

(* Mutant: any completion is taken for the pending command's. *)
CommandCompletedAny(x, e) ==
    CASE e.code = "ring stopped" -> [x EXCEPT !.stopped = TRUE]
      [] e.code = "aborted" -> x
      [] OTHER ->
            IF x.pending.code = "none" /\ x.pending.trb # 0
            THEN [x EXCEPT !.pending.code = e.code, !.pending.slot = e.slot,
                           !.crossed = @ \/ e.stale]
            ELSE x

(***************************************************************************)
(* A command completion: an abort's own events never complete a command,   *)
(* whatever they point at.                                                 *)
(***************************************************************************)
CommandCompleted(x, e) ==
    CASE e.code = "ring stopped" -> [x EXCEPT !.stopped = TRUE]
      [] e.code = "aborted" -> x
      [] OTHER ->
            IF x.pending.trb = e.trb /\ x.pending.code = "none"
            THEN [x EXCEPT !.pending.code = e.code, !.pending.slot = e.slot,
                           !.crossed = @ \/ e.stale]
            ELSE x

(* A short data stage only reports what it left: the status stage follows. *)
OnEvent(s, e) ==
    LET n == Len(s.trbs)
    IN  CASE s.control # "wait" -> s
          [] e.trb = s.trbs[n] /\ e.code = "ok" -> [s EXCEPT !.control = "ok"]
          [] n = 3 /\ e.trb = s.trbs[2] /\ e.code \in {"short", "ok"} -> s
          [] e.trb \in Range(s.trbs) /\ e.code # "ok" -> [s EXCEPT !.control = e.code]
          [] OTHER -> s

TransferEnds(x, e) ==
    LET s == x.slots[e.slot]
    IN  IF ~s.on THEN x
        ELSE IF e.ep = "ep0"
        THEN [x EXCEPT !.slots[e.slot] = OnEvent(s, e),
                       !.crossed = @ \/ (e.stale /\ s.control = "wait" /\ e.trb \in Range(s.trbs))]
        ELSE IF s.bulk.on /\ s.bulk.transfer = "queued" /\ s.bulk.trb = e.trb
        THEN [x EXCEPT !.slots[e.slot].bulk.transfer = IF e.code \in {"ok", "short"} THEN "ok" ELSE e.code,
                       !.crossed = @ \/ e.stale]
        ELSE x

HandleEvent(x, e) ==
    CASE e.type = "command" -> CommandCompleted(x, e)
      [] e.type = "port" -> [x EXCEPT !.flag = TRUE]
      [] e.type = "transfer" -> TransferEnds(x, e)

(***************************************************************************)
(* poll: a controller that failed is dead from now on, and its events are  *)
(* never looked at; otherwise every event is handled.                      *)
(***************************************************************************)
Polled ==
    IF d.dead THEN d
    ELSE IF hw.failed THEN [d EXCEPT !.dead = TRUE]
    ELSE FoldLeft(HandleEvent, d, events)

-----------------------------------------------------------------------------
(* What a request that is given up leaves behind (ghost marks only).       *)

StaleTransfers(s, e, es) ==
    [i \in 1..Len(es) |->
        IF es[i].type = "transfer" /\ es[i].slot = s /\ es[i].ep \in e
        THEN [es[i] EXCEPT !.stale = TRUE] ELSE es[i]]
StaleQueue(h, s, e) ==
    [h EXCEPT !.slots[s].eps =
        [x \in Ep |-> IF x \in e
                      THEN [@[x] EXCEPT !.queue = [i \in 1..Len(@) |-> [@[i] EXCEPT !.stale = TRUE]]]
                      ELSE @[x]]]

-----------------------------------------------------------------------------
(* Commands. *)

(***************************************************************************)
(* command: the TRB is pushed, the doorbell is rung, and the wait begins.  *)
(* Nothing is sent to a dead controller.                                   *)
(***************************************************************************)
NoOp == [trb |-> 0, kind |-> "no op", slot |-> 0, ep |-> "ep0", mem |-> 0, drop |-> FALSE, stale |-> FALSE]

Pending == [d EXCEPT !.index = After(@), !.pending = [NoPending EXCEPT !.trb = d.index]]

Send(c, back) ==
    IF d.dead THEN k' = Fails(back, "dead") /\ UNCHANGED <<hw, d>>
    ELSE /\ hw' = CommandDoorbell([hw EXCEPT !.commands = Append(@, [c EXCEPT !.trb = d.index])])
         /\ d' = Pending
         /\ k' = CallTo("command", back)

CommandWait ==
    /\ At("command")
    /\ LET x == Polled
       IN  \/ /\ x.dead \/ x.pending.code # "none"
              /\ d' = [x EXCEPT !.pending = NoPending, !.pending.slot = x.pending.slot]
              /\ k' = Return(IF x.dead THEN "dead" ELSE x.pending.code)
              /\ events' = <<>>
              /\ UNCHANGED <<hw, port, mem>>
           \/ /\ ~x.dead /\ x.pending.code = "none" /\ d.aborts > 0
              /\ d' = [x EXCEPT !.pending = NoPending, !.stopped = FALSE, !.aborts = @ - 1]
              /\ hw' = [hw EXCEPT !.abort = TRUE,
                                  !.commands = [i \in 1..Len(@) |-> [@[i] EXCEPT !.stale = TRUE]]]
              /\ k' = Goto("abort")
              /\ events' = <<>>
              /\ UNCHANGED <<port, mem>>

(***************************************************************************)
(* abort_command: polls until the ring has stopped, then turns the command *)
(* into a No Op.  A ring that does not stop is the end of the controller:  *)
(* R/S is cleared, which it may ignore.                                    *)
(***************************************************************************)
Replaced(commands) ==
    [i \in 1..Len(commands) |-> [NoOp EXCEPT !.trb = commands[i].trb, !.stale = TRUE]]

AbortWait ==
    /\ At("abort")
    /\ LET x == Polled
       IN  /\ events' = <<>>
           /\ \/ /\ x.stopped /\ ~x.dead
                 /\ d' = x
                 /\ hw' = [hw EXCEPT !.commands = Replaced(@)]
              \/ /\ ~x.stopped \/ x.dead
                 /\ d' = [x EXCEPT !.dead = TRUE]
                 /\ \E halts \in BOOLEAN :
                       hw' = [hw EXCEPT !.commands = Replaced(@), !.run = @ /\ ~halts]
    /\ k' = Return("timeout")
    /\ UNCHANGED <<port, mem>>

-----------------------------------------------------------------------------
(* Endpoints. *)

StateOf(s, e) == EpState(hw, s, e)
Target(kind) == [NoOp EXCEPT !.kind = kind, !.slot = k.slot, !.ep = k.ep]

(***************************************************************************)
(* reposition: Reset Endpoint if it is halted, Stop Endpoint if it runs,   *)
(* then Set TR Dequeue Pointer to where the next TRB will go.              *)
(***************************************************************************)
Reposition ==
    /\ At("reposition")
    /\ CASE StateOf(k.slot, k.ep) = "halted"   -> Send(Target("reset endpoint"), "dequeue")
         [] StateOf(k.slot, k.ep) = "running"  -> Send(Target("stop endpoint"), "dequeue")
         [] StateOf(k.slot, k.ep) = "stopped"  -> k' = Fails("dequeue", "ok") /\ UNCHANGED <<hw, d>>
         [] StateOf(k.slot, k.ep) = "disabled" -> k' = Return("disconnected") /\ UNCHANGED <<hw, d>>
    /\ UNCHANGED <<port, events, mem>>

SetDequeue ==
    /\ At("dequeue")
    /\ IF k.res = "ok" /\ ~d.dead
       THEN /\ hw' = CommandDoorbell([hw EXCEPT !.commands =
                         Append(@, [Target("set tr dequeue") EXCEPT !.trb = d.index])])
            /\ d' = Pending
            /\ k' = Goto("command")
       ELSE k' = Return(IF k.res = "ok" THEN "dead" ELSE k.res) /\ UNCHANGED <<hw, d>>
    /\ UNCHANGED <<port, events, mem>>

-----------------------------------------------------------------------------
(* Control transfers on EP0. *)

Trbs(i, n) == [j \in 1..n |-> ((i + j - 2) % RING) + 1]
Pushed(h, s, e, trbs) ==
    SlotDoorbell([h EXCEPT !.slots[s].eps[e].queue = Append(@, [trbs |-> trbs, stale |-> FALSE])], s, e)

(***************************************************************************)
(* control_transfer: after a failed abort EP0 is repositioned first, and   *)
(* the request is refused when that fails again.  k.wait is "in" for a     *)
(* request with a data stage.                                              *)
(***************************************************************************)
Control ==
    /\ At("control")
    /\ k' = CASE d.dead -> Return("dead")
              [] ~d.dead /\ d.slots[k.slot].lost -> [CallTo("reposition", "recovered") EXCEPT !.ep = "ep0"]
              [] OTHER -> Goto("request")
    /\ UNCHANGED <<hw, port, events, d, mem>>

Recovered ==
    /\ At("recovered")
    /\ k' = IF k.res = "ok" THEN Goto("request") ELSE Return(IF d.dead THEN "dead" ELSE "unsupported")
    /\ UNCHANGED <<hw, port, events, d, mem>>

Request ==
    /\ At("request")
    /\ LET s    == d.slots[k.slot]
           trbs == Trbs(s.index, IF k.wait = "in" THEN 3 ELSE 2)
       IN  IF ~s.on THEN k' = Return("disconnected") /\ UNCHANGED <<hw, d>>
           ELSE /\ d' = [d EXCEPT !.slots[k.slot] =
                            [s EXCEPT !.lost = FALSE, !.control = "wait", !.trbs = trbs,
                                      !.index = After(trbs[Len(trbs)])]]
                /\ hw' = Pushed(hw, k.slot, "ep0", trbs)
                /\ k' = Goto("wait_control")
    /\ UNCHANGED <<port, events, mem>>

(* The request ends, or its second is over: it is taken off the slot. *)
WaitControl ==
    /\ At("wait_control")
    /\ LET x      == Polled
           result == x.slots[k.slot].control
           s      == k.slot
       IN  /\ d' = [x EXCEPT !.slots[s].control = "none", !.slots[s].trbs = <<>>]
           /\ hw' = StaleQueue(hw, s, {"ep0"})
           /\ events' = <<>>
           /\ k' = CASE x.dead -> Return("dead")
                     [] ~x.dead /\ result = "ok" -> Return("ok")
                     [] OTHER ->
                          [CallTo("reposition", "repositioned") EXCEPT !.ep = "ep0",
                              !.fail = IF result = "wait" THEN "timeout" ELSE result]
    /\ UNCHANGED <<port, mem>>

(* Mutant: EP0 is used again though it could not be repositioned. *)
RepositionedAnyway ==
    /\ At("repositioned")
    /\ k' = Return(k.fail)
    /\ UNCHANGED <<hw, port, events, d, mem>>

Repositioned ==
    /\ At("repositioned")
    /\ d' = IF k.res = "ok" \/ ~d.slots[k.slot].on THEN d ELSE [d EXCEPT !.slots[k.slot].lost = TRUE]
    /\ k' = Return(k.fail)
    /\ UNCHANGED <<hw, port, events, mem>>

-----------------------------------------------------------------------------
(* Slots. *)

(***************************************************************************)
(* release_slot: the slot is forgotten, then Disable Slot is sent.  The    *)
(* memory goes back only once that succeeded.                              *)
(***************************************************************************)
ReleaseSlot ==
    /\ At("release")
    /\ LET s    == d.slots[k.slot]
           gone == [d EXCEPT !.slots[k.slot] = NoDevice]
           old  == StaleQueue(hw, k.slot, Ep)
           c    == [NoOp EXCEPT !.kind = "disable slot", !.slot = k.slot, !.trb = d.index]
       IN  IF d.dead
           THEN d' = gone /\ k' = Return("dead") /\ UNCHANGED <<hw, events>>
           ELSE /\ d' = [gone EXCEPT !.index = After(@), !.pending = [NoPending EXCEPT !.trb = d.index]]
                /\ hw' = CommandDoorbell([old EXCEPT !.commands = Append(@, c)])
                /\ events' = StaleTransfers(k.slot, Ep, events)
                /\ k' = [CallTo("command", "released") EXCEPT !.mem = {s.mem, s.bulk.mem} \ {0}]
    /\ UNCHANGED <<port, mem>>

(* Mutant: the memory goes back whatever Disable Slot said. *)
ReleasedAnyway ==
    /\ At("released")
    /\ mem' = mem \ k.mem
    /\ k' = [Return(k.res) EXCEPT !.mem = {}]
    /\ UNCHANGED <<hw, port, events, d>>

Released ==
    /\ At("released")
    /\ mem' = IF k.res = "ok" THEN mem \ k.mem ELSE mem
    /\ k' = [Return(k.res) EXCEPT !.mem = {}]
    /\ UNCHANGED <<hw, port, events, d>>

-----------------------------------------------------------------------------
(* The host: Host::service, from port_changes on. *)

SlotOfPort == {s \in Slot : d.slots[s].on}

Service ==
    /\ At("idle") /\ ~d.dead
    /\ k' = Goto("scan")
    /\ UNCHANGED <<hw, port, events, d, mem>>

(* port_changes polls and reads PORTSC ... *)
Scan ==
    /\ At("scan")
    /\ LET x == Polled
       IN  /\ events' = <<>>
           /\ IF x.dead \/ ~(x.first \/ x.flag) THEN d' = x /\ k' = Idle
              ELSE /\ d' = [x EXCEPT !.first = FALSE, !.flag = FALSE]
                   /\ k' = [Goto("clear") EXCEPT !.first = x.first, !.seen = port.changes, !.ccs = port.ccs]
    /\ UNCHANGED <<hw, port, mem>>

(* ... and clears the change bits it read: the device there is dropped if  *)
(* it went away, even if something is connected now.                       *)
Counts == IF k.first THEN k.ccs ELSE "csc" \in k.seen

(* Mutant: a device is dropped only when nothing is connected now. *)
ClearIfEmpty ==
    /\ At("clear")
    /\ port' = ClearPort(k.seen)
    /\ k' = IF ~Counts THEN Idle
            ELSE IF SlotOfPort # {} /\ ~k.ccs
            THEN [CallTo("release", "appeared") EXCEPT !.slot = CHOOSE s \in SlotOfPort : TRUE]
            ELSE Goto("appeared")
    /\ UNCHANGED <<hw, events, d, mem>>

Clear ==
    /\ At("clear")
    /\ port' = ClearPort(k.seen)
    /\ k' = IF ~Counts THEN Idle
            ELSE IF SlotOfPort # {} /\ (~k.ccs \/ "csc" \in k.seen)
            THEN [CallTo("release", "appeared") EXCEPT !.slot = CHOOSE s \in SlotOfPort : TRUE]
            ELSE Goto("appeared")
    /\ UNCHANGED <<hw, events, d, mem>>

Appeared ==
    /\ At("appeared")
    /\ k' = IF k.ccs /\ SlotOfPort = {} THEN [Goto("attach") EXCEPT !.try = 1] ELSE Idle
    /\ UNCHANGED <<hw, port, events, d, mem>>

(***************************************************************************)
(* The outcome of a setup: it is tried again, ATTACH_TRIES times in all,   *)
(* unless the device is gone, bounces, or the controller is dead.          *)
(***************************************************************************)
AfterFailure(result) ==
    IF k.try < ATTACH_TRIES /\ result \notin {"disconnected", "unstable", "dead"}
    THEN [Idle EXCEPT !.pc = "attach", !.try = k.try + 1]
    ELSE Idle

(* debounce: reads PORTSC, clears a CSC, until the connection is stable. *)
Attach ==
    /\ At("attach")
    /\ k' = IF d.dead THEN AfterFailure("dead") ELSE [Goto("debounce") EXCEPT !.wait = "none"]
    /\ UNCHANGED <<hw, port, events, d, mem>>

Debounce ==
    /\ At("debounce")
    /\ k' = [Goto("bounced") EXCEPT !.seen = port.changes, !.ccs = port.ccs]
    /\ UNCHANGED <<hw, port, events, d, mem>>

Bounced ==
    /\ At("bounced")
    /\ LET now   == IF k.ccs THEN "connected" ELSE "empty"
           moved == "csc" \in k.seen \/ k.wait # now
       IN  /\ port' = IF moved THEN ClearPort(k.seen \cap {"csc"}) ELSE port
           /\ \/ k' = [Goto("debounce") EXCEPT !.wait = now, !.seen = {}]
              \/ k' = IF ~k.ccs THEN AfterFailure("disconnected")
                      ELSE IF moved THEN AfterFailure("unstable")
                      ELSE [Goto("reset") EXCEPT !.wait = "none", !.seen = {}]
    /\ UNCHANGED <<hw, events, d, mem>>

IsTrained(p) == p.ped /\ p.link = "u0"

(***************************************************************************)
(* reset_port.  wait_port ends when the port is done or disconnected, or   *)
(* after its time; it then reads PORTSC once more.                         *)
(***************************************************************************)
ResetPort ==
    /\ At("reset")
    /\ IF port.usb3 THEN k' = [Goto("port_wait") EXCEPT !.wait = "training"] /\ UNCHANGED port
       ELSE port' = StartReset("hot") /\ k' = [Goto("port_wait") EXCEPT !.wait = "hot"]
    /\ UNCHANGED <<hw, events, d, mem>>

PortDone ==
    \/ ~port.ccs
    \/ k.wait = "training" /\ (IsTrained(port) \/ port.link = "inactive")
    \/ k.wait = "hot" /\ "prc" \in port.changes
    \/ k.wait = "warm" /\ port.changes \cap {"prc", "wrc"} # {}

PortWait ==
    /\ At("port_wait")
    /\ \E ended \in {FALSE, PortDone} : k' = [Goto("port_read") EXCEPT !.first = ended]
    /\ UNCHANGED <<hw, port, events, d, mem>>

PortRead ==
    /\ At("port_read")
    /\ k' = [Goto("port_clear") EXCEPT !.first = @ /\ port.ccs, !.ccs = port.ccs,
                 !.seen = port.changes \cup (IF port.ped THEN {"ped"} ELSE {})
                          \cup (IF IsTrained(port) THEN {"trained"} ELSE {})]
    /\ UNCHANGED <<hw, port, events, d, mem>>

PortFailed == AfterFailure(IF k.ccs THEN "timeout" ELSE "disconnected")
Retrained == IF "trained" \in k.seen THEN {"csc", "plc"} ELSE {}

PortClear ==
    /\ At("port_clear")
    /\ CASE k.wait = "training" ->
              IF k.first /\ "trained" \in k.seen
              THEN port' = StartReset("hot") /\ k' = [Goto("port_wait") EXCEPT !.wait = "hot", !.seen = {}]
              ELSE IF ~k.ccs THEN k' = PortFailed /\ UNCHANGED port
              ELSE port' = StartReset("warm") /\ k' = [Goto("port_wait") EXCEPT !.wait = "warm", !.seen = {}]
         [] OTHER ->
              LET bits == {"prc"} \cup (IF k.wait = "warm" THEN {"wrc"} ELSE {})
                                  \cup (IF port.usb3 THEN Retrained ELSE {})
                  good == k.first /\ (IF port.usb3 THEN "trained" ELSE "ped") \in k.seen
              IN  /\ port' = ClearPort(k.seen \cap bits)
                  /\ k' = IF good THEN [Goto("speed") EXCEPT !.seen = {}, !.wait = "none"] ELSE PortFailed
    /\ UNCHANGED <<hw, events, d, mem>>

(* The speed is there while the port is enabled; then Enable Slot. *)
EnableSlotStep ==
    /\ At("speed")
    /\ IF port.ped THEN Send([NoOp EXCEPT !.kind = "enable slot"], "enabled")
       ELSE k' = AfterFailure("unsupported") /\ UNCHANGED <<hw, d>>
    /\ UNCHANGED <<port, events, mem>>

Lowest(S) == CHOOSE x \in S : \A y \in S : x <= y
Free == (1..MEMORY) \ mem

(* enumerate: memory for the slot, which the DCBAA then names, ... *)
Enabled ==
    /\ At("enabled")
    /\ LET s == d.pending.slot
       IN  IF k.res # "ok" THEN k' = AfterFailure(k.res) /\ UNCHANGED <<d, mem>>
           ELSE IF d.slots[s].on THEN k' = AfterFailure("unsupported") /\ UNCHANGED <<d, mem>>
           ELSE IF Free = {}
           THEN k' = [Goto("attach_failed") EXCEPT !.slot = s, !.res = "no memory"] /\ UNCHANGED <<d, mem>>
           ELSE /\ mem' = mem \cup {Lowest(Free)}
                /\ d' = [d EXCEPT !.slots[s] = [NoDevice EXCEPT !.on = TRUE, !.mem = Lowest(Free)]]
                /\ k' = [Goto("address") EXCEPT !.slot = s]
    /\ UNCHANGED <<hw, port, events>>

(* ... Address Device, ... *)
Address ==
    /\ At("address")
    /\ Send([NoOp EXCEPT !.kind = "address device", !.slot = k.slot, !.mem = d.slots[k.slot].mem], "addressed")
    /\ UNCHANGED <<port, events, mem>>

(* ... and the requests for the descriptors, each of which may be bad;     *)
(* after the first, EP0's packet size may need Evaluate Context.           *)
Addressed ==
    /\ At("addressed")
    /\ k' = IF k.res = "ok" THEN [Goto("describe") EXCEPT !.step = 1] ELSE Goto("attach_failed")
    /\ UNCHANGED <<hw, port, events, d, mem>>

Describe ==
    /\ At("describe")
    /\ k' = [CallTo("control", "described") EXCEPT !.wait = "in"]
    /\ UNCHANGED <<hw, port, events, d, mem>>

NextRequest == IF k.step = REQUESTS THEN [Goto("claim") EXCEPT !.step = 0]
               ELSE [Goto("describe") EXCEPT !.step = @ + 1]

Described ==
    /\ At("described")
    /\ IF k.res # "ok" THEN k' = Goto("attach_failed") /\ UNCHANGED <<hw, d>>
       ELSE \/ k' = Fails("attach_failed", "bad descriptor") /\ UNCHANGED <<hw, d>>
            \/ k' = NextRequest /\ UNCHANGED <<hw, d>>
            \/ k.step = 1 /\ Send([NoOp EXCEPT !.kind = "evaluate context", !.slot = k.slot], "evaluated")
    /\ UNCHANGED <<port, events, mem>>

Evaluated ==
    /\ At("evaluated")
    /\ k' = IF k.res = "ok" THEN NextRequest ELSE Goto("attach_failed")
    /\ UNCHANGED <<hw, port, events, d, mem>>

(* A failed enumeration, or a device that is not configured: the slot is   *)
(* released, then the failure counts.                                      *)
AttachFailed ==
    /\ At("attach_failed")
    /\ k' = [CallTo("release", "failed") EXCEPT !.fail = IF port.ccs THEN k.res ELSE "disconnected", !.step = 0]
    /\ UNCHANGED <<hw, port, events, d, mem>>

Failed ==
    /\ At("failed")
    /\ k' = AfterFailure(k.fail)
    /\ UNCHANGED <<hw, port, events, d, mem>>

ClaimFails(result) == [CallTo("release", "failed") EXCEPT !.fail = result]

(***************************************************************************)
(* claim: a device no driver wants stays addressed; otherwise configure    *)
(* makes the endpoint's ring and sends Configure Endpoint.                 *)
(***************************************************************************)
Claim ==
    /\ At("claim")
    /\ \/ k' = Idle /\ UNCHANGED <<hw, d, mem>>
       \/ /\ d.dead
          /\ k' = ClaimFails("dead") /\ UNCHANGED <<hw, d, mem>>
       \/ /\ ~d.dead /\ Free = {}
          /\ k' = ClaimFails("no memory") /\ UNCHANGED <<hw, d, mem>>
       \/ /\ ~d.dead /\ Free # {}
          /\ mem' = mem \cup {Lowest(Free)}
          /\ hw' = CommandDoorbell([hw EXCEPT !.commands = Append(@,
                       [NoOp EXCEPT !.kind = "configure endpoint", !.slot = k.slot, !.ep = "bulk",
                                    !.mem = Lowest(Free), !.trb = d.index])])
          /\ d' = Pending
          /\ k' = [CallTo("command", "configured") EXCEPT !.mem = {Lowest(Free)}]
    /\ UNCHANGED <<port, events>>

(* A dead controller may still have the new ring; then SET_CONFIGURATION. *)
Configured ==
    /\ At("configured")
    /\ IF k.res # "ok"
       THEN /\ mem' = IF d.dead THEN mem ELSE mem \ k.mem
            /\ k' = [ClaimFails(k.res) EXCEPT !.mem = {}]
            /\ UNCHANGED d
       ELSE /\ \E kind \in {"bulk", "interrupt"} :
                  d' = [d EXCEPT !.slots[k.slot].bulk =
                           [NoEndpoint EXCEPT !.on = TRUE, !.kind = kind, !.mem = Lowest(k.mem)]]
            /\ k' = [CallTo("control", "claimed") EXCEPT !.mem = {}, !.wait = "none"]
            /\ UNCHANGED mem
    /\ UNCHANGED <<hw, port, events>>

Claimed ==
    /\ At("claimed")
    /\ k' = IF k.res = "ok" THEN Idle ELSE ClaimFails(k.res)
    /\ UNCHANGED <<hw, port, events, d, mem>>

-----------------------------------------------------------------------------
(* What the class drivers call between two services. *)

Ready(s) == At("idle") /\ ~d.dead /\ d.slots[s].bulk.on /\ d.uses > 0
IsA(s, kind) == d.slots[s].bulk.kind = kind
Used == [d EXCEPT !.uses = @ - 1]

Queue(x, s) ==
    /\ d' = [x EXCEPT !.slots[s].bulk.transfer = "queued", !.slots[s].bulk.trb = x.slots[s].bulk.index,
                      !.slots[s].bulk.index = After(@)]
    /\ hw' = Pushed(hw, s, "bulk", <<x.slots[s].bulk.index>>)

StillAttached == port.ccs /\ "csc" \notin port.changes

(* bulk_in and bulk_out: refused, or queued and waited for. *)
Bulk(s) ==
    /\ Ready(s) /\ IsA(s, "bulk")
    /\ LET b == d.slots[s].bulk
       IN  IF ~StillAttached \/ b.lost \/ b.transfer # "idle" \/ StateOf(s, "bulk") = "halted"
           THEN d' = Used /\ UNCHANGED <<hw, k>>
           ELSE Queue(Used, s) /\ k' = [Idle EXCEPT !.pc = "bulk", !.slot = s]
    /\ UNCHANGED <<port, events, mem>>

BulkWait ==
    /\ At("bulk")
    /\ LET x    == Polled
           over == x.slots[k.slot].bulk.transfer # "queued"
       IN  /\ d' = IF ~x.dead /\ over THEN [x EXCEPT !.slots[k.slot].bulk.transfer = "idle"] ELSE x
           /\ hw' = IF ~x.dead /\ over THEN StaleQueue(hw, k.slot, {"bulk"}) ELSE hw
           /\ events' = <<>>
           /\ k' = IF x.dead \/ over THEN Idle ELSE [CallTo("reposition", "bulk_over") EXCEPT !.ep = "bulk"]
    /\ UNCHANGED <<port, mem>>

(* After a timeout: an endpoint whose abort failed is lost. *)
BulkOver ==
    /\ At("bulk_over")
    /\ d' = [d EXCEPT !.slots[k.slot].bulk.transfer = "idle",
                      !.slots[k.slot].bulk.lost = @ \/ k.res # "ok"]
    /\ hw' = StaleQueue(hw, k.slot, {"bulk"})
    /\ events' = StaleTransfers(k.slot, {"bulk"}, events)
    /\ k' = Idle
    /\ UNCHANGED <<port, mem>>

(* queue_in and take_in, as the keyboard driver calls them: it queues      *)
(* nothing after a failed transfer until clear_halt has succeeded.         *)
QueueIn(s) ==
    /\ Ready(s) /\ IsA(s, "interrupt") /\ ~d.slots[s].recover
    /\ ~d.slots[s].bulk.lost /\ d.slots[s].bulk.transfer = "idle"
    /\ Queue(Used, s)
    /\ UNCHANGED <<port, events, k, mem>>

TakeIn(s) ==
    /\ At("idle") /\ ~d.dead /\ d.slots[s].bulk.on /\ IsA(s, "interrupt")
    /\ LET x == Polled
       IN  /\ x.dead \/ x.slots[s].bulk.transfer \notin {"idle", "queued"}
           /\ d' = IF x.dead THEN x
                   ELSE [x EXCEPT !.slots[s].bulk.transfer = "idle",
                                  !.slots[s].recover = @ \/ x.slots[s].bulk.transfer # "ok"]
           /\ hw' = IF x.dead THEN hw ELSE StaleQueue(hw, s, {"bulk"})
    /\ events' = <<>>
    /\ UNCHANGED <<port, k, mem>>

(***************************************************************************)
(* clear_halt: restart puts the endpoint back to its start.  A halted one  *)
(* is reset and repositioned; one that is not is stopped if it runs, then  *)
(* dropped and added again.  CLEAR_FEATURE follows.                        *)
(***************************************************************************)
ClearHalt(s) ==
    /\ Ready(s)
    /\ d' = [Used EXCEPT !.slots[s].bulk.transfer = "idle", !.slots[s].recover = TRUE]
    /\ hw' = StaleQueue(hw, s, {"bulk"})
    /\ events' = StaleTransfers(s, {"bulk"}, events)
    /\ k' = [Idle EXCEPT !.pc = "restart", !.slot = s, !.ep = "bulk"]
    /\ UNCHANGED <<port, mem>>

Restart ==
    /\ At("restart")
    /\ CASE StateOf(k.slot, "bulk") = "halted"   -> Send(Target("reset endpoint"), "restart_dequeue")
         [] StateOf(k.slot, "bulk") = "running"  -> Send(Target("stop endpoint"), "add_again")
         [] StateOf(k.slot, "bulk") = "stopped"  -> k' = Fails("add_again", "ok") /\ UNCHANGED <<hw, d>>
         [] StateOf(k.slot, "bulk") = "disabled" -> k' = Idle /\ UNCHANGED <<hw, d>>
    /\ UNCHANGED <<port, events, mem>>

RestartDequeue ==
    /\ At("restart_dequeue")
    /\ IF k.res = "ok" THEN Send(Target("set tr dequeue"), "restarted") ELSE k' = Idle /\ UNCHANGED <<hw, d>>
    /\ UNCHANGED <<port, events, mem>>

AddAgain ==
    /\ At("add_again")
    /\ IF k.res = "ok"
       THEN Send([Target("configure endpoint") EXCEPT !.drop = TRUE, !.mem = d.slots[k.slot].bulk.mem], "restarted")
       ELSE k' = Idle /\ UNCHANGED <<hw, d>>
    /\ UNCHANGED <<port, events, mem>>

Restarted ==
    /\ At("restarted")
    /\ IF k.res # "ok" THEN k' = Idle /\ UNCHANGED d
       ELSE /\ d' = [d EXCEPT !.slots[k.slot].bulk.lost = FALSE]
            /\ k' = [CallTo("control", "halt_cleared") EXCEPT !.wait = "none"]
    /\ UNCHANGED <<hw, port, events, mem>>

HaltCleared ==
    /\ At("halt_cleared")
    /\ d' = IF k.res = "ok" THEN [d EXCEPT !.slots[k.slot].recover = FALSE] ELSE d
    /\ k' = Idle
    /\ UNCHANGED <<hw, port, events, mem>>

-----------------------------------------------------------------------------
(* A device may be there from the start: its connection is a change whose  *)
(* event waits.                                                            *)
Init ==
    /\ hw = NewController
    /\ \E b \in Budgets, there \in BOOLEAN :
          /\ port = LET p == EmptyPort(b.usb3, b.plugs)
                    IN  IF ~there THEN p
                        ELSE [p EXCEPT !.dev = TRUE, !.ccs = TRUE, !.ped = b.usb3, !.changes = {"csc"},
                                       !.link = IF b.usb3 THEN "u0" ELSE "polling"]
          /\ d = NewDriver(b)
    /\ events = IF port.changes = {} THEN <<>> ELSE <<PortEvent>>
    /\ k = Idle
    /\ mem = {}

(***************************************************************************)
(* At a local label the driver's next step reads nothing the hardware      *)
(* writes, so the hardware's steps may as well come after it; nor does a   *)
(* driver whose controller is dead look at it again.                       *)
(***************************************************************************)
Local == {"recovered", "repositioned", "released", "appeared", "attach", "enabled",
          "addressed", "described", "evaluated", "failed", "configured", "claimed", "control",
          "describe", "dequeue", "address", "restart_dequeue", "add_again", "restarted",
          "halt_cleared", "release"}

Hardware == k.pc \notin Local /\ ~d.dead /\ HardwareStep /\ UNCHANGED <<d, k, mem>>

(* Only a poll looks at USBSTS, so an error before it may as well be there *)
(* when the driver is at a poll.                                           *)
Polls == {"command", "abort", "wait_control", "bulk", "scan"}

Breaks == k.pc \in Polls /\ ~d.dead /\ d.breaks /\ HostSystemError /\ UNCHANGED <<d, k, mem>>

Driver ==
    \/ CommandWait \/ AbortWait
    \/ Reposition \/ SetDequeue
    \/ Control \/ Recovered \/ Request \/ WaitControl \/ Repositioned
    \/ ReleaseSlot \/ Released
    \/ Service \/ Scan \/ Clear \/ Appeared
    \/ Attach \/ Debounce \/ Bounced
    \/ ResetPort \/ PortWait \/ PortRead \/ PortClear
    \/ EnableSlotStep \/ Enabled \/ Address \/ Addressed
    \/ Describe \/ Described \/ Evaluated \/ AttachFailed \/ Failed
    \/ Claim \/ Configured \/ Claimed
    \/ BulkWait \/ BulkOver
    \/ Restart \/ RestartDequeue \/ AddAgain \/ Restarted \/ HaltCleared
    \/ \E s \in Slot : Bulk(s) \/ QueueIn(s) \/ TakeIn(s) \/ ClearHalt(s)

Next == Hardware \/ Breaks \/ Driver

Spec == Init /\ [][Next]_vars

-----------------------------------------------------------------------------
(* Properties. *)

(***************************************************************************)
(* No completion and no transfer event of a request that the driver gave   *)
(* up is taken for the request it waits for, however late it comes and     *)
(* though addresses on a ring are used again (command_completed, on_event, *)
(* transfer_event; xHCI 4.6.1.2).                                          *)
(***************************************************************************)
AnswersMatch == ~d.crossed

(***************************************************************************)
(* The driver keeps the hardware's rules: no doorbell to a controller it   *)
(* halted, for a slot or an endpoint that is not there, no running or      *)
(* unknown endpoint dropped and none added twice (add_again), and never a  *)
(* second request on EP0's ring while one is there (ep0_lost).             *)
(***************************************************************************)
RulesKept == ~hw.broken /\ \A s \in Slot : Len(hw.slots[s].eps["ep0"].queue) <= 1

(***************************************************************************)
(* A controller that runs uses only memory that is still allocated, and    *)
(* each piece for one slot: contexts and rings are freed only after        *)
(* Disable Slot succeeded (release_slot), never under a command or a       *)
(* transfer that may still come.                                           *)
(***************************************************************************)
Uses(s) == {hw.slots[s].mem} \cup {hw.slots[s].eps[e].mem : e \in {x \in Ep : hw.slots[s].eps[x].queue # <<>>}}
MemoryKept ==
    hw.run => \A s \in Slot :
        /\ Uses(s) \ {0} \subseteq mem
        /\ \A o \in Slot \ {s} : Uses(s) \cap Uses(o) \subseteq {0}

(***************************************************************************)
(* A slot of the driver is for the device on the port, or the port still   *)
(* shows the change: a connect change is never cleared while the device it *)
(* took away keeps its slot (port_changes, debounce, reset_usb3).          *)
(***************************************************************************)
StaleSlotShows ==
    \A s \in Slot : d.slots[s].on /\ hw.slots[s].st \in {"addressed", "configured"} =>
        Reached(s) \/ "csc" \in port.changes \/ At("release") \/ (At("clear") /\ "csc" \in k.seen)

(***************************************************************************)
(* port.rs says of port_changes: "Ports whose status changed since the     *)
(* last call, in port order, with their change bits cleared."  So a change *)
(* that is there between two calls has an event to come, or its port is    *)
(* flagged.                                                                *)
(***************************************************************************)
ChangeIsNews ==
    At("idle") /\ ~d.dead /\ port.changes # {} =>
        d.first \/ d.flag \/ PortEvent \in Range(events)

(***************************************************************************)
(* bus.rs says of the transfers of an endpoint: "At most one is            *)
(* outstanding per endpoint."  So the controller never has one transfer    *)
(* behind another on a ring.                                               *)
(***************************************************************************)
OneTransferAtATime == \A s \in Slot : Len(hw.slots[s].eps["bulk"].queue) <= 1
=============================================================================
