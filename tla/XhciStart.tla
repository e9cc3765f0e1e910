----------------------------- MODULE XhciStart -----------------------------
(***************************************************************************)
(* Bringing an xHCI controller up (Xhci::new: crates/usb/src/xhci/start.rs,*)
(* init.rs and caps.rs) against a controller that halts, resets and starts *)
(* when it likes or never, and the firmware that had it before (the fake   *)
(* of testing/xhci/regs.rs and rings.rs).  A wait gives up only after it   *)
(* looked in vain; the controller may change right after that.             *)
(***************************************************************************)
EXTENDS Naturals, Sequences, FiniteSets

CONSTANTS Capabilities,   \* lists of extended capabilities there are
          MAX_CAPS,       \* entries walked (64)
          PORTS,          \* root ports
          SCRATCHPADS     \* scratchpad pages the controller wants

VARIABLES hw,      \* the controller's registers and what it was told
          pc,      \* where Xhci::new is
          caps,    \* the capability list, and what was walked of it
          dma,     \* DMA buffers allocated and not freed
          ports,   \* port_map's result
          err      \* the error it ends with

vars == <<hw, pc, caps, dma, ports, err>>

Pages == {<<"page", i>> : i \in 1..SCRATCHPADS}
Scratchpads == IF SCRATCHPADS = 0 THEN {} ELSE Pages \cup {<<"array", 0>>}
Rings == {<<"commands", 0>>, <<"segment", 0>>, <<"erst", 0>>}
Memory == Scratchpads \cup Rings \cup {<<"dcbaa", 0>>}

Goto(l) == pc' = l
Fails(e) == pc' = "failed" /\ err' = e
Writes == [hw EXCEPT !.broken = @ \/ hw.hcrst \/ hw.cnr]

-----------------------------------------------------------------------------
(* Extended capabilities.  A list maps offsets inside the BAR to entries   *)
(* [id, next, name, major, first, count].                                  *)

(* CapList::walk: bounded, so that it ends on any list. *)
Walk(list, xecp) ==
    LET At[n \in 0..MAX_CAPS] ==   \* the offset of entry n, 0 behind the last
            IF n = 0 THEN xecp
            ELSE IF At[n - 1] = 0 \/ At[n - 1] \notin DOMAIN list \/ list[At[n - 1]].next = 0 THEN 0
            ELSE At[n - 1] + list[At[n - 1]].next
        found == {n \in 0..MAX_CAPS - 1 : At[n] # 0 /\ At[n] \in DOMAIN list}
    IN  [n \in 1..Cardinality(found) |-> At[n - 1]]

Find(list, walked, id) == \E n \in DOMAIN walked : list[walked[n]].id = id

(* protocols: the ones called "USB " that name ports. *)
Protocols(list, walked) ==
    SelectSeq([n \in DOMAIN walked |-> list[walked[n]]],
              LAMBDA c : c.id = "protocol" /\ c.name = "USB " /\ c.first # 0 /\ c.count # 0)

(* port_map: where two overlap, the first of a version we know wins. *)
PortMap(found) ==
    [port \in 1..PORTS |->
        LET covers == {i \in DOMAIN found : /\ found[i].major \in {2, 3}
                                            /\ port \in found[i].first..found[i].first + found[i].count - 1}
        IN  IF covers = {} THEN 0 ELSE found[CHOOSE i \in covers : \A j \in covers : i <= j].major]

-----------------------------------------------------------------------------
(* The controller, on its own. *)

Starts == hw.run /\ hw.hch /\ hw' = [hw EXCEPT !.hch = FALSE]
Halts == ~hw.run /\ ~hw.hch /\ hw' = [hw EXCEPT !.hch = TRUE]
ResetDone == hw.hcrst /\ hw' = [hw EXCEPT !.hcrst = FALSE]
Ready == ~hw.hcrst /\ hw.cnr /\ hw' = [hw EXCEPT !.cnr = FALSE]
LetsGo == hw.bios /\ hw.asked /\ hw' = [hw EXCEPT !.bios = FALSE]
Controller == (Starts \/ Halts \/ ResetDone \/ Ready \/ LetsGo) /\ UNCHANGED <<pc, caps, dma, ports, err>>

(* USBCMD.  R/S cleared on a controller that had not started yet may be    *)
(* what it starts on; it halts later, or never.                            *)
ClearsRun ==
    \/ hw' = [Writes EXCEPT !.run = FALSE]
    \/ hw.run /\ hw.hch /\ hw' = [Writes EXCEPT !.run = FALSE, !.hch = FALSE]
SetsRun == hw' = [Writes EXCEPT !.run = TRUE, !.broken = @ \/ ~hw.programmed]

(* HCRST: only on a halted controller; it forgets what it was told. *)
SetsReset ==
    hw' = [Writes EXCEPT !.broken = @ \/ ~hw.hch, !.hcrst = TRUE, !.cnr = TRUE, !.run = FALSE,
                         !.hch = TRUE, !.programmed = FALSE]

-----------------------------------------------------------------------------
(* Xhci::new *)

(* Registers, their parameters, the page size; then the capabilities. *)
Begin ==
    /\ pc = "new"
    /\ \/ \E e \in {"no memory", "bad registers", "unsupported"} : Fails(e) /\ UNCHANGED caps
       \/ /\ caps' = [caps EXCEPT !.walked = IF caps.xecp = 0 THEN <<>> ELSE Walk(caps.list, caps.xecp)]
          /\ Goto("handoff")
          /\ UNCHANGED err
    /\ UNCHANGED <<hw, dma, ports>>

(* bios_handoff: ask, wait, take it anyway; then the SMIs go off. *)
Handoff ==
    /\ pc = "handoff"
    /\ IF Find(caps.list, caps.walked, "legacy")
       THEN hw' = [Writes EXCEPT !.asked = TRUE] /\ Goto(IF hw.bios THEN "handoff wait" ELSE "smi")
       ELSE UNCHANGED hw /\ Goto("halt")
    /\ UNCHANGED <<caps, dma, ports, err>>

HandoffWait ==
    /\ pc = "handoff wait"
    /\ \/ ~hw.bios /\ UNCHANGED hw
       \/ hw.bios /\ hw' = [Writes EXCEPT !.bios = FALSE]
    /\ Goto("smi")
    /\ UNCHANGED <<caps, dma, ports, err>>

SmiOff ==
    /\ pc = "smi"
    /\ hw' = [Writes EXCEPT !.smi = FALSE]
    /\ Goto("halt")
    /\ UNCHANGED <<caps, dma, ports, err>>

(* halt: for the reset, and again after a start that failed. *)
Halted(l) == IF l = "halt" THEN Goto("reset") /\ UNCHANGED <<dma, err>>
             ELSE dma' = {} /\ Fails("timeout")
NotHalted(l, e) == IF l = "halt" THEN Fails(e) /\ UNCHANGED dma
                   ELSE UNCHANGED dma /\ Fails("timeout")

Halt ==
    /\ pc \in {"halt", "halt again"}
    /\ \/ hw.gone /\ NotHalted(pc, "not responding") /\ UNCHANGED hw
       \/ ~hw.gone /\ hw.hch /\ Halted(pc) /\ UNCHANGED hw
       \/ /\ ~hw.gone /\ ~hw.hch
          /\ ClearsRun
          /\ Goto(IF pc = "halt" THEN "halt wait" ELSE "halt again wait")
          /\ UNCHANGED <<dma, err>>
    /\ UNCHANGED <<caps, ports>>

HaltWait ==
    /\ pc \in {"halt wait", "halt again wait"}
    /\ LET l == IF pc = "halt wait" THEN "halt" ELSE "halt again"
       IN  IF hw.hch THEN Halted(l) ELSE NotHalted(l, "timeout")
    /\ UNCHANGED <<hw, caps, ports>>

(* reset: until HCRST and CNR read 0. *)
Reset ==
    /\ pc = "reset"
    /\ SetsReset
    /\ Goto("reset wait")
    /\ UNCHANGED <<caps, dma, ports, err>>

ResetWait ==
    /\ pc = "reset wait"
    /\ IF hw.hcrst \/ hw.cnr THEN Fails("timeout") /\ UNCHANGED ports
       ELSE /\ ports' = PortMap(Protocols(caps.list, caps.walked))
            /\ Goto("memory") /\ UNCHANGED err
    /\ UNCHANGED <<hw, caps, dma>>

(* Scratchpads::new and Memory::new: all of it, or nothing. *)
Allocate(refused) ==
    LET scratch == Scratchpads \cap refused = {}
        rest    == (Memory \ Scratchpads) \ refused
    IN  IF ~scratch THEN {}
        ELSE IF rest = Memory \ Scratchpads THEN Memory ELSE {}

NewMemory ==
    /\ pc = "memory"
    /\ \E refused \in SUBSET Memory :
          /\ dma' = Allocate(refused)
          /\ IF refused = {} THEN Goto("run") /\ UNCHANGED err ELSE Fails("no memory")
    /\ UNCHANGED <<hw, caps, ports>>

(* run: the rings are programmed, ERSTBA last, then R/S. *)
Program ==
    /\ pc = "run"
    /\ hw' = [Writes EXCEPT !.programmed = TRUE, !.broken = @ \/ ~hw.hch]
    /\ Goto("run set")
    /\ UNCHANGED <<caps, dma, ports, err>>

Run ==
    /\ pc = "run set"
    /\ SetsRun
    /\ Goto("run wait")
    /\ UNCHANGED <<caps, dma, ports, err>>

RunWait ==
    /\ pc = "run wait"
    /\ Goto(IF hw.hch THEN "give up" ELSE "power")
    /\ UNCHANGED <<hw, caps, dma, ports, err>>

(* A slip: the memory goes as soon as R/S is cleared. *)
GiveUpFrees ==
    /\ pc = "give up"
    /\ ClearsRun
    /\ dma' = {}
    /\ Fails("timeout")
    /\ UNCHANGED <<caps, ports>>

(* It did not start: R/S is cleared, and its memory is freed only if it    *)
(* halts after that.                                                       *)
GiveUp ==
    /\ pc = "give up"
    /\ ClearsRun
    /\ Goto("halt again")
    /\ UNCHANGED <<caps, dma, ports, err>>

(* power_ports and settle_ports. *)
Power ==
    /\ pc = "power"
    /\ hw' = Writes
    /\ Goto("up")
    /\ UNCHANGED <<caps, dma, ports, err>>

Init ==
    /\ \E run, bios, gone \in BOOLEAN :
          hw = [run |-> run, hch |-> ~run, hcrst |-> FALSE, cnr |-> FALSE, programmed |-> FALSE,
                bios |-> bios, asked |-> FALSE, smi |-> bios, gone |-> gone, broken |-> FALSE]
    /\ pc = "new"
    /\ \E c \in Capabilities : caps = [list |-> c.list, xecp |-> c.xecp, walked |-> <<>>]
    /\ dma = {}
    /\ ports = [port \in 1..PORTS |-> 0]
    /\ err = "none"

Next ==
    \/ Controller
    \/ Begin \/ Handoff \/ HandoffWait \/ SmiOff \/ Halt \/ HaltWait \/ Reset \/ ResetWait
    \/ NewMemory \/ Program \/ Run \/ RunWait \/ GiveUp \/ Power

Spec == Init /\ [][Next]_vars

-----------------------------------------------------------------------------
(***************************************************************************)
(* A controller that runs on this driver's rings has all their memory,     *)
(* even when it starts after the driver gave it up; a start that fails     *)
(* leaks nothing else; and no register is written at a time when the       *)
(* controller does not allow it (Xhci::new, Memory::keep).                 *)
(***************************************************************************)
StartSafe ==
    /\ hw.programmed /\ ~hw.hch => dma = Memory
    /\ pc = "failed" => dma = {} \/ (dma = Memory /\ err = "timeout" /\ hw.programmed)
    /\ ~hw.broken
    /\ pc = "up" => (Find(caps.list, caps.walked, "legacy") => ~hw.bios /\ ~hw.smi)
=============================================================================
