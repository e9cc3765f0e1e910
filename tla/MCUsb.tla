------------------------------- MODULE MCUsb -------------------------------
(***************************************************************************)
(* The parts of the USB driver that share a controller but no state, in    *)
(* one run: which of them a behaviour is about is chosen at its start.     *)
(***************************************************************************)
EXTENDS MCXhci, Rings

VARIABLES part,                                    \* the part this is about
          shw, pc, caps, dma, ports, err,          \* the controller's start
          kb, endpoint, keys, down, amiss          \* a keyboard

StartVars == <<shw, pc, caps, dma, ports, err>>
KeyVars == <<kb, endpoint, keys, down, amiss>>

(* Lists of capabilities: none, the usual one, one with entries that are   *)
(* not used, one that leads out of the registers.                          *)
Cap(id, next) == [id |-> id, next |-> next, name |-> "USB ", major |-> 2, first |-> 1, count |-> 1]
Lists ==
    {[xecp |-> 0, list |-> <<>>],
     [xecp |-> 1, list |-> <<Cap("legacy", 1), [Cap("protocol", 1) EXCEPT !.major = 3, !.count = 2],
                             [Cap("protocol", 0) EXCEPT !.count = 2]>>],
     [xecp |-> 1, list |-> <<[Cap("protocol", 1) EXCEPT !.name = "?"], [Cap("protocol", 1) EXCEPT !.count = 0],
                             [Cap("protocol", 1) EXCEPT !.major = 1], Cap("protocol", 0)>>],
     [xecp |-> 2, list |-> <<Cap("legacy", 1), Cap("other", 9)>>]}
Start == INSTANCE XhciStart WITH Capabilities <- Lists, MAX_CAPS <- 3, PORTS <- 2, SCRATCHPADS <- 1, hw <- shw

Keys == INSTANCE Keyboard WITH Usage <- {"a", "caps", "none"}, KEYS <- 2, REPEAT_DELAY <- 1,
            REPEAT_INTERVAL <- 1, RETRY_INTERVAL <- 1, MAX_RECOVERIES <- 2, MAX_EVENTS <- 1, events <- keys

Off(v) == v = <<>>

UsbInit ==
    /\ part \in {"controller", "ring", "events", "start", "keyboard"}
    /\ IF part = "controller" THEN Init
       ELSE /\ hw = NewController /\ port = EmptyPort(FALSE, 0) /\ events = <<>>
            /\ d = NewDriver(CHOOSE b \in Budgets : TRUE) /\ k = Idle /\ mem = {}
    /\ RingsInit
    /\ IF part = "start" THEN Start!Init
       ELSE Off(shw) /\ Off(pc) /\ Off(caps) /\ Off(dma) /\ Off(ports) /\ Off(err)
    /\ IF part = "keyboard" THEN Keys!Init
       ELSE Off(kb) /\ Off(endpoint) /\ Off(keys) /\ Off(down) /\ Off(amiss)

UsbNext ==
    /\ UNCHANGED part
    /\ \/ part = "controller" /\ Next /\ UNCHANGED <<ringsVars, StartVars, KeyVars>>
       \/ part = "ring" /\ RingNext /\ UNCHANGED <<vars, eventVars, StartVars, KeyVars>>
       \/ part = "events" /\ EventNext /\ UNCHANGED <<vars, ringVars, StartVars, KeyVars>>
       \/ part = "start" /\ Start!Next /\ UNCHANGED <<vars, ringsVars, KeyVars>>
       \/ part = "keyboard" /\ Keys!Next /\ UNCHANGED <<vars, ringsVars, StartVars>>

UsbSpec == UsbInit /\ [][UsbNext]_<<part, vars, ringsVars, StartVars, KeyVars>>

-----------------------------------------------------------------------------
(* What the controller reads and writes is memory the driver still has:    *)
(* while it works (see Xhci's MemoryKept), and when it runs although its   *)
(* start was given up (Xhci::new; see XhciStart's StartSafe).              *)
DmaKept ==
    /\ part = "controller" => MemoryKept
    /\ part = "start" => Start!StartSafe

(* The key events agree with the reports: no key is released twice or      *)
(* stays down (BootKeyboard; see Keyboard).                                *)
KeysMatch == part = "keyboard" => Keys!KeysMatch
=============================================================================
