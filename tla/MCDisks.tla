------------------------------ MODULE MCDisks -------------------------------
(***************************************************************************)
(* The way of a block to the medium, in one run: the ext2 mount over its   *)
(* cache (Ext2Mount), or the USB stick under it (Storage).  Which of the   *)
(* two a behaviour is about is chosen at its start.                        *)
(***************************************************************************)
EXTENDS Ext2Mount, Storage

VARIABLE part

(* Sticks of two to five blocks, where a 10-byte command reaches four: one *)
(* that stalls, one without a cache, one full (another follows it) and one *)
(* too large, and ones that are no disk, have no medium, are               *)
(* write-protected or of odd blocks.                                       *)
Sound == [last |-> 1, size |-> "512", type |-> "disk", waits |-> 0, medium |-> TRUE, stalls |-> TRUE,
          cache |-> TRUE, protected |-> FALSE, faults |-> 2, calls |-> 2,
          replug |-> FALSE]
Sticks ==
    {Sound,
     [Sound EXCEPT !.stalls = FALSE, !.cache = FALSE, !.waits = 1, !.faults = 1],
     [Sound EXCEPT !.last = 3, !.faults = 0, !.replug = TRUE, !.calls = 1],
     [Sound EXCEPT !.last = 4, !.faults = 0],
     [Sound EXCEPT !.medium = FALSE, !.faults = 1],
     [Sound EXCEPT !.protected = TRUE, !.faults = 1],
     [Sound EXCEPT !.type = "tape", !.faults = 0],
     [Sound EXCEPT !.size = "520", !.faults = 0]}

DisksInit ==
    \/ /\ part = "filesystem" /\ MInit
       /\ dev = NewStick(Sound) /\ ms = NewDriver(1, Sound)
       /\ k = Idle /\ call = NoCall /\ torn = {}
    \/ /\ part = "stick" /\ StickInit
       /\ c = Fresh([b \in Block |-> Zero], [b \in Block |-> {Zero}]) /\ got = Zero /\ m = Unmounted

DisksNext ==
    /\ UNCHANGED part
    /\ \/ part = "filesystem" /\ MNext /\ UNCHANGED stickVars
       \/ part = "stick" /\ StickNext /\ UNCHANGED vars

DisksSpec == DisksInit /\ [][DisksNext]_<<part, vars, stickVars>>
=============================================================================
