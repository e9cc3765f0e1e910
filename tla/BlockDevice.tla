---------------------------- MODULE BlockDevice ----------------------------
(***************************************************************************)
(* What a disk promises the filesystem above it (BlockDevice of            *)
(* crates/vfs): a request that succeeds did all it was asked, a read       *)
(* changes nothing, a write changes its own blocks only.  The blocks of a  *)
(* write that failed hold anything, and may change again until a later     *)
(* request succeeds; a disk that is pulled out answers no more requests,   *)
(* and another disk is another disk.                                       *)
(***************************************************************************)
EXTENDS Naturals, Sequences

CONSTANTS Data     \* what a block may be written with

VARIABLES disk,    \* the blocks of the disk that is in
          id,      \* its number
          call,    \* the request: its disk, blocks, data and how it stands
          torn     \* blocks whose write failed

Blocks(c) == {c.lba + i - 1 : i \in 1..c.n}

(* Written blocks change while the call runs, in any order. *)
Works ==
    /\ call.res = "busy"
    /\ \A l \in DOMAIN disk :
          \/ disk'[l] = disk[l]
          \/ l \in torn
          \/ call.op = "write" /\ l \in Blocks(call)
    /\ DOMAIN disk' = DOMAIN disk
    /\ [call' EXCEPT !.got = <<>>] = [call EXCEPT !.got = <<>>]
    /\ UNCHANGED <<id, torn>>

(* A call that ends: only with the whole of its effect does it succeed. *)
Ends ==
    /\ call.res = "busy" /\ call'.res # "busy"
    /\ [call' EXCEPT !.res = "busy", !.got = <<>>] = [call EXCEPT !.got = <<>>]
    /\ DOMAIN disk' = DOMAIN disk
    /\ \A l \in DOMAIN disk :
          disk'[l] = disk[l] \/ l \in torn \/ (call.op = "write" /\ l \in Blocks(call))
    /\ call'.res = "ok" /\ call.n > 0 =>
          /\ call.id = id
          /\ Blocks(call) \subseteq DOMAIN disk
          /\ call.op = "read" => call'.got = [i \in 1..call.n |-> disk[call.lba + i - 1]]
          /\ call.op = "write" => \A i \in 1..call.n : disk'[call.lba + i - 1] = call.data[i]
    /\ torn' = CASE call'.res = "ok" /\ call.n > 0 -> {}
                 [] call'.res # "ok" /\ call.op = "write" -> torn \cup Blocks(call)
                 [] OTHER -> torn
    /\ UNCHANGED id

(* A new call, which may be refused, or have nothing to do, at once. *)
Asks ==
    /\ call.res # "busy"
    /\ call'.res = "ok" => call'.n = 0
    /\ UNCHANGED <<disk, id, torn>>

(* Another disk is plugged in; the number of the old one is not used again. *)
Changed ==
    /\ call.res # "busy"
    /\ id' > id
    /\ torn' = {}
    /\ call'.res # "busy"

Next == Works \/ Ends \/ Asks \/ Changed

Spec == call.res # "busy" /\ torn = {} /\ [][Next]_<<disk, id, call, torn>>
=============================================================================
