----------------------------- MODULE Ext2Mount ------------------------------
(***************************************************************************)
(* A mounted ext2 filesystem's life on its device (crates/ext2/src/lib.rs, *)
(* mount, flush, sync and shutdown) over the block cache: the clean mark   *)
(* of the superblock (STATE_VALID in s_state), the superblock and the      *)
(* group descriptors the driver keeps in memory, read-only mounts, device  *)
(* errors and power cuts.                                                  *)
(*                                                                         *)
(* Of the superblock only the clean mark is told apart: block SUPER holds  *)
(* VALID or Zero.  Its backup copies are written with it and left out.     *)
(* What the filesystem's operations write is any data to any other block,  *)
(* with the counts in the descriptors changed or not.                      *)
(*                                                                         *)
(* A step is one call of the cache, so that the device may fail one and    *)
(* not another and the power may go between two of them.  m.at is where a  *)
(* mount or a flush has come to.                                           *)
(***************************************************************************)
EXTENDS BlockCache

CONSTANTS SUPER,   \* the superblock's block
          GROUPS,  \* the group descriptor table's
          VALID    \* a superblock marked clean

ASSUME SuperAssumption == /\ {SUPER, GROUPS} \subseteq Block /\ SUPER # GROUPS
                          /\ VALID \in Value \ {Zero}

VARIABLE m  \* the filesystem (struct Ext2) and where its call is

vars == <<c, got, m>>

Unmounted == [at |-> "down", mounting |-> FALSE, read_only |-> TRUE, never_write |-> TRUE,
              mount_state |-> Zero, sb |-> Zero, sbDirty |-> FALSE, groups |-> Zero,
              groupsDirty |-> FALSE, synced |-> FALSE]

MInit == Init /\ c.disk[SUPER] \in {Zero, VALID} /\ m = Unmounted

Up == m.at # "down" /\ ~m.mounting

(***************************************************************************)
(* Mounting reads the superblock straight from the device (one it cannot   *)
(* read or refuses is no step) and the descriptors through a new cache.  A *)
(* read-write mount then clears the clean mark and flushes; if that fails  *)
(* it is no mount.  readOnly stands for the option and for a feature that  *)
(* only allows reading.                                                    *)
(***************************************************************************)
Mount(readOnly) ==
    /\ m.at = "down"
    /\ m' = [at |-> "load", mounting |-> TRUE, read_only |-> readOnly, never_write |-> readOnly,
             mount_state |-> c.disk[SUPER], sb |-> c.disk[SUPER], sbDirty |-> FALSE,
             groups |-> Zero, groupsDirty |-> FALSE, synced |-> FALSE]
    /\ UNCHANGED <<c, got>>

(* A slip: the filesystem is marked in use before it turns out read-only. *)
MarkInUse(d, gr) ==
    [d EXCEPT !.at = "super", !.groups = gr, !.sb = Zero, !.sbDirty = TRUE]

InUse(d, gr) ==
    IF d.read_only THEN [d EXCEPT !.at = "idle", !.groups = gr, !.mounting = FALSE]
    ELSE [d EXCEPT !.at = "super", !.groups = gr, !.sb = Zero, !.sbDirty = TRUE]

ReadGroups ==
    /\ m.at = "load"
    /\ Read(GROUPS)
    /\ m' = IF c'.ok THEN InUse(m, got') ELSE [m EXCEPT !.at = "drop"]

(* A mount that failed gives the device up. *)
MountFails ==
    /\ m.at = "drop"
    /\ Drop
    /\ m' = Unmounted

(***************************************************************************)
(* flush: the descriptors and the superblock into the cache, if they       *)
(* changed, then the cache to the device; the first failure ends it.       *)
(***************************************************************************)
Start(d) == [d EXCEPT !.at = IF d.groupsDirty THEN "groups"
                             ELSE IF d.sbDirty THEN "super" ELSE "sync"]

Done(d, ok) ==
    IF ok \/ ~d.mounting THEN [d EXCEPT !.at = "idle", !.mounting = FALSE, !.synced = ok]
    ELSE [d EXCEPT !.at = "drop"]

WriteGroups ==
    /\ m.at = "groups"
    /\ Zeroed(GROUPS, m.groups)
    /\ m' = IF c'.ok THEN Start([m EXCEPT !.groupsDirty = FALSE]) ELSE Done(m, FALSE)

(* A slip: a superblock that could not be put into the cache is forgotten. *)
WriteSuperOnce ==
    /\ m.at = "super"
    /\ Write(SUPER, m.sb)
    /\ m' = IF c'.ok THEN Start([m EXCEPT !.sbDirty = FALSE])
            ELSE Done([m EXCEPT !.sbDirty = FALSE], FALSE)

WriteSuper ==
    /\ m.at = "super"
    /\ Write(SUPER, m.sb)
    /\ m' = IF c'.ok THEN Start([m EXCEPT !.sbDirty = FALSE]) ELSE Done(m, FALSE)

SyncCache ==
    /\ m.at = "sync"
    /\ Sync
    /\ m' = Done(m, c'.ok)

(***************************************************************************)
(* The calls of a mounted filesystem.                                      *)
(***************************************************************************)
Look(b) ==
    /\ m.at = "idle"
    /\ Read(b)
    /\ UNCHANGED m

(* An operation changes a block, and the counts or not. *)
Change(b, v) ==
    /\ m.at = "idle" /\ ~m.read_only
    /\ Write(b, v) \/ Zeroed(b, v)
    /\ \/ m' = [m EXCEPT !.synced = FALSE]
       \/ \E counts \in Value \ {m.groups} :
            m' = [m EXCEPT !.groups = counts, !.groupsDirty = TRUE, !.sbDirty = TRUE,
                           !.synced = FALSE]

SyncFs ==
    /\ m.at = "idle" /\ ~m.never_write
    /\ m' = Start(m)
    /\ UNCHANGED <<c, got>>

(* A slip: every shutdown marks the filesystem clean. *)
ShutClean(d) == IF d.read_only THEN d
                ELSE [d EXCEPT !.sb = VALID, !.sbDirty = TRUE, !.read_only = TRUE]

Shut(d) == IF d.read_only THEN d
           ELSE [d EXCEPT !.sb = d.mount_state, !.sbDirty = TRUE, !.read_only = TRUE]

Shutdown ==
    /\ m.at = "idle" /\ ~m.never_write
    /\ m' = Start(Shut(m))
    /\ UNCHANGED <<c, got>>

(* The machine stops, or the stick is pulled out, whatever is going on. *)
Stop ==
    /\ PowerCut
    /\ m' = Unmounted

(* e2fsck finds the filesystem in order and marks it clean. *)
E2fsck ==
    /\ m.at = "down"
    /\ LET d == [c.disk EXCEPT ![SUPER] = VALID] IN c' = Fresh(d, [b \in Block |-> {d[b]}])
    /\ UNCHANGED <<m, got>>

MNext ==
    \/ \E readOnly \in BOOLEAN : Mount(readOnly)
    \/ ReadGroups
    \/ MountFails
    \/ WriteGroups
    \/ WriteSuper
    \/ SyncCache
    \/ \E b \in Block : Look(b)
    \/ \E b \in Block \ {SUPER, GROUPS}, v \in Value : Change(b, v)
    \/ SyncFs
    \/ Shutdown
    \/ Stop
    \/ E2fsck

MSpec == MInit /\ [][MNext]_vars
-----------------------------------------------------------------------------
(***************************************************************************)
(* A filesystem in use reads as not clean whenever the power goes: nothing *)
(* before shutdown can put the clean mark on the medium.                   *)
(***************************************************************************)
InUseIsNotClean == (Up /\ ~m.read_only) => c.media[SUPER] = {Zero}

(***************************************************************************)
(* A filesystem that was not clean when it was mounted is not marked clean *)
(* by this driver, by no sequence of syncs and shutdowns: only e2fsck does *)
(* that.                                                                   *)
(***************************************************************************)
UncleanStaysUnclean ==
    (Up /\ ~m.never_write /\ m.mount_state # VALID) => c.media[SUPER] = {Zero}

(* The clean mark is on the medium only of a filesystem that was clean     *)
(* when it was mounted and has been shut down.                             *)
CleanMark == InUseIsNotClean /\ UncleanStaysUnclean

(***************************************************************************)
(* After a sync or a shutdown that succeeded, a retry of a failed one      *)
(* included, the medium holds everything: the superblock and the           *)
(* descriptors as the driver has them, and every block as it reads.        *)
(***************************************************************************)
SyncedIsOnMedium ==
    (m.synced /\ m.at = "idle")
        => /\ \A b \in Block : c.media[b] = {Contents(c)[b]}
           /\ Contents(c)[SUPER] = m.sb
           /\ Contents(c)[GROUPS] = m.groups

(* A filesystem mounted read-only never writes to its device, mounting it  *)
(* included.                                                               *)
ReadOnlyWritesNothing ==
    [][(m'.at # "down" /\ m'.never_write) => c'.media = c.media /\ c'.disk = c.disk]_vars

(***************************************************************************)
(* What the plan says of shutdown ("flush the cache, mark the ext2         *)
(* superblock clean, flush the device"): a device that has the clean mark  *)
(* has every other block as the filesystem does.                           *)
(***************************************************************************)
CleanMeansWritten ==
    (Up /\ ~m.never_write /\ c.disk[SUPER] = VALID)
        => \A b \in Block \ {SUPER} : c.disk[b] = Contents(c)[b]
=============================================================================
