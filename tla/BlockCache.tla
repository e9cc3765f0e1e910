----------------------------- MODULE BlockCache -----------------------------
(***************************************************************************)
(* ext2's write-back cache of filesystem blocks over a block device        *)
(* (crates/ext2/src/cache.rs).                                             *)
(*                                                                         *)
(* The cache and its device are one record c:                              *)
(*   data    the cached blocks' data, None for a block that is not cached  *)
(*   dirty   the cached blocks changed since they were read or written     *)
(*   lru     the eviction candidates                                       *)
(*   order   the cached blocks by last use, oldest first (their ticks)     *)
(*   count   the counter of dirty blocks                                   *)
(*   disk    what a read of the device gives                               *)
(*   media   what each block may hold after a power cut: a write reaches   *)
(*           the medium at the next flush, or earlier                      *)
(*   ok      whether the step of a call just made succeeded                *)
(*                                                                         *)
(* The device fails as it likes: fail is the set of blocks it refuses to   *)
(* write during one call, readable whether it answers the call's read.  A  *)
(* refused write may have reached the medium all the same.                 *)
(***************************************************************************)
EXTENDS Naturals, Sequences, FiniteSets

CONSTANTS Block,     \* the filesystem's blocks
          Value,     \* what a block may hold
          Zero,      \* a block of zeros
          None,      \* no data: the block is not cached
          CAPACITY   \* blocks held at most

ASSUME BlockAssumption == IsFiniteSet(Block)
ASSUME ValueAssumption == Zero \in Value /\ None \notin Value
ASSUME CapacityAssumption == CAPACITY \in Nat \ {0}

VARIABLES c,
          got        \* what the last successful read returned

cvars == <<c, got>>

Cached(s) == {b \in Block : s.data[b] # None}

(* A new cache over the device. *)
Fresh(d, md) ==
    [data |-> [b \in Block |-> None], dirty |-> {}, lru |-> {}, order |-> <<>>,
     count |-> 0, disk |-> d, media |-> md, ok |-> TRUE]

Init ==
    /\ \E d \in [Block -> Value] : c = Fresh(d, [b \in Block |-> {d[b]}])
    /\ got = Zero

(***************************************************************************)
(* write_back: every dirty block is written, in runs of consecutive blocks *)
(* and, when a run fails, block by block: exactly the blocks the device    *)
(* refuses stay dirty.                                                     *)
(***************************************************************************)
WriteBack(s, fail) ==
    LET written == s.dirty \ fail
    IN  [s EXCEPT !.disk = [b \in Block |-> IF b \in written THEN s.data[b] ELSE s.disk[b]],
                  !.media = [b \in Block |-> IF b \in s.dirty THEN s.media[b] \cup {s.data[b]}
                                                              ELSE s.media[b]],
                  !.dirty = s.dirty \cap fail,
                  !.lru = s.lru \cup written,
                  !.count = s.count - Cardinality(written),
                  !.ok = s.dirty \cap fail = {}]

(***************************************************************************)
(* The order of last use: a block used now is the newest.                  *)
(***************************************************************************)
Without(seq, b) ==
    IF \E i \in DOMAIN seq : seq[i] = b
    THEN LET i == CHOOSE i \in DOMAIN seq : seq[i] = b
         IN  [j \in 1..Len(seq) - 1 |-> IF j < i THEN seq[j] ELSE seq[j + 1]]
    ELSE seq
UsedNow(seq, b) == Append(Without(seq, b), b)

Oldest(s) ==
    CHOOSE b \in s.lru :
        \E i \in DOMAIN s.order :
            s.order[i] = b /\ \A j \in 1..i - 1 : s.order[j] \notin s.lru

Touch(s, b) == [s EXCEPT !.order = UsedNow(s.order, b), !.ok = TRUE]

Insert(s, b, v) ==
    [s EXCEPT !.data[b] = v, !.lru = @ \cup {b}, !.order = UsedNow(s.order, b), !.ok = TRUE]

Evict(s, b) ==
    [s EXCEPT !.data[b] = None, !.lru = @ \ {b}, !.order = Without(s.order, b), !.ok = TRUE]

(* A slip: a full cache evicts its oldest block, dirty or not. *)
MakeRoomFromAll(s, fail) ==
    IF Cardinality(Cached(s)) < CAPACITY THEN [s EXCEPT !.ok = TRUE]
    ELSE [Evict(s, Head(s.order)) EXCEPT !.dirty = @ \ {Head(s.order)},
                                         !.count = Cardinality(s.dirty \ {Head(s.order)})]

MakeRoom(s, fail) ==
    IF Cardinality(Cached(s)) < CAPACITY THEN [s EXCEPT !.ok = TRUE]
    ELSE LET t == IF s.lru = {} THEN WriteBack(s, fail) ELSE s
         IN  IF t.lru = {} THEN [t EXCEPT !.ok = FALSE] ELSE Evict(t, Oldest(t))

Load(s, b, fail, readable) ==
    IF b \in Cached(s) THEN Touch(s, b)
    ELSE LET t == MakeRoom(s, fail)
         IN  IF t.ok /\ readable THEN Insert(t, b, t.disk[b]) ELSE [t EXCEPT !.ok = FALSE]

MarkDirty(s, b, fail) ==
    IF b \in s.dirty THEN s
    ELSE LET t == IF s.count + 1 > CAPACITY \div 2 THEN WriteBack(s, fail) ELSE s
         IN  [t EXCEPT !.dirty = @ \cup {b}, !.lru = @ \ {b}, !.count = @ + 1, !.ok = TRUE]

(***************************************************************************)
(* The calls.  What the caller of write and zeroed puts into the block is  *)
(* part of the call.                                                       *)
(***************************************************************************)
WriteInto(s, b, v, fail, readable) ==
    LET t == Load(s, b, fail, readable)
    IN  IF t.ok THEN [MarkDirty(t, b, fail) EXCEPT !.data[b] = v] ELSE t

ZeroInto(s, b, v, fail) ==
    LET t == IF b \in Cached(s) THEN Touch([s EXCEPT !.data[b] = Zero], b)
             ELSE LET u == MakeRoom(s, fail)
                  IN  IF u.ok THEN Insert(u, b, Zero) ELSE u
    IN  IF t.ok THEN [MarkDirty(t, b, fail) EXCEPT !.data[b] = v] ELSE t

(* What a flush leaves on the medium: every block the device accepted. *)
Flushed(s) == [b \in Block |-> IF b \in s.dirty THEN s.media[b] ELSE {s.disk[b]}]

Synced(s, fail, flushed) ==
    LET t == WriteBack(s, fail)
    IN  [t EXCEPT !.media = IF flushed THEN Flushed(t) ELSE t.media,
                  !.ok = t.ok /\ flushed]

Read(b) ==
    \E fail \in SUBSET c.dirty, readable \in BOOLEAN :
        /\ c' = Load(c, b, fail, readable)
        /\ got' = IF c'.ok THEN c'.data[b] ELSE got

Write(b, v) ==
    /\ \E fail \in SUBSET c.dirty, readable \in BOOLEAN : c' = WriteInto(c, b, v, fail, readable)
    /\ UNCHANGED got

Zeroed(b, v) ==
    /\ \E fail \in SUBSET c.dirty : c' = ZeroInto(c, b, v, fail)
    /\ UNCHANGED got

Sync ==
    /\ \E fail \in SUBSET c.dirty, flushed \in BOOLEAN : c' = Synced(c, fail, flushed)
    /\ UNCHANGED got

(* into_inner: the device is given back, dirty blocks are dropped. *)
Drop ==
    /\ c' = Fresh(c.disk, c.media)
    /\ UNCHANGED got

(* The power goes: the cache is lost, the medium keeps what it has. *)
PowerCut ==
    /\ \E d \in [Block -> Value] :
          /\ \A b \in Block : d[b] \in c.media[b]
          /\ c' = Fresh(d, [b \in Block |-> {d[b]}])
    /\ UNCHANGED got

Next ==
    \/ \E b \in Block : Read(b)
    \/ \E b \in Block, v \in Value : Write(b, v) \/ Zeroed(b, v)
    \/ Sync
    \/ Drop
    \/ PowerCut

Spec == Init /\ [][Next]_cvars
-----------------------------------------------------------------------------
(* The cache and its device have their types. *)
TypeOK ==
    /\ c \in [data : [Block -> Value \cup {None}], dirty : SUBSET Block, lru : SUBSET Block,
              order : Seq(Block), count : Nat, disk : [Block -> Value],
              media : [Block -> SUBSET Value], ok : BOOLEAN]
    /\ got \in Value

(***************************************************************************)
(* The eviction candidates are exactly the clean cached blocks, the        *)
(* counter is the number of dirty ones, and both agree with the order of   *)
(* use: no dirty block can be evicted and no clean one is forgotten,       *)
(* whatever failed before.                                                 *)
(***************************************************************************)
Accounts ==
    /\ c.dirty \subseteq Cached(c)
    /\ c.lru = Cached(c) \ c.dirty
    /\ c.count = Cardinality(c.dirty)
    /\ {c.order[i] : i \in DOMAIN c.order} = Cached(c)
    /\ \A i, j \in DOMAIN c.order : c.order[i] = c.order[j] => i = j

(* The cache never grows past its capacity, on a failing device either.   *)
Bounded == Cardinality(Cached(c)) <= CAPACITY

(* A cached block that is not dirty is what the device has. *)
CleanIsOnDisk == \A b \in Cached(c) \ c.dirty : c.data[b] = c.disk[b]

(***************************************************************************)
(* Whatever the device refused, the cache knows which of its blocks are    *)
(* dirty, has at most its capacity, and may drop any that is not dirty.    *)
(***************************************************************************)
CacheSound == TypeOK /\ Accounts /\ Bounded /\ CleanIsOnDisk

(***************************************************************************)
(* What a read of each block gives, and what it may be after a power cut:  *)
(* the store the cache implements.                                         *)
(***************************************************************************)
Contents(s) == [b \in Block |-> IF s.data[b] # None THEN s.data[b] ELSE s.disk[b]]
May(s) == [b \in Block |-> s.media[b] \cup {IF s.data[b] # None THEN s.data[b] ELSE s.disk[b]}]

Store == INSTANCE Store WITH contents <- Contents(c), may <- May(c), got <- got, ok <- c.ok

(***************************************************************************)
(* The cache is a store: reads return what was last written through any    *)
(* eviction, early write-back and device error, a failed call changes no   *)
(* block, and a successful sync leaves nothing a power cut can take.       *)
(***************************************************************************)
ImplementsStore == Store!Spec
=============================================================================
