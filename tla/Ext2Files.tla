------------------------------ MODULE Ext2Files ------------------------------
(***************************************************************************)
(* ext2's blocks: the allocator with its bitmaps and counts                *)
(* (crates/ext2/src/allocator.rs, bitmap.rs), inodes (inode.rs), and the   *)
(* block map through which a file's data is written and freed (file.rs).   *)
(*                                                                         *)
(* A filesystem is a record s:                                             *)
(*   ino                 the inode table                                   *)
(*   blk                 what the data blocks hold                         *)
(*   bbits, ibits        the group bitmaps: the indices in use             *)
(*   free_blocks, free_inodes, used_dirs     the group descriptors' counts *)
(*   sb_free_blocks, sb_free_inodes          the superblock's counts       *)
(*   read_only           changes are refused                               *)
(*                                                                         *)
(* The methods of Ext2 are operators on s.  An inode a method holds in     *)
(* memory is a value n, which write_inode stores; a result is a record of  *)
(* the filesystem, that inode, a value and an error.                       *)
(*                                                                         *)
(* Only the blocks that can hold data are numbered, from 1: pointer 0 is a *)
(* hole.  A cell is a byte of a data block and a pointer of an indirect    *)
(* one, so both have BS of them.  Times, owners and modes are left out,    *)
(* and so are the checks that only a corrupt disk fails.                   *)
(***************************************************************************)
EXTENDS Integers, Sequences, FiniteSets, FiniteSetsExt


CONSTANTS GROUPS,             \* block groups
          BLOCKS,             \* blocks for data; the last group may be short
          BLOCKS_PER_GROUP,
          INODES_PER_GROUP,
          ROOT_INO,
          FIRST_INO,          \* the first inode number that is not reserved
          BS,                 \* cells of a block
          N_DIRECT,           \* direct pointers of an inode
          DEPTH               \* levels of indirection (3)

Groups == 0..GROUPS - 1
Blocks == 1..BLOCKS
GroupBlocks(g) == Min({BLOCKS_PER_GROUP, BLOCKS - g * BLOCKS_PER_GROUP})
Inodes == 1..GROUPS * INODES_PER_GROUP

Zeros == [i \in 0..BS - 1 |-> 0]

(* What a block holds once it is free: whatever was there, one value for all. *)
Stale == [i \in 0..BS - 1 |-> 9]

NoPointers == [i \in 0..N_DIRECT + DEPTH - 1 |-> 0]

(* A method's result. *)
Ok(s, n, v) == [s |-> s, n |-> n, v |-> v, err |-> "OK"]
Err(s, n, e) == [s |-> s, n |-> n, v |-> 0, err |-> e]

(* saturating_add_signed(-1) *)
Less(count) == IF count = 0 THEN 0 ELSE count - 1

-----------------------------------------------------------------------------
(***************************************************************************)
(* Bitmaps.  The index found, as a set: empty if every bit is set.         *)
(***************************************************************************)
FirstZero(bits, from, to) ==
    LET clear == from..to - 1 \ bits
    IN  IF clear = {} THEN {} ELSE {Min(clear)}

FindZero(bits, len, goal) ==
    LET from == Min({goal, len})
        after == FirstZero(bits, from, len)
    IN  IF after # {} THEN after ELSE FirstZero(bits, 0, from)

-----------------------------------------------------------------------------
(***************************************************************************)
(* The allocator.                                                          *)
(***************************************************************************)
BlockGroup(b) == <<(b - 1) \div BLOCKS_PER_GROUP, (b - 1) % BLOCKS_PER_GROUP>>
GroupStart(g) == g * BLOCKS_PER_GROUP + 1
InodeGroup(i) == <<(i - 1) \div INODES_PER_GROUP, (i - 1) % INODES_PER_GROUP>>

(* The places the search of the groups from the first on may stop at, by   *)
(* the steps it takes there; it stops at the first.                        *)
Spots(step, g, free, found) == IF free = 0 THEN {} ELSE {[step |-> step, g |-> g, i |-> i] : i \in found}
Nearest(spots) == CHOOSE x \in spots : \A y \in spots : x.step <= y.step

GroupSpots(s, step, g, from) ==
    Spots(step, g, s.free_blocks[g], FindZero(s.bbits[g], GroupBlocks(g), from))

BlockSpots(s, near) ==
    UNION {GroupSpots(s, step, (near[1] + step) % GROUPS, IF step = 0 THEN near[2] ELSE 0) :
              step \in Groups}

TakeBlock(s, at) ==
    Ok([s EXCEPT !.bbits[at.g] = @ \cup {at.i}, !.free_blocks[at.g] = Less(@),
                 !.sb_free_blocks = Less(@)], 0, GroupStart(at.g) + at.i)

(* From the goal on in its group, wrapping, then in the groups after it. *)
AllocBlock(s, goal) ==
    LET spots == BlockSpots(s, BlockGroup(Min({goal, BLOCKS})))
    IN  IF s.sb_free_blocks = 0 \/ spots = {} THEN Err(s, 0, "ENOSPC")
        ELSE TakeBlock(s, Nearest(spots))

FreeBlock(s, b) ==
    LET g == BlockGroup(b)[1]
        i == BlockGroup(b)[2]
    IN  IF i \notin s.bbits[g] THEN s
        ELSE [s EXCEPT !.bbits[g] = @ \ {i}, !.free_blocks[g] = @ + 1,
                       !.sb_free_blocks = @ + 1, !.blk[b] = Stale]

(* A directory goes to the group with the most free inodes. *)
FirstGroup(s, parent, dir) ==
    IF dir THEN Min({g \in Groups : \A h \in Groups : s.free_inodes[h] <= s.free_inodes[g]})
    ELSE InodeGroup(parent)[1]

InodeSpotsIn(s, step, g) ==
    Spots(step, g, s.free_inodes[g],
          FirstZero(s.ibits[g], Max({0, FIRST_INO - 1 - g * INODES_PER_GROUP}), INODES_PER_GROUP))

InodeSpots(s, first) == UNION {InodeSpotsIn(s, step, (first + step) % GROUPS) : step \in Groups}

TakeInode(s, at, dir) ==
    Ok([s EXCEPT !.ibits[at.g] = @ \cup {at.i}, !.free_inodes[at.g] = Less(@),
                 !.used_dirs[at.g] = IF dir THEN @ + 1 ELSE @, !.sb_free_inodes = Less(@)],
       0, at.g * INODES_PER_GROUP + at.i + 1)

AllocInode(s, parent, dir) ==
    LET spots == InodeSpots(s, FirstGroup(s, parent, dir))
    IN  IF s.sb_free_inodes = 0 \/ spots = {} THEN Err(s, 0, "ENOSPC")
        ELSE TakeInode(s, Nearest(spots), dir)

FreeInode(s, ino, dir) ==
    LET g == InodeGroup(ino)[1]
        i == InodeGroup(ino)[2]
    IN  IF i \notin s.ibits[g] THEN s
        ELSE [s EXCEPT !.ibits[g] = @ \ {i}, !.free_inodes[g] = @ + 1,
                       !.used_dirs[g] = IF dir THEN Less(@) ELSE @,
                       !.sb_free_inodes = @ + 1]

-----------------------------------------------------------------------------
(***************************************************************************)
(* Inodes.  blocks is i_blocks, in blocks of the filesystem.               *)
(***************************************************************************)
FreshInode(ino, kind) ==
    [ino |-> ino, kind |-> kind, links |-> IF kind = "dir" THEN 2 ELSE 1,
     size |-> 0, blocks |-> 0, block |-> NoPointers]

(* inode() finds only inodes in use: the others are ENOENT. *)
InUse(s, ino) == ino \in Inodes /\ s.ino[ino].links # 0

WriteInode(s, n) == [s EXCEPT !.ino[n.ino] = n]

-----------------------------------------------------------------------------
(***************************************************************************)
(* The block map.  Logical blocks from Start(d) on are reached through d   *)
(* levels of indirect blocks.                                              *)
(***************************************************************************)
Start[d \in 1..DEPTH + 1] == IF d = 1 THEN N_DIRECT ELSE Start[d - 1] + BS ^ (d - 1)

(* The blocks the map reaches. *)
Mapped == 0..Start[DEPTH + 1] - 1

MaxFileSize == Start[DEPTH + 1] * BS

IndirectPath(rest, depth) ==
    [depth |-> depth,
     index |-> <<N_DIRECT + depth - 1>>
               \o [level \in 1..depth |-> (rest \div BS ^ (depth - level)) % BS]]

PathTo(lb) ==
    LET below(depth) == IndirectPath(lb - Start[depth], depth)
    IN  IF lb < N_DIRECT THEN [depth |-> 0, index |-> <<lb>>]
        ELSE below(Min({d \in 1..DEPTH : lb < Start[d + 1]}))

MapPath == [lb \in Mapped |-> PathTo(lb)]

(* The pointers met on the way to a logical block, 0 from a missing one on. *)
Chain(s, n, path) ==
    LET ptr[level \in 0..path.depth] ==
            IF level = 0 THEN n.block[path.index[1]]
            ELSE IF ptr[level - 1] = 0 THEN 0
                 ELSE s.blk[ptr[level - 1]][path.index[level + 1]]
    IN  ptr

BmapOn(s, n, path) == Chain(s, n, path)[path.depth]

Bmap(s, n, lb) == IF lb \in Mapped THEN BmapOn(s, n, MapPath[lb]) ELSE 0

BlockGoal(s, n, lb) ==
    LET after(b) == IF b # 0 THEN b + 1 ELSE GroupStart(InodeGroup(n.ino)[1])
    IN  after(IF lb > 0 THEN Bmap(s, n, lb - 1) ELSE 0)

(* A new block b, zeroed, and the pointer to it at a level of path; above  *)
(* is the block over it.                                                   *)
LinkBlock(s, n, b, path, level, above) ==
    IF level = 0
    THEN Ok([s EXCEPT !.blk[b] = Zeros],
            [n EXCEPT !.blocks = @ + 1, !.block[path.index[1]] = b], b)
    ELSE Ok([s EXCEPT !.blk[b] = Zeros, !.blk[above][path.index[level + 1]] = b],
            [n EXCEPT !.blocks = @ + 1], b)

(* Allocates the blocks of path from a level down: a is the next one. *)
RECURSIVE Grow(_, _, _, _, _), GrowBelow(_, _, _)
Grow(n, path, level, above, a) ==
    IF a.err # "OK" THEN Err(a.s, n, a.err)
    ELSE GrowBelow(LinkBlock(a.s, n, a.v, path, level, above), path, level)
GrowBelow(linked, path, level) ==
    IF level = path.depth THEN linked
    ELSE Grow(linked.n, path, level + 1, linked.v, AllocBlock(linked.s, linked.v + 1))

(* A slip: only the data block is checked for. *)
NoRoomUncounted(s, blocks) == s.sb_free_blocks = 0

(* The free count is checked first: no half-built path is left behind. *)
NoRoom(s, blocks) == s.sb_free_blocks < blocks

(* path is there down to level, by the pointers ptr. *)
Extend(s, n, path, ptr, level, goal) ==
    IF ptr[level] # 0 THEN Ok(s, n, ptr[level])
    ELSE IF NoRoom(s, path.depth - level + 1) THEN Err(s, n, "ENOSPC")
    ELSE Grow(n, path, level, IF level = 0 THEN 0 ELSE ptr[level - 1], AllocBlock(s, goal))

FirstMissing(path, ptr) == Min({path.depth} \cup {k \in 0..path.depth : ptr[k] = 0})

BmapPath(s, n, path, goal) ==
    LET extend(ptr) == Extend(s, n, path, ptr, FirstMissing(path, ptr), goal)
    IN  extend(Chain(s, n, path))

BmapAlloc(s, n, lb) ==
    IF lb \notin Mapped THEN Err(s, n, "EFBIG")
    ELSE BmapPath(s, n, MapPath[lb], BlockGoal(s, n, lb))

-----------------------------------------------------------------------------
(***************************************************************************)
(* ext2's file data: writing, truncating and freeing                       *)
(* (crates/ext2/src/file.rs), and the end of an inode (release_inode of    *)
(* allocator.rs).                                                          *)
(***************************************************************************)


DivCeil(a, b) == (a + b - 1) \div b

(* ENOENT, EROFS, then the type: "OK" for a regular file to change. *)
FileForChange(s, ino) ==
    IF ~InUse(s, ino) THEN "ENOENT"
    ELSE IF s.read_only THEN "EROFS"
    ELSE IF s.ino[ino].kind = "dir" THEN "EISDIR" ELSE "OK"

-----------------------------------------------------------------------------
(***************************************************************************)
(* Freeing.  FreeTree gives, in v, whether the indirect block itself went; *)
(* FreeEntries frees what its entries from i on lead to, as they were read *)
(* at the start.                                                           *)
(***************************************************************************)
RECURSIVE FreeTree(_, _, _, _, _)
RECURSIVE FreeEntries(_, _, _, _, _, _, _, _)

FreeEntries(s, n, block, ptrs, depth, from, i, kept) ==
    LET span == BS ^ (depth - 1)
        sub == IF i = from \div span THEN from % span ELSE 0
        next(r) == FreeEntries(IF r.v THEN [r.s EXCEPT !.blk[block][i] = 0] ELSE r.s,
                               r.n, block, ptrs, depth, from, i + 1, kept \/ ~r.v)
    IN  IF i = BS
        THEN IF kept THEN Ok(s, n, FALSE)
             ELSE Ok(FreeBlock(s, block), [n EXCEPT !.blocks = Less(@)], TRUE)
        ELSE IF ptrs[i] = 0 THEN FreeEntries(s, n, block, ptrs, depth, from, i + 1, kept)
        ELSE next(IF depth = 1
                  THEN Ok(FreeBlock(s, ptrs[i]), [n EXCEPT !.blocks = Less(@)], TRUE)
                  ELSE FreeTree(s, n, ptrs[i], depth - 1, sub))

FreeTree(s, n, block, depth, from) ==
    LET first == from \div BS ^ (depth - 1)
        ptrs == s.blk[block]
    IN  FreeEntries(s, n, block, ptrs, depth, from, first,
                    \E i \in 0..first - 1 : ptrs[i] # 0)

RECURSIVE FreeDirect(_, _, _)
FreeDirect(s, n, i) ==
    IF i = N_DIRECT THEN Ok(s, n, 0)
    ELSE IF n.block[i] = 0 THEN FreeDirect(s, n, i + 1)
    ELSE FreeDirect(FreeBlock(s, n.block[i]),
                    [n EXCEPT !.block[i] = 0, !.blocks = Less(@)], i + 1)

RECURSIVE FreeIndirect(_, _, _, _)
FreeIndirect(s, n, first, depth) ==
    LET slot == N_DIRECT + depth - 1
        next(r) == FreeIndirect(r.s, IF r.v THEN [r.n EXCEPT !.block[slot] = 0] ELSE r.n,
                                first, depth + 1)
    IN  IF depth > DEPTH THEN Ok(s, n, 0)
        ELSE IF n.block[slot] # 0 /\ first < Start[depth + 1]
             THEN next(FreeTree(s, n, n.block[slot], depth, Max({0, first - Start[depth]})))
             ELSE FreeIndirect(s, n, first, depth + 1)

(* Every block of n from logical block first on, and indirect blocks left  *)
(* empty.                                                                  *)
FreeFrom(s, n, first) ==
    LET direct == FreeDirect(s, n, Min({first, N_DIRECT}))
    IN  FreeIndirect(direct.s, direct.n, first, 1)

(* The kind of an inode without links is never looked at: it has none here. *)
ReleaseInode(s, n) ==
    LET end(r) == WriteInode(r.s, [r.n EXCEPT !.size = 0, !.links = 0, !.kind = "none"])
    IN  FreeInode(end(FreeFrom(s, n, 0)), n.ino, n.kind = "dir")

-----------------------------------------------------------------------------
(***************************************************************************)
(* Writing.  buf is the bytes, from index 1.                               *)
(***************************************************************************)
(* A slip: what lies past the end of the file stays there. *)
ZeroTailNot(s, n, size) == s

ZeroTail(s, n, size) ==
    LET cut(b) == IF size % BS = 0 \/ b = 0 THEN s
                  ELSE [s EXCEPT !.blk[b] = [i \in 0..BS - 1 |-> IF i < size % BS THEN @[i] ELSE 0]]
    IN  cut(Bmap(s, n, size \div BS))

(* One block at a time, up to the first error; v is how much was written. *)
RECURSIVE WriteData(_, _, _, _, _)
WriteData(s, n, offset, buf, done) ==
    LET pos == offset + done
        within == pos % BS
        len == Min({Len(buf) - done, BS - within})
        filled(block) == [i \in 0..BS - 1 |-> IF i \in within..within + len - 1
                                              THEN buf[done + 1 + i - within] ELSE block[i]]
        next(r) == IF r.err # "OK" THEN [Err(r.s, r.n, r.err) EXCEPT !.v = done]
                   ELSE WriteData([r.s EXCEPT !.blk[r.v] = filled(@)], r.n, offset, buf, done + len)
    IN  IF done = Len(buf) THEN Ok(s, n, done) ELSE next(BmapAlloc(s, n, pos \div BS))

(* The filesystem after write_at, how much was written, and the error. *)
FileWrite(s, ino, offset, buf) ==
    LET bad == FileForChange(s, ino)
        n == s.ino[ino]
        grown(w) == IF w.v > 0 THEN [w.n EXCEPT !.size = Max({@, offset + w.v})] ELSE w.n
        end(w) == [s |-> WriteInode(w.s, grown(w)), n |-> 0, v |-> w.v,
                   err |-> IF w.err = "ENOSPC" /\ w.v > 0 THEN "OK" ELSE w.err]
    IN  IF bad # "OK" THEN Err(s, 0, bad)
        ELSE IF buf = <<>> THEN Ok(s, 0, 0)
        ELSE IF offset + Len(buf) > MaxFileSize THEN Err(s, 0, "EFBIG")
        ELSE end(WriteData(IF offset > n.size THEN ZeroTail(s, n, n.size) ELSE s, n, offset, buf, 0))

FileTruncate(s, ino, size) ==
    LET bad == FileForChange(s, ino)
        n == s.ino[ino]
        cut == ZeroTail(s, n, Min({size, n.size}))
        end(r) == Ok(WriteInode(r.s, [r.n EXCEPT !.size = size]), 0, 0)
    IN  IF bad # "OK" THEN Err(s, 0, bad)
        ELSE IF size > MaxFileSize THEN Err(s, 0, "EFBIG")
        ELSE IF size = n.size THEN Ok(s, 0, 0)
        ELSE end(IF size < n.size THEN FreeFrom(cut, n, DivCeil(size, BS)) ELSE Ok(cut, n, 0))

(* The bytes of an inode, holes as zeros. *)
FileData(s, n) ==
    LET cell(b, i) == IF b = 0 THEN 0 ELSE s.blk[b][i]
    IN  [pos \in 0..n.size - 1 |-> cell(Bmap(s, n, pos \div BS), pos % BS)]

(* read_at: up to len bytes from offset. *)
FileRead(s, ino, offset, len) ==
    LET n == s.ino[ino]
        count == Min({len, n.size - offset})
    IN  IF ~InUse(s, ino) THEN Err(s, 0, "ENOENT")
        ELSE IF n.kind = "dir" THEN Err(s, 0, "EISDIR")
        ELSE IF offset >= n.size THEN Ok(s, 0, <<>>)
        ELSE Ok(s, 0, [i \in 1..count |-> FileData(s, n)[offset + i - 1]])
=============================================================================
