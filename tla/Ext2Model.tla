------------------------------ MODULE Ext2Model ------------------------------
(***************************************************************************)
(* ext2 and MemFs side by side: every call of the FileSystem trait is made *)
(* on both, and the two must answer alike (the randomised model test of    *)
(* crates/ext2/tests/model.rs, here for every sequence of calls).          *)
(*                                                                         *)
(* fs is the ext2 filesystem as its cache shows it, mem the MemFs, twin    *)
(* the MemFs number of each ext2 inode in use (0 for the others), same     *)
(* whether the last call was answered alike.  A full ext2 is the one       *)
(* difference: a call that fails with ENOSPC is not made on the MemFs, and *)
(* of a write that stops short the MemFs gets the part that fitted.        *)
(*                                                                         *)
(* scope limits the calls to those about names or those about data; it is  *)
(* chosen with the image the run starts from.                              *)
(***************************************************************************)
EXTENDS Ext2Ops, MemFs

CONSTANTS FirstName,  \* the first name of the file that an image starts with
          BadName,    \* a name that check_name refuses
          Spans,      \* the offsets and lengths written, as pairs
          Sizes       \* the sizes truncated to

VARIABLES fs, mem, twin, same, scope

vars == <<fs, mem, twin, same, scope>>

-----------------------------------------------------------------------------
(***************************************************************************)
(* The images.                                                             *)
(***************************************************************************)
RootBlock == GroupStart(0)

(* An ext2 filesystem with an empty root directory, as mke2fs makes one. *)
EmptyExt2 ==
    LET root == [FreshInode(ROOT_INO, "dir") EXCEPT
                    !.size = BS, !.blocks = 1, !.block[0] = RootBlock]
        reserved(g) == {i \in 0..INODES_PER_GROUP - 1 : g * INODES_PER_GROUP + i + 1 < FIRST_INO}
        used(g) == IF g = 0 THEN {0} ELSE {}
    IN  [ino |-> [i \in Inodes |-> IF i = ROOT_INO THEN root
                                   ELSE [FreshInode(i, "none") EXCEPT !.links = 0]],
         blk |-> [b \in Blocks |-> IF b = RootBlock THEN InitDir(ROOT_INO, ROOT_INO) ELSE Zeros],
         bbits |-> [g \in Groups |-> used(g)],
         ibits |-> [g \in Groups |-> reserved(g)],
         free_blocks |-> [g \in Groups |-> GroupBlocks(g) - Cardinality(used(g))],
         free_inodes |-> [g \in Groups |-> INODES_PER_GROUP - Cardinality(reserved(g))],
         used_dirs |-> [g \in Groups |-> IF g = 0 THEN 1 ELSE 0],
         sb_free_blocks |-> BLOCKS - 1,
         sb_free_inodes |-> Cardinality(Inodes) - (FIRST_INO - 1),
         read_only |-> FALSE]

(* Every position of a file has its own byte. *)
Buffer(offset, len) == [i \in 1..len |-> 1 + ((offset + i) % 3)]

(* The same with a file of one byte, made elsewhere: it has two names, and *)
(* something lies past its end in its block.                               *)
Linked(s, first, second) ==
    LET end(e, ino) == [WriteInode(e.s, e.n) EXCEPT !.ino[ino].links = 2, !.ino[ino].size = 1]
        enter(w, ino) == end(AddEntry(w.s, w.s.ino[ROOT_INO], second, ino, "file"), ino)
        fill(r) == enter(FileWrite(r.s, r.v, 0, Buffer(0, 2)), r.v)
    IN  fill(Make(s, ROOT_INO, first, "file"))

MLinked(m, first, second) ==
    LET r == MCreate(m, ROOT, first)
        w == MWrite(r.m, r.v, 0, Buffer(0, 1))
    IN  [PutEntry(w.m, ROOT, second, r.v) EXCEPT !.nodes[r.v].nlink = 2]

(* The MemFs number of every inode of a new image: both have at most one file. *)
FirstTwins(s) ==
    [i \in Inodes |-> IF ~InUse(s, i) THEN 0 ELSE IF i = ROOT_INO THEN ROOT ELSE ROOT + 1]

Init ==
    /\ scope \in {"names", "data"}
    /\ \E name \in Name \ {FirstName}, ro \in BOOLEAN :
          /\ fs = [Linked(EmptyExt2, FirstName, name) EXCEPT !.read_only = ro]
          /\ mem = [MLinked(EmptyMemFs, FirstName, name) EXCEPT !.read_only = ro]
    /\ twin = FirstTwins(fs)
    /\ same = TRUE

-----------------------------------------------------------------------------
(***************************************************************************)
(* A call: e is what ext2 made of it, m what MemFs did.                    *)
(***************************************************************************)
(* ENOSPC is for a filesystem without the inode or the blocks a call needs. *)
Tight(s) ==
    \/ s.sb_free_inodes = 0
    \/ s.sb_free_blocks <= DEPTH + 1
    \/ \E i \in Inodes : s.ino[i].links >= LINK_MAX

Settle(e, m, made) ==
    /\ fs' = e.s
    /\ mem' = IF e.err = "ENOSPC" THEN mem ELSE m.m
    /\ same' = IF e.err = "ENOSPC" THEN Tight(fs) ELSE e.err = m.err
    /\ twin' = [i \in Inodes |-> IF ~InUse(e.s, i) THEN 0
                                 ELSE IF i = made THEN m.v ELSE twin[i]]
    /\ UNCHANGED scope

Names == Name \cup {BadName}

Create(dir, name) ==
    \E e \in {Make(fs, dir, name, "file")} : Settle(e, MCreate(mem, twin[dir], name), e.v)

Mkdir(dir, name) ==
    /\ scope = "names"
    /\ \E e \in {Make(fs, dir, name, "dir")} : Settle(e, MMkdir(mem, twin[dir], name), e.v)

Unlink(dir, name) ==
    \E e \in {RemoveFile(fs, dir, name)} : Settle(e, MUnlink(mem, twin[dir], name), 0)

Rmdir(dir, name) ==
    /\ scope = "names"
    /\ \E e \in {RemoveDir(fs, dir, name)} : Settle(e, MRmdir(mem, twin[dir], name), 0)

Rename(from_dir, from, to_dir, to) ==
    /\ scope = "names"
    /\ \E e \in {MoveEntry(fs, from_dir, from, to_dir, to)} :
            Settle(e, MRename(mem, twin[from_dir], from, twin[to_dir], to), 0)

Write(ino, offset, len) ==
    /\ scope = "data"
    /\ \E e \in {FileWrite(fs, ino, offset, Buffer(offset, len))} :
            LET fitted == IF e.err = "OK" THEN e.v ELSE len
            IN  Settle(e, MWrite(mem, twin[ino], offset, SubSeq(Buffer(offset, len), 1, fitted)), 0)

Truncate(ino, size) ==
    /\ scope = "data"
    /\ \E e \in {FileTruncate(fs, ino, size)} : Settle(e, MTruncate(mem, twin[ino], size), 0)

(* The inodes a call may name: those in use, and one that is not. *)
Named == LET free == {i \in Inodes : ~InUse(fs, i)}
         IN  (Inodes \ free) \cup (IF free = {} THEN {} ELSE {Max(free)})

Next ==
    \/ \E dir \in Named, name \in Names :
          Create(dir, name) \/ Mkdir(dir, name) \/ Unlink(dir, name) \/ Rmdir(dir, name)
    \/ \E d1, d2 \in {i \in Inodes : InUse(fs, i)}, n1 \in Name, n2 \in Names :
          Rename(d1, n1, d2, n2)
    \/ \E ino \in Named, span \in Spans : Write(ino, span[1], span[2])
    \/ \E ino \in Named, size \in Sizes : Truncate(ino, size)

Spec == Init /\ [][Next]_vars

-----------------------------------------------------------------------------
(***************************************************************************)
(* The same answers.                                                       *)
(***************************************************************************)
(* Every call of a change ends on ext2 as it does on MemFs, with the same  *)
(* error, and ENOSPC only comes from a filesystem that is about full       *)
(* (the contract of vfs::FileSystem, fs.rs; ops.rs, rename.rs, file.rs).   *)
SameOutcome == same

(* What a caller can see agrees too: the inodes in use, their kinds and    *)
(* links, every lookup, "." and ".." included, and the bytes of every      *)
(* file; so a call that failed changed nothing, a short write wrote just   *)
(* the part it said, and no byte cut off or freed ever shows up again      *)
(* (make's cleanup, write_data, zero_tail, free_from).                     *)
SameAnswers ==
    /\ {twin[i] : i \in Inodes} \ {0} = DOMAIN mem.nodes
    /\ \A i \in Inodes :
        LET n == fs.ino[i]
            node == mem.nodes[twin[i]]
        IN  IF ~InUse(fs, i) THEN twin[i] = 0
            ELSE /\ twin[i] \in DOMAIN mem.nodes
                 /\ \A j \in Inodes : twin[i] = twin[j] => i = j
                 /\ n.kind = node.kind /\ n.links = node.nlink
                 /\ n.kind = "file" => FileRead(fs, i, 0, n.size + 1).v
                                         = MRead(mem, twin[i], 0, n.size + 1).v
                 /\ \A name \in Name \cup {".", ".."} :
                        LET e == Lookup(fs, i, name)
                            m == MLookup(mem, twin[i], name)
                        IN  e.err = m.err /\ (e.err = "OK" => twin[e.v] = m.v)

(* An ext2 filesystem is one MemFs cannot be told from, by the answers to  *)
(* its calls or by what they leave behind.                                 *)
SameAsMemFs == SameOutcome /\ SameAnswers

-----------------------------------------------------------------------------
(***************************************************************************)
(* What e2fsck checks.                                                     *)
(***************************************************************************)
Dirs == {i \in Inodes : InUse(fs, i) /\ fs.ino[i].kind = "dir"}

(* The records in use of each directory, with their places. *)
Entries ==
    UNION {UNION {{[dir |-> d, block |-> b, rec |-> fs.blk[b][k]] :
                      k \in {k \in DOMAIN fs.blk[b] : fs.blk[b][k].ino # 0}} :
                  b \in ToSet(DirBlocks(fs, fs.ino[d]))} : d \in Dirs}

(* Every directory block is tiled by its records: their lengths add up to  *)
(* the block, each has room for its name, and no name is in a directory    *)
(* twice (dirent.rs: insert, remove, init_dir, init_empty).                *)
DirectoriesTiled ==
    /\ \A d \in Dirs : \A b \in ToSet(DirBlocks(fs, fs.ino[d])) :
          /\ b # 0
          /\ FoldLeft(LAMBDA sum, r : sum + r.len, 0, fs.blk[b]) = DIR_LEN
          /\ \A k \in DOMAIN fs.blk[b] :
                fs.blk[b][k].ino # 0 => fs.blk[b][k].len >= RecLenFor[fs.blk[b][k].name]
    /\ LET entries == Entries
       IN  Cardinality({<<e.dir, e.rec.name>> : e \in entries}) = Cardinality(entries)

(* Every inode has the links its entries give it, and every entry names an *)
(* inode in use and its kind (make, drop_link, remove_dir, move_entry: a   *)
(* directory's "..", the replaced target, the two parents of a move).      *)
LinksCounted ==
    LET entries == Entries
    IN  /\ \A e \in entries : InUse(fs, e.rec.ino) /\ fs.ino[e.rec.ino].kind = e.rec.kind
        /\ \A i \in Inodes :
              fs.ino[i].links = Cardinality({e \in entries : e.rec.ino = i})

(* The directories are a tree: every one but the root has one name, in the *)
(* directory its ".." names, and the walk up from it ends at the root      *)
(* (is_ancestor, check_parent, and the retargeting of ".." in move_entry). *)
OneTree ==
    LET named == {e \in Entries : e.rec.name \notin {".", ".."} /\ e.rec.kind = "dir"}
        parent == [d \in Dirs |-> ParentOf(fs, fs.ino[d])]
        Within[k \in 0..Cardinality(Inodes)] ==
            IF k = 0 THEN {ROOT_INO}
            ELSE LET nearer == Within[k - 1]
                 IN  nearer \cup {d \in DOMAIN parent : parent[d] \in nearer}
    IN  /\ DOMAIN parent = Within[Cardinality(Inodes)]
        /\ \A d \in DOMAIN parent \ {ROOT_INO} :
              {<<e.dir, e.rec.ino>> : e \in {x \in named : x.rec.ino = d}} = {<<parent[d], d>>}
        /\ Cardinality(named) = Cardinality(DOMAIN parent) - 1

(* The pointers to blocks below a pointer, each with the path to it. *)
RECURSIVE Below(_, _, _)
Below(path, b, depth) ==
    IF b = 0 THEN {}
    ELSE {<<path, b>>} \cup (IF depth = 0 THEN {}
                             ELSE UNION {Below(Append(path, k), fs.blk[b][k], depth - 1) :
                                            k \in 0..BS - 1})

Owned(i) ==
    IF ~InUse(fs, i) THEN {}
    ELSE UNION {Below(<<i, k>>, fs.ino[i].block[k], Max({0, k - N_DIRECT + 1})) :
                   k \in 0..N_DIRECT + DEPTH - 1}

(* The paths that lead to data, not to an indirect block. *)
IsData(path) == Len(path) - 2 = Max({0, path[2] - N_DIRECT + 1})

(* Every block in use belongs to one inode, at one place of its map, and   *)
(* every block that belongs to one is in use; i_blocks counts them, no     *)
(* indirect block is left empty, and no data lies past the end of a file   *)
(* (bmap_alloc, free_from, free_tree, release_inode, make's cleanup).      *)
BlocksOwnedOnce ==
    LET owned == [i \in Inodes |-> Owned(i)]
        all == UNION {owned[i] : i \in Inodes}
    IN  /\ Cardinality(all) = Cardinality({p[2] : p \in all})
        /\ {p[2] : p \in all} = {b \in Blocks : BlockGroup(b)[2] \in fs.bbits[BlockGroup(b)[1]]}
        /\ \A i \in Inodes :
              InUse(fs, i) =>
                /\ fs.ino[i].blocks = Cardinality(owned[i])
                /\ \A p \in owned[i] : IsData(p[1]) \/ fs.blk[p[2]] # Zeros
                /\ Cardinality({p \in owned[i] : IsData(p[1])})
                    = Cardinality({lb \in 0..DivCeil(fs.ino[i].size, BS) - 1 :
                                      Bmap(fs, fs.ino[i], lb) # 0})

(* The counts of the group descriptors and of the superblock are what the  *)
(* bitmaps and the inodes say, after every call, failed ones included      *)
(* (count_free_blocks, count_free_inodes).                                 *)
CountsExact ==
    LET reserved == 1..FIRST_INO - 1
    IN  /\ \A g \in Groups :
              /\ fs.free_blocks[g] = GroupBlocks(g) - Cardinality(fs.bbits[g])
              /\ fs.free_inodes[g] = INODES_PER_GROUP - Cardinality(fs.ibits[g])
              /\ fs.used_dirs[g] = Cardinality({d \in Dirs : InodeGroup(d)[1] = g})
        /\ fs.sb_free_blocks = MapThenSumSet(LAMBDA g : fs.free_blocks[g], Groups)
        /\ fs.sb_free_inodes = MapThenSumSet(LAMBDA g : fs.free_inodes[g], Groups)
        /\ \A i \in Inodes :
              InodeGroup(i)[2] \in fs.ibits[InodeGroup(i)[1]] <=> InUse(fs, i) \/ i \in reserved

(* Every block and inode is accounted for, after every call, also one that *)
(* failed in the middle because the disk was full.                         *)
BlocksAccounted == BlocksOwnedOnce /\ CountsExact

(* The directories are sound, each of them and all together. *)
TreeSound == DirectoriesTiled /\ LinksCounted /\ OneTree
=============================================================================
