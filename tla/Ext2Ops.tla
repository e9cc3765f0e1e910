------------------------------- MODULE Ext2Ops -------------------------------
(***************************************************************************)
(* ext2's directories (crates/ext2/src/dir.rs and dirent.rs).              *)
(*                                                                         *)
(* A block of a directory is the sequence of its records, which tile the   *)
(* block: [ino, len, name, kind], ino 0 for an unused one.  Lengths are in *)
(* units of the shortest record; RecLenFor gives the shortest record that  *)
(* holds a name.                                                           *)
(***************************************************************************)
EXTENDS Ext2Files, SequencesExt


CONSTANTS Name,        \* the names that check_name accepts
          RecLenFor,   \* [Name \cup {".", ".."} -> lengths]
          DIR_LEN      \* the length of a directory block

-----------------------------------------------------------------------------
(***************************************************************************)
(* One block of a directory.                                               *)
(***************************************************************************)
Record(ino, len, name, kind) == [ino |-> ino, len |-> len, name |-> name, kind |-> kind]

InitEmpty == <<Record(0, DIR_LEN, ".", "file")>>

InitDir(ino, parent) ==
    <<Record(ino, RecLenFor["."], ".", "dir"),
      Record(parent, DIR_LEN - RecLenFor["."], "..", "dir")>>

(* The first record with room for name, as a set. *)
Room(records, name) ==
    LET need == RecLenFor[name]
        spare == {i \in DOMAIN records :
                    IF records[i].ino = 0 THEN records[i].len >= need
                    ELSE records[i].len >= RecLenFor[records[i].name] + need}
    IN  IF spare = {} THEN {} ELSE {Min(spare)}

(* Reuses an unused record or splits the spare space off a used one. *)
Insert(records, i, name, ino, kind) ==
    IF records[i].ino = 0
    THEN [records EXCEPT ![i] = Record(ino, @.len, name, kind)]
    ELSE LET keep == RecLenFor[records[i].name]
         IN  InsertAt([records EXCEPT ![i].len = keep], i + 1,
                      Record(ino, records[i].len - keep, name, kind))

(* The record joins the one before it, or, the first, becomes unused (an   *)
(* unused record's name and kind are never looked at: they are the same).  *)
RemoveRecord(records, i) ==
    IF i = 1 THEN [records EXCEPT ![1] = Record(0, @.len, ".", "file")]
    ELSE RemoveAt([records EXCEPT ![i - 1].len = @ + records[i].len], i)

Retarget(records, i, ino, kind) == [records EXCEPT ![i].ino = ino, ![i].kind = kind]

-----------------------------------------------------------------------------
(***************************************************************************)
(* A directory: its blocks in order (scan_dir).  Found is the block and    *)
(* the index of a record there.                                            *)
(***************************************************************************)
DirBlocks(s, n) == [k \in 1..n.size \div BS |-> Bmap(s, n, k - 1)]

(* What each block of a directory offers, the first of it. *)
FirstFound(blocks, offers) ==
    LET at == {k \in DOMAIN blocks : offers[k] # {}}
    IN  IF at = {} THEN {} ELSE {[block |-> blocks[Min(at)], i |-> Min(offers[Min(at)])]}

FindIn(s, blocks, name) ==
    FirstFound(blocks,
        [k \in DOMAIN blocks |->
            {i \in DOMAIN s.blk[blocks[k]] :
                s.blk[blocks[k]][i].ino # 0 /\ s.blk[blocks[k]][i].name = name}])

FindEntry(s, n, name) == FindIn(s, DirBlocks(s, n), name)

FoundIno(s, f) == s.blk[f.block][f.i].ino

DirEntries(s, n) ==
    {r \in UNION {ToSet(s.blk[b]) : b \in ToSet(DirBlocks(s, n))} : r.ino # 0}

DirIsEmpty(s, n) == \A r \in DirEntries(s, n) : r.name \in {".", ".."}

FindRoom(s, blocks, name) ==
    FirstFound(blocks, [k \in DOMAIN blocks |-> Room(s.blk[blocks[k]], name)])

(* In the first block with room, else in a new block at the end. *)
AddEntry(s, n, name, ino, kind) ==
    LET at(f) == Ok([s EXCEPT !.blk[f.block] = Insert(@, f.i, name, ino, kind)], n, 0)
        new(r) == IF r.err # "OK" THEN Err(s, n, r.err)
                  ELSE Ok([r.s EXCEPT !.blk[r.v] = Insert(InitEmpty, 1, name, ino, kind)],
                          [r.n EXCEPT !.size = @ + BS], 0)
        add(spot) == IF spot # {} THEN at(CHOOSE f \in spot : TRUE)
                     ELSE new(BmapAlloc(s, n, n.size \div BS))
    IN  add(FindRoom(s, DirBlocks(s, n), name))

RemoveEntry(s, f) == [s EXCEPT !.blk[f.block] = RemoveRecord(@, f.i)]
RetargetEntry(s, f, ino, kind) == [s EXCEPT !.blk[f.block] = Retarget(@, f.i, ino, kind)]

Lookup(s, dir, name) ==
    LET at(found) == IF found = {} THEN Err(s, 0, "ENOENT")
                     ELSE Ok(s, 0, FoundIno(s, CHOOSE f \in found : TRUE))
    IN  IF ~InUse(s, dir) THEN Err(s, 0, "ENOENT")
        ELSE IF s.ino[dir].kind # "dir" THEN Err(s, 0, "ENOTDIR")
        ELSE IF name = "." THEN Ok(s, 0, dir)
        ELSE at(FindEntry(s, s.ino[dir], name))

-----------------------------------------------------------------------------
(***************************************************************************)
(* ext2's changes to names: create, mkdir, unlink and rmdir                *)
(* (crates/ext2/src/ops.rs) and rename (rename.rs).                        *)
(***************************************************************************)


CONSTANTS LINK_MAX,    \* the most links a directory may have
          MAX_DEPTH    \* the most steps a walk up to the root may take

(* A slip: the directory is looked at before the name. *)
DirForChangeSwapped(s, dir, name) ==
    IF ~InUse(s, dir) THEN "ENOENT"
    ELSE IF s.read_only THEN "EROFS"
    ELSE IF s.ino[dir].kind # "dir" THEN "ENOTDIR"
    ELSE IF name \notin Name THEN "EINVAL" ELSE "OK"

(* Rules 1 to 4 of the FileSystem contract, in order. *)
DirForChange(s, dir, name) ==
    IF ~InUse(s, dir) THEN "ENOENT"
    ELSE IF s.read_only THEN "EROFS"
    ELSE IF name \notin Name THEN "EINVAL"
    ELSE IF s.ino[dir].kind # "dir" THEN "ENOTDIR" ELSE "OK"

(* The new directory's first block, then the entry. *)
FirstBlock(s, parent, n) ==
    LET init(r) == IF r.err # "OK" THEN Err(s, n, r.err)
                   ELSE Ok([r.s EXCEPT !.blk[r.v] = InitDir(n.ino, parent.ino)],
                           [r.n EXCEPT !.size = BS], 0)
    IN  IF n.kind = "dir" THEN init(BmapAlloc(s, n, 0)) ELSE Ok(s, n, 0)

LinkNew(s, parent, name, n) ==
    LET linked(m, e) == [s |-> e.s, n |-> m, parent |-> e.n, err |-> e.err]
        enter(r) == IF r.err # "OK" THEN [s |-> s, n |-> n, parent |-> parent, err |-> r.err]
                    ELSE linked(r.n, AddEntry(r.s, parent, name, n.ino, n.kind))
    IN  enter(FirstBlock(s, parent, n))

(* create and mkdir: a failure frees what was allocated. *)
Make(s, dir, name, kind) ==
    LET bad == DirForChange(s, dir, name)
        parent == s.ino[dir]
        up(r) == [r.parent EXCEPT !.links = IF kind = "dir" THEN @ + 1 ELSE @]
        end(r) == IF r.err # "OK"
                  THEN Err(FreeInode(FreeFrom(r.s, r.n, 0).s, r.n.ino, kind = "dir"), 0, r.err)
                  ELSE Ok(WriteInode(WriteInode(r.s, r.n), up(r)), 0, r.n.ino)
        link(a) == IF a.err # "OK" THEN Err(s, 0, a.err)
                   ELSE end(LinkNew(a.s, parent, name, FreshInode(a.v, kind)))
    IN  IF bad # "OK" THEN Err(s, 0, bad)
        ELSE IF FindEntry(s, parent, name) # {} THEN Err(s, 0, "EEXIST")
        ELSE IF kind = "dir" /\ parent.links >= LINK_MAX THEN Err(s, 0, "ENOSPC")
        ELSE link(AllocInode(s, dir, kind = "dir"))

-----------------------------------------------------------------------------
DropLink(s, n) ==
    LET m == [n EXCEPT !.links = Less(@)]
    IN  IF m.links = 0 THEN ReleaseInode(s, m) ELSE WriteInode(s, m)

(* Writing dir back after an entry of it went: a subdirectory's was a link. *)
LoseLink(s, dir, was) == WriteInode(s, [s.ino[dir] EXCEPT !.links = IF was THEN Less(@) ELSE @])

(* unlink *)
RemoveFile(s, dir, name) ==
    LET bad == DirForChange(s, dir, name)
        drop(f, n) == IF n.kind = "dir" THEN Err(s, 0, "EISDIR")
                      ELSE Ok(DropLink(RemoveEntry(s, f), n), 0, 0)
        at(f) == drop(f, s.ino[FoundIno(s, f)])
        remove(found) == IF found = {} THEN Err(s, 0, "ENOENT") ELSE at(CHOOSE f \in found : TRUE)
    IN  IF bad # "OK" THEN Err(s, 0, bad) ELSE remove(FindEntry(s, s.ino[dir], name))

(* check_parent compares it with the directory the entry was found in. *)
ParentOf(s, n) == FoundIno(s, CHOOSE f \in FindEntry(s, n, "..") : TRUE)

(* rmdir *)
RemoveDir(s, dir, name) ==
    LET bad == DirForChange(s, dir, name)
        drop(f, n) == IF n.kind # "dir" THEN Err(s, 0, "ENOTDIR")
                      ELSE IF ParentOf(s, n) # dir THEN Err(s, 0, "EIO")
                      ELSE IF ~DirIsEmpty(s, n) THEN Err(s, 0, "ENOTEMPTY")
                      ELSE Ok(ReleaseInode(LoseLink(RemoveEntry(s, f), dir, TRUE), n), 0, 0)
        at(f) == drop(f, s.ino[FoundIno(s, f)])
        remove(found) == IF found = {} THEN Err(s, 0, "ENOENT") ELSE at(CHOOSE f \in found : TRUE)
    IN  IF bad # "OK" THEN Err(s, 0, bad) ELSE remove(FindEntry(s, s.ino[dir], name))

-----------------------------------------------------------------------------
(***************************************************************************)
(* rename.                                                                 *)
(***************************************************************************)
(* Whether directory ancestor is here or above it; EIO for a loop of "..". *)
RECURSIVE IsAncestor(_, _, _, _)
IsAncestor(s, ancestor, here, left) ==
    IF left < 0 THEN "EIO"
    ELSE IF here = ancestor THEN "yes"
    ELSE IF here = ROOT_INO THEN "no"
    ELSE IsAncestor(s, ancestor, ParentOf(s, s.ino[here]), left - 1)

WalkLimit(s) == Min({Cardinality(Inodes) - s.sb_free_inodes, MAX_DEPTH})

(* A slip: only a move of a directory right into itself is noticed. *)
IntoItselfOnly(s, src, to_dir) == IF src.ino = to_dir THEN "EINVAL" ELSE "OK"

(* A directory cannot move into itself or below. *)
IntoItself(s, src, to_dir) ==
    LET above == IsAncestor(s, src.ino, to_dir, WalkLimit(s))
    IN  IF above = "yes" THEN "EINVAL" ELSE IF above = "no" THEN "OK" ELSE "EIO"

(* The name in dst already: its entry is pointed at src, and what it named *)
(* loses it.                                                               *)
Replace(s, dst, t, old, src) ==
    LET r == RetargetEntry(s, t, src.ino, src.kind)
    IN  IF old.kind = "dir"
        THEN ReleaseInode(WriteInode(r, [dst EXCEPT !.links = Less(@)]), old)
        ELSE DropLink(WriteInode(r, dst), old)

(* The old name goes; from_dir is read again, it may be the other parent. *)
LeaveOld(s, from_dir, from, moves_dir) ==
    LET f == CHOOSE f \in FindEntry(s, s.ino[from_dir], from) : TRUE
    IN  LoseLink(RemoveEntry(s, f), from_dir, moves_dir)

(* A directory that moved: its new parent's link, and its "..". *)
Reparent(s, src, to_dir) ==
    LET t == WriteInode(s, [s.ino[to_dir] EXCEPT !.links = @ + 1])
        dotdot == CHOOSE f \in FindEntry(t, t.ino[src], "..") : TRUE
    IN  RetargetEntry(t, dotdot, to_dir, "dir")

(* What rename refuses, in the contract's order; "same" if both names are  *)
(* the same inode's and nothing is to be done.                             *)
MayReplace(s, src, old, to_dir) ==
    LET dir == src.kind = "dir"
    IN  IF old.kind = "dir" /\ ParentOf(s, old) # to_dir THEN "EIO"
        ELSE IF dir /\ old.kind # "dir" THEN "ENOTDIR"
        ELSE IF ~dir /\ old.kind = "dir" THEN "EISDIR"
        ELSE IF old.kind = "dir" /\ ~DirIsEmpty(s, old) THEN "ENOTEMPTY" ELSE "OK"

MayMove(s, src, from_dir, target, to_dir) ==
    LET dir == src.kind = "dir"
        into(bad) == IF bad # "OK" THEN bad
                     ELSE IF target # {}
                     THEN MayReplace(s, src, s.ino[FoundIno(s, CHOOSE t \in target : TRUE)], to_dir)
                     ELSE IF dir /\ from_dir # to_dir /\ s.ino[to_dir].links >= LINK_MAX THEN "ENOSPC"
                     ELSE "OK"
    IN  IF \E t \in target : FoundIno(s, t) = src.ino THEN "same"
        ELSE IF dir /\ ParentOf(s, src) # from_dir THEN "EIO"
        ELSE into(IF dir THEN IntoItself(s, src, to_dir) ELSE "OK")

NamesRefused(s, from_dir, from, to_dir, to) ==
    IF ~InUse(s, from_dir) \/ ~InUse(s, to_dir) THEN "ENOENT"
    ELSE IF s.read_only THEN "EROFS"
    ELSE IF {from, to} \ Name # {} THEN "EINVAL"
    ELSE IF {s.ino[from_dir].kind, s.ino[to_dir].kind} # {"dir"} THEN "ENOTDIR" ELSE "OK"

(* src gets the name to in to_dir, where target is what has it now. *)
EnterNew(s, src, target, to_dir, to) ==
    LET added(r) == IF r.err # "OK" THEN r ELSE Ok(WriteInode(r.s, r.n), 0, 0)
        over(t) == Replace(s, s.ino[to_dir], t, s.ino[FoundIno(s, t)], src)
    IN  IF target = {} THEN added(AddEntry(s, s.ino[to_dir], to, src.ino, src.kind))
        ELSE Ok(over(CHOOSE t \in target : TRUE), 0, 0)

MoveFound(s, from_dir, from, src, target, to_dir, to) ==
    LET moves_dir == src.kind = "dir" /\ from_dir # to_dir
        leave(t) == LeaveOld(t, from_dir, from, moves_dir)
        end(r) == IF r.err # "OK" THEN Err(s, 0, r.err)
                  ELSE Ok(IF moves_dir THEN Reparent(leave(r.s), src.ino, to_dir) ELSE leave(r.s), 0, 0)
        move(refused) == IF refused = "same" THEN Ok(s, 0, 0)
                         ELSE IF refused # "OK" THEN Err(s, 0, refused)
                         ELSE end(EnterNew(s, src, target, to_dir, to))
    IN  move(MayMove(s, src, from_dir, target, to_dir))

MoveEntry(s, from_dir, from, to_dir, to) ==
    LET bad == NamesRefused(s, from_dir, from, to_dir, to)
        move(found) == IF found = {} THEN Err(s, 0, "ENOENT")
                       ELSE MoveFound(s, from_dir, from, s.ino[FoundIno(s, CHOOSE f \in found : TRUE)],
                                      FindEntry(s, s.ino[to_dir], to), to_dir, to)
    IN  IF bad # "OK" THEN Err(s, 0, bad) ELSE move(FindEntry(s, s.ino[from_dir], from))
=============================================================================
