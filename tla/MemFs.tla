-------------------------------- MODULE MemFs --------------------------------
(***************************************************************************)
(* The in-memory filesystem (crates/vfs/src/memfs.rs): the FileSystem      *)
(* contract with as little machinery as possible.                          *)
(*                                                                         *)
(* A MemFs is a record m of its nodes, by inode number, and whether it is  *)
(* read-only.  A file's data is in chunks of CHUNK bytes, a missing one a  *)
(* hole.  Times, owners, modes and the capacity that tests set are left    *)
(* out, and so are symbolic links and special files, which only tests make.*)
(***************************************************************************)
EXTENDS Integers, Sequences, FiniteSets

LOCAL INSTANCE FiniteSetsExt
LOCAL INSTANCE Functions

CONSTANTS MName,          \* the names that check_name accepts
          CHUNK,
          MAX_FILE_SIZE

ROOT == 1

Result(m, v) == [m |-> m, v |-> v, err |-> "OK"]
Failed(m, e) == [m |-> m, v |-> 0, err |-> e]

NoEntries == [x \in {} |-> 0]
NewFile == [kind |-> "file", nlink |-> 1, size |-> 0, chunks |-> NoEntries]
NewDir(parent) == [kind |-> "dir", nlink |-> 2, parent |-> parent, entries |-> NoEntries]

EmptyMemFs == [nodes |-> [i \in {ROOT} |-> NewDir(ROOT)], read_only |-> FALSE]

-----------------------------------------------------------------------------
IsNode(m, ino) == ino \in DOMAIN m.nodes
IsDir(m, ino) == m.nodes[ino].kind = "dir"
HasEntry(m, dir, name) == name \in DOMAIN m.nodes[dir].entries

With(f, x, v) == [y \in DOMAIN f \cup {x} |-> IF y = x THEN v ELSE f[y]]
Without(f, x) == Restrict(f, DOMAIN f \ {x})

PutEntry(m, dir, name, ino) == [m EXCEPT !.nodes[dir].entries = With(@, name, ino)]
DropEntry(m, dir, name) == [m EXCEPT !.nodes[dir].entries = Without(@, name)]

CheckChange(m, dir, name) ==
    IF ~IsNode(m, dir) THEN "ENOENT"
    ELSE IF m.read_only THEN "EROFS"
    ELSE IF name \notin MName THEN "EINVAL"
    ELSE IF ~IsDir(m, dir) THEN "ENOTDIR" ELSE "OK"

CheckFileChange(m, ino) ==
    IF ~IsNode(m, ino) THEN "ENOENT"
    ELSE IF m.read_only THEN "EROFS"
    ELSE IF IsDir(m, ino) THEN "EISDIR" ELSE "OK"

(* The lowest unused number: freed ones are reused. *)
FreeIno(m) == Min({i \in ROOT + 1..ROOT + 1 + Cardinality(DOMAIN m.nodes) : ~IsNode(m, i)})

NewNode(m, dir, name, node) ==
    LET bad == CheckChange(m, dir, name)
        ino == FreeIno(m)
    IN  IF bad # "OK" THEN Failed(m, bad)
        ELSE IF HasEntry(m, dir, name) THEN Failed(m, "EEXIST")
        ELSE Result(PutEntry([m EXCEPT !.nodes = With(@, ino, node)], dir, name, ino), ino)

MCreate(m, dir, name) == NewNode(m, dir, name, NewFile)

MMkdir(m, dir, name) ==
    LET r == NewNode(m, dir, name, NewDir(dir))
    IN  IF r.err # "OK" THEN r ELSE [r EXCEPT !.m.nodes[dir].nlink = @ + 1]

(* A directory has lost its only name. *)
MDropLink(m, ino) ==
    LET nlink == Max({0, m.nodes[ino].nlink - 1})
    IN  IF nlink > 0 /\ ~IsDir(m, ino) THEN [m EXCEPT !.nodes[ino].nlink = nlink]
        ELSE [m EXCEPT !.nodes = Without(@, ino)]

MUnlink(m, dir, name) ==
    LET bad == CheckChange(m, dir, name)
        ino == m.nodes[dir].entries[name]
    IN  IF bad # "OK" THEN Failed(m, bad)
        ELSE IF ~HasEntry(m, dir, name) THEN Failed(m, "ENOENT")
        ELSE IF IsDir(m, ino) THEN Failed(m, "EISDIR")
        ELSE Result(MDropLink(DropEntry(m, dir, name), ino), 0)

MRmdir(m, dir, name) ==
    LET bad == CheckChange(m, dir, name)
        ino == m.nodes[dir].entries[name]
        gone == MDropLink(DropEntry(m, dir, name), ino)
    IN  IF bad # "OK" THEN Failed(m, bad)
        ELSE IF ~HasEntry(m, dir, name) THEN Failed(m, "ENOENT")
        ELSE IF ~IsDir(m, ino) THEN Failed(m, "ENOTDIR")
        ELSE IF DOMAIN m.nodes[ino].entries # {} THEN Failed(m, "ENOTEMPTY")
        ELSE Result([gone EXCEPT !.nodes[dir].nlink = @ - 1], 0)

(* Whether ancestor is ino or one of its parents. *)
RECURSIVE MIsAncestor(_, _, _)
MIsAncestor(m, ancestor, ino) ==
    \/ ino = ancestor
    \/ /\ m.nodes[ino].parent # ino
       /\ MIsAncestor(m, ancestor, m.nodes[ino].parent)

(* The target goes, the name moves, and a moved directory's parent with it. *)
MMove(m, from_dir, from, to_dir, to) ==
    LET src == m.nodes[from_dir].entries[from]
        old == m.nodes[to_dir].entries[to]
        free == IF ~HasEntry(m, to_dir, to) THEN m
                ELSE MDropLink(IF IsDir(m, old) THEN [m EXCEPT !.nodes[to_dir].nlink = @ - 1]
                                                ELSE m, old)
        moved == PutEntry(DropEntry(free, from_dir, from), to_dir, to, src)
    IN  IF ~IsDir(m, src) \/ from_dir = to_dir THEN moved
        ELSE [moved EXCEPT !.nodes[src].parent = to_dir, !.nodes[from_dir].nlink = @ - 1,
                           !.nodes[to_dir].nlink = @ + 1]

MRename(m, from_dir, from, to_dir, to) ==
    LET src == m.nodes[from_dir].entries[from]
        old == m.nodes[to_dir].entries[to]
        target == HasEntry(m, to_dir, to)
    IN  IF ~IsNode(m, from_dir) \/ ~IsNode(m, to_dir) THEN Failed(m, "ENOENT")
        ELSE IF m.read_only THEN Failed(m, "EROFS")
        ELSE IF {from, to} \ MName # {} THEN Failed(m, "EINVAL")
        ELSE IF ~IsDir(m, from_dir) \/ ~IsDir(m, to_dir) THEN Failed(m, "ENOTDIR")
        ELSE IF ~HasEntry(m, from_dir, from) THEN Failed(m, "ENOENT")
        ELSE IF target /\ old = src THEN Result(m, 0)
        ELSE IF IsDir(m, src) /\ MIsAncestor(m, src, to_dir) THEN Failed(m, "EINVAL")
        ELSE IF target /\ IsDir(m, src) /\ ~IsDir(m, old) THEN Failed(m, "ENOTDIR")
        ELSE IF target /\ ~IsDir(m, src) /\ IsDir(m, old) THEN Failed(m, "EISDIR")
        ELSE IF target /\ IsDir(m, old) /\ DOMAIN m.nodes[old].entries # {}
             THEN Failed(m, "ENOTEMPTY")
        ELSE Result(MMove(m, from_dir, from, to_dir, to), 0)

-----------------------------------------------------------------------------
(***************************************************************************)
(* File data.                                                              *)
(***************************************************************************)
ChunkZeros == [i \in 0..CHUNK - 1 |-> 0]

ByteAt(node, pos) ==
    IF pos \div CHUNK \in DOMAIN node.chunks THEN node.chunks[pos \div CHUNK][pos % CHUNK] ELSE 0

MRead(m, ino, offset, len) ==
    IF ~IsNode(m, ino) THEN Failed(m, "ENOENT")
    ELSE IF IsDir(m, ino) THEN Failed(m, "EISDIR")
    ELSE Result(m, [i \in 1..Min({len, Max({0, m.nodes[ino].size - offset})})
                        |-> ByteAt(m.nodes[ino], offset + i - 1)])

(* The chunks a write of buf at offset touches, new ones zeroed first. *)
MWrite(m, ino, offset, buf) ==
    LET bad == CheckFileChange(m, ino)
        node == m.nodes[ino]
        end == offset + Len(buf)
        touched == offset \div CHUNK..(end - 1) \div CHUNK
        chunk(k) == IF k \in DOMAIN node.chunks THEN node.chunks[k] ELSE ChunkZeros
        written == [k \in DOMAIN node.chunks \cup touched |->
                       [i \in 0..CHUNK - 1 |->
                           IF k * CHUNK + i \in offset..end - 1
                           THEN buf[k * CHUNK + i - offset + 1] ELSE chunk(k)[i]]]
    IN  IF bad # "OK" THEN Failed(m, bad)
        ELSE IF buf = <<>> THEN Result(m, 0)
        ELSE IF end > MAX_FILE_SIZE THEN Failed(m, "EFBIG")
        ELSE Result([m EXCEPT !.nodes[ino].chunks = written,
                              !.nodes[ino].size = Max({@, end})], Len(buf))

(* A later growth reads zeros past the new end. *)
MTruncate(m, ino, size) ==
    LET bad == CheckFileChange(m, ino)
        kept == {k \in DOMAIN m.nodes[ino].chunks : k * CHUNK < size}
        cut == [k \in kept |-> [i \in 0..CHUNK - 1 |->
                    IF k * CHUNK + i < size THEN m.nodes[ino].chunks[k][i] ELSE 0]]
    IN  IF bad # "OK" THEN Failed(m, bad)
        ELSE IF size > MAX_FILE_SIZE THEN Failed(m, "EFBIG")
        ELSE Result([m EXCEPT !.nodes[ino].chunks = cut, !.nodes[ino].size = size], 0)

MLookup(m, dir, name) ==
    IF ~IsNode(m, dir) THEN Failed(m, "ENOENT")
    ELSE IF ~IsDir(m, dir) THEN Failed(m, "ENOTDIR")
    ELSE IF name = "." THEN Result(m, dir)
    ELSE IF name = ".." THEN Result(m, m.nodes[dir].parent)
    ELSE IF ~HasEntry(m, dir, name) THEN Failed(m, "ENOENT")
    ELSE Result(m, m.nodes[dir].entries[name])
=============================================================================
