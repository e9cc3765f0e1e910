----------------------------- MODULE OpenFiles ------------------------------
(***************************************************************************)
(* Files of the VFS as processes have them open (kernel/src/file.rs) and a *)
(* process's table of them (kernel/src/fd.rs).                             *)
(*                                                                         *)
(* An open file f is a record: its node, what it was opened for, the       *)
(* offset, the last name read_dir gave and whether a removal freed its     *)
(* inode.  Each operation takes the mount table x and gives [f, x, v, err].*)
(* A table of fds is a function to the number of an open file, 0 for none. *)
(***************************************************************************)
EXTENDS Vfs

CONSTANTS FDS, SPAWN_FDS, SEEK_MAX, UPAGE,
          NameOrder         \* every name, sorted

Fds == 0..FDS - 1
Place(name) == CHOOSE i \in DOMAIN NameOrder : NameOrder[i] = name

Did(f, x, v) == [f |-> f, x |-> x, v |-> v, err |-> "OK"]
Refuse(f, x, e) == [f |-> f, x |-> x, v |-> 0, err |-> e]
On(f, r) == [f |-> f, x |-> r.x, v |-> r.v, err |-> r.err]

-----------------------------------------------------------------------------
(* open *)

(* flags are a subset of these; "other" stands for the bits with no meaning. *)
OpenFlags == {"READ", "WRITE", "CREATE", "EXCLUSIVE", "TRUNCATE", "APPEND", "DIRECTORY"}

Valid(flags) ==
    /\ flags \subseteq OpenFlags
    /\ flags \cap {"READ", "WRITE"} # {}
    /\ "WRITE" \in flags \/ flags \cap {"TRUNCATE", "APPEND"} = {}
    /\ "CREATE" \in flags \/ "EXCLUSIVE" \notin flags
    /\ ~({"CREATE", "DIRECTORY"} \subseteq flags)

NewOpenFile(node, flags, kind) ==
    [node |-> node, read |-> "READ" \in flags, write |-> "WRITE" \in flags,
     append |-> "APPEND" \in flags, dir |-> kind = "dir", device |-> kind = "device",
     offset |-> 0, after |-> 0, gone |-> FALSE]

(* What path names, created if it may be: [node, created]. *)
Target(x, path, flags, found) ==
    LET made(r) == IF r.err # "OK" THEN r ELSE Out(r.x, [node |-> r.v, created |-> TRUE])
    IN  IF found.err = "OK"
        THEN IF {"CREATE", "EXCLUSIVE"} \subseteq flags THEN Fail(x, "EEXIST")
             ELSE Out(x, [node |-> found.v, created |-> FALSE])
        ELSE IF found.err = "ENOENT" /\ "CREATE" \in flags THEN made(Create(x, path))
        ELSE found

OpenKind(x, t, flags, kind) ==
    LET opened(r) == IF r.err # "OK" THEN r ELSE Out(r.x, NewOpenFile(t.node, flags, kind))
    IN  IF kind = "dir" /\ flags \cap {"WRITE", "CREATE"} # {} THEN Fail(x, "EISDIR")
        ELSE IF kind # "dir" /\ "DIRECTORY" \in flags THEN Fail(x, "ENOTDIR")
        ELSE opened(IF "TRUNCATE" \in flags /\ ~t.created THEN Truncate(x, t.node, 0) ELSE Out(x, 0))

OpenNode(x, t, flags) ==
    LET of(st) == IF st.err # "OK" THEN Fail(x, st.err) ELSE OpenKind(x, t, flags, st.v.kind)
    IN  IF t.created THEN OpenKind(x, t, flags, "file") ELSE of(Stat(x, t.node))

OpenPath(x, path, flags) ==
    LET at(r) == IF r.err # "OK" THEN r ELSE OpenNode(r.x, r.v, flags)
    IN  IF ~Valid(flags) THEN Fail(x, "EINVAL") ELSE at(Target(x, path, flags, Lookup(x, path)))

-----------------------------------------------------------------------------
(* What a program does with one *)

ReadFile(f, x, len) ==
    LET moved(r) == IF r.err # "OK" THEN Refuse(f, x, r.err)
                    ELSE Did([f EXCEPT !.offset = @ + Len(r.v)], r.x, r.v)
    IN  IF f.gone THEN Refuse(f, x, "ENOENT")
        ELSE IF ~f.read THEN Refuse(f, x, "EBADF")
        ELSE IF f.dir THEN Refuse(f, x, "EISDIR")
        ELSE moved(ReadAt(x, f.node, f.offset, len))

SizeOf(st) == IF st.kind = "file" THEN st.size ELSE 0

(* A slip: an append moves the offset from where it was. *)
WriteFileFromOffset(f, x, bytes) ==
    LET at(offset) ==
            LET moved(r) == IF r.err # "OK" THEN Refuse(f, x, r.err)
                            ELSE Did([f EXCEPT !.offset = @ + r.v], r.x, r.v)
            IN  moved(WriteAt(x, f.node, offset, bytes))
        end(st) == IF st.err # "OK" THEN Refuse(f, x, st.err) ELSE at(SizeOf(st.v))
    IN  IF f.gone THEN Refuse(f, x, "ENOENT")
        ELSE IF ~f.write THEN Refuse(f, x, "EBADF")
        ELSE IF f.append THEN end(Stat(x, f.node)) ELSE at(f.offset)

WriteFile(f, x, bytes) ==
    LET at(offset) ==
            LET moved(r) == IF r.err # "OK" THEN Refuse(f, x, r.err)
                            ELSE Did([f EXCEPT !.offset = offset + r.v], r.x, r.v)
            IN  moved(WriteAt(x, f.node, offset, bytes))
        end(st) == IF st.err # "OK" THEN Refuse(f, x, st.err) ELSE at(SizeOf(st.v))
    IN  IF f.gone THEN Refuse(f, x, "ENOENT")
        ELSE IF ~f.write THEN Refuse(f, x, "EBADF")
        ELSE IF f.append THEN end(Stat(x, f.node)) ELSE at(f.offset)

(* Writes all of bytes, as a tee does. *)
RECURSIVE WriteAll(_, _, _)
WriteAll(f, x, bytes) ==
    LET rest(r) == IF r.err # "OK" THEN r
                   ELSE IF r.v = 0 THEN Refuse(r.f, r.x, "ENOSPC")
                   ELSE WriteAll(r.f, r.x, SubSeq(bytes, r.v + 1, Len(bytes)))
    IN  IF bytes = <<>> THEN Did(f, x, 0) ELSE rest(WriteFile(f, x, bytes))

SeekTo(f, x, to) ==
    IF to \notin 0..SEEK_MAX THEN Refuse(f, x, "EINVAL") ELSE Did([f EXCEPT !.offset = to], x, to)

Seek(f, x, offset, whence) ==
    LET end(st) == IF st.err # "OK" THEN Refuse(f, x, st.err) ELSE SeekTo(f, x, SizeOf(st.v) + offset)
    IN  IF f.gone THEN Refuse(f, x, "ENOENT")
        ELSE IF whence \notin {"START", "CURRENT", "END"} THEN Refuse(f, x, "EINVAL")
        ELSE IF f.device THEN Did(f, x, 0)
        ELSE IF f.dir THEN IF offset # 0 \/ whence # "START" THEN Refuse(f, x, "EINVAL")
                           ELSE Did([f EXCEPT !.offset = 0, !.after = 0], x, 0)
        ELSE IF whence = "START" THEN SeekTo(f, x, offset)
        ELSE IF whence = "CURRENT" THEN SeekTo(f, x, f.offset + offset)
        ELSE end(Stat(x, f.node))

FileStat(f, x) == IF f.gone THEN Refuse(f, x, "ENOENT") ELSE On(f, Same(x, Stat(x, f.node)))

(* A slip: it goes on with the entries it has not counted. *)
NextNamesByCount(f, names) ==
    LET all == SetToSortSeq({Place(n) : n \in names}, <)
    IN  [i \in 1..Max({0, Len(all) - f.after}) |-> all[f.after + i]]

(* The next entries, sorted, as many as fit (each takes one unit of len);  *)
(* it goes on after the last name it gave.                                 *)
NextNames(f, names) == SetToSortSeq({Place(n) : n \in names} \ 1..f.after, <)

Give(f, x, len, next) ==
    IF next # <<>> /\ len = 0 THEN Refuse(f, x, "EINVAL")
    ELSE IF next = <<>> THEN Did(f, x, <<>>)
    ELSE LET given == SubSeq(next, 1, Min({len, Len(next)}))
         IN  Did([f EXCEPT !.after = Last(given)], x, given)

ReadDirFile(f, x, len, room) ==
    LET names(r) == IF r.err # "OK" THEN Refuse(f, x, r.err) ELSE Give(f, x, len, NextNames(f, r.v))
    IN  IF f.gone THEN Refuse(f, x, "ENOENT")
        ELSE IF ~f.dir THEN Refuse(f, x, "ENOTDIR")
        ELSE IF ~room THEN Refuse(f, x, "ENOMEM")
        ELSE names(ReadDir(x, f.node))

-----------------------------------------------------------------------------
(* fds *)

NoFds == [fd \in Fds |-> 0]
FreeFds(fds) == {fd \in Fds : fds[fd] = 0}
Insert(fds, file) == [fds EXCEPT ![Min(FreeFds(fds))] = file]
OpenIn(fds) == {fds[fd] : fd \in Fds} \ {0}

(* A child's fds from a sequence of [child, parent] pairs. *)
MapFd(fds, r, pair) ==
    IF r.err # "OK" THEN r
    ELSE IF pair.parent \notin Fds \/ fds[pair.parent] = 0 \/ pair.child \notin Fds
    THEN [r EXCEPT !.err = "EBADF"]
    ELSE IF r.fds[pair.child] # 0 THEN [r EXCEPT !.err = "EINVAL"]
    ELSE [r EXCEPT !.fds[pair.child] = fds[pair.parent]]

ForChild(fds, maps) ==
    LET map(r, pair) == MapFd(fds, r, pair)
    IN  IF Len(maps) > SPAWN_FDS THEN [fds |-> NoFds, err |-> "EINVAL"]
        ELSE FoldLeft(map, [fds |-> NoFds, err |-> "OK"], maps)

(* A slip: directories are forgotten. *)
FollowedFiles(files, open, change) ==
    IF change.what # "removed" THEN {} ELSE {k \in open : files[k].node = change.node /\ ~files[k].dir}

(* The numbers of the files of a freed inode among those open. *)
Followed(files, open, change) ==
    IF change.what # "removed" THEN {} ELSE {k \in open : files[k].node = change.node}
=============================================================================
