------------------------------- MODULE Files --------------------------------
(***************************************************************************)
(* Processes and their files (kernel/src/mounts.rs, syscall/files.rs and   *)
(* the file side of proc.rs, fd.rs and tty.rs): every process has its own  *)
(* current directory and fds, open files are shared by the fds spawn hands *)
(* on and by the console's tees, and there is one mount table.  What one   *)
(* process removes or moves must reach all the others, since a freed inode *)
(* may be another file's at once.                                          *)
(*                                                                         *)
(* The kernel is not preemptible and no file call waits, so a call is one  *)
(* step.  Fds that are the console or pipes are left out (InputQueue,      *)
(* PipeCalls), and so is what a process runs (Processes).                  *)
(***************************************************************************)
EXTENDS OpenFiles

CONSTANTS Procs, FILES,    \* processes, and open files at most
          NODES, OFFSETS,  \* inodes of /, and how far files are read (bounds)
          Uses,            \* what a behaviour's calls may be made with
          TEES, TEES_EACH, TEE_CHUNK, ECHO_MAX

VARIABLES table,     \* the mount table
          procs,     \* by process: whether it lives, its cwd and fds
          files,     \* the open files
          ts,        \* the console's tees: files here are numbers
          use,       \* the member of Uses this behaviour is about
          last       \* ghost: the read, write or end of a listing just done

fvars == <<table, procs, files, ts, use, last>>

NoFile == 0

(* tty::write_tee *)
WriteTee(w, k, bytes) ==
    LET wrote(r) == [w |-> [x |-> r.x, fs |-> [w.fs EXCEPT ![k] = r.f]], err |-> r.err]
    IN  wrote(WriteAll(w.fs[k], w.x, bytes))

T == INSTANCE TeeStack WITH Write <- WriteTee

FileIds == 1..FILES

-----------------------------------------------------------------------------
(* Ghosts: freed is whether the inode was freed since the file was opened  *)
(* or the directory entered; steady the names there since the listing      *)
(* began and given what it gave.                                           *)

NoCwd == [trail |-> <<>>, gone |-> FALSE, freed |-> FALSE]
Unused == [node |-> NodeAt(0, 0)]
Ghosts(f, x) == f @@ [freed |-> FALSE, given |-> <<>>,
                      steady |-> IF f.dir THEN ReadDirNames(x, f.node) ELSE {}]

IsFreed(m, node) == node.mount = 1 /\ ~IsNode(m, node.ino)

Nothing == [what |-> "nothing"]
MovedTo(k, from, r) == [what |-> "moved", file |-> k, to |-> from + (IF r.err = "OK" THEN r.v ELSE 0)]

Held(ps, s) == UNION {OpenIn(ps[p].fds) : p \in Procs} \cup T!Files(s)

-----------------------------------------------------------------------------
(* mounts::with: the process's cwd goes into the table, and what the call  *)
(* changed reaches everyone.                                               *)

Enter(p) == [table EXCEPT !.cwd = procs[p].cwd.trail, !.gone = procs[p].cwd.gone]

FollowCwd(cwd, changes, m) ==
    LET to(c) == [c EXCEPT !.freed = @ \/ IsFreed(m, Last(c.trail).node)]
    IN  to(FollowAll(cwd, changes))

(* The running process's cwd is the one the table changed itself. *)
FollowProcs(p, x) ==
    [q \in Procs |->
        IF ~procs[q].alive THEN procs[q]
        ELSE IF q = p
        THEN [procs[p] EXCEPT !.cwd.trail = x.cwd, !.cwd.gone = x.gone,
                              !.cwd.freed = @ \/ IsFreed(x.m, Last(x.cwd).node)]
        ELSE [procs[q] EXCEPT !.cwd = FollowCwd(@, x.changes, x.m)]]

MarkGone(fs, open, changes) ==
    LET gone == UNION {Followed(fs, open, changes[i]) : i \in DOMAIN changes}
    IN  [k \in FileIds |-> IF k \in gone THEN [fs[k] EXCEPT !.gone = TRUE] ELSE fs[k]]

(* What the ghosts learn from the table. *)
Watch(fs, open, x) ==
    [k \in FileIds |->
        IF k \notin open THEN Unused
        ELSE IF IsFreed(x.m, fs[k].node) THEN [fs[k] EXCEPT !.freed = TRUE]
        ELSE IF fs[k].dir /\ ~fs[k].freed
        THEN [fs[k] EXCEPT !.steady = @ \cap ReadDirNames(x, fs[k].node)]
        ELSE fs[k]]

Leave(x) == [x EXCEPT !.cwd = table.cwd, !.gone = FALSE, !.changes = <<>>]

(* A call of p that ended with the table x, the fds and tees of ps and s   *)
(* and the open files fs.                                                  *)
CallEnds(p, x, ps, fs, s) ==
    /\ Cardinality(DOMAIN x.m.nodes) <= NODES
    /\ \A k \in Held(ps, s) : fs[k].offset <= OFFSETS
    /\ UNCHANGED use
    /\ table' = Leave(x)
    /\ procs' = ps
    /\ ts' = s
    /\ LET held == Held(ps, s) IN files' = Watch(MarkGone(fs, held, x.changes), held, x)

-----------------------------------------------------------------------------
(* The calls on paths. *)

OnPath(p, r) == CallEnds(p, r.x, FollowProcs(p, r.x), files, ts) /\ last' = Nothing

MkdirCall(p, path) == OnPath(p, Mkdir(Enter(p), path))
RmdirCall(p, path) == OnPath(p, Rmdir(Enter(p), path))
UnlinkCall(p, path) == OnPath(p, Unlink(Enter(p), path))
RenameCall(p, from, to) == OnPath(p, Rename(Enter(p), from, to))

TouchCall(p, path) ==
    LET x == Enter(p) IN OnPath(p, Then(Lookup(x, path), LAMBDA node : Touch(x, node)))
TruncateCall(p, path, size) ==
    LET x == Enter(p) IN OnPath(p, Then(Lookup(x, path), LAMBDA node : Truncate(x, node, size)))

(* A new current directory has not been freed. *)
ChdirCall(p, path) ==
    LET end(r) ==
            CallEnds(p, r.x, [FollowProcs(p, r.x) EXCEPT
                                  ![p].cwd.freed = @ /\ r.err # "OK"], files, ts)
    IN  end(Chdir(Enter(p), path)) /\ last' = Nothing

-----------------------------------------------------------------------------
(* The calls on fds. *)

(* EMFILE comes before anything is opened or created. *)
OpenCall(p, path, flags) ==
    LET k == Min({i \in 1..use.files : files[i] = Unused})
        opened(r) ==
            IF r.err # "OK" THEN CallEnds(p, r.x, FollowProcs(p, r.x), files, ts)
            ELSE CallEnds(p, r.x, [FollowProcs(p, r.x) EXCEPT ![p].fds = Insert(@, k)],
                          [files EXCEPT ![k] = Ghosts(r.v, r.x)], ts)
    IN  /\ \E i \in 1..use.files : files[i] = Unused    \* a bound
        /\ FreeFds(procs[p].fds) # {}                  \* else EMFILE
        /\ opened(OpenPath(Enter(p), path, flags))
        /\ last' = Nothing

CloseCall(p, fd) ==
    /\ procs[p].fds[fd] # 0                            \* else EBADF
    /\ CallEnds(p, table, [procs EXCEPT ![p].fds[fd] = 0], files, ts)
    /\ last' = Nothing

(* A call on the open file k that ended with r. *)
OnFile(p, k, r) == CallEnds(p, r.x, FollowProcs(p, r.x), [files EXCEPT ![k] = r.f], ts)

(* read and write go a page at a time; good pages of the program's memory  *)
(* come before a bad one.                                                  *)
RECURSIVE ReadPages(_, _, _, _)
ReadPages(r, len, done, good) ==
    LET n == Min({len - done, UPAGE})
        got(g) == IF g.err # "OK" THEN IF done = 0 THEN g ELSE Did(r.f, r.x, done)
                  ELSE IF Len(g.v) < n THEN Did(g.f, g.x, done + Len(g.v))
                  ELSE ReadPages(g, len, done + n, good - 1)
    IN  IF done >= len THEN Did(r.f, r.x, done)
        ELSE got(IF good = 0 THEN Refuse(r.f, r.x, "EFAULT") ELSE ReadFile(r.f, r.x, n))

RECURSIVE WritePages(_, _, _, _)
WritePages(r, len, done, good) ==
    LET n == Min({len - done, UPAGE})
        put(g) == IF g.err # "OK" THEN IF done = 0 THEN g ELSE Did(r.f, r.x, done)
                  ELSE WritePages(g, len, done + g.v, good - 1)
    IN  IF done >= len THEN Did(r.f, r.x, done)
        ELSE put(IF good = 0 THEN Refuse(r.f, r.x, "EFAULT") ELSE WriteFile(r.f, r.x, [i \in 1..n |-> 1]))

ReadCall(p, fd, len, good) ==
    LET k == procs[p].fds[fd]
        end(r) == OnFile(p, k, r) /\ last' = MovedTo(k, files[k].offset, r)
    IN  /\ k # 0
        /\ files[k].read                               \* else EBADF
        /\ end(ReadPages(Did(files[k], Enter(p), 0), len, 0, good))

WriteCall(p, fd, len, good) ==
    LET k == procs[p].fds[fd]
        from(r) == IF files[k].append /\ r.err = "OK" /\ r.v # 0
                   THEN SizeOf(Stat(table, files[k].node).v) ELSE files[k].offset
        end(r) == OnFile(p, k, r) /\ last' = MovedTo(k, from(r), r)
    IN  /\ k # 0
        /\ files[k].write
        /\ end(WritePages(Did(files[k], Enter(p), 0), len, 0, good))

SeekCall(p, fd, offset, whence) ==
    LET k == procs[p].fds[fd]
        restart(r) == IF r.err = "OK" /\ r.f.dir
                      THEN [r EXCEPT !.f.given = <<>>, !.f.steady = ReadDirNames(r.x, r.f.node)]
                      ELSE r
    IN  /\ k # 0
        /\ OnFile(p, k, restart(Seek(files[k], Enter(p), offset, whence)))
        /\ last' = Nothing

ReadDirCall(p, fd, len, room) ==
    LET k == procs[p].fds[fd]
        end(r) == /\ OnFile(p, k, IF r.err = "OK" THEN [r EXCEPT !.f.given = @ \o r.v] ELSE r)
                  /\ last' = IF r.err = "OK" /\ r.v = <<>> THEN [what |-> "listed", file |-> k] ELSE Nothing
    IN  k # 0 /\ end(ReadDirFile(files[k], Enter(p), len, room))

-----------------------------------------------------------------------------
(* Processes and tees. *)

(* spawn: the fds and the working directory, before the program is read,   *)
(* which may fail.                                                         *)
SpawnCall(p, q, maps, path) ==
    LET x == Enter(p)
        start(fds, c) ==
            CallEnds(p, x, [procs EXCEPT ![q] =
                [alive |-> TRUE, fds |-> fds.fds,
                 cwd |-> [trail |-> c.x.cwd, gone |-> c.x.gone,
                          freed |-> procs[p].cwd.freed /\ path = <<>>]]], files, ts)
        in(fds, c) == IF fds.err # "OK" \/ c.err # "OK" THEN CallEnds(p, x, procs, files, ts)
                      ELSE start(fds, c)
    IN  /\ ~procs[q].alive
        /\ in(ForChild(procs[p].fds, maps), IF path = <<>> THEN Out(x, 0) ELSE Chdir(x, path))
        /\ last' = Nothing

EndProcess(p) ==
    /\ CallEnds(p, table, [procs EXCEPT ![p] = [alive |-> FALSE, fds |-> NoFds, cwd |-> NoCwd]],
                files, T!End(ts, p))
    /\ last' = Nothing

World == [x |-> table, fs |-> files]
Tees(r) == CallEnds(0, r.w.x, procs, r.w.fs, r.s) /\ last' = Nothing

PushTee(p, fd) ==
    LET k == procs[p].fds[fd]
    IN  /\ Len(ts.closing) < TEES                      \* a bound
        /\ k # 0
        /\ files[k].write                              \* else EBADF
        /\ CallEnds(p, table, procs, files, T!Push(ts, p, k).s)
        /\ last' = Nothing

PopTee(p) == Tees(T!Pop(ts, World, p))
ConsoleWrite == T!IsCopying(ts) /\ Tees(T!Flush(T!Add(ts, <<1>>), World, FALSE))
SyncTees == Tees(T!Flush(ts, World, TRUE))

-----------------------------------------------------------------------------
(* / with the archive on the name /bin and the device on /dev. *)
FirstTable ==
    FoldLeft(LAMBDA x, at : Mount(x, at.on, at.fs).x, NewTable(EmptyMemFs),
             <<[on |-> <<"/", "dev">>, fs |-> "dev"], [on |-> <<"/", "bin">>, fs |-> "img"]>>)

FilesInit ==
    /\ table = FirstTable
    /\ procs = [p \in Procs |->
                  IF p = 1 THEN [alive |-> TRUE, fds |-> NoFds,
                                 cwd |-> [NoCwd EXCEPT !.trail = table.cwd]]
                  ELSE [alive |-> FALSE, fds |-> NoFds, cwd |-> NoCwd]]
    /\ files = [k \in FileIds |-> Unused]
    /\ ts = T!NoTees
    /\ use \in Uses
    /\ last = Nothing

Running == {p \in Procs : procs[p].alive}

FilesNext ==
    \/ \E p \in Running, path \in use.paths :
          MkdirCall(p, path) \/ RmdirCall(p, path) \/ UnlinkCall(p, path)
          \/ TouchCall(p, path) \/ ChdirCall(p, path)
    \/ \E p \in Running, path \in use.paths, flags \in use.flags : OpenCall(p, path, flags)
    \/ \E p \in Running, path \in use.paths, size \in use.sizes : TruncateCall(p, path, size)
    \/ \E p \in Running, from, to \in use.paths : RenameCall(p, from, to)
    \/ \E p \in Running, fd \in Fds : CloseCall(p, fd) \/ (use.tees /\ PushTee(p, fd))
    \/ \E p \in Running, fd \in Fds, len \in use.lens, good \in 0..1 :
          ReadCall(p, fd, len, good) \/ WriteCall(p, fd, len, good) \/ ReadDirCall(p, fd, len, good = 1)
    \/ \E p \in Running, fd \in Fds, o \in use.offsets, whence \in {"START", "CURRENT", "END", "?"} :
          SeekCall(p, fd, o, whence)
    \/ \E p \in Running, q \in Procs, maps \in use.maps, path \in use.paths \cup {<<>>} :
          SpawnCall(p, q, maps, path)
    \/ \E p \in Running : PopTee(p) \/ EndProcess(p)
    \/ ConsoleWrite \/ SyncTees

FilesSpec == FilesInit /\ [][FilesNext]_fvars

-----------------------------------------------------------------------------
(***************************************************************************)
(* GoneExactly: an open file or a tee is gone exactly if its inode was     *)
(* freed, by whichever process and through whichever path, and never       *)
(* answers for the file that got the number since; and a current directory *)
(* is gone exactly if it was removed, else its path leads to it however it *)
(* and the directories above were moved (kernel/src/fd.rs follow,          *)
(* crates/vfs/src/mount.rs follow and rename, kernel/src/proc.rs           *)
(* follow_changes).                                                        *)
(***************************************************************************)
GoneExactly ==
    /\ \A k \in Held(procs, ts) : files[k].gone <=> files[k].freed
    /\ \A p \in Running :
           LET cwd == procs[p].cwd
               at == [table EXCEPT !.cwd = cwd.trail]
           IN  /\ cwd.gone <=> cwd.freed
               /\ ~cwd.gone => Walk(at, CwdPath(at)) = Out(at, cwd.trail)

(***************************************************************************)
(* MovedIsThere: "a directory moved takes the current directories on its   *)
(* way along" (crates/vfs/src/mount.rs, rename): a current directory that  *)
(* still exists is never taken for removed.                                *)
(***************************************************************************)
MovedIsThere == \A p \in Running : procs[p].cwd.gone => procs[p].cwd.freed

(***************************************************************************)
(* ListedOnce: a listing that came to its end gave every name that was in  *)
(* the directory throughout, and no listing gives a name twice, however    *)
(* the directory changes between the calls (kernel/src/file.rs read_dir).  *)
(***************************************************************************)
ListedOnce ==
    /\ last.what = "listed" =>
           LET f == files[last.file] IN {Place(n) : n \in f.steady} \subseteq Range(f.given)
    /\ \A k \in Held(procs, ts) : IsInjective(files[k].given)

(***************************************************************************)
(* OffsetsExact: a read or a write moves the offset by exactly what it     *)
(* told the program, from the end of the file if it appends, also when it  *)
(* stopped at a bad page of the program's memory or at the end of the file *)
(* after some pages (syscall/files.rs read and write, file.rs).            *)
(***************************************************************************)
OffsetsExact == last.what = "moved" => files[last.file].offset = last.to
=============================================================================
