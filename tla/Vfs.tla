--------------------------------- MODULE Vfs ---------------------------------
(***************************************************************************)
(* The mount table, path resolution and current directories                *)
(* (crates/vfs/src/mount.rs, path.rs).                                     *)
(*                                                                         *)
(* A table is a record x of its mounts (which filesystem, and where it     *)
(* hangs), the contents m of the one filesystem that changes (a MemFs at   *)
(* the root), the current directory put in for the caller (its trail of    *)
(* nodes and names from /, and whether it is gone) and the changes noted   *)
(* for everyone else.  A path is the sequence of its names and slashes.    *)
(* Every operation gives the table after it, a value and an error.         *)
(***************************************************************************)
EXTENDS MemFs, SequencesExt

CONSTANTS SName,         \* the names that check_name accepts
          Programs,      \* the archive's [name, data], in order: inodes 2, 3, ...
          PATH_MAX, LongNames   \* names over NAME_MAX

-----------------------------------------------------------------------------
(***************************************************************************)
(* The two filesystems that never change: /dev with its one device         *)
(* (crates/vfs/src/devfs.rs) and the system archive under /bin             *)
(* (crates/sysimg/src/fs.rs), as the FileSystem calls see them.  What      *)
(* they answer, and in which order the errors come, is all there is to     *)
(* them.  Times and modes are left out.                                    *)
(***************************************************************************)
SROOT == 1
NULL == 2

Answer(v) == [v |-> v, err |-> "OK"]
Error(e) == [v |-> 0, err |-> e]
First(a, b) == IF a # "OK" THEN a ELSE b
CheckName(name) == IF name \in SName THEN "OK" ELSE "EINVAL"

-----------------------------------------------------------------------------
(* DevFs *)

DevDir(ino) == CASE ino = SROOT -> "OK" [] ino = NULL -> "ENOTDIR" [] OTHER -> "ENOENT"

DevNull(ino) == CASE ino = NULL -> "OK" [] ino = SROOT -> "EISDIR" [] OTHER -> "ENOENT"

(* A number that is no node, then the name's error, then ENOTDIR. *)
DevEntry(dir, name) ==
    LET bad == IF dir \notin {SROOT, NULL} THEN "ENOENT" ELSE First(CheckName(name), DevDir(dir))
    IN  IF bad # "OK" THEN Error(bad) ELSE IF name = "null" THEN Answer(NULL) ELSE Error("ENOENT")

DevMake(dir, name) ==
    LET e == DevEntry(dir, name)
    IN  CASE e.err = "OK" -> Error("EEXIST")
          [] e.err = "ENOENT" /\ DevDir(dir) = "OK" -> Error("EPERM")
          [] OTHER -> e

DevStat(ino) ==
    CASE ino = SROOT -> Answer([kind |-> "dir", nlink |-> 2])
      [] ino = NULL -> Answer([kind |-> "device", nlink |-> 1])
      [] OTHER -> Error("ENOENT")

DevLookup(dir, name) ==
    IF DevDir(dir) # "OK" THEN Error(DevDir(dir))
    ELSE IF name \in {".", ".."} THEN Answer(SROOT) ELSE DevEntry(dir, name)

DevUnlink(dir, name) == Error(First(DevEntry(dir, name).err, "EPERM"))
DevRmdir(dir, name) == Error(First(DevEntry(dir, name).err, "ENOTDIR"))
DevRename(from_dir, from, to_dir, to) ==
    Error(First(DevEntry(from_dir, from).err, First(CheckName(to), First(DevDir(to_dir), "EPERM"))))

DevNames == {"null"}

-----------------------------------------------------------------------------
(* SysImgFs *)

ImgNode(ino) == ino \in SROOT..SROOT + Len(Programs)

ImgStat(ino) ==
    IF ~ImgNode(ino) THEN Error("ENOENT")
    ELSE IF ino = SROOT THEN Answer([kind |-> "dir", nlink |-> 2])
    ELSE Answer([kind |-> "file", nlink |-> 1, size |-> Len(Programs[ino - SROOT].data)])

ImgLookup(dir, name) ==
    CASE ~ImgNode(dir) -> Error("ENOENT")
      [] ImgNode(dir) /\ dir # SROOT -> Error("ENOTDIR")
      [] OTHER -> IF name \in {".", ".."} THEN Answer(SROOT)
                  ELSE IF \E i \in DOMAIN Programs : Programs[i].name = name
                  THEN Answer(SROOT + CHOOSE i \in DOMAIN Programs : Programs[i].name = name)
                  ELSE Error("ENOENT")

ImgRead(ino, offset, len) ==
    IF ~ImgNode(ino) THEN Error("ENOENT")
    ELSE IF ino = SROOT THEN Error("EISDIR")
    ELSE LET data == Programs[ino - SROOT].data
         IN  Answer(SubSeq(data, offset + 1, IF offset + len < Len(data) THEN offset + len ELSE Len(data)))

(* Every change. *)
ImgRefuse(inos) == Error(IF \E i \in inos : ~ImgNode(i) THEN "ENOENT" ELSE "EROFS")

ImgNames == {Programs[i].name : i \in DOMAIN Programs}

-----------------------------------------------------------------------------

Out(x, v) == [x |-> x, v |-> v, err |-> "OK"]
Fail(x, e) == [x |-> x, v |-> 0, err |-> e]
Same(x, r) == [x |-> x, v |-> r.v, err |-> r.err]

(* Splits a path: repeated slashes count as one. *)
Parse(path) ==
    [err |-> CASE path = <<>> -> "ENOENT"
               [] Len(path) > PATH_MAX -> "ENAMETOOLONG"
               [] Range(path) \cap {"nul"} # {} -> "EINVAL"
               [] Range(path) \cap LongNames # {} -> "ENAMETOOLONG"
               [] OTHER -> "OK",
     absolute |-> path # <<>> /\ path[1] = "/",
     components |-> SelectSeq(path, LAMBDA c : c # "/"),
     trailing_slash |-> Len(path) > 1 /\ Last(path) = "/" /\ Range(path) # {"/"}]

IsName(c) == c \notin {".", ".."}

-----------------------------------------------------------------------------
(* Mounts: a place is "/", a directory, or a name its directory lacks. *)

NodeAt(mount, ino) == [mount |-> mount, ino |-> ino]
OnRoot == [how |-> "root", dir |-> NodeAt(0, 0), name |-> ""]
OnDir(node) == [how |-> "dir", dir |-> node, name |-> ""]
OnName(node, name) == [how |-> "name", dir |-> node, name |-> name]

RootOf(m) == NodeAt(m, ROOT)

NewTable(m) ==
    [m |-> m, mounts |-> <<[fs |-> "mem", on |-> OnRoot]>>,
     cwd |-> <<[node |-> RootOf(1), name |-> ""]>>, gone |-> FALSE, changes |-> <<>>]

MountsOn(x, on) == {m \in DOMAIN x.mounts : x.mounts[m].on = on}
Topmost(mounts) == CHOOSE m \in mounts : \A o \in mounts : m <= o

MountedOn(x, node) == MountsOn(x, OnDir(node))
MountedAtName(x, dir, name) == MountsOn(x, OnName(dir, name))

IsMountPoint(x, node) == MountedOn(x, node) # {} \/ (node.mount # 1 /\ node = RootOf(node.mount))

FsOf(x, node) == x.mounts[node.mount].fs

Stat(x, node) ==
    CASE FsOf(x, node) = "dev" -> DevStat(node.ino)
      [] FsOf(x, node) = "img" -> ImgStat(node.ino)
      [] OTHER -> IF IsNode(x.m, node.ino) THEN Answer(x.m.nodes[node.ino]) ELSE Error("ENOENT")

DirError(x, node) ==
    LET of(st) == IF st.err # "OK" THEN st.err ELSE IF st.v.kind # "dir" THEN "ENOTDIR" ELSE "OK"
    IN  of(Stat(x, node))

OfLookup(r) == [v |-> r.v, err |-> r.err]

FsLookup(x, dir, name) ==
    CASE FsOf(x, dir) = "dev" -> DevLookup(dir.ino, name)
      [] FsOf(x, dir) = "img" -> ImgLookup(dir.ino, name)
      [] OTHER -> OfLookup(MLookup(x.m, dir.ino, name))

-----------------------------------------------------------------------------
(* Changes, and what a current directory makes of them. *)

Removed(node) == [what |-> "removed", node |-> node, to |-> <<>>]
Moved(node, to) == [what |-> "moved", node |-> node, to |-> to]

(* A slip: only the current directory itself is looked at, not those above. *)
FollowLast(cwd, change) ==
    IF cwd.gone \/ Last(cwd.trail).node # change.node THEN cwd
    ELSE IF change.what = "removed" THEN [cwd EXCEPT !.gone = TRUE]
    ELSE [cwd EXCEPT !.trail = change.to]

(* A gone directory is not followed any more: its inodes may be others'. *)
Follow(cwd, change) ==
    LET from(on) == IF cwd.gone \/ on = {} THEN cwd
                    ELSE IF change.what = "removed" THEN [cwd EXCEPT !.gone = TRUE]
                    ELSE [cwd EXCEPT !.trail = change.to \o SubSeq(@, Min(on) + 1, Len(@))]
    IN  from({k \in DOMAIN cwd.trail : cwd.trail[k].node = change.node})

FollowAll(cwd, changes) == FoldLeft(Follow, cwd, changes)

Changed(x, change) ==
    LET to(cwd) == [x EXCEPT !.cwd = cwd.trail, !.gone = cwd.gone, !.changes = Append(@, change)]
    IN  to(Follow([trail |-> x.cwd, gone |-> x.gone], change))

Frees(x, node) ==
    LET of(st) == st.err # "OK" \/ st.v.kind = "dir" \/ st.v.nlink <= 1 IN of(Stat(x, node))

-----------------------------------------------------------------------------
(* Path resolution. *)

Start(x, absolute) ==
    IF absolute THEN Out(x, SubSeq(x.cwd, 1, 1))
    ELSE IF x.gone THEN Fail(x, "ENOENT") ELSE Out(x, x.cwd)

(* r, then f of its value unless it failed. *)
Then(r, f(_)) == IF r.err # "OK" THEN r ELSE f(r.v)

Over(mounts, node) == IF mounts # {} THEN RootOf(Topmost(mounts)) ELSE node

StepName(x, trail, here, c) ==
    LET to(n) == Out(x, Append(trail, [node |-> n, name |-> c]))
        named(on) == IF on # {} THEN to(RootOf(Topmost(on)))
                     ELSE Then(Same(x, FsLookup(x, here, c)), LAMBDA ino :
                              to(Over(MountedOn(x, NodeAt(here.mount, ino)), NodeAt(here.mount, ino))))
    IN  named(MountedAtName(x, here, c))

Step(x, trail, here, c) ==
    LET step(bad) == IF bad # "OK" THEN Fail(x, bad)
                     ELSE IF c = "." THEN Out(x, trail)
                     ELSE IF c = ".." THEN Out(x, IF Len(trail) > 1 THEN Front(trail) ELSE trail)
                     ELSE StepName(x, trail, here, c)
    IN  step(DirError(x, here))

Steps(x, from, components) ==
    FoldLeft(LAMBDA r, c : Then(r, LAMBDA trail : Step(x, trail, Last(trail).node, c)), from, components)

RequireDir(x, node, r) ==
    LET end(bad) == IF bad # "OK" THEN Fail(x, bad) ELSE r IN end(DirError(x, node))

EndsInName(p) == p.components # <<>> /\ IsName(Last(p.components))

(* Ending in a slash, . or .., the target must be a directory. *)
WalkParsed(x, p) ==
    IF p.err # "OK" THEN Fail(x, p.err)
    ELSE Then(Steps(x, Start(x, p.absolute), p.components), LAMBDA trail :
             IF EndsInName(p) /\ ~p.trailing_slash THEN Out(x, trail)
             ELSE RequireDir(x, Last(trail).node, Out(x, trail)))

Walk(x, path) == WalkParsed(x, Parse(path))

(* The directory holding a path's last name, and that name if there is one. *)
ParentParsed(x, p, named) ==
    IF p.err # "OK" THEN Fail(x, p.err)
    ELSE Then(Steps(x, Start(x, p.absolute), IF named THEN Front(p.components) ELSE p.components),
              LAMBDA trail :
                  RequireDir(x, Last(trail).node,
                      Out(x, [dir |-> Last(trail).node, named |-> named,
                              trailing_slash |-> p.trailing_slash,
                              name |-> IF named THEN Last(p.components) ELSE ""])))

Parent(x, path) ==
    LET of(p) == ParentParsed(x, p, EndsInName(p)) IN of(Parse(path))

(* The nodes parent's name refers to: none or one. *)
Child(x, parent) ==
    LET of(r) == IF r.err = "OK" THEN Out(x, {NodeAt(parent.dir.mount, r.v)})
                 ELSE IF r.err = "ENOENT" THEN Out(x, {}) ELSE Fail(x, r.err)
        named(on) == IF on # {} THEN Out(x, {RootOf(Topmost(on))})
                     ELSE of(FsLookup(x, parent.dir, parent.name))
    IN  IF ~parent.named THEN Out(x, {}) ELSE named(MountedAtName(x, parent.dir, parent.name))

-----------------------------------------------------------------------------
(***************************************************************************)
(* What the kernel asks of the mount table (crates/vfs/src/mount.rs, impl  *)
(* Vfs for MountTable), path by path and node by node.  Each operation     *)
(* stops at its first error with the table as it was; a removal or a move  *)
(* of a directory is noted in the table's changes.                         *)
(***************************************************************************)


Require(x, bad, r) == IF bad # "OK" THEN Fail(x, bad) ELSE r

OfMem(x, r) == [x |-> [x EXCEPT !.m = r.m], v |-> r.v, err |-> r.err]

Mount(x, path, fs) ==
    LET push(place) == Out([x EXCEPT !.mounts = Append(@, [fs |-> fs, on |-> place])], 0)
        over(on) == IF Stat(x, on).v.kind # "dir" THEN Fail(x, "ENOTDIR")
                    ELSE IF on.ino = ROOT \/ MountedOn(x, on) # {} THEN Fail(x, "EBUSY")
                    ELSE push(OnDir(on))
        at(w) == IF w.err = "OK" THEN over(Last(w.v).node)
                 ELSE IF w.err = "ENOENT"
                 THEN Then(Parent(x, path), LAMBDA p :
                          IF p.named THEN push(OnName(p.dir, p.name)) ELSE Fail(x, "ENOENT"))
                 ELSE w
    IN  at(Walk(x, path))

(* The current directory's path; a removed one keeps the path it had. *)
CwdPath(x) ==
    IF Len(x.cwd) = 1 THEN <<"/">>
    ELSE FoldLeft(LAMBDA out, n : out \o <<"/", n.name>>, <<>>, Tail(x.cwd))

Chdir(x, path) ==
    Then(Walk(x, path), LAMBDA trail :
        RequireDir(x, Last(trail).node, Out([x EXCEPT !.cwd = trail, !.gone = FALSE], 0)))

Lookup(x, path) == Then(Walk(x, path), LAMBDA trail : Out(x, Last(trail).node))

(* Names only: the mounts on names are shown like any other. *)
ReadDirNames(x, node) ==
    LET own == CASE FsOf(x, node) = "dev" -> DevNames
                 [] FsOf(x, node) = "img" -> ImgNames
                 [] OTHER -> DOMAIN x.m.nodes[node.ino].entries
        hung == {m \in DOMAIN x.mounts : x.mounts[m].on.how = "name" /\ x.mounts[m].on.dir = node}
    IN  {".", ".."} \cup own \cup {x.mounts[m].on.name : m \in hung}

ReadDir(x, node) == RequireDir(x, node, Out(x, ReadDirNames(x, node)))

-----------------------------------------------------------------------------
(* Data, by node. *)

ReadAt(x, node, offset, len) ==
    CASE FsOf(x, node) = "dev" -> Require(x, DevNull(node.ino), Out(x, <<>>))
      [] FsOf(x, node) = "img" -> Same(x, ImgRead(node.ino, offset, len))
      [] OTHER -> OfMem(x, MRead(x.m, node.ino, offset, len))

WriteAt(x, node, offset, buf) ==
    CASE FsOf(x, node) = "dev" -> Require(x, DevNull(node.ino), Out(x, Len(buf)))
      [] FsOf(x, node) = "img" -> Same(x, ImgRefuse({node.ino}))
      [] OTHER -> OfMem(x, MWrite(x.m, node.ino, offset, buf))

Truncate(x, node, size) ==
    CASE FsOf(x, node) = "dev" -> Require(x, DevNull(node.ino), Out(x, 0))
      [] FsOf(x, node) = "img" -> Same(x, ImgRefuse({node.ino}))
      [] OTHER -> OfMem(x, MTruncate(x.m, node.ino, size))

(* Times are left out: only the error is. *)
Touch(x, node) ==
    CASE FsOf(x, node) = "dev" -> Same(x, DevStat(node.ino))
      [] FsOf(x, node) = "img" -> Same(x, ImgRefuse({node.ino}))
      [] OTHER -> IF ~IsNode(x.m, node.ino) THEN Fail(x, "ENOENT")
                  ELSE IF x.m.read_only THEN Fail(x, "EROFS") ELSE Out(x, 0)

-----------------------------------------------------------------------------
(* Names. *)

FsCreate(x, dir, name) ==
    CASE FsOf(x, dir) = "dev" -> Same(x, DevMake(dir.ino, name))
      [] FsOf(x, dir) = "img" -> Same(x, ImgRefuse({dir.ino}))
      [] OTHER -> OfMem(x, MCreate(x.m, dir.ino, name))

FsMkdir(x, dir, name) ==
    CASE FsOf(x, dir) = "dev" -> Same(x, DevMake(dir.ino, name))
      [] FsOf(x, dir) = "img" -> Same(x, ImgRefuse({dir.ino}))
      [] OTHER -> OfMem(x, MMkdir(x.m, dir.ino, name))

FsUnlink(x, dir, name) ==
    CASE FsOf(x, dir) = "dev" -> Same(x, DevUnlink(dir.ino, name))
      [] FsOf(x, dir) = "img" -> Same(x, ImgRefuse({dir.ino}))
      [] OTHER -> OfMem(x, MUnlink(x.m, dir.ino, name))

FsRmdir(x, dir, name) ==
    CASE FsOf(x, dir) = "dev" -> Same(x, DevRmdir(dir.ino, name))
      [] FsOf(x, dir) = "img" -> Same(x, ImgRefuse({dir.ino}))
      [] OTHER -> OfMem(x, MRmdir(x.m, dir.ino, name))

FsRename(x, from_dir, from, to_dir, to) ==
    CASE FsOf(x, from_dir) = "dev" -> Same(x, DevRename(from_dir.ino, from, to_dir.ino, to))
      [] FsOf(x, from_dir) = "img" -> Same(x, ImgRefuse({from_dir.ino, to_dir.ino}))
      [] OTHER -> OfMem(x, MRename(x.m, from_dir.ino, from, to_dir.ino, to))

Create(x, path) ==
    Then(Parent(x, path), LAMBDA p :
        IF ~p.named THEN Fail(x, "EEXIST")
        ELSE IF p.trailing_slash THEN Fail(x, "EISDIR")
        ELSE IF MountedAtName(x, p.dir, p.name) # {} THEN Fail(x, "EEXIST")
        ELSE LET made(r) == IF r.err # "OK" THEN r ELSE Out(r.x, NodeAt(p.dir.mount, r.v))
             IN  made(FsCreate(x, p.dir, p.name)))

Mkdir(x, path) ==
    Then(Parent(x, path), LAMBDA p :
        IF ~p.named \/ MountedAtName(x, p.dir, p.name) # {} THEN Fail(x, "EEXIST")
        ELSE FsMkdir(x, p.dir, p.name))

(* The removal r of nodes, noted if it happened. *)
Note(r, nodes) ==
    IF r.err # "OK" THEN r ELSE Out(FoldSet(LAMBDA n, y : Changed(y, Removed(n)), r.x, nodes), 0)

Unlink(x, path) ==
    Then(Parent(x, path), LAMBDA p :
        IF ~p.named \/ MountedAtName(x, p.dir, p.name) # {} THEN Fail(x, "EISDIR")
        ELSE Then(Child(x, p), LAMBDA child :
            LET unlink(bad) == IF bad # "OK" THEN Fail(x, bad)
                               ELSE Note(FsUnlink(x, p.dir, p.name), {c \in child : Frees(x, c)})
            IN  unlink(IF child = {} \/ ~p.trailing_slash THEN "OK"
                       ELSE DirError(x, CHOOSE c \in child : TRUE))))

Rmdir(x, path) ==
    Then(Parent(x, path), LAMBDA p :
        IF ~p.named
        THEN LET refuse(names) == Fail(x, IF names = <<>> THEN "EBUSY"
                                          ELSE IF Last(names) = "." THEN "EINVAL" ELSE "ENOTEMPTY")
             IN  refuse(Parse(path).components)
        ELSE Then(Child(x, p), LAMBDA child :
            IF \E c \in child : IsMountPoint(x, c) THEN Fail(x, "EBUSY")
            ELSE Note(FsRmdir(x, p.dir, p.name), child)))

(* A moved directory is walked to again, by the path it was moved to. *)
NoteMoved(x, moving, to) ==
    LET change(w) == IF w.err = "OK" THEN Moved(moving, w.v) ELSE Removed(moving)
    IN  Changed(x, change(Walk(x, to)))

(* The rename r, and what it tells the others. *)
Renamed(r, moving, to, is_dir) ==
    IF r.err # "OK" \/ ~is_dir THEN r ELSE Out(NoteMoved(r.x, moving, to), 0)

RenameOver(x, src, dst, moving, others, to, is_dir) ==
    IF \E t \in others : IsMountPoint(x, t) THEN Fail(x, "EBUSY")
    ELSE Renamed(Note(FsRename(x, src.dir, src.name, dst.dir, dst.name), {t \in others : Frees(x, t)}),
                 moving, to, is_dir)

RenameNode(x, src, dst, moving, to, dir) ==
    IF (src.trailing_slash \/ dst.trailing_slash) /\ dir # "OK" THEN Fail(x, dir)
    ELSE IF IsMountPoint(x, moving) THEN Fail(x, "EBUSY")
    ELSE Then(Child(x, dst), LAMBDA target :
             RenameOver(x, src, dst, moving, target \ {moving}, to, dir = "OK"))

RenameIn(x, src, dst, to) ==
    IF ~src.named \/ ~dst.named THEN Fail(x, "EBUSY")
    ELSE IF src.dir.mount # dst.dir.mount THEN Fail(x, "EXDEV")
    ELSE Then(Child(x, src), LAMBDA moved :
             LET move(n) == RenameNode(x, src, dst, n, to, DirError(x, n))
             IN  IF moved = {} THEN Fail(x, "ENOENT") ELSE move(CHOOSE n \in moved : TRUE))

Rename(x, from, to) ==
    Then(Parent(x, from), LAMBDA src : Then(Parent(x, to), LAMBDA dst : RenameIn(x, src, dst, to)))
=============================================================================
