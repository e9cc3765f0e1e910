------------------------------- MODULE Loading ------------------------------
(* A program from its file into an address space: what the kernel reads of *)
(* it (read_program in kernel/src/proc.rs), the checks of the ELF file     *)
(* (crates/elf/src/check.rs) and its segments, stack and strings in memory *)
(* (kernel/src/exec.rs). Addresses and sizes are in bytes here.            *)
(*                                                                         *)
(* A file is a record: its size, the header's fields, the program headers  *)
(* [kind, flags, offset, vaddr, filesz, memsz], and `notes`, which gives   *)
(* the notes [namesz, descsz, name, kind, abi] that start at an offset.    *)
EXTENDS AddressSpace

CONSTANTS MAX_SIZE, PROGRAM_BASE, PROGRAM_END,
          HEADER_LEN, PHDR_LEN, NOTE_HEADER,    \* bytes of headers
          MACHINE, VERSION,                     \* this kernel's
          STACK_TOP, STACK_PAGES,               \* a program's stack, in pages
          ARGS_MAX                              \* bytes of arguments, or of environment

PAGE == FRAME_SIZE

----------------------------------------------------------------------------
(* elf::check *)

\* `range`: whether [offset, offset + len) is in the file
InFile(file, offset, len) == offset + len <= file.size

HeaderError(file) ==
    CASE file.size > MAX_SIZE                     -> "TooBig"
      [] file.size < HEADER_LEN \/ ~file.magic    -> "NotElf"
      [] file.class # 2                           -> "Not64Bit"
      [] file.data # 1                            -> "NotLittleEndian"
      [] file.kind # "ET_EXEC"                    -> "NotExec"
      [] file.machine # MACHINE                   -> "Machine"
      [] file.phentsize # PHDR_LEN                -> "ProgramHeaders"
      [] ~InFile(file, file.phoff, Len(file.phdrs) * PHDR_LEN) -> "ProgramHeaders"
      [] OTHER                                    -> "ok"

Access(flags) == IF "X" \in flags THEN "ReadExec" ELSE IF "W" \in flags THEN "ReadWrite" ELSE "Read"

PhdrError(file, ph) ==
    CASE ph.kind = "PT_LOAD" /\ {"X", "W"} \subseteq ph.flags               -> "WritableAndExecutable"
      [] ph.kind = "PT_NOTE" /\ ~InFile(file, ph.offset, ph.filesz)         -> "NoteOutside"
      [] ph.kind \notin {"PT_LOAD", "PT_NOTE", "PT_GNU_STACK"}              -> "SegmentKind"
      [] OTHER                                                              -> "ok"

EndOfSegment(s) == s.vaddr + s.memsz

(* A slip: segments may meet in a page. *)
SegmentErrorBytes(file, s, previous_end) ==
    CASE s.vaddr < PROGRAM_BASE \/ EndOfSegment(s) > PROGRAM_END -> "Outside"
      [] s.filesz > s.memsz                                      -> "MoreFileThanMemory"
      [] s.offset % PAGE # s.vaddr % PAGE                        -> "NotCongruent"
      [] ~InFile(file, s.offset, s.filesz)                       -> "PastTheFile"
      [] s.vaddr < previous_end                                  -> "Overlap"
      [] OTHER                                                   -> "ok"

SegmentError(file, s, previous_end) ==
    CASE s.vaddr < PROGRAM_BASE \/ EndOfSegment(s) > PROGRAM_END -> "Outside"
      [] s.filesz > s.memsz                                      -> "MoreFileThanMemory"
      [] s.offset % PAGE # s.vaddr % PAGE                        -> "NotCongruent"
      [] ~InFile(file, s.offset, s.filesz)                       -> "PastTheFile"
      [] s.vaddr - (s.vaddr % PAGE) < previous_end               -> "Overlap"
      [] OTHER                                                   -> "ok"

\* The loadable segments by address, those at one address in the file's order.
Segments(file) ==
    LET loads == SelectSeq(file.phdrs, LAMBDA ph : ph.kind = "PT_LOAD")
        segment(ph) == [vaddr |-> ph.vaddr, memsz |-> ph.memsz, offset |-> ph.offset,
                        filesz |-> ph.filesz, access |-> Access(ph.flags)]
        insert(ss, ph) == LET n == Len(SelectSeq(ss, LAMBDA s : s.vaddr <= ph.vaddr))
                          IN  InsertAt(ss, n + 1, segment(ph))
    IN  FoldLeft(insert, <<>>, loads)

Pad4(n) == AlignUp(n, 4)

\* relay_note over the notes of one segment: [r, abi]
RelayNote(notes, len) ==
    LET note(a, n) ==
            LET next == a.at + NOTE_HEADER + Pad4(n.namesz) + Pad4(n.descsz) IN
            CASE a.done \/ a.at + NOTE_HEADER > len -> [a EXCEPT !.done = TRUE]
              [] next > len             -> [a EXCEPT !.done = TRUE, !.r = "NotePastItsSegment"]
              [] n.name # "Relay"       -> [a EXCEPT !.at = next]
              [] n.kind # "NOTE_TYPE"   -> [a EXCEPT !.done = TRUE, !.r = "NoteType"]
              [] n.descsz # 4           -> [a EXCEPT !.done = TRUE, !.r = "NoteSize"]
              [] OTHER                  -> [a EXCEPT !.done = TRUE, !.abi = n.abi]
    IN  FoldLeft(note, [at |-> 0, done |-> FALSE, r |-> "ok", abi |-> NONE], notes)

\* The version of the last Relay note, or the first error of a note.
AbiOf(file) ==
    LET one(a, ph) ==
            LET got(n) == [r |-> n.r, abi |-> IF n.abi = NONE THEN a.abi ELSE n.abi]
            IN  IF a.r # "ok" THEN a ELSE got(RelayNote(file.notes[ph.offset], ph.filesz))
    IN  FoldLeft(one, [r |-> "ok", abi |-> NONE], SelectSeq(file.phdrs, LAMBDA ph : ph.kind = "PT_NOTE"))

\* [r, entry, segments]
Check(file) ==
    LET refuse(r) == [r |-> r, entry |-> 0, segments |-> <<>>]
        first(errors) == LET bad == SelectSeq(errors, LAMBDA e : e # "ok")
                         IN  IF bad = <<>> THEN "ok" ELSE Head(bad)
        phdrs == first([i \in DOMAIN file.phdrs |-> PhdrError(file, file.phdrs[i])])
        in_place(ss) == first([i \in DOMAIN ss |->
                                 SegmentError(file, ss[i], IF i = 1 THEN 0 ELSE EndOfSegment(ss[i - 1]))])
        version(v, ss) == CASE v.r # "ok"        -> refuse(v.r)
                            [] v.abi = NONE      -> refuse("NoNote")
                            [] v.abi \notin {NONE, VERSION} -> refuse("Abi")
                            [] v.abi = VERSION   -> [r |-> "ok", entry |-> file.entry, segments |-> ss]
        program(ss) ==
            CASE ss = <<>>             -> refuse("NoLoad")
              [] in_place(ss) # "ok"   -> refuse(in_place(ss))
              [] ~\E s \in Range(ss) : /\ s.access = "ReadExec"
                                       /\ file.entry \in s.vaddr .. EndOfSegment(s) - 1 -> refuse("Entry")
              [] OTHER                 -> version(AbiOf(file), ss)
    IN  CASE HeaderError(file) # "ok" -> refuse(HeaderError(file))
          [] phdrs # "ok"             -> refuse(phdrs)
          [] OTHER                    -> program(Segments(file))

\* read_program, with `room` bytes of heap: the size and the first bytes
\* are looked at before the rest is read. `file.size` is what can be read.
ReadProgram(file, room) ==
    LET refuse(r) == [r |-> r, entry |-> 0, segments |-> <<>>]
        not_a_program(c) == IF c.r = "ok" THEN c ELSE refuse("ENOEXEC")
    IN  IF file.size > MAX_SIZE \/ ~file.magic THEN refuse("ENOEXEC")
        ELSE IF file.size > room THEN refuse("ENOMEM")
        ELSE not_a_program(Check(file))

----------------------------------------------------------------------------
(* exec::load *)

STACK_BOTTOM == STACK_TOP - STACK_PAGES
InGuardPage(v) == v = STACK_BOTTOM - 1

\* exec::errno
ExecErrno(a) == IF a.r = "OutOfMemory" THEN [a EXCEPT !.r = "ENOMEM"]
                ELSE IF a.r = "ok" THEN a ELSE [a EXCEPT !.r = "ENOEXEC"]

\* The pages that `len` bytes at `at` touch
FillBytes(m, s, at, len) ==
    IF len = 0 THEN Answer(m, s, "ok")
    ELSE Fill(m, s, at \div PAGE, (at + len - 1) \div PAGE - (at \div PAGE) + 1)

Load(m, s, file, program, args, env) ==
    LET fill(a, g) == IF a.r # "ok" THEN a
                      ELSE IF ~InFile(file, g.offset, g.filesz) THEN [a EXCEPT !.r = "ENOEXEC"]
                      ELSE FillBytes(a.m, s, g.vaddr, g.filesz)
        first(g) == g.vaddr \div PAGE
        pages(g) == DivCeil(EndOfSegment(g), PAGE) - first(g)
        segment(a, g) == IF a.r # "ok" THEN a
                         ELSE fill(MapZeroed(a.m, s, first(g), pages(g), g.access), g)
        stack(a) == IF a.r # "ok" THEN a
                    ELSE MapZeroed(a.m, s, STACK_BOTTOM, STACK_PAGES, "ReadWrite")
        strings(a) == IF a.r # "ok" THEN ExecErrno(a)
                      ELSE IF args > ARGS_MAX \/ env > ARGS_MAX THEN [a EXCEPT !.r = "E2BIG"]
                      ELSE ExecErrno(FillBytes(a.m, s, STACK_TOP * PAGE - args - env, args + env))
    IN  strings(stack(FoldLeft(segment, Answer(m, s, "ok"), program.segments)))
=============================================================================
