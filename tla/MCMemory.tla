------------------------------ MODULE MCMemory ------------------------------
(***************************************************************************)
(* Memory for TLC: three levels of tables with eight entries, machines of  *)
(* about forty frames. A behaviour is about the kernel's memory or about a *)
(* program's heap; the other stays as it began.                            *)
(***************************************************************************)
EXTENDS Memory

VARIABLES part, h, live, maps, short, asked

Lay(size, align) == [size |-> size, align |-> align]
H == INSTANCE Heap WITH SIZE_CLASSES <- <<2, 4>>, SLAB <- 4, MIN_BLOCK <- 2, STEP <- 8, PAGES <- 4,
                        Layouts <- {Lay(1, 1), Lay(1, 4), Lay(5, 2), Lay(6, 8)}, REGIONS <- 2, ALLOCS <- 4

R(start, end, kind) == [start |-> start, end |-> end, kind |-> kind]
\* The loader's PML4 is in frame 2 and maps the kernel's image.
RAM == [f \in 0 .. 63 |-> IF f = 2 THEN [i \in {7} |-> [at |-> 2, bits |-> {"PRESENT", "WRITABLE"}]] ELSE Garbage]
\* RAM in one piece, with an odd end; RAM with a hole.
OnePiece == <<R(0, 8, "Usable"), R(8, 12, "Bootloader"), R(12, 158, "Usable"), R(158, 160, "Reserved")>>
\* Machines whose memory just holds the kernel, or not even that
Tight(end) == <<R(0, 8, "Usable"), R(8, 12, "Bootloader"), R(12, end, "Usable")>>
WithHole == <<R(2, 10, "Usable"), R(10, 12, "Bootloader"), R(16, 40, "Usable"), R(40, 43, "AcpiNvs"),
              R(49, 176, "Usable")>>
Machine(regions, files, spawn, map, take, mmio, touch) ==
    [regions |-> regions, mem |-> RAM, images |-> files,
     calls |-> [spawn |-> spawn, map |-> map, take |-> take, mmio |-> mmio, touch |-> touch]]

Phdr(kind, flags, offset, vaddr, filesz, memsz) ==
    [kind |-> kind, flags |-> flags, offset |-> offset, vaddr |-> vaddr, filesz |-> filesz, memsz |-> memsz]
RelayAbi(abi) == [namesz |-> 6, descsz |-> 4, name |-> "Relay", kind |-> "NOTE_TYPE", abi |-> abi]
Other == [namesz |-> 3, descsz |-> 1, name |-> "GNU", kind |-> "NOTE_TYPE", abi |-> 0]
\* The notes at offset 0 are the good ones; others are before it, of an
\* other version, or cut off.
Notes == <<<<RelayAbi(1)>>, <<Other, RelayAbi(1)>>, <<RelayAbi(2)>>, <<Other>>>>
File(loads, notes) ==
    [size |-> 60, magic |-> TRUE, class |-> 2, data |-> 1, kind |-> "ET_EXEC", machine |-> MACHINE,
     entry |-> loads[1].vaddr, phentsize |-> PHDR_LEN, phoff |-> 2,
     phdrs |-> loads \o [i \in DOMAIN notes |-> Phdr("PT_NOTE", {}, notes[i], 0, 60 - notes[i], 0)],
     notes |-> [i \in DOMAIN Notes |-> Notes[i]]]
Code(vaddr, memsz) == Phdr("PT_LOAD", {"X"}, vaddr, vaddr, memsz, memsz)
Small == File(<<Code(4, 4)>>, <<1>>)
Large == File(<<Code(5, 3), Phdr("PT_LOAD", {"W"}, 9, 9, 3, 7)>>, <<2>>)
\* Every pair of segments over a few pages, of which elf::check takes some
Pairs == {File(<<Code(at, n), Phdr("PT_LOAD", flags, off, vaddr, filesz, memsz)>>, <<1>>) :
            at \in {4, 6}, n \in {1, 4}, flags \in {{"W"}}, off \in {1, 4, 58},
            vaddr \in {3, 4, 6, 8, 9, 10, 18, 21}, filesz \in {0, 3}, memsz \in {0, 3, 6}}
Noted == {File(<<Code(4, 4)>>, notes) : notes \in {<<1>>, <<2>>, <<3>>, <<1, 4>>, <<4, 2>>, <<3, 1>>, <<1, 3>>, <<4>>}}
Accepted == {f \in Pairs \cup Noted : Check(f).r = "ok"}
MCMachines == {Machine(OnePiece, {Small, Large}, 3, 0, 1, 0, FALSE), Machine(WithHole, {Small, Large}, 1, 3, 0, 0, TRUE),
               Machine(OnePiece, {Small, Large}, 2, 2, 0, 0, FALSE), Machine(WithHole, {Small, Large}, 1, 1, 1, 1, FALSE)}
              \cup {Machine(Tight(4 * n), {Small}, 1, 0, 2, 0, FALSE) : n \in {23, 24, 26, 29, 32}}
              \cup {Machine(OnePiece, {f}, 1, 0, 0, 0, FALSE) : f \in Accepted}
MCStrings == {<<3, 0>>, <<0, 5>>}
MCFramebuffer == <<48, 2>>
MCBuffers == {<<3, 1>>, <<1, 4>>}
MCWindows == {<<50, 1, "Uncached">>, <<60, 5, "Uncached">>, <<48, 1, "Uncached">>, <<56, 8, "Uncached">>}

MemoryInit ==
    /\ part \in {"memory", "heap"}
    /\ H!HeapInit
    /\ Init /\ (part = "heap" => images = {Small, Large} /\ left.spawn = 3)

MemoryNext ==
    /\ UNCHANGED part
    /\ \/ part = "memory" /\ Next /\ UNCHANGED <<h, live, maps, short, asked>>
       \/ part = "heap" /\ H!HeapNext /\ UNCHANGED vars

MemorySpec == MemoryInit /\ [][MemoryNext]_<<part, vars, h, live, maps, short, asked>>

(* See Heap: every byte is free once or handed out once, and a heap that   *)
(* has grown serves what it grew for (crates/heap, relay-rt's allocator).  *)
HeapSound == H!HeapSound
=============================================================================
