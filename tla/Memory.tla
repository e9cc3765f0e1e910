------------------------------- MODULE Memory -------------------------------
(* The kernel's memory (kernel/src/mm/mod.rs) as processes use it          *)
(* (kernel/src/proc.rs): starting it from the machine's memory map, then   *)
(* programs that are loaded, take and give back memory, run and end, while *)
(* pipes and devices take frames of their own. The kernel is not           *)
(* preemptible, so every call is one step. The CPU's cache of the page     *)
(* tables is `tlb`: it may hold any page the program used since its tables *)
(* were loaded or the page was flushed.                                    *)
EXTENDS Loading

CONSTANTS Machines,       \* each a memory map, what the frames hold at the
                          \* start, its programs' files, and bounds: calls of
                          \* each kind to come
          PHYS_OFFSET, HEAP_BASE, HEAP_FRAMES, PHYS_MAP_MAX,
          FIRST_SHARED,   \* the first PML4 entry shared with the loader
          LOADER,         \* the frame of the loader's PML4, and what it holds
          Framebuffer,    \* its first page and its pages
          USER_RESERVE, PIPE_FRAMES,
          FLUSH_MAX,      \* pages flushed one by one, 64
          Procs, Strings,     \* processes; bytes of arguments and environment
          Buffers,        \* <<frames, alignment>> of DMA buffers
          Windows,        \* <<first page, pages, cache>> that devices map
          Touched         \* bound: pages a program writes to

VARIABLES m,        \* the frames and what they hold
          kernel,   \* the kernel's PML4, the first frame of its heap, the map
          stacks,   \* the slots of kernel stacks in use
          procs,    \* each process: its space, stack and state
          taken,    \* <<first, count>> of pipes' rings and DMA buffers
          run,      \* the process that runs; 0 is process 1, or no one
          cr3,      \* the PML4 the CPU uses
          tlb,      \* the entries it keeps: page -> entry
          left,     \* bound: calls of each kind to come
          images,   \* the files of programs
          said      \* what the last spawn of a checked program answered

vars == <<m, kernel, stacks, procs, taken, run, cr3, tlb, left, images, said>>

----------------------------------------------------------------------------
(* mm::init *)

\* The linear map: every range of RAM at PHYS_OFFSET, rounded to pages.
MapLinear(a, map, pml4) ==
    FoldLeft(LAMBDA b, r :
                LET first == r[1] \div FRAME_SIZE IN
                IF b.r # "ok" THEN b
                ELSE Map(b.m, pml4, PHYS_OFFSET + first, first,
                         DivCeil(r[2], FRAME_SIZE) - first, "WriteBack"),
             a, LinearRanges(map))

MapFramebuffer(a, pml4) ==
    IF a.r # "ok" THEN a
    ELSE Map(a.m, pml4, PHYS_OFFSET + Framebuffer[1], Framebuffer[1], Framebuffer[2], "WriteCombining")

\* [m, r, pml4, heap]: the kernel's tables, its linear map and its heap
Start(map, mem) ==
    LET refuse(m1, r) == [m |-> m1, r |-> r, pml4 |-> NONE, heap |-> NONE]
        heaped(a, pml4, at) == IF a.r # "ok" THEN refuse(a.m, a.r)
                               ELSE [m |-> a.m, r |-> "ok", pml4 |-> pml4, heap |-> at]
        heap(b, pml4) == IF b.at = NONE THEN refuse(b.m, "NoRoomForHeap")
                         ELSE heaped(Map(b.m, pml4, HEAP_BASE, b.at, HEAP_FRAMES, "WriteBack"), pml4, b.at)
        mapped(a, pml4) == IF a.r # "ok" THEN refuse(a.m, a.r)
                           ELSE heap(Alloc(a.m, HEAP_FRAMES, HUGE), pml4)
        tables(a) == IF a.r # "ok" THEN refuse(a.m, a.r)
                     ELSE mapped(MapFramebuffer(MapLinear(
                            FillUpperHalf(SharePml4(a.m, a.t, LOADER, FIRST_SHARED), a.t), map, a.t), a.t), a.t)
        words == BitmapWords(map)
        bitmap == PlaceBitmap(map, words * WORD_BYTES)
    IN  IF bitmap = NONE THEN refuse([mem |-> mem], "NoRoomForBitmap")
        ELSE tables(NewTables(NewFrames(map, words, bitmap, mem)))

Living == {p \in Procs : procs[p].state = "alive"}
NoProc == [state |-> "none", space |-> [pml4 |-> NONE, maps |-> <<>>], slot |-> NONE, file |-> NONE]

\* Process 1 has the first kernel stack.
Init ==
    \E machine \in Machines :
        LET ready(boot, k) ==
                /\ boot.r = "ok" /\ k.r = "ok"
                /\ m = k.m /\ stacks = k.used
                /\ kernel = [pml4 |-> boot.pml4, heap |-> boot.heap, map |-> machine.regions]
                /\ procs = [p \in Procs |-> NoProc]
                /\ taken = {} /\ run = 0 /\ cr3 = boot.pml4 /\ tlb = <<>>
                /\ left = machine.calls /\ images = machine.images /\ said = "ok"
            up(boot) == ready(boot, AllocStack(boot.m, boot.pml4, {}))
        IN  up(Start(machine.regions, machine.mem))

----------------------------------------------------------------------------
(* The CPU *)

\* What the tables at `pml4` say of page v, the kernel's pages too.
PageEntry(m1, pml4, v) ==
    LET entry(t) == IF t = NONE THEN ZERO ELSE Entry(m1, t, Index(v, 0))
    IN  entry(Leaf(m1, pml4, v))

Without(pages) == [v \in DOMAIN tlb \ pages |-> tlb[v]]
\* The CPU used `pages`: what it did not hold, it took from the tables.
Used(kept, m1, pml4, pages) ==
    [v \in DOMAIN kept \cup pages |-> IF v \in DOMAIN kept THEN kept[v] ELSE PageEntry(m1, pml4, v)]
(* A slip: only the first page is flushed. *)
FlushFirst(virt, pages) == IF pages > FLUSH_MAX THEN Without({virt}) ELSE Without(virt .. virt + pages - 1)

\* mm::flush_pages: one by one, or all at once for many
FlushPages(virt, pages) == IF pages > FLUSH_MAX THEN <<>> ELSE Without(virt .. virt + pages - 1)

\* context::switch_to: the tables are loaded, which empties the TLB, unless
\* they are loaded already. The kernel then runs on the process's stack.
Switch(p) ==
    LET pml4 == IF p = 0 THEN kernel.pml4 ELSE procs[p].space.pml4 IN
    /\ run # p
    /\ run' = p /\ cr3' = pml4
    /\ tlb' = Used(IF cr3 = pml4 THEN tlb ELSE <<>>, m, pml4,
                    IF p = 0 THEN {} ELSE Range(StackPages(procs[p].slot)))
    /\ UNCHANGED <<m, kernel, stacks, procs, taken, left>>

Data == [k \in {0} |-> [at |-> run, bits |-> {"data"}]]

\* The program writes to a page: through the TLB if it has the page,
\* through its tables (whose entry the TLB then keeps) otherwise.
Touch(v) ==
    LET write(e) == /\ e # ZERO /\ PermOfEntry(e) = "ReadWrite"
                    /\ m' = [m EXCEPT !.mem[e.at] = Data]
    IN  /\ run # 0
        /\ write(IF v \in DOMAIN tlb THEN tlb[v] ELSE UserPage(m, cr3, v))
        /\ tlb' = Used(tlb, m, cr3, {v})
        /\ UNCHANGED <<kernel, stacks, procs, taken, run, cr3, left>>

----------------------------------------------------------------------------
(* Calls *)

AsUser(m1) == [m1 EXCEPT !.keep = USER_RESERVE]
AsKernel(m1) == [m1 EXCEPT !.keep = 0]
\* UserMem::room
Room(m1) == IF m1.free > USER_RESERVE THEN m1.free - USER_RESERVE ELSE 0
\* proc::spawn: the kernel stack, then the space, then the program in it;
\* what was taken is given back when one of them fails. The first frame is
\* written to the new stack through its pages.
Spawn(file, args, env) ==
    LET none == {q \in Procs : procs[q].state = "none"}
        p == Min(none)
        program == ReadProgram(file, MAX_SIZE)
        refuse(m1, slot) == /\ m' = FreeStack(AsKernel(m1), kernel.pml4, slot)
                            /\ tlb' = Without(Range(StackPages(slot)))
                            /\ UNCHANGED <<stacks, procs>>
        no_room(m1) == m' = m1 /\ said' = "ENOMEM" /\ UNCHANGED <<stacks, procs, tlb>>
        loaded(a, k) == /\ said' = a.r
                        /\ IF a.r # "ok" THEN refuse(Destroy(a.m, a.s), k.slot)
                           ELSE /\ m' = AsKernel(a.m)
                                /\ stacks' = k.used
                                /\ procs' = [procs EXCEPT ![p] = [state |-> "alive", space |-> a.s,
                                                                 slot |-> k.slot, file |-> file]]
                                /\ tlb' = Used(tlb, k.m, cr3, {StackBottom(k.slot) + SIZE - 1})
        space(a, k) == IF a.r # "ok" THEN refuse(a.m, k.slot) /\ said' = "ENOMEM"
                       ELSE loaded(Load(a.m, a.s, file, program, args, env), k)
        stack(k) == IF k.r # "ok" THEN no_room(k.m)
                    ELSE space(NewSpace(AsUser(k.m), kernel.pml4), k)
    IN  /\ none # {} /\ program.r = "ok"
        /\ stack(AllocStack(m, kernel.pml4, stacks))
        /\ UNCHANGED <<kernel, taken, run, cr3>>

MemMap(pages) ==
    /\ run # 0
    /\ LET done(a) == m' = AsKernel(a.m) /\ procs' = [procs EXCEPT ![run].space = a.s]
       IN  done(MapArea(AsUser(m), procs[run].space, pages, Room(m)))
    /\ UNCHANGED <<kernel, stacks, taken, run, cr3, tlb>>

MemUnmap(addr, pages) ==
    /\ run # 0
    /\ LET done(a) == /\ m' = AsKernel(a.m)
                      /\ procs' = [procs EXCEPT ![run].space = a.s]
                      /\ tlb' = IF a.r = "ok" THEN FlushPages(addr, pages) ELSE tlb
       IN  done(UnmapArea(AsUser(m), procs[run].space, addr, pages))
    /\ UNCHANGED <<kernel, stacks, taken, run, cr3>>

\* A call that copies an answer to the program's memory.
CopyOut(v, pages) ==
    LET done(a) == m' = a.m IN
    /\ run # 0
    /\ done(UserWrite(m, procs[run].space, v, pages, Data))
    /\ UNCHANGED <<kernel, stacks, procs, taken, run, cr3, tlb>>

\* proc::end: off its tables, which then go; its kernel stack, on which the
\* kernel still runs, stays until it is waited for.
End ==
    /\ run # 0
    /\ m' = Destroy(m, procs[run].space)
    /\ procs' = [procs EXCEPT ![run] = [NoProc EXCEPT !.state = "zombie", !.slot = procs[run].slot]]
    /\ run' = 0 /\ cr3' = kernel.pml4
    /\ tlb' = Used(<<>>, m, kernel.pml4, Range(StackPages(procs[run].slot)))
    /\ UNCHANGED <<kernel, stacks, taken>>

\* proc::collect gives the stack back and flushes its pages.
Reap(p) ==
    /\ procs[p].state = "zombie"
    /\ m' = FreeStack(m, kernel.pml4, procs[p].slot)
    /\ stacks' = stacks \ {procs[p].slot}
    /\ tlb' = Without(Range(StackPages(procs[p].slot)))
    /\ procs' = [procs EXCEPT ![p] = NoProc]
    /\ UNCHANGED <<kernel, taken, run, cr3>>

\* Frames for a device's buffer (alloc_dma), or for a pipe's ring if that
\* leaves the reserve (alloc_pipe_frames).
TakeFrames(count, align, ring) ==
    LET got(a) == /\ m' = a.m
                  /\ taken' = taken \cup (IF a.at = NONE THEN {} ELSE {<<a.at, count>>})
    IN  /\ IF ring /\ m.free < USER_RESERVE + PIPE_FRAMES THEN UNCHANGED <<m, taken>>
           ELSE got(Alloc(m, count, align))
        /\ UNCHANGED <<kernel, stacks, procs, run, cr3, tlb>>

\* free_dma, and the drop of a pipe's ring
GiveFrames(t) ==
    /\ m' = Free(m, t[1], t[2])
    /\ taken' = taken \ {t}
    /\ UNCHANGED <<kernel, stacks, procs, run, cr3, tlb>>

MapMmio(first, pages, cache) ==
    LET done(a) == m' = a.m /\ tlb' = IF a.r = "ok" THEN <<>> ELSE tlb
    IN  /\ IF first + pages > PHYS_MAP_MAX THEN UNCHANGED <<m, tlb>>
           ELSE done(Map(m, kernel.pml4, PHYS_OFFSET + first, first, pages, cache))
        /\ UNCHANGED <<kernel, stacks, procs, taken, run, cr3>>

\* A call that leaves the frames alone costs nothing of its bound.
Uses(kind) ==
    /\ left[kind] > 0
    /\ left' = IF m' = m THEN left ELSE [left EXCEPT ![kind] = @ - 1]

Next ==
    /\ UNCHANGED images
    /\ \/ \E p \in Living \cup {0} : Switch(p) /\ UNCHANGED said
       \/ \E v \in Touched : left.touch /\ Touch(v) /\ UNCHANGED said
       \/ \E g \in images, s \in Strings : Spawn(g, s[1], s[2]) /\ Uses("spawn")
       \/ End /\ UNCHANGED left /\ UNCHANGED said
       \/ \E p \in Procs : Reap(p) /\ UNCHANGED left /\ UNCHANGED said
       \/ \E n \in 0 .. MAP_END - MAP_START : MemMap(n) /\ Uses("map") /\ UNCHANGED said
       \/ \E v \in MAP_START .. MAP_END, n \in 0 .. MAP_END - MAP_START : MemUnmap(v, n) /\ Uses("map") /\ UNCHANGED said
       \/ \E v \in Touched, n \in 1 .. 2 : left.touch /\ CopyOut(v, n) /\ UNCHANGED left /\ UNCHANGED said
       \/ \E b \in Buffers : TakeFrames(b[1], b[2], FALSE) /\ Uses("take") /\ UNCHANGED said
       \/ TakeFrames(PIPE_FRAMES, 1, TRUE) /\ Uses("take") /\ UNCHANGED said
       \/ \E t \in taken : GiveFrames(t) /\ UNCHANGED left /\ UNCHANGED said
       \/ \E w \in Windows : MapMmio(w[1], w[2], w[3]) /\ Uses("mmio") /\ UNCHANGED said

Spec == Init /\ [][Next]_vars
----------------------------------------------------------------------------
(* Properties *)

FrameSeq(fs) == FoldSet(LAMBDA f, s : Append(s, f), <<>>, fs)

\* The frames no one is ever given: not usable, low, or the bitmap's.
FixedFrames ==
    LET words == BitmapWords(kernel.map)
        bitmap == PlaceBitmap(kernel.map, words * WORD_BYTES)
    IN  DOMAIN m.used \ (UsableFrames(kernel.map, words * WORD)
            \ (Touching(0, LOW_LIMIT) \cup Touching(bitmap, bitmap + words * WORD_BYTES)))

\* The tables of the kernel's half, without what they map.
KernelTables ==
    LET below[l \in 0 .. TOP - 1] ==
            [t \in DOMAIN m.mem |-> {t} \cup
                UNION {below[l - 1][m.mem[t][i].at] :
                         i \in {j \in DOMAIN m.mem[t] : l > 0 /\ ~Huge(m.mem[t][j])}}]
    IN  {kernel.pml4} \cup UNION {below[TOP - 1][m.mem[kernel.pml4][i].at] : i \in FAN \div 2 .. FIRST_SHARED - 1}

\* Who holds which frames, each as often as someone holds it.
Held ==
    LET stack(slot) == [n \in 1 .. SIZE |-> PageEntry(m, kernel.pml4, StackPages(slot)[n]).at]
        space(p) == Append(LowerHalfFrames(m, procs[p].space.pml4), procs[p].space.pml4)
    IN  FrameSeq(KernelTables)
        \o Pages(kernel.heap, HEAP_FRAMES)
        \o FoldSet(LAMBDA slot, fs : fs \o stack(slot), <<>>, stacks)
        \o FoldSet(LAMBDA p, fs : fs \o space(p), <<>>, Living)
        \o FoldSet(LAMBDA t, fs : fs \o Pages(t[1], t[2]), <<>>, taken)

\* The first place at or after `from`, by definition.
FirstPlace(from, count, align) ==
    LET places == {i \in from .. Frames(m) - count :
                      i % align = 0 /\ \A j \in i .. i + count - 1 : ~m.used[j]}
    IN  IF places = {} THEN NONE ELSE Min(places)

\* Every frame that is in use has exactly one holder: a table of the
\* kernel, its heap, a kernel stack, an address space, a pipe or a device.
\* None is lost when a program cannot be loaded, mem_map runs out half-way
\* or a stack does not fit, none is given back twice (free's assertion),
\* the count of free frames is right, and the search that skips full words
\* of the bitmap finds the first place there is.
FramesAccounted ==
    /\ ~m.twice
    /\ m.free = Cardinality({j \in DOMAIN m.used : ~m.used[j]})
    /\ LET held(h) == /\ Cardinality(Range(h)) = Len(h)
                      /\ Range(h) = {j \in DOMAIN m.used : m.used[j]} \ FixedFrames
       IN  held(Held)
    /\ \A from \in {0, m.next} : Find(m, from, 1, 1) = FirstPlace(from, 1, 1)
    /\ \A b \in Buffers : Find(m, 0, b[1], b[2]) = FirstPlace(0, b[1], b[2])

\* A program reaches the pages it was given and no others: the regions of
\* its mem_map area are what is mapped there, whatever was merged, cut or
\* undone; its upper half is the kernel's; what it sees was zeroed or
\* written by itself; and no page the CPU remembers is one the tables in
\* use no longer have, though a switch to a process without a program does
\* not empty the TLB.
SpacesSound ==
    /\ \A v \in DOMAIN tlb : tlb[v] # ZERO /\ tlb[v] = PageEntry(m, cr3, v)
    /\ \A p \in Living :
        LET s == procs[p].space
            area == UNION {r[1] .. EndOf(r) - 1 : r \in Range(s.maps)}
            seen == {UserPage(m, s.pml4, v) : v \in area \cup (STACK_BOTTOM .. STACK_TOP - 1)}
        IN  /\ Len(s.maps) <= MAPS_MAX
            /\ \A i \in 1 .. Len(s.maps) : s.maps[i][2] > 0
            /\ \A i \in 1 .. Len(s.maps) - 1 : EndOf(s.maps[i]) < s.maps[i + 1][1]
            /\ \A v \in MAP_START .. MAP_END - 1 :
                   /\ (UserRead(m, s, v, 1) = "ok") = (v \in area)
                   /\ v \in area => Writable(m, s, v, 1)
            /\ area \subseteq MAP_START .. MAP_END - 1
            /\ \A i \in UpperHalf : m.mem[s.pml4][i] = m.mem[kernel.pml4][i]
            /\ \A e \in seen : m.mem[e.at] = <<>> \/ m.mem[e.at][0].at = p

\* A program that elf::check accepts is loaded, or there is no memory: its
\* segments never meet each other, the stack or the end of the lower half,
\* whatever their sizes and alignments ("anything else cannot happen",
\* exec.rs:59). Its pages are those of its segments, each with the access
\* of the one segment that has bytes there, and its entry point may be run.
AcceptedLoads ==
    /\ said # "ENOEXEC"
    /\ \A p \in Living :
        LET file == procs[p].file
            of(v) == {i \in DOMAIN Segments(file) :
                        v \in Segments(file)[i].vaddr \div PAGE .. DivCeil(EndOfSegment(Segments(file)[i]), PAGE) - 1}
            right(e, is) == IF is = {} THEN e = ZERO
                            ELSE /\ e # ZERO
                                 /\ \A i \in is : PermOfEntry(e) = Segments(file)[i].access
        IN  /\ \A v \in 0 .. MAP_START - 1 : right(UserPage(m, procs[p].space.pml4, v), of(v))
            /\ PermOfEntry(UserPage(m, procs[p].space.pml4, file.entry \div PAGE)) = "ReadExec"
=============================================================================
