----------------------------- MODULE PageTables -----------------------------
(* The allocator of physical frames (kernel/src/mm/frame.rs) and the page  *)
(* tables that are made of them (kernel/src/mm/paging.rs).                 *)
(* Frames: one bit for every frame up to the end of the highest usable     *)
(* region, a count of the free ones and a hint where the next search for a *)
(* single frame starts. Addresses of the memory map are in bytes,          *)
(* everything else is in frames. A memory `m` is the allocator with what   *)
(* the frames hold (m.mem).                                                *)
(* Tables: kernel mappings with small and large pages, the pages of        *)
(* programs, and giving back the lower half. Addresses are page numbers. A *)
(* table holds only the entries that are not 0; an entry is a frame with a *)
(* set of bits. The tables have levels TOP (the PML4, 3 in the code) to 0, *)
(* with FAN entries (512). The accessed and dirty bits, which `same`       *)
(* ignores, are left out.                                                  *)
EXTENDS Integers, Sequences, FiniteSets, SequencesExt, FiniteSetsExt

CONSTANTS FRAME_SIZE,   \* bytes of a frame
          LOW_LIMIT,    \* bytes of low memory that are never handed out
          WORD,         \* bits of a word of the bitmap
          WORD_BYTES,   \* bytes of a word of the bitmap
          TOP, FAN      \* the top level of tables, and the entries of one

NONE == -1

\* Rust's usize::div_ceil and next_multiple_of
DivCeil(x, n) == (x + n - 1) \div n
AlignUp(x, align) == DivCeil(x, align) * align

IsUsable(r) == r.kind = "Usable"

\* What a frame holds before anything is known of it: bytes of whoever
\* had it last.
Garbage == [k \in {0} |-> [at |-> 0, bits |-> {"data"}]]

BitmapWords(map) ==
    DivCeil(Max({0} \cup {r.end : r \in {q \in Range(map) : IsUsable(q)}})
            \div FRAME_SIZE, WORD)

PlaceBitmap(map, bytes) ==
    LET size == DivCeil(bytes, FRAME_SIZE) * FRAME_SIZE
        start(r) == AlignUp(Max({r.start, LOW_LIMIT}), FRAME_SIZE)
        fits == SelectSeq(map, LAMBDA r : IsUsable(r) /\ start(r) + size <= r.end)
    IN  IF fits = <<>> THEN NONE ELSE start(Head(fits))

\* The frames that FrameAllocator::new clears: the whole frames of usable
\* regions ...
UsableFrames(map, n) ==
    UNION {DivCeil(r.start, FRAME_SIZE) .. Min({r.end \div FRAME_SIZE, n}) - 1 :
             r \in {q \in Range(map) : IsUsable(q)}}

\* ... and those it reserves again: every frame that touches [start, end).
Touching(start, end) == start \div FRAME_SIZE .. DivCeil(end, FRAME_SIZE) - 1

NewFrames(map, words, bitmap, mem) ==
    LET n == words * WORD
        open == UsableFrames(map, n) \ (Touching(0, LOW_LIMIT)
                   \cup Touching(bitmap, bitmap + words * WORD_BYTES))
    IN  [used |-> [i \in 0 .. n - 1 |-> i \notin open],
         free |-> Cardinality(open),
         total |-> Cardinality(UsableFrames(map, n)),
         next |-> 0, keep |-> 0, twice |-> FALSE, mem |-> mem]

Frames(m) == Cardinality(DOMAIN m.used)

\* The search, which passes over whole words that are full, and from a used
\* frame in its way to the place behind it.
Find(m, from, count, align) ==
    LET n == Frames(m)
        full(i) == i % WORD = 0 /\ \A j \in i .. i + WORD - 1 : m.used[j]
        at[i \in 0 .. n + WORD + align] ==
            IF i + count > n THEN NONE
            ELSE IF full(i) THEN at[AlignUp(i + WORD, align)]
            ELSE LET taken == {j \in i .. i + count - 1 : m.used[j]} IN
                 IF taken = {} THEN i ELSE at[AlignUp(Min(taken) + 1, align)]
    IN  at[AlignUp(from, align)]

\* `count` frames from `i`, with what they hold: [m, at]
Take(m, i, count, single) ==
    IF i = NONE THEN [m |-> m, at |-> NONE]
    ELSE [m |-> [m EXCEPT !.used = [j \in DOMAIN @ |-> @[j] \/ j \in i .. i + count - 1],
                          !.next = IF single THEN i + 1 ELSE @,
                          !.free = @ - count],
          at |-> i]

Alloc(m, count, align) ==
    LET single == count = 1 /\ align = 1
        hint == IF single THEN m.next ELSE 0
        or_else(i) == IF i # NONE THEN i ELSE Find(m, 0, count, align)
    IN  Take(m, or_else(Find(m, hint, count, align)), count, single)

\* The frames `fs` are free again; freeing one that is not used is the
\* panic "double free of frame".
FreeFrames(m, fs) ==
    [m EXCEPT !.used = [j \in DOMAIN @ |-> @[j] /\ j \notin fs],
              !.twice = @ \/ \E j \in fs : ~m.used[j],
              !.free = @ + Cardinality(fs),
              !.next = Min({@} \cup fs),
              !.mem = [j \in DOMAIN @ |-> IF j \in fs THEN Garbage ELSE @[j]]]

Free(m, first, count) == FreeFrames(m, first .. first + count - 1)

----------------------------------------------------------------------------
(* Page tables *)

HUGE == FAN
LOWER_HALF_END == (FAN \div 2) * FAN ^ TOP
UpperHalf == FAN \div 2 .. FAN - 1
LowerHalf == 0 .. FAN \div 2 - 1
Levels(lowest) == [k \in 1 .. TOP - lowest + 1 |-> TOP + 1 - k]

ZERO == [at |-> 0, bits |-> {}]

\* Perm::bits and Perm::of_entry: what a program may do with a page
PermBits(perm) ==
    CASE perm = "ReadExec"  -> {}
      [] perm = "Read"      -> {"NO_EXECUTE"}
      [] perm = "ReadWrite" -> {"WRITABLE", "NO_EXECUTE"}
PermOfEntry(e) ==
    CHOOSE perm \in {"ReadExec", "Read", "ReadWrite"} :
        PermBits(perm) = e.bits \cap {"WRITABLE", "NO_EXECUTE"}
\* Cache::bits
CacheBits(cache) ==
    CASE cache = "WriteBack"      -> {}
      [] cache = "WriteCombining" -> {"PWT"}
      [] cache = "Uncached"       -> {"PWT", "PCD"}

Present(e) == "PRESENT" \in e.bits
Huge(e) == "HUGE_PAGE" \in e.bits
Index(virt, level) == (virt \div FAN ^ level) % FAN
Entry(m, table, i) == IF i \in DOMAIN m.mem[table] THEN m.mem[table][i] ELSE ZERO
SetEntry(m, table, i, e) ==
    [m EXCEPT !.mem[table] =
        [k \in (DOMAIN @ \cup {i}) \ (IF e = ZERO THEN {i} ELSE {}) |->
            IF k = i THEN e ELSE @[k]]]

\* PhysMem::alloc_table: a zeroed frame. For a program's memory (UserMem)
\* `keep` frames stay free (user_may_take); the kernel keeps none.
AllocTable(m) ==
    LET zeroed(a) == IF a.at = NONE THEN a
                     ELSE [a EXCEPT !.m.mem[a.at] = <<>>]
    IN  IF m.keep > 0 /\ m.free <= m.keep THEN [m |-> m, at |-> NONE]
        ELSE zeroed(Alloc(m, 1, 1))

Failed(m, r) == [m |-> m, r |-> r, t |-> NONE]

NewTables(m) ==
    LET made(a) == IF a.at = NONE THEN Failed(a.m, "OutOfMemory")
                   ELSE [m |-> a.m, r |-> "ok", t |-> a.at]
    IN  made(AllocTable(m))

\* The next-level table under entry `i`, made if it is missing.
Child(m, table, i, virt) ==
    LET flags == {"PRESENT", "WRITABLE"} \cup (IF virt < LOWER_HALF_END THEN {"USER"} ELSE {})
        made(a) == IF a.r # "ok" THEN a
                   ELSE [a EXCEPT !.m = SetEntry(a.m, table, i, [at |-> a.t, bits |-> flags])]
        there(e) == IF Huge(e) \/ ~(flags \subseteq e.bits) THEN Failed(m, "Conflict")
                    ELSE [m |-> m, r |-> "ok", t |-> e.at]
    IN  IF ~Present(Entry(m, table, i)) THEN made(NewTables(m))
        ELSE there(Entry(m, table, i))

\* The table of level `lowest` that covers `virt`, made with every table
\* above it: pd_slot (1), or the page table (0).
Descend(m, pml4, virt, lowest) ==
    FoldLeft(LAMBDA a, level : IF a.r # "ok" THEN a
                               ELSE Child(a.m, a.t, Index(virt, level), virt),
             [m |-> m, r |-> "ok", t |-> pml4], Levels(lowest + 1))

FillUpperHalf(m, pml4) ==
    LET fill(a, i) == IF a.r # "ok" \/ Present(Entry(a.m, pml4, i)) THEN a
                      ELSE Child(a.m, pml4, i, LOWER_HALF_END)
    IN  FoldLeft(fill, [m |-> m, r |-> "ok", t |-> pml4], [k \in 1 .. FAN - FAN \div 2 |-> FAN \div 2 + k - 1])

\* set_pml4_entry for every upper-half entry `of` holds from `first` on
SharePml4(m, pml4, of, first) ==
    [m EXCEPT !.mem[pml4] = [i \in DOMAIN @ \cup {j \in DOMAIN m.mem[of] : j >= first} |->
        IF i >= first /\ i \in DOMAIN m.mem[of] THEN m.mem[of][i] ELSE @[i]]]

KernelBits(cache) == {"PRESENT", "WRITABLE", "NO_EXECUTE"} \cup CacheBits(cache)

\* One entry of the kernel's: written if nothing is there, left alone if it
\* is the same, a conflict otherwise.
Put(m, table, i, want) ==
    CASE ~Present(Entry(m, table, i)) -> [m |-> SetEntry(m, table, i, want), r |-> "ok", t |-> table]
      [] Entry(m, table, i) = want    -> [m |-> m, r |-> "ok", t |-> table]
      [] OTHER                        -> Failed(m, "Conflict")

\* A large page, or "small" where the slot already holds a page table.
MapHuge(m, pml4, v, p, cache) ==
    LET want == [at |-> p, bits |-> KernelBits(cache) \cup {"HUGE_PAGE"}]
        slot(a) == IF a.r # "ok" THEN a
                   ELSE IF Present(Entry(a.m, a.t, Index(v, 1))) /\ ~Huge(Entry(a.m, a.t, Index(v, 1)))
                        THEN Failed(a.m, "small")
                        ELSE Put(a.m, a.t, Index(v, 1), want)
    IN  slot(Descend(m, pml4, v, 1))

Map4k(m, pml4, v, p, cache) ==
    LET large == [at |-> p - (v % HUGE), bits |-> KernelBits(cache) \cup {"HUGE_PAGE"}]
        pt(a) == IF a.r # "ok" THEN a
                 ELSE Put(a.m, a.t, Index(v, 0), [at |-> p, bits |-> KernelBits(cache)])
        slot(a) == IF a.r # "ok" THEN a
                   ELSE IF Huge(Entry(a.m, a.t, Index(v, 1)))
                        THEN IF Entry(a.m, a.t, Index(v, 1)) = large THEN a ELSE Failed(a.m, "Conflict")
                        ELSE pt(Child(a.m, a.t, Index(v, 1), v))
    IN  slot(Descend(m, pml4, v, 1))

\* [virt, virt + len) to [phys, phys + len): a large page for each stretch
\* of HUGE pages where both are aligned, small ones elsewhere and where the
\* slot has a table already. Pages mapped before an error stay.
Map(m, pml4, virt, phys, len, cache) ==
    LET from(c) == Max({virt, c * HUGE}) - virt
        to(c) == Min({virt + len, (c + 1) * HUGE}) - virt
        smalls(m1, c) ==
            FoldLeft(LAMBDA a, off : IF a.r # "ok" THEN a
                                     ELSE Map4k(a.m, pml4, virt + off, phys + off, cache),
                     [m |-> m1, r |-> "ok", t |-> NONE], [k \in 1 .. to(c) - from(c) |-> from(c) + k - 1])
        large(a, c) == IF a.r = "small" THEN smalls(a.m, c) ELSE a
        stretch(a, c) ==
            IF a.r # "ok" THEN a
            ELSE IF to(c) - from(c) = HUGE /\ (phys + from(c)) % HUGE = 0
                 THEN large(MapHuge(a.m, pml4, virt + from(c), phys + from(c), cache), c)
                 ELSE smalls(a.m, c)
    IN  FoldLeft(stretch, [m |-> m, r |-> "ok", t |-> NONE],
                 [k \in 1 .. (virt + len - 1) \div HUGE - (virt \div HUGE) + 1 |-> virt \div HUGE + k - 1])

\* One page of a program, in the lower half; one that is mapped already is
\* a conflict.
MapUser(m, pml4, virt, phys, perm) ==
    LET put(a) == IF a.r # "ok" THEN a
                  ELSE IF Present(Entry(a.m, a.t, Index(virt, 0))) THEN Failed(a.m, "Conflict")
                  ELSE [a EXCEPT !.m = SetEntry(a.m, a.t, Index(virt, 0),
                            [at |-> phys, bits |-> {"PRESENT", "USER"} \cup PermBits(perm)])]
    IN  IF virt >= LOWER_HALF_END THEN Failed(m, "NotUser")
        ELSE put(Descend(m, pml4, virt, 0))

\* The page table that covers `virt`, if every table on the way is there.
Leaf(m, pml4, virt) ==
    FoldLeft(LAMBDA t, level :
                LET next(e) == IF ~Present(e) \/ Huge(e) THEN NONE ELSE e.at
                IN  IF t = NONE THEN NONE ELSE next(Entry(m, t, Index(virt, level))),
             pml4, Levels(1))

\* Removes the page at `virt`; [m, at] with its frame, or NONE.
Unmap(m, pml4, virt) ==
    LET none == [m |-> m, at |-> NONE]
        take(t, e) == IF ~Present(e) THEN none
                      ELSE [m |-> SetEntry(m, t, Index(virt, 0), ZERO), at |-> e.at]
        table(t) == IF t = NONE THEN none ELSE take(t, Entry(m, t, Index(virt, 0)))
    IN  table(Leaf(m, pml4, virt))

\* The entry of the page that holds `virt`, if ring 3 may use it: in the
\* lower half, and the user bit at every level. ZERO otherwise.
UserPage(m, pml4, virt) ==
    LET may(e) == IF {"PRESENT", "USER"} \subseteq e.bits /\ ~Huge(e) THEN e ELSE ZERO
    IN  IF virt >= LOWER_HALF_END THEN ZERO
        ELSE FoldLeft(LAMBDA e, level : IF e = ZERO THEN e ELSE may(Entry(m, e.at, Index(virt, level))),
                      [at |-> pml4, bits |-> {"PRESENT", "USER"}], Levels(0))

\* table_frames: the frames free_table gives back for a table of `level`,
\* as a sequence, each as often as it is freed.
TableFrames(m, table, level) ==
    LET below[l \in 0 .. TOP] ==
            [t \in DOMAIN m.mem |->
                LET entries == {i \in DOMAIN m.mem[t] : Present(m.mem[t][i])} IN
                FoldSet(LAMBDA i, fs : fs \o (IF l = 0 THEN <<m.mem[t][i].at>>
                                               ELSE below[l - 1][m.mem[t][i].at]),
                        <<t>>, entries)]
    IN  below[level][table]

\* The frames of the lower half, below its PML4 entries.
LowerHalfFrames(m, pml4) ==
    FoldSet(LAMBDA i, fs : fs \o TableFrames(m, m.mem[pml4][i].at, TOP - 1), <<>>,
            {i \in LowerHalf \cap DOMAIN m.mem[pml4] : Present(m.mem[pml4][i])})

\* Every page and table of the lower half is given back.
FreeLowerHalf(m, pml4) ==
    LET empty(m1) == [m1 EXCEPT !.mem[pml4] = [i \in DOMAIN @ \ LowerHalf |-> @[i]]]
        all(fs) == [FreeFrames(empty(m), Range(fs)) EXCEPT
                       !.twice = @ \/ Cardinality(Range(fs)) # Len(fs)]
    IN  all(LowerHalfFrames(m, pml4))

\* linear_ranges: the RAM the linear map covers, touching regions as one
IsRam(r) == r.kind \in {"Usable", "Bootloader", "Kernel", "AcpiReclaimable", "AcpiNvs"}
LinearRanges(map) ==
    FoldLeft(LAMBDA rs, r : IF rs # <<>> /\ Last(rs)[2] = r.start
                            THEN Append(Front(rs), <<Last(rs)[1], r.end>>)
                            ELSE Append(rs, <<r.start, r.end>>),
             <<>>, SelectSeq(map, IsRam))
=============================================================================
