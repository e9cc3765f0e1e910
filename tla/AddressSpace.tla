---------------------------- MODULE AddressSpace ----------------------------
(* A program's address space (kernel/src/mm/space.rs), the kernel stacks   *)
(* (kstack.rs) and the memory a program names in a call (user.rs). A space *)
(* is [pml4, maps]: its top table and the regions of the mem_map area it   *)
(* has, <<start, pages>>, sorted and apart.                                *)
EXTENDS PageTables

CONSTANTS MAP_START, MAP_END, MAPS_MAX,    \* the mem_map area, and its regions
          AREA, SLOTS, SIZE, SLOT_SIZE     \* kernel stacks: a slot is a guard
                                           \* page, SIZE pages, and a rest

Answer(m, s, r) == [m |-> m, s |-> s, r |-> r]
Pages(first, n) == [k \in 1 .. n |-> first + k - 1]

----------------------------------------------------------------------------
(* Address spaces *)

NewSpace(m, kernel) ==
    LET made(a) == IF a.r # "ok" THEN Answer(a.m, [pml4 |-> NONE, maps |-> <<>>], a.r)
                   ELSE Answer(SharePml4(a.m, a.t, kernel, FAN \div 2),
                               [pml4 |-> a.t, maps |-> <<>>], "ok")
    IN  made(NewTables(m))

(* A slip: a frame that could not be mapped is kept. *)
MapZeroedPageKeeps(m, s, v, perm) ==
    LET page(a) == IF a.at = NONE THEN Answer(a.m, s, "OutOfMemory")
                   ELSE LET got(b) == Answer(b.m, s, b.r) IN got(MapUser(a.m, s.pml4, v, a.at, perm))
    IN  page(AllocTable(m))

\* One fresh page; a frame that could not be mapped is given back.
MapZeroedPage(m, s, v, perm) ==
    LET undo(a, f) == IF a.r = "ok" THEN Answer(a.m, s, "ok")
                      ELSE Answer(Free(a.m, f, 1), s, a.r)
        page(a) == IF a.at = NONE THEN Answer(a.m, s, "OutOfMemory")
                   ELSE undo(MapUser(a.m, s.pml4, v, a.at, perm), a.at)
    IN  page(AllocTable(m))

\* Fresh pages from `virt`; those mapped before a failure stay.
MapZeroed(m, s, virt, pages, perm) ==
    IF virt + pages > LOWER_HALF_END THEN Answer(m, s, "NotUser")
    ELSE FoldLeft(LAMBDA a, v : IF a.r # "ok" THEN a ELSE MapZeroedPage(a.m, s, v, perm),
                  Answer(m, s, "ok"), Pages(virt, pages))

\* Copies bytes to mapped pages from `virt`, whatever their permissions.
Fill(m, s, virt, pages) ==
    IF \E v \in virt .. virt + pages - 1 : UserPage(m, s.pml4, v) = ZERO
    THEN Answer(m, s, "NotUser") ELSE Answer(m, s, "ok")

UnmapPages(m, s, addr, pages) ==
    LET give(a) == IF a.at = NONE THEN a.m ELSE Free(a.m, a.at, 1)
    IN  FoldLeft(LAMBDA m1, v : give(Unmap(m1, s.pml4, v)), m, Pages(addr, pages))

EndOf(region) == region[1] + region[2]

\* The gaps of the area in address order: gap i lies before region i.
GapStart(s, i) == IF i = 1 THEN MAP_START ELSE EndOf(s.maps[i - 1])
GapEnd(s, i) == IF i > Len(s.maps) THEN MAP_END ELSE s.maps[i][1]
FirstFit(s, pages) ==
    LET fits == {i \in 1 .. Len(s.maps) + 1 : GapEnd(s, i) - GapStart(s, i) >= pages}
    IN  IF fits = {} THEN NONE ELSE Min(fits)

MeetsBefore(s, i) == i > 1 /\ EndOf(s.maps[i - 1]) = GapStart(s, i)
MeetsAfter(s, i, pages) == i <= Len(s.maps) /\ s.maps[i][1] = GapStart(s, i) + pages

\* The regions with `pages` more at the start of gap `i`.
Insert(s, i, pages) ==
    LET at == GapStart(s, i) IN
    CASE MeetsBefore(s, i) /\ MeetsAfter(s, i, pages) ->
             RemoveAt([s.maps EXCEPT ![i - 1][2] = @ + pages + s.maps[i][2]], i)
      [] MeetsBefore(s, i) /\ ~MeetsAfter(s, i, pages) -> [s.maps EXCEPT ![i - 1][2] = @ + pages]
      [] ~MeetsBefore(s, i) /\ MeetsAfter(s, i, pages) -> [s.maps EXCEPT ![i] = <<at, pages + @[2]>>]
      [] OTHER -> InsertAt(s.maps, i, <<at, pages>>)

\* mem_map: fresh pages at the lowest place they fit, or ENOMEM and nothing
\* stays mapped.
MapArea(m, s, pages, room) ==
    LET enomem(m1) == Answer(m1, s, "ENOMEM")
        put(a, at, k) ==
            IF a.r # "ok" THEN a
            ELSE LET back(b) == IF b.r = "ok" THEN b ELSE enomem(UnmapPages(b.m, s, at, k))
                 IN  back(MapZeroedPage(a.m, s, at + k, "ReadWrite"))
        mapped(a, i) == IF a.r # "ok" THEN a
                        ELSE [a EXCEPT !.s.maps = Insert(s, i, pages)]
        at_gap(i) ==
            IF i = NONE THEN enomem(m)
            ELSE IF ~MeetsBefore(s, i) /\ ~MeetsAfter(s, i, pages) /\ Len(s.maps) >= MAPS_MAX
                 THEN enomem(m)
                 ELSE mapped(FoldLeft(LAMBDA a, k : put(a, GapStart(s, i), k),
                                      Answer(m, s, "ok"), Pages(0, pages)), i)
    IN  IF pages = 0 THEN Answer(m, s, "EINVAL")
        ELSE IF pages > room THEN enomem(m)
        ELSE at_gap(FirstFit(s, pages))

\* The regions without [addr, addr + pages), which lies in region `i`.
Cut(s, i, addr, end) ==
    LET before == <<s.maps[i][1], addr - s.maps[i][1]>>
        after  == <<end, EndOf(s.maps[i]) - end>>
    IN  SubSeq(s.maps, 1, i - 1) \o SelectSeq(<<before, after>>, LAMBDA r : r[2] > 0)
            \o SubSeq(s.maps, i + 1, Len(s.maps))

\* mem_unmap: whole pages of one region and nothing else.
UnmapArea(m, s, addr, pages) ==
    LET end == addr + pages
        holds == {i \in 1 .. Len(s.maps) : s.maps[i][1] <= addr /\ addr < EndOf(s.maps[i])}
        cut(i) ==
            IF end > EndOf(s.maps[i]) THEN Answer(m, s, "EINVAL")
            ELSE IF addr > s.maps[i][1] /\ end < EndOf(s.maps[i]) /\ Len(s.maps) >= MAPS_MAX
                 THEN Answer(m, s, "ENOMEM")
                 ELSE Answer(UnmapPages(m, s, addr, pages), [s EXCEPT !.maps = Cut(s, i, addr, end)], "ok")
    IN  IF pages = 0 \/ holds = {} THEN Answer(m, s, "EINVAL") ELSE cut(Min(holds))

Destroy(m, s) == Free(FreeLowerHalf(m, s.pml4), s.pml4, 1)

----------------------------------------------------------------------------
(* Kernel stacks: `used` is the set of slots in use *)

StackBottom(slot) == AREA + slot * SLOT_SIZE + 1
StackPages(slot) == Pages(StackBottom(slot), SIZE)

\* Unmaps and frees the first n pages of a stack.
Release(m, kernel, slot, n) == UnmapPages(m, [pml4 |-> kernel], StackBottom(slot), n)

\* [m, used, slot, r]: a stack in the lowest free slot, or what was mapped
\* is given back.
AllocStack(m, kernel, used) ==
    LET free == (0 .. SLOTS - 1) \ used
        refuse(m1, r) == [m |-> m1, used |-> used, slot |-> NONE, r |-> r]
        undo(a, f) == IF a.r = "ok" THEN a ELSE [a EXCEPT !.m = Free(a.m, f, 1)]
        frame(a, v) == IF a.at = NONE THEN Failed(a.m, "NoMemory")
                       ELSE undo(Map(a.m, kernel, v, a.at, 1, "WriteBack"), a.at)
        page(a, slot, n) ==
            IF a.r # "ok" THEN a
            ELSE LET back(b) == IF b.r = "ok" THEN b ELSE Failed(Release(b.m, kernel, slot, n), "NoMemory")
                 IN  back(frame(AllocTable(a.m), StackBottom(slot) + n))
        done(a, slot) == IF a.r # "ok" THEN refuse(a.m, a.r)
                         ELSE [m |-> a.m, used |-> used \cup {slot}, slot |-> slot, r |-> "ok"]
        in(slot) == done(FoldLeft(LAMBDA a, n : page(a, slot, n),
                                  [m |-> m, r |-> "ok", t |-> NONE], Pages(0, SIZE)), slot)
    IN  IF free = {} THEN refuse(m, "NoSlot") ELSE in(Min(free))

FreeStack(m, kernel, slot) == Release(m, kernel, slot, SIZE)

----------------------------------------------------------------------------
(* Memory a program names in a call: [first, first + n) pages *)

\* UserSlice::read may copy a part before it meets a page that is not the
\* program's; `writable` looks at every page before a byte is written.
UserRead(m, s, first, n) ==
    IF first + n > LOWER_HALF_END THEN "EFAULT"
    ELSE IF \E v \in first .. first + n - 1 : UserPage(m, s.pml4, v) = ZERO THEN "EFAULT" ELSE "ok"

Writable(m, s, first, n) ==
    \A v \in first .. first + n - 1 :
        /\ UserPage(m, s.pml4, v) # ZERO
        /\ PermOfEntry(UserPage(m, s.pml4, v)) = "ReadWrite"

UserWrite(m, s, first, n, data) ==
    IF first + n > LOWER_HALF_END \/ ~Writable(m, s, first, n) THEN Answer(m, s, "EFAULT")
    ELSE Answer([m EXCEPT !.mem = [f \in DOMAIN @ |->
                    IF \E v \in first .. first + n - 1 : UserPage(m, s.pml4, v).at = f
                    THEN data ELSE @[f]]], s, "ok")
=============================================================================
