-------------------------------- MODULE Heap --------------------------------
(* The heap allocator of the kernel and of programs (crates/heap), as a    *)
(* program uses it: it starts empty and grows by memory it maps            *)
(* (crates/relay-rt/src/allocator.rs). The free lists are sequences: the   *)
(* large blocks <<address, size>> in address order, the small blocks of    *)
(* each class last freed first. A layout is [size, align], in bytes.       *)
EXTENDS Integers, Sequences, FiniteSets, SequencesExt, FiniteSetsExt

CONSTANTS SIZE_CLASSES,   \* sizes of small blocks, rising
          SLAB, MIN_BLOCK,
          STEP,           \* a program's heap grows by multiples of this
          PAGES,          \* where a program's memory starts
          Layouts,        \* what is asked for
          REGIONS, ALLOCS \* bounds: times the heap grows, blocks handed out in all

VARIABLES h,      \* the heap
          live,   \* ghost: the blocks handed out, [at, layout]
          maps,   \* ghost: the regions <<start, size>> it was given
          short,  \* ghost: it grew and still had no room
          asked   \* how many blocks were asked for

hvars == <<h, live, maps, short, asked>>

NextMultiple(x, n) == ((x + n - 1) \div n) * n
NoPlace == -1

Empty == [total |-> 0, used |-> 0, large |-> <<>>, classes |-> [c \in 1 .. Len(SIZE_CLASSES) |-> <<>>]]

\* The class of a layout, 0 for a large block, and the size of a large one
ClassOf(layout) ==
    LET fits == {c \in 1 .. Len(SIZE_CLASSES) : SIZE_CLASSES[c] >= Max({layout.size, layout.align})}
    IN  IF fits = {} THEN 0 ELSE Min(fits)
LargeSize(layout) == NextMultiple(Max({layout.size, MIN_BLOCK}), MIN_BLOCK)

(* A slip: merged only with the block after it. *)
InsertFreeAfter(large, addr, size) ==
    LET n == Cardinality({i \in 1 .. Len(large) : large[i][1] < addr})
        after == n < Len(large) /\ addr + size = large[n + 1][1]
    IN  SubSeq(large, 1, n) \o <<<<addr, size + (IF after THEN large[n + 1][2] ELSE 0)>>>>
            \o SubSeq(large, IF after THEN n + 2 ELSE n + 1, Len(large))

\* [addr, addr + size) in address order, merged with the blocks directly
\* after and before it.
InsertFree(large, addr, size) ==
    LET n == Cardinality({i \in 1 .. Len(large) : large[i][1] < addr})
        after == n < Len(large) /\ addr + size = large[n + 1][1]
        before == n > 0 /\ large[n][1] + large[n][2] = addr
        block == <<IF before THEN large[n][1] ELSE addr,
                   size + (IF before THEN large[n][2] ELSE 0) + (IF after THEN large[n + 1][2] ELSE 0)>>
    IN  SubSeq(large, 1, IF before THEN n - 1 ELSE n) \o <<block>>
            \o SubSeq(large, IF after THEN n + 2 ELSE n + 1, Len(large))

AddRegion(g, start, size) ==
    IF size < MIN_BLOCK THEN g
    ELSE [g EXCEPT !.total = @ + (size - (size % MIN_BLOCK)),
                   !.large = InsertFree(@, start, size - (size % MIN_BLOCK))]

\* First fit; what is left before and after goes back: [h, at]
AllocLarge(g, size, align) ==
    LET at(i) == NextMultiple(g.large[i][1], align)
        fits == {i \in 1 .. Len(g.large) : at(i) + size <= g.large[i][1] + g.large[i][2]}
        put(large, addr, n) == IF n = 0 THEN large ELSE InsertFree(large, addr, n)
        cut(i) == put(put(RemoveAt(g.large, i), g.large[i][1], at(i) - g.large[i][1]),
                      at(i) + size, g.large[i][1] + g.large[i][2] - (at(i) + size))
    IN  IF fits = {} THEN [h |-> g, at |-> NoPlace]
        ELSE [h |-> [g EXCEPT !.large = cut(Min(fits))], at |-> at(Min(fits))]

\* A new slab's blocks of class c go on its list, the first on top.
Refill(g, c) ==
    LET carve(a) == IF a.at = NoPlace THEN a
                    ELSE [a EXCEPT !.h.classes[c] =
                             [k \in 1 .. SLAB \div SIZE_CLASSES[c] |-> a.at + (k - 1) * SIZE_CLASSES[c]] \o @]
    IN  carve(AllocLarge(g, SLAB, SLAB))

AllocSmall(g, c) ==
    LET top(a) == IF a.at = NoPlace THEN a
                  ELSE [h |-> [a.h EXCEPT !.classes[c] = Tail(@), !.used = @ + SIZE_CLASSES[c]],
                        at |-> Head(a.h.classes[c])]
    IN  top(IF g.classes[c] # <<>> THEN [h |-> g, at |-> 0] ELSE Refill(g, c))

HeapAlloc(g, layout) ==
    LET counted(a) == IF a.at = NoPlace THEN a ELSE [a EXCEPT !.h.used = @ + LargeSize(layout)]
    IN  IF ClassOf(layout) # 0 THEN AllocSmall(g, ClassOf(layout))
        ELSE counted(AllocLarge(g, LargeSize(layout), Max({layout.align, MIN_BLOCK})))

Dealloc(g, at, layout) ==
    LET c == ClassOf(layout) IN
    IF c # 0 THEN [g EXCEPT !.classes[c] = <<at>> \o @, !.used = @ - SIZE_CLASSES[c]]
    ELSE [g EXCEPT !.large = InsertFree(@, at, LargeSize(layout)), !.used = @ - LargeSize(layout)]

\* Heap::stats: the bytes of large free blocks, and the largest
FreeLarge(g) == FoldLeft(LAMBDA n, b : n + b[2], 0, g.large)
LargestFree(g) == Max({0} \cup {g.large[i][2] : i \in 1 .. Len(g.large)})

\* What to map for a layout: room for its alignment and for a new slab.
GrowSize(layout) == NextMultiple(layout.size + layout.align + SLAB, STEP)

----------------------------------------------------------------------------
HeapInit == h = Empty /\ live = {} /\ maps = <<>> /\ short = FALSE /\ asked = 0

HandOut(a, layout) ==
    /\ h' = a.h
    /\ live' = IF a.at = NoPlace THEN live ELSE live \cup {[at |-> a.at, layout |-> layout]}

\* alloc_growing: mem_map may put the memory right after the heap's last
\* region, or apart from it, or have nothing.
AllocGrowing(layout, gap) ==
    LET at == (IF maps = <<>> THEN PAGES ELSE Last(maps)[1] + Last(maps)[2]) + gap
        retry(a) == HandOut(a, layout) /\ short' = (short \/ a.at = NoPlace)
        first(a) == IF a.at # NoPlace THEN HandOut(a, layout) /\ UNCHANGED <<maps, short>>
                    ELSE /\ Len(maps) < REGIONS
                         /\ maps' = Append(maps, <<at, GrowSize(layout)>>)
                         /\ retry(HeapAlloc(AddRegion(h, at, GrowSize(layout)), layout))
    IN  /\ asked < ALLOCS /\ asked' = asked + 1
        /\ first(HeapAlloc(h, layout))

Release(b) ==
    /\ h' = Dealloc(h, b.at, b.layout)
    /\ live' = live \ {b}
    /\ UNCHANGED <<maps, short, asked>>

HeapNext == \/ \E layout \in Layouts, gap \in {0, SLAB} : AllocGrowing(layout, gap)
            \/ \E b \in live : Release(b)

HeapSpec == HeapInit /\ [][HeapNext]_hvars

----------------------------------------------------------------------------
\* The bytes of a block, as its layout gives them to dealloc again
Size(layout) == IF ClassOf(layout) # 0 THEN SIZE_CLASSES[ClassOf(layout)] ELSE LargeSize(layout)
Bytes(at, size) == at .. at + size - 1

\* Every byte the heap was given is in exactly one place: a block that was
\* handed out, aligned as asked for, a free small block, or a free large
\* one; whatever was freed in whatever order, the large ones are sorted and
\* merged, and the counts agree. A heap that has grown for a layout serves
\* it: grow_size leaves room for any alignment and for a slab.
HeapSound ==
    LET blocks == {Bytes(b.at, Size(b.layout)) : b \in live}
        smalls == UNION {{Bytes(h.classes[c][k], SIZE_CLASSES[c]) : k \in DOMAIN h.classes[c]} : c \in DOMAIN h.classes}
        larges == {Bytes(h.large[i][1], h.large[i][2]) : i \in DOMAIN h.large}
        given == UNION {Bytes(r[1], r[2]) : r \in Range(maps)}
        sum(sets) == MapThenSumSet(Cardinality, sets)
    IN  /\ UNION (blocks \cup smalls \cup larges) = given
        /\ sum(blocks) + sum(smalls) + sum(larges) = Cardinality(given)
        /\ Cardinality(blocks) = Cardinality(live)
        /\ \A b \in live : b.at % b.layout.align = 0
        /\ h.used = sum(blocks) /\ h.total = Cardinality(given)
        /\ FreeLarge(h) = sum(larges)
        /\ \A i \in 1 .. Len(h.large) - 1 : h.large[i][1] + h.large[i][2] < h.large[i + 1][1]
        /\ ~short
=============================================================================
