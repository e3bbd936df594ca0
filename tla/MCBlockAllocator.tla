-------------------------- MODULE MCBlockAllocator --------------------------
(***************************************************************************)
(* The kernel heap at a scale TLC can explore: BlockPages of 2 sections of *)
(* 2 bits, 2-byte blocks, 2 BlockPages per page of map storage, and ten    *)
(* frames of physical memory of which three are reserved at boot.         *)
(***************************************************************************)
EXTENDS BlockAllocator

\* Frame 0 (null), frame 1 (conventional: holds the frame bitmap), frame 2
\* (firmware runtime), frames 3..9 conventional.
HeapMap ==
    << [ty |-> "conventional", start |-> 1, count |-> 1],
       [ty |-> "runtime", start |-> 2, count |-> 1],
       [ty |-> "conventional", start |-> 3, count |-> 7] >>

\* The loader's stack: the runtime frame 2.
LoaderStack == <<2>>

\* A firmware region above conventional memory: frame 7 (runtime) holds
\* the loader's stack, so the heap places the new stack below the old one.
HeapMapHighStack ==
    << [ty |-> "conventional", start |-> 1, count |-> 1],
       [ty |-> "conventional", start |-> 2, count |-> 5],
       [ty |-> "runtime", start |-> 7, count |-> 1],
       [ty |-> "conventional", start |-> 8, count |-> 2] >>

LoaderStackHigh == <<7>>

\* The loader's stack over two firmware runtime frames, 2 and 3, below
\* conventional memory 4..11: the copy loop runs twice and rsp can sit in
\* the second frame.
HeapMapTwoFrameStack ==
    << [ty |-> "conventional", start |-> 1, count |-> 1],
       [ty |-> "runtime", start |-> 2, count |-> 2],
       [ty |-> "conventional", start |-> 4, count |-> 8] >>

LoaderStackTwoFrames == <<2, 3>>

\* The blocks whose bits are set in a sequence of BlockPages.
UsedBlocks(pages) ==
    {m * BLOCK_COUNT + s * SECTION_LEN + b :
        <<m, s, b>> \in {<<m, s, b>> \in (0 .. Len(pages) - 1) \X Sections \X Bits :
                            b \in pages[m + 1][s]}}

\* The blocks an allocation [start, size] covers.
Blocks(a) == a.start .. a.start + CeilDiv(a.size, BLOCK_SIZE) - 1

\* The allocations held, tagged with the CPU holding them, and init's
\* stack, tagged None.
Held == UNION {{<<c, a>> : a \in live[c]} : c \in CPUS}
            \cup (IF kstack = None THEN {} ELSE {<<None, kstack>>})

\* Heap pages backed by RAM frames: not boot identity mappings and not
\* mapped by alloc_to to a caller's device frames.
HeapPages == {p \in DOMAIN mapping \ BootReserved : mapping[p] \in Frames}

\* First fit: the lowest block index k with k % stride = 0 that starts a
\* run of n clear bits inside the map, or None.
RefFirstFit(pages, n, stride) ==
    LET used == UsedBlocks(pages)
        fits == {k \in 0 .. Len(pages) * BLOCK_COUNT - n :
                    k % stride = 0 /\ \A i \in k .. k + n - 1 : i \notin used}
    IN  IF fits = {} THEN None ELSE Min(fits)

\* A search step agrees with first fit at the given stride.
SearchAgrees(stride(_)) ==
    \A c \in CPUS :
        (pc[c] = "search" /\ pc'[c] \in {"grow", "lock"}) =>
            LET ref == RefFirstFit(map, req[c].blocks, stride(req[c]))
            IN  IF ref = None THEN pc'[c] = "grow"
                ELSE /\ pc'[c] = "lock"
                     /\ cur'[c] = [start |-> ref, end |-> ref + req[c].blocks]

\* The heap as HeapContract sees it.  An alloc is in progress from the
\* request until the marking loop ends (including the grows its search loop
\* asks for); it returns at AllocDone, a dealloc takes effect when it takes
\* map.write(), and alloc_to hands its pages out at AllocToMap.  init's
\* alloc of its stack is no caller's: the contract stutters through it.
AllocPending(c) ==
    /\ kstack # None
    /\ \/ pc[c] \in {"search", "lock", "mark"}
       \/ pc[c] \in {"grow", "growing"} /\ req[c].ret = "search"

Contract == INSTANCE HeapContract WITH
    Callers <- CPUS,
    RegionLengths <- AllocToCounts,
    HeapBlocks <- 0 .. ElementCount * BLOCK_PAGES_PER_MAP_PAGE * BLOCK_COUNT - 1,
    Reserved <- {b \in 0 .. ElementCount * BLOCK_PAGES_PER_MAP_PAGE * BLOCK_COUNT - 1 :
                    b \div BLOCK_COUNT \in BootReserved},
    requested <- [c \in CPUS |-> IF AllocPending(c)
                                 THEN [size |-> req[c].size, align |-> req[c].align]
                                 ELSE None],
    held <- live,
    mapped <- {[start |-> r.start, pages |-> Len(r.frames)] : r \in UNION {regions[c] : c \in CPUS}}

-----------------------------------------------------------------------------

TypeOK ==
    /\ FA_TypeOK
    /\ map \in Seq([Sections -> SUBSET Bits])
    /\ mapping \in [DOMAIN mapping -> Nat]
    /\ writer \in CPUS \cup {None}
    /\ upgrader \in CPUS \cup {None}
    /\ addressor \in CPUS \cup {None}
    /\ pc \in [CPUS -> {"idle", "search", "grow", "growing", "lock", "mark", "free",
                        "to_search", "to_addressor", "to_lock", "relocate"}]
    /\ rsp \in Nat
    /\ kstack \in [start : Nat, size : Nat, align : Nat] \cup {None}
    /\ \A c \in CPUS : live[c] \subseteq
           [start : Nat, size : Sizes, align : Aligns]

\* Allocations stay allocated (alloc's marking loop, dealloc, grow): every
\* block of every allocation a CPU holds is set in the map, no two held
\* allocations share a block, and none lies in a boot identity-mapped page.
\* Broken by a loop that marks the wrong bits, a dealloc clearing another
\* allocation's bits, or a grow that loses the map.
AllocationsHeld ==
    panic = None =>
        /\ \A h \in Held : Blocks(h[2]) \subseteq UsedBlocks(map)
        /\ \A h, g \in Held : h # g => Blocks(h[2]) \cap Blocks(g[2]) = {}
        /\ \A h \in Held : \A b \in Blocks(h[2]) : b \div BLOCK_COUNT \notin BootReserved

\* A heap page is backed iff it is in use (should_alloc / should_dealloc
\* hysteresis): once init has returned, a BlockPage has a set bit exactly
\* when its page is mapped, except the loader's stack pages, which init
\* unmaps and leaves full.
PageBackedIffUsed ==
    (panic = None /\ BootDone) =>
        \A m \in 0 .. Len(map) - 1 :
            IF m \in StackPages THEN IsFull(map[m + 1]) /\ m \notin DOMAIN mapping
            ELSE ~IsEmpty(map[m + 1]) <=> m \in DOMAIN mapping

\* Frame ownership across the two allocators (grow, alloc, dealloc,
\* lock_next, free_frame): the Allocated frames are exactly the frames
\* backing heap pages and the frames storing the map, each used once.
HeapFrameOwnership ==
    panic = None =>
        /\ {f \in Frames : fstate[f] = "Allocated"}
              = {mapping[m] : m \in HeapPages} \cup Range(meta)
        /\ Cardinality({f \in Frames : fstate[f] = "Allocated"})
              = Cardinality(HeapPages) + Len(meta)

\* alloc's three-tier search (full page, full section, bit) finds the same
\* run as a plain first-fit over block indices, with runs starting where
\* block_index % alignment = 0, and grows exactly when there is none.
SearchIsFirstFit == [][SearchAgrees(LAMBDA r : r.alignment)]_vars

\* init's stack move (the heap allocation of the new stack, the signed
\* rsp adjustment, the unmapping of the loader's stack) leaves the CPU on
\* the new stack at the offset it had in the old one (the offset is taken
\* from the first loader frame only, the OnceCell's first set), inside the
\* STACK_SIZE allocation the copy loop fills, and that stack stays
\* usable while alloc, dealloc and grow run on every CPU: each of its pages
\* stays mapped to a frame the heap took from lock_next.
KernelStackLive ==
    (panic = None /\ BootDone) =>
        /\ rsp - kstack.start * BLOCK_SIZE = BOOT_RSP_OFFSET
        /\ rsp < kstack.start * BLOCK_SIZE + kstack.size
        /\ \A p \in (kstack.start * BLOCK_SIZE) \div PAGE_BYTES ..
                    (kstack.start * BLOCK_SIZE + kstack.size - 1) \div PAGE_BYTES :
              p \in DOMAIN mapping /\ mapping[p] \in Frames /\ fstate[mapping[p]] = "Allocated"

\* alloc and dealloc never fail their asserts: no allocation reuses bits
\* already set, no deallocation clears bits already clear.
NoAssertPanic ==
    panic \notin {"attempting to allocate blocks that are already allocated",
                  "attempting to deallocate blocks that are already deallocated"}

\* Every alloc and every alloc_to that starts searching returns (or the
\* kernel has panicked, e.g. out of frames in grow): the search / grow
\* loops terminate and every lock taken on the way is released.
AllocCompletes ==
    \A c \in CPUS : pc[c] \in {"search", "to_search"} ~> (pc[c] = "idle" \/ panic # None)

\* No lock-order deadlock between alloc, dealloc, grow and alloc_to: while
\* any CPU is inside the heap, some CPU inside it can take its next step
\* (the map's write and upgradeable locks and the addressor's write lock
\* are never each held by one CPU and awaited by another in a cycle).
SomeCpuProgresses ==
    (panic = None /\ \E c \in CPUS : pc[c] # "idle") => \E c \in CPUS : CanStep(c)

\* An MMIO region stays what alloc_to made it while alloc, dealloc and grow
\* run around it: its pages stay full, so no search hands them out, and
\* each stays mapped to one of the region's own frames, never to a RAM
\* frame of the heap.
MmioRegionIntact ==
    panic = None =>
        \A c \in CPUS : \A r \in regions[c] : \A p \in r.start .. r.start + Len(r.frames) - 1 :
            /\ p < Len(map)
            /\ IsFull(map[p + 1])
            /\ p \in DOMAIN mapping
            /\ mapping[p] \in Range(r.frames)

\* Spec round trip: an MMIO read or write mapped_offset accepts touches,
\* byte for byte, the region's own frames in order (byte b of the region
\* lies in frame b div 0x1000), never a frame past the region's end.
MmioAccessTranslates ==
    \A c \in CPUS : access[c] # None /\ access[c].ok =>
        \A b \in DOMAIN access[c].frames :
            /\ b \div PAGE_BYTES < Len(access[c].region.frames)
            /\ access[c].frames[b] = access[c].region.frames[b \div PAGE_BYTES + 1]

\* The heap implements its contract (alloc, dealloc, alloc_to, with the
\* search, grow and marking steps in between): every allocation returned
\* has the requested size and a byte address aligned as requested, and
\* shares no block with a boot page, another held allocation or an MMIO
\* region; every region's pages share none either.  Broken by a marking
\* loop that leaves bits clear, so a later search hands the blocks out again.
\* (Contract!HC_Spec, with the contract's stuttering step written first:
\* TLC tries the disjuncts in order, and most heap steps are stutters.)
ImplementsContract ==
    /\ Contract!HC_Init
    /\ [][UNCHANGED Contract!hc_vars \/ Contract!HC_Next]_(Contract!hc_vars)

==============================================================================
