--------------------------- MODULE BlockAllocator ---------------------------
(***************************************************************************)
(* The kernel heap of kernel/src/block_malloc.rs.  The frame allocator it *)
(* calls, libkernel's falloc, is not in the repository: FrameAllocator's   *)
(* bitmap stands in for it, reached only through spec 4.1's contract      *)
(* (lock_next and free_frame as compare-and-sets of one frame), never     *)
(* through FrameAllocator's own byte counters.                             *)
(*                                                                         *)
(* State: the BlockPage map (one bitmap of SECTION_COUNT sections of       *)
(* SECTION_LEN bits per heap page), the virtual addressor's page->frame    *)
(* mappings of heap pages, the frames backing the map itself (mapped at    *)
(* ALLOCATOR_BASE), the map's RwLock, and per CPU the call it is in.       *)
(*                                                                         *)
(* alloc and dealloc are split where the code takes or drops a lock: the  *)
(* search holds the read lock only while it scans, grow runs under the    *)
(* upgradeable lock, the marking loop holds the write lock over all its   *)
(* pages, one step per page (each page may call lock_next/free_frame and   *)
(* the addressor).                                                          *)
(***************************************************************************)
EXTENDS FrameAllocator, FiniteSets

CONSTANTS
    CPUS,                     \* the CPUs calling into the heap
    SECTION_COUNT,            \* sections per BlockPage (4)
    SECTION_LEN,              \* bits per section (64)
    BLOCK_SIZE,               \* bytes per block, also MINIMUM_ALIGNMENT (16)
    BLOCK_PAGES_PER_MAP_PAGE, \* BlockPages in one page of map storage (128)
    Sizes,                    \* layout sizes callers pass to alloc, in bytes
    Aligns,                   \* layout alignments callers pass to alloc
    MaxLive,                  \* bound: allocations one CPU holds at a time
    AllocToCounts,            \* frame counts of the MMIO regions alloc_to maps
    MmioOffsets,              \* byte offsets MMIO reads and writes are made at
    MmioSizes,                \* size_of::<T>() of the values read or written
    MaxRegions,               \* bound: MMIO regions one CPU maps
    StackFrames,              \* the loader's stack: init's FrameIterator
    STACK_PAGES,              \* pages of the stack init allocates (256)
    BOOT_RSP_OFFSET           \* where rsp points in the loader's stack

ASSUME /\ SECTION_COUNT \in Nat \ {0}
       /\ SECTION_LEN \in Nat \ {0}
       /\ BLOCK_SIZE \in Nat \ {0}
       /\ BLOCK_PAGES_PER_MAP_PAGE \in Nat \ {0}

VARIABLES
    map,        \* Seq of BlockPage: map[m + 1] is heap page m
    mapping,    \* the addressor: heap page -> frame, for mapped pages
    meta,       \* Seq of frames mapped at ALLOCATOR_BASE.offset(i - 1)
    writer,     \* the CPU holding map's write lock, or None
    upgrader,   \* the CPU holding map's upgradeable read lock (grow), or None
    addressor,  \* the CPU holding the addressor's write lock, or None
    pending,    \* reserved frames init has still to identity_map
    pc,         \* CPU -> where it is in alloc or dealloc
    req,        \* CPU -> the alloc request being served
    cur,        \* CPU -> the marking loop's cursor
    live,       \* CPU -> the allocations it holds: [start (block), size]
    regions,    \* CPU -> its mapped MMIO regions: [start (page), frames]
    access,     \* CPU -> its latest MMIO access: region, offset, size, result
    rsp,        \* the stack pointer of the CPU running init
    kstack      \* the stack init allocates: [start (block), size, align], or None

vars == <<fstate, memory, panic, map, mapping, meta, writer, upgrader,
          addressor, pending, pc, req, cur, live, regions, access, rsp, kstack>>

\* The variables only init changes.
init_vars == <<pending, rsp, kstack>>

\* The variables only alloc_to and the MMIO accesses change.
mmio_vars == <<addressor, regions, access>>

BLOCK_COUNT == SECTION_COUNT * SECTION_LEN
BLOCKS_PER_MAP_PAGE == BLOCK_PAGES_PER_MAP_PAGE * BLOCK_COUNT
MINIMUM_ALIGNMENT == BLOCK_SIZE

\* Bytes per heap page: one BlockPage of blocks.
PAGE_BYTES == BLOCK_COUNT * BLOCK_SIZE

\* The loader's stack is a FrameIterator: a nonempty run of frames; rsp
\* points into it when init runs.
ASSUME /\ StackFrames # <<>>
       /\ \A i \in DOMAIN StackFrames : StackFrames[i] = StackFrames[1] + i - 1
       /\ BOOT_RSP_OFFSET \in 0 .. Len(StackFrames) * PAGE_BYTES - 1

Sections == 0 .. SECTION_COUNT - 1
Bits == 0 .. SECTION_LEN - 1

\* A BlockPage: section index -> the set bits of that u64.
EmptyPage == [s \in Sections |-> {}]
FullPage == [s \in Sections |-> Bits]
IsEmpty(page) == \A s \in Sections : page[s] = {}
IsFull(page) == \A s \in Sections : page[s] = Bits

\* align_up_div
CeilDiv(a, b) == (a + b - 1) \div b

NextPowerOfTwo(n) ==
    LET RECURSIVE Up(_)
        Up(p) == IF p >= n THEN p ELSE Up(2 * p)
    IN  Up(1)

\* The k lowest Unallocated frames: what k successive lock_next calls lock.
LowestFree(k) ==
    LET free == {f \in Frames : fstate[f] = "Unallocated"}
    IN  {f \in free : Cardinality({g \in free : g < f}) < k}

\* falloc::get().free_frame(frame).unwrap(): spec 4.1's free, a set_eq of
\* the frame from Allocated to Unallocated; a mismatch is an Err, and the
\* unwrap panics.  falloc's counters are its own and are left alone.
falloc_free_frame(f) ==
    \/ /\ SetEq(f, "Unallocated", "Allocated")
       /\ UNCHANGED <<memory, panic>>
    \/ /\ fstate[f] # "Allocated"
       /\ panic' = "called Result::unwrap() on an Err value"
       /\ UNCHANGED <<fstate, memory>>

\* The CPU running init, and the heap pages of the loader's stack (the
\* loader's frames, identity-mapped: page i is frame i).
BootCpu == CHOOSE c \in CPUS : TRUE
StackPages == Range(StackFrames)

\* After swap_into init keeps running on the loader's stack, which the new
\* addressor maps only if its frames are reserved.
ASSUME StackPages \subseteq BootReserved

\* init has returned: its identity_map calls are done, the new stack is
\* allocated and the CPU runs on it.
BootDone == pending = <<>> /\ kstack # None /\ pc[BootCpu] # "relocate"

-----------------------------------------------------------------------------
(* grow(required_blocks): map storage pages grow to the next power of two; *)
(* each new storage page is a frame from lock_next().unwrap().             *)

GrowTarget(required) ==
    LET cur_page_offset == (Len(map) * BLOCK_COUNT) \div BLOCKS_PER_MAP_PAGE
    IN  [from |-> cur_page_offset,
         to |-> NextPowerOfTwo(cur_page_offset + CeilDiv(required, BLOCKS_PER_MAP_PAGE))]

\* The state grow(required) leaves: fstate, meta, map and panic.  A short
\* supply of frames panics in the unwrap after the frames it did lock.
grow(required) ==
    LET t == GrowTarget(required)
        want == t.to - t.from
        got == LowestFree(want)
    IN  [fstate |-> [f \in Frames |-> IF f \in got THEN "Allocated" ELSE fstate[f]],
         meta |-> meta \o SetToSortSeq(got, <),
         map |-> IF Cardinality(got) = want
                 THEN map \o [i \in 1 .. t.to * BLOCK_PAGES_PER_MAP_PAGE - Len(map)
                                 |-> EmptyPage]
                 ELSE map,
         panic |-> IF Cardinality(got) = want THEN None
                   ELSE "called unwrap on a None value"]

\* Take a state record of grow (or the unchanged state) as the next state.
GrowTo(g) ==
    /\ fstate' = g.fstate
    /\ meta' = g.meta
    /\ map' = g.map
    /\ panic' = g.panic

Unchanged == [fstate |-> fstate, meta |-> meta, map |-> map, panic |-> panic]

-----------------------------------------------------------------------------
(* init: identity_map(frame, false) of every reserved frame, in order.     *)

\* identity_map(frame, false): grow to cover the frame's page, then make
\* the page full (set_empty, an assert that cannot fail, set_full).
identity_map(f) ==
    LET g == IF Len(map) <= f THEN grow((f - Len(map) + 1) * BLOCK_COUNT)
             ELSE Unchanged
    IN  IF g.panic # None THEN g
        ELSE [g EXCEPT !.map[f + 1] = FullPage]

BootIdentityMap ==
    /\ panic = None
    /\ pending # <<>>
    /\ GrowTo(identity_map(Head(pending)))
    /\ pending' = Tail(pending)
    /\ UNCHANGED <<upgrader, mmio_vars, memory, mapping, writer, pc, req, cur, live,
                   rsp, kstack>>

-----------------------------------------------------------------------------
(* alloc's search, under map.read(): pages, then u64 sections, then bits.  *)
(* A full page or a full section advances the cursor without looking at   *)
(* its bits; a clear bit extends the current run, or starts one where     *)
(* block_index % alignment = 0; the scan stops once the run is long       *)
(* enough.  The result is the cursor and the run length at that point.    *)

\* Variant: a run may start at any clear bit, without the
\* block_index % alignment test.
SearchNoAlignCheck(pages, size_in_blocks, alignment) ==
    LET BitStep(st, bit) ==
            IF st.done THEN st
            ELSE LET run == IF bit THEN 0 ELSE st.run + 1
                 IN  [index |-> st.index + 1, run |-> run,
                      done |-> run = size_in_blocks]
        SectionStep(st, section) ==
            IF st.done THEN st
            ELSE IF section = Bits
                 THEN [st EXCEPT !.run = 0, !.index = @ + SECTION_LEN]
                 ELSE FoldLeft(BitStep, st, [i \in 1 .. SECTION_LEN |-> (i - 1) \in section])
        PageStep(st, page) ==
            IF st.done THEN st
            ELSE IF IsFull(page)
                 THEN [st EXCEPT !.run = 0, !.index = @ + BLOCK_COUNT]
                 ELSE FoldLeft(SectionStep, st, [i \in 1 .. SECTION_COUNT |-> page[i - 1]])
    IN  FoldLeft(PageStep, [index |-> 0, run |-> 0, done |-> FALSE], pages)

Search(pages, size_in_blocks, alignment) ==
    LET BitStep(st, bit) ==
            IF st.done THEN st
            ELSE LET run == IF bit THEN 0
                            ELSE IF st.run > 0 \/ st.index % alignment = 0
                                 THEN st.run + 1 ELSE st.run
                 IN  [index |-> st.index + 1, run |-> run,
                      done |-> run = size_in_blocks]
        SectionStep(st, section) ==
            IF st.done THEN st
            ELSE IF section = Bits
                 THEN [st EXCEPT !.run = 0, !.index = @ + SECTION_LEN]
                 ELSE FoldLeft(BitStep, st, [i \in 1 .. SECTION_LEN |-> (i - 1) \in section])
        PageStep(st, page) ==
            IF st.done THEN st
            ELSE IF IsFull(page)
                 THEN [st EXCEPT !.run = 0, !.index = @ + BLOCK_COUNT]
                 ELSE FoldLeft(SectionStep, st, [i \in 1 .. SECTION_COUNT |-> page[i - 1]])
    IN  FoldLeft(PageStep, [index |-> 0, run |-> 0, done |-> FALSE], pages)

-----------------------------------------------------------------------------
(* The marking loops of alloc and dealloc, one BlockPage at a time.        *)

\* Variant: bit_count without the "- bit_offset", so a run that starts
\* mid-section covers bits past the section's end.
calculate_bit_fields_long(m, s, end, block_index) ==
    LET traversed == m * BLOCK_COUNT + s * SECTION_LEN
        bit_offset == block_index - traversed
        bit_count == Min({SECTION_LEN, end - traversed})
    IN  [count |-> bit_count, mask |-> bit_offset .. bit_offset + bit_count - 1]

\* Variant: bit_count one short.
calculate_bit_fields_short(m, s, end, block_index) ==
    LET traversed == m * BLOCK_COUNT + s * SECTION_LEN
        bit_offset == block_index - traversed
        bit_count == Min({SECTION_LEN, end - traversed}) - bit_offset - 1
    IN  [count |-> bit_count, mask |-> bit_offset .. bit_offset + bit_count - 1]

\* calculate_bit_fields: how many bits of section s of page m the range
\* [block_index, end) covers from block_index on, and those bits.
calculate_bit_fields(m, s, end, block_index) ==
    LET traversed == m * BLOCK_COUNT + s * SECTION_LEN
        remaining == end - traversed
        bit_offset == block_index - traversed
        bit_count == Min({SECTION_LEN, remaining}) - bit_offset
    IN  [count |-> bit_count, mask |-> bit_offset .. bit_offset + bit_count - 1]

\* The section loop over page m of the map.  alloc ORs each mask in after
\* asserting its bits clear; dealloc XORs it out after asserting them set.
\* Returns the new page, had_bits/has_bits per section, the advanced
\* block_index and initial_section_skip, and whether an assert failed.
MarkSections(m, end, block_index, skip, dealloc) ==
    LET Step(st, s) ==
            IF st.failed THEN st
            ELSE LET sec == st.page[s]
                     bf == calculate_bit_fields(m, s, end, st.block_index)
                     touch == st.skip = 0 /\ st.block_index < end
                     ok == IF dealloc THEN bf.mask \subseteq sec
                           ELSE sec \cap bf.mask = {}
                     new == IF ~touch THEN sec
                            ELSE IF dealloc THEN (sec \ bf.mask) \cup (bf.mask \ sec)
                            ELSE sec \cup bf.mask
                 IN  IF touch /\ ~ok THEN [st EXCEPT !.failed = TRUE]
                     ELSE [st EXCEPT !.page[s] = new,
                                     !.had[s] = (sec # {}),
                                     !.has[s] = (new # {}),
                                     !.skip = IF @ > 0 THEN @ - 1 ELSE @,
                                     !.block_index = IF touch THEN @ + bf.count ELSE @]
    IN  FoldLeft(Step, [page |-> map[m + 1],
                        had |-> [s \in Sections |-> FALSE],
                        has |-> [s \in Sections |-> FALSE],
                        block_index |-> block_index, skip |-> skip, failed |-> FALSE],
                 [i \in 1 .. SECTION_COUNT |-> i - 1])

\* Variant: should_alloc without its all(...) conjunct.
should_alloc_any(had, has) == \E s \in Sections : ~had[s] /\ has[s]

\* SectionState::should_alloc: some section went empty -> nonempty and
\* every other section is that or stayed empty.
should_alloc(had, has) ==
    /\ \E s \in Sections : ~had[s] /\ has[s]
    /\ \A s \in Sections : (~had[s] /\ has[s]) \/ (~had[s] /\ ~has[s])

\* Variant: should_dealloc without its all(...) conjunct.
should_dealloc_any(had, has) == \E s \in Sections : had[s] /\ ~has[s]

\* SectionState::should_dealloc: the mirror image.
should_dealloc(had, has) ==
    /\ \E s \in Sections : had[s] /\ ~has[s]
    /\ \A s \in Sections : (had[s] /\ ~has[s]) \/ (~had[s] /\ ~has[s])

\* The loop's cursor on entry: skip(start_map_index), take(...) bounded by
\* the map's length, and initial_section_skip.
Cursor(start, end) ==
    LET start_map_index == start \div BLOCK_COUNT
    IN  [start |-> start, end |-> end, block_index |-> start,
         map_index |-> start_map_index,
         last |-> Min({CeilDiv(end, BLOCK_COUNT), Len(map)}),
         skip |-> start \div SECTION_LEN - start_map_index * SECTION_COUNT]

-----------------------------------------------------------------------------
(* Init: from_mmap has run, the addressor has identity-mapped every        *)
(* reserved frame, and init's identity_map(frame, false) calls are pending. *)

Init ==
    /\ FA_Init
    /\ map = <<>>
    /\ mapping = [f \in BootReserved |-> f]
    /\ meta = <<>>
    /\ writer = None
    /\ pending = SetToSortSeq(BootReserved, <)
    /\ pc = [c \in CPUS |-> "idle"]
    /\ req = [c \in CPUS |-> None]
    /\ cur = [c \in CPUS |-> None]
    /\ live = [c \in CPUS |-> {}]
    /\ upgrader = None
    /\ addressor = None
    /\ regions = [c \in CPUS |-> {}]
    /\ access = [c \in CPUS |-> None]
    /\ rsp = StackFrames[1] * PAGE_BYTES + BOOT_RSP_OFFSET
    /\ kstack = None

Ready == panic = None /\ BootDone

-----------------------------------------------------------------------------
(* alloc(layout)                                                            *)

\* map.read() and map.write() wait while another CPU holds the write lock or
\* the upgradeable lock (spin's RwLock turns readers away from an upgrader).
MapFree == writer = None /\ upgrader = None

\* Variant: the layout's alignment dropped, every block index accepted.
AllocRequestAnyAlign(c, size, align) ==
    /\ Ready
    /\ pc[c] = "idle"
    /\ Cardinality(live[c]) < MaxLive
    /\ req' = [req EXCEPT ![c] =
                 [size |-> size, align |-> align,
                  blocks |-> CeilDiv(size, BLOCK_SIZE), alignment |-> 1,
                  need |-> CeilDiv(size, BLOCK_SIZE), ret |-> "search"]]
    /\ pc' = [pc EXCEPT ![c] = "search"]
    /\ UNCHANGED <<upgrader, mmio_vars, fa_vars, map, mapping, meta, writer, init_vars, cur, live>>

\* The request: size in blocks, and the alignment that replaces one that is
\* not a multiple of MINIMUM_ALIGNMENT.  need and ret are what the search
\* loop passes to grow and where it resumes.
Layout(size, align) ==
    [size |-> size, align |-> align,
     blocks |-> CeilDiv(size, BLOCK_SIZE),
     alignment |-> IF align % MINIMUM_ALIGNMENT = 0 THEN align ELSE MINIMUM_ALIGNMENT,
     need |-> CeilDiv(size, BLOCK_SIZE), ret |-> "search"]

AllocRequest(c, size, align) ==
    /\ Ready
    /\ pc[c] = "idle"
    /\ Cardinality(live[c]) < MaxLive
    /\ req' = [req EXCEPT ![c] = Layout(size, align)]
    /\ pc' = [pc EXCEPT ![c] = "search"]
    /\ UNCHANGED <<upgrader, mmio_vars, fa_vars, map, mapping, meta, writer, init_vars, cur, live>>

\* One pass of the search loop under map.read(); the guard drops with it.
AllocSearch(c) ==
    LET r == Search(map, req[c].blocks, req[c].alignment)
    IN  /\ panic = None
        /\ pc[c] = "search"
        /\ MapFree
        /\ IF r.run < req[c].blocks
           THEN /\ pc' = [pc EXCEPT ![c] = "grow"]
                /\ UNCHANGED cur
           ELSE /\ pc' = [pc EXCEPT ![c] = "lock"]
                /\ cur' = [cur EXCEPT ![c] = [start |-> r.index - r.run,
                                               end |-> r.index]]
        /\ UNCHANGED <<upgrader, mmio_vars, fa_vars, map, mapping, meta, writer, init_vars, req, live>>

\* grow: map.upgradeable_read(), held while it waits for the addressor.
GrowLock(c) ==
    /\ panic = None
    /\ pc[c] = "grow"
    /\ MapFree
    /\ upgrader' = c
    /\ pc' = [pc EXCEPT ![c] = "growing"]
    /\ UNCHANGED <<mmio_vars, fa_vars, map, mapping, meta, writer, init_vars, req, cur, live>>

\* Variant: the retry loop goes round without growing the map.
AllocGrowSkipped(c) ==
    /\ panic = None
    /\ pc[c] = "growing"
    /\ addressor = None
    /\ upgrader' = None
    /\ pc' = [pc EXCEPT ![c] = req[c].ret]
    /\ UNCHANGED <<mmio_vars, fa_vars, map, mapping, meta, writer, init_vars, req, cur, live>>

\* The rest of grow(need): the addressor's write lock maps the new storage
\* pages, the upgrade resizes the map, both guards drop; the caller's
\* search loop goes round again.
AllocGrow(c) ==
    /\ panic = None
    /\ pc[c] = "growing"
    /\ addressor = None
    /\ GrowTo(grow(req[c].need))
    /\ upgrader' = None
    /\ pc' = [pc EXCEPT ![c] = req[c].ret]
    /\ UNCHANGED <<mmio_vars, memory, mapping, writer, init_vars, req, cur, live>>

\* map.write() for the marking loop, over the run the search found.
AllocLock(c) ==
    /\ panic = None
    /\ pc[c] = "lock"
    /\ MapFree
    /\ writer' = c
    /\ cur' = [cur EXCEPT ![c] = Cursor(cur[c].start, cur[c].end)]
    /\ pc' = [pc EXCEPT ![c] = "mark"]
    /\ UNCHANGED <<upgrader, mmio_vars, fa_vars, map, mapping, meta, init_vars, req, live>>

\* One BlockPage of the marking loop: OR the run's bits in (asserting they
\* were clear); a page that went empty -> nonempty is mapped to the frame
\* lock_next().unwrap() returns.
AllocMarkPage(c) ==
    LET k == cur[c]
        m == k.map_index
        ms == MarkSections(m, k.end, k.block_index, k.skip, FALSE)
    IN  /\ panic = None
        /\ pc[c] = "mark"
        /\ k.map_index < k.last
        /\ (~ms.failed /\ should_alloc(ms.had, ms.has)) => addressor = None
        /\ IF ms.failed
           THEN /\ panic' = "attempting to allocate blocks that are already allocated"
                /\ UNCHANGED <<fstate, memory, map, mapping, cur>>
           ELSE /\ map' = [map EXCEPT ![m + 1] = ms.page]
                /\ cur' = [cur EXCEPT ![c] = [k EXCEPT !.map_index = @ + 1,
                                                        !.block_index = ms.block_index,
                                                        !.skip = ms.skip]]
                /\ IF should_alloc(ms.had, ms.has)
                   THEN \/ /\ lock_next
                           /\ mapping' = [p \in DOMAIN mapping \cup {m} |->
                                            IF p = m THEN NextUnallocated ELSE mapping[p]]
                        \/ /\ NextUnallocated = None
                           /\ panic' = "called unwrap on a None value"
                           /\ UNCHANGED <<fstate, memory, mapping>>
                   ELSE UNCHANGED <<fstate, memory, panic, mapping>>
        /\ UNCHANGED <<upgrader, mmio_vars, meta, writer, init_vars, pc, req, live>>

\* The pointer returned: to a caller, which holds the allocation, or to
\* init, which moves onto it.
Returned(c) ==
    LET a == [start |-> cur[c].start, size |-> req[c].size, align |-> req[c].align]
    IN  IF kstack = None
        THEN /\ kstack' = a
             /\ pc' = [pc EXCEPT ![c] = "relocate"]
             /\ UNCHANGED live
        ELSE /\ live' = [live EXCEPT ![c] = @ \cup {a}]
             /\ pc' = [pc EXCEPT ![c] = "idle"]
             /\ UNCHANGED kstack

\* Variant: the write guard is kept after the loop.
AllocDoneKeepsLock(c) ==
    /\ panic = None
    /\ pc[c] = "mark"
    /\ cur[c].map_index = cur[c].last
    /\ Returned(c)
    /\ UNCHANGED <<upgrader, mmio_vars, fa_vars, map, mapping, meta, writer, pending, rsp, req, cur>>

\* The loop ends, the write guard drops, the pointer is returned.
AllocDone(c) ==
    /\ panic = None
    /\ pc[c] = "mark"
    /\ cur[c].map_index = cur[c].last
    /\ writer' = None
    /\ Returned(c)
    /\ UNCHANGED <<upgrader, mmio_vars, fa_vars, map, mapping, meta, pending, rsp, req, cur>>

-----------------------------------------------------------------------------
(* init, after its identity_map calls: alloc a STACK_SIZE stack, copy the  *)
(* loader's stack frames into it in order, move rsp by the signed offset   *)
(* between the two bases, and unmap the loader's stack pages.              *)

\* self.alloc(Layout::from_size_align(STACK_SIZE, BLOCK_SIZE)), on the
\* search / grow / mark path of any alloc; its Returned step leaves the
\* CPU at "relocate".
BootStackAlloc ==
    /\ panic = None
    /\ pending = <<>>
    /\ kstack = None
    /\ pc[BootCpu] = "idle"
    /\ req' = [req EXCEPT ![BootCpu] = Layout(STACK_PAGES * PAGE_BYTES, BLOCK_SIZE)]
    /\ pc' = [pc EXCEPT ![BootCpu] = "search"]
    /\ UNCHANGED <<upgrader, mmio_vars, fa_vars, map, mapping, meta, writer, init_vars, cur, live>>

\* Variant: the base kept by a cell that every loop pass overwrites (the
\* last loader frame) rather than a OnceCell that keeps the first.
BaseOffsetLastFrame == StackFrames[Len(StackFrames)] * PAGE_BYTES - kstack.start * BLOCK_SIZE

\* stack_base.offset_from(new_stack_base), in bytes: stack_base_cell.set
\* succeeds on the first pass of the copy loop only, so the first loader
\* frame's address, less the new stack's.
BaseOffset == StackFrames[1] * PAGE_BYTES - kstack.start * BLOCK_SIZE

\* Variant: RSP::add for a positive offset and RSP::sub otherwise.
BootRelocateSignSwapped(c) ==
    /\ panic = None
    /\ pc[c] = "relocate"
    /\ addressor = None
    /\ rsp' = IF BaseOffset > 0 THEN rsp + BaseOffset ELSE rsp - (-BaseOffset)
    /\ mapping' = [p \in DOMAIN mapping \ StackPages |-> mapping[p]]
    /\ pc' = [pc EXCEPT ![c] = "idle"]
    /\ UNCHANGED <<upgrader, mmio_vars, fa_vars, map, meta, writer, pending, kstack, req, cur, live>>

\* The copy (frame i to new_stack_base + i pages) moves no state the model
\* tracks; RSP::sub(|offset|) when it is positive, else RSP::add(|offset|);
\* then, under get_addressor_mut(), unmap(Page::from_index(frame.index()))
\* for each loader frame.  The map keeps those pages full.
BootRelocate(c) ==
    /\ panic = None
    /\ pc[c] = "relocate"
    /\ addressor = None
    /\ rsp' = IF BaseOffset > 0 THEN rsp - BaseOffset ELSE rsp + (-BaseOffset)
    /\ mapping' = [p \in DOMAIN mapping \ StackPages |-> mapping[p]]
    /\ pc' = [pc EXCEPT ![c] = "idle"]
    /\ UNCHANGED <<upgrader, mmio_vars, fa_vars, map, meta, writer, pending, kstack, req, cur, live>>

-----------------------------------------------------------------------------
(* dealloc(ptr, size), called with an allocation the CPU holds.            *)

\* Variant: the range's end computed as size / BLOCK_SIZE + 1 blocks.
DeallocLockWide(c, a) ==
    /\ Ready
    /\ pc[c] = "idle"
    /\ a \in live[c]
    /\ MapFree
    /\ writer' = c
    /\ cur' = [cur EXCEPT ![c] = Cursor(a.start, a.start + a.size \div BLOCK_SIZE + 1)]
    /\ live' = [live EXCEPT ![c] = @ \ {a}]
    /\ pc' = [pc EXCEPT ![c] = "free"]
    /\ UNCHANGED <<upgrader, mmio_vars, fa_vars, map, mapping, meta, init_vars, req>>

\* map.write() for the loop over [ptr / BLOCK_SIZE, + ceil(size / BLOCK_SIZE)).
DeallocLock(c, a) ==
    /\ Ready
    /\ pc[c] = "idle"
    /\ a \in live[c]
    /\ MapFree
    /\ writer' = c
    /\ cur' = [cur EXCEPT ![c] = Cursor(a.start, a.start + CeilDiv(a.size, BLOCK_SIZE))]
    /\ live' = [live EXCEPT ![c] = @ \ {a}]
    /\ pc' = [pc EXCEPT ![c] = "free"]
    /\ UNCHANGED <<upgrader, mmio_vars, fa_vars, map, mapping, meta, init_vars, req>>

\* One BlockPage: XOR the range's bits out (asserting they were set); a page
\* that went nonempty -> empty has its frame, translate_page(page).unwrap(),
\* given to free_frame and the page unmapped.
DeallocPage(c) ==
    LET k == cur[c]
        m == k.map_index
        ms == MarkSections(m, k.end, k.block_index, k.skip, TRUE)
    IN  /\ panic = None
        /\ pc[c] = "free"
        /\ k.map_index < k.last
        /\ (~ms.failed /\ should_dealloc(ms.had, ms.has)) => addressor = None
        /\ IF ms.failed
           THEN /\ panic' = "attempting to deallocate blocks that are already deallocated"
                /\ UNCHANGED <<fstate, memory, map, mapping, cur>>
           ELSE /\ map' = [map EXCEPT ![m + 1] = ms.page]
                /\ cur' = [cur EXCEPT ![c] = [k EXCEPT !.map_index = @ + 1,
                                                        !.block_index = ms.block_index,
                                                        !.skip = ms.skip]]
                /\ IF should_dealloc(ms.had, ms.has)
                   THEN IF m \in DOMAIN mapping
                        THEN /\ falloc_free_frame(mapping[m])
                             /\ mapping' = [p \in DOMAIN mapping \ {m} |-> mapping[p]]
                        ELSE /\ panic' = "called unwrap on a None value"
                             /\ UNCHANGED <<fstate, memory, mapping>>
                   ELSE UNCHANGED <<fstate, memory, panic, mapping>>
        /\ UNCHANGED <<upgrader, mmio_vars, meta, writer, init_vars, pc, req, live>>

DeallocDone(c) ==
    /\ panic = None
    /\ pc[c] = "free"
    /\ cur[c].map_index = cur[c].last
    /\ writer' = None
    /\ pc' = [pc EXCEPT ![c] = "idle"]
    /\ UNCHANGED <<upgrader, mmio_vars, fa_vars, map, mapping, meta, init_vars, req, cur, live>>

-----------------------------------------------------------------------------
(* MMIO<Unmapped>::map and alloc_to(frames): a run of wholly empty         *)
(* BlockPages is found under map.read() (growing the map when there is    *)
(* none), then, holding the addressor's write lock and map.write(), each  *)
(* page of the run is set full and mapped to frames.start().              *)

\* The caller-owned frames of an MMIO region: n device frames just past
\* the end of RAM.
DeviceFrames(n) == [i \in 1 .. n |-> ElementCount + i - 1]

\* alloc_to's scan: count pages, extend the run on an empty page, reset it
\* on any other, and stop once it is n long.
AllocToScan(pages, n) ==
    LET Step(st, page) ==
            IF st.run = n THEN st
            ELSE [map_index |-> st.map_index + 1,
                  run |-> IF IsEmpty(page) THEN st.run + 1 ELSE 0]
    IN  FoldLeft(Step, [map_index |-> 0, run |-> 0], pages)

\* unmapped_mmio(frames).map(): alloc_to!(&self.frames).
MmioMap(c, n) ==
    /\ Ready
    /\ pc[c] = "idle"
    /\ Cardinality(regions[c]) < MaxRegions
    /\ req' = [req EXCEPT ![c] = [frames |-> DeviceFrames(n),
                                  need |-> n * BLOCK_COUNT, ret |-> "to_search"]]
    /\ pc' = [pc EXCEPT ![c] = "to_search"]
    /\ UNCHANGED <<upgrader, mmio_vars, fa_vars, map, mapping, meta, writer, init_vars, cur, live>>

\* One pass of alloc_to's search loop under map.read().
AllocToSearch(c) ==
    LET n == Len(req[c].frames)
        r == AllocToScan(map, n)
    IN  /\ panic = None
        /\ pc[c] = "to_search"
        /\ MapFree
        /\ IF r.run < n
           THEN /\ pc' = [pc EXCEPT ![c] = "grow"]
                /\ UNCHANGED cur
           ELSE /\ pc' = [pc EXCEPT ![c] = "to_addressor"]
                /\ cur' = [cur EXCEPT ![c] = [start |-> r.map_index - r.run]]
        /\ UNCHANGED <<upgrader, mmio_vars, fa_vars, map, mapping, meta, writer, init_vars, req, live>>

\* get_addressor_mut(), held across the wait for map.write().
AllocToAddressor(c) ==
    /\ panic = None
    /\ pc[c] = "to_addressor"
    /\ addressor = None
    /\ addressor' = c
    /\ pc' = [pc EXCEPT ![c] = "to_lock"]
    /\ UNCHANGED <<upgrader, regions, access, fa_vars, map, mapping, meta, writer, init_vars, req, cur, live>>

\* Variant: the pages are mapped but never set_full.
AllocToMapNoFull(c) ==
    LET fr == req[c].frames
        run == {p \in cur[c].start .. cur[c].start + Len(fr) - 1 : p < Len(map)}
    IN  /\ panic = None
        /\ pc[c] = "to_lock"
        /\ MapFree
        /\ mapping' = [p \in DOMAIN mapping \cup run |->
                          IF p \in run THEN fr[1] ELSE mapping[p]]
        /\ addressor' = None
        /\ regions' = [regions EXCEPT ![c] = @ \cup {[start |-> cur[c].start, frames |-> fr]}]
        /\ pc' = [pc EXCEPT ![c] = "idle"]
        /\ UNCHANGED <<upgrader, access, fa_vars, map, meta, writer, init_vars, req, cur, live>>

\* map.write(), then skip(start).take(n) pages: set_full and map each to
\* frames.start(); both guards drop and MMIO<Mapped> keeps the region.
AllocToMap(c) ==
    LET fr == req[c].frames
        run == {p \in cur[c].start .. cur[c].start + Len(fr) - 1 : p < Len(map)}
    IN  /\ panic = None
        /\ pc[c] = "to_lock"
        /\ MapFree
        /\ map' = [i \in DOMAIN map |-> IF i - 1 \in run THEN FullPage ELSE map[i]]
        /\ mapping' = [p \in DOMAIN mapping \cup run |->
                          IF p \in run THEN fr[1] ELSE mapping[p]]
        /\ addressor' = None
        /\ regions' = [regions EXCEPT ![c] = @ \cup {[start |-> cur[c].start, frames |-> fr]}]
        /\ pc' = [pc EXCEPT ![c] = "idle"]
        /\ UNCHANGED <<upgrader, access, fa_vars, meta, writer, init_vars, req, cur, live>>

\* mapped_offset::<T>(offset) behind read / write: Ok(mapped_addr + offset)
\* when offset < frames.len() * 0x1000, else Err(OffsetOverrun).  The
\* access records the frames its size_of::<T>() bytes land in.
MmioAccess(c, r, offset, size) ==
    /\ Ready
    /\ pc[c] = "idle"
    /\ access' = [access EXCEPT ![c] =
          [region |-> r, offset |-> offset, size |-> size,
           ok |-> offset < Len(r.frames) * PAGE_BYTES,
           frames |-> [b \in offset .. offset + size - 1 |->
                         LET p == r.start + b \div PAGE_BYTES
                         IN  IF p \in DOMAIN mapping THEN mapping[p] ELSE None]]]
    /\ UNCHANGED <<upgrader, addressor, regions, fa_vars, map, mapping, meta, writer,
                   init_vars, pc, req, cur, live>>

-----------------------------------------------------------------------------

\* The panic handler spins forever: the machine stops changing.
Halt ==
    /\ panic # None
    /\ UNCHANGED vars

\* The steps of a CPU already inside alloc or dealloc.
CpuStep(c) ==
    \/ AllocSearch(c) \/ GrowLock(c) \/ AllocGrow(c) \/ AllocLock(c)
    \/ AllocMarkPage(c) \/ AllocDone(c) \/ BootRelocate(c)
    \/ DeallocPage(c) \/ DeallocDone(c)
    \/ AllocToSearch(c) \/ AllocToAddressor(c) \/ AllocToMap(c)

Next ==
    \/ BootIdentityMap
    \/ BootStackAlloc
    \/ \E c \in CPUS, size \in Sizes, align \in Aligns : AllocRequest(c, size, align)
    \/ \E c \in CPUS : CpuStep(c)
    \/ \E c \in CPUS : \E a \in live[c] : DeallocLock(c, a)
    \/ \E c \in CPUS, n \in AllocToCounts : MmioMap(c, n)
    \/ \E c \in CPUS : \E r \in regions[c], o \in MmioOffsets, z \in MmioSizes :
          MmioAccess(c, r, o, z)
    \/ Halt

\* The page the marking loop of CPU c is at takes the addressor's write
\* lock: it goes empty -> nonempty (alloc) or nonempty -> empty (dealloc).
WantsAddressor(c) ==
    /\ pc[c] \in {"mark", "free"}
    /\ cur[c].map_index < cur[c].last
    /\ LET ms == MarkSections(cur[c].map_index, cur[c].end, cur[c].block_index,
                              cur[c].skip, pc[c] = "free")
       IN  /\ ~ms.failed
           /\ IF pc[c] = "free" THEN should_dealloc(ms.had, ms.has)
              ELSE should_alloc(ms.had, ms.has)

\* ENABLED CpuStep(c), written out: a CPU inside alloc, dealloc or alloc_to
\* can step unless the kernel has panicked or it spins on a lock another
\* CPU holds (every branch of each step has a successor).
CanStep(c) ==
    /\ panic = None
    /\ pc[c] # "idle"
    /\ pc[c] \in {"search", "grow", "lock", "to_search", "to_lock"} => MapFree
    /\ pc[c] \in {"growing", "to_addressor", "relocate"} => addressor = None
    /\ WantsAddressor(c) => addressor = None

\* Weak fairness on boot and on every CPU inside alloc or dealloc: a CPU
\* that is not spinning on a held lock keeps running.  WF_vars(CpuStep(c))
\* is stated with CanStep for its ENABLED, which TLC would otherwise
\* evaluate by re-running the search's folds without caching.
Fairness ==
    /\ WF_vars(BootIdentityMap)
    /\ WF_vars(BootStackAlloc)
    /\ \A c \in CPUS : <>[]CanStep(c) => []<><<CpuStep(c)>>_vars

Spec == Init /\ [][Next]_vars
FairSpec == Spec /\ Fairness

==============================================================================
