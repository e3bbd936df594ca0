---------------------------- MODULE HeapContract ----------------------------
(***************************************************************************)
(* What the kernel heap promises its callers, with no bitmap, no page     *)
(* table and no locks: alloc(layout) eventually hands the caller a run of *)
(* blocks of the requested size, aligned to the requested alignment, that *)
(* no one else holds; dealloc gives a run back; alloc_to hands out whole  *)
(* pages no one else holds.  Each of these happens in one step.  Blocks   *)
(* are numbered from 0, block b covering bytes b * BLOCK_SIZE onwards.    *)
(***************************************************************************)
EXTENDS Naturals

CONSTANTS
    Callers,        \* the contexts calling the heap
    BLOCK_SIZE,     \* bytes per block
    BLOCK_COUNT,    \* blocks per page
    Sizes,          \* layout sizes, in bytes
    Aligns,         \* layout alignments, in bytes
    HeapBlocks,     \* the block numbers the heap can reach
    RegionLengths,  \* the lengths, in pages, of the regions alloc_to maps
    Reserved,       \* blocks the heap never hands out
    None

VARIABLES
    requested,      \* caller -> the layout of its alloc in progress, or None
    held,           \* caller -> the allocations it holds: [start, size, align]
    mapped          \* the MMIO regions handed out: [start (page), pages]

hc_vars == <<requested, held, mapped>>

\* The blocks an allocation covers, and the blocks a region's pages cover.
Span(a) == a.start .. a.start + (a.size + BLOCK_SIZE - 1) \div BLOCK_SIZE - 1
RegionSpan(r) == r.start * BLOCK_COUNT .. (r.start + r.pages) * BLOCK_COUNT - 1

InUse ==
    Reserved \cup UNION {Span(a) : a \in UNION {held[c] : c \in Callers}}
             \cup UNION {RegionSpan(r) : r \in mapped}

HC_Init ==
    /\ requested = [c \in Callers |-> None]
    /\ held = [c \in Callers |-> {}]
    /\ mapped = {}

\* A caller enters alloc(layout).
Request(c, size, align) ==
    /\ requested[c] = None
    /\ requested' = [requested EXCEPT ![c] = [size |-> size, align |-> align]]
    /\ UNCHANGED <<held, mapped>>

\* alloc returns a: a run of the requested size, aligned in bytes, free.
Return(c, a) ==
    /\ requested[c] # None
    /\ held' = [held EXCEPT ![c] = @ \cup {a}]
    /\ requested' = [requested EXCEPT ![c] = None]
    /\ UNCHANGED mapped
    /\ a.size = requested[c].size
    /\ a.align = requested[c].align
    /\ (a.start * BLOCK_SIZE) % a.align = 0
    /\ Span(a) \cap InUse = {}

\* dealloc of an allocation the caller holds.
Free(c, a) ==
    /\ a \in held[c]
    /\ held' = [held EXCEPT ![c] = @ \ {a}]
    /\ UNCHANGED <<requested, mapped>>

\* alloc_to: a run of whole pages no block of which is in use.
MapRegion(r) ==
    /\ mapped' = mapped \cup {r}
    /\ UNCHANGED <<requested, held>>
    /\ RegionSpan(r) \cap InUse = {}

Pages == {b \div BLOCK_COUNT : b \in HeapBlocks}
Regions == {r \in [start : Pages, pages : RegionLengths] : RegionSpan(r) \subseteq HeapBlocks}

HC_Next ==
    \/ \E c \in Callers, size \in Sizes, align \in Aligns : Request(c, size, align)
    \/ \E c \in Callers : requested[c] # None /\
          \E s \in HeapBlocks : Return(c, [start |-> s, size |-> requested[c].size,
                                                      align |-> requested[c].align])
    \/ \E c \in Callers : \E a \in held[c] : Free(c, a)
    \/ \E r \in Regions : MapRegion(r)

HC_Spec == HC_Init /\ [][HC_Next]_hc_vars

==============================================================================
