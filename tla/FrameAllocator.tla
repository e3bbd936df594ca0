--------------------------- MODULE FrameAllocator ---------------------------
(***************************************************************************)
(* The physical frame allocator, kernel/src/memory/frame_allocator.rs.     *)
(*                                                                         *)
(* State: the packed 2-bit-per-frame bitmap (memory_map, here fstate) and  *)
(* the byte counters of FrameAllocatorMemory (here counted in frames: one  *)
(* unit is 0x1000 bytes).  A panic halts the machine: it is recorded in    *)
(* the variable panic, shared with every module that composes this one,    *)
(* and no operation runs after it.                                         *)
(*                                                                         *)
(* The operations are written as actions parameterised by their inputs so *)
(* that composing modules (BlockAllocator) can take them as conjuncts of  *)
(* their own handlers; pure helpers give the values they return.          *)
(***************************************************************************)
EXTENDS Integers, SequencesExt

CONSTANTS
    MemoryMap,      \* the UEFI memory map: a sequence of descriptors
                    \* [ty, start, count]; start and count in frames
    ReservedTypes,  \* descriptor types is_uefi_reserved_memory_type accepts
    FRAME_BYTES,    \* bytes per frame (0x1000; scaled down in models)
    UsizeFrames,    \* 2^64 / 0x1000: the wrap-around of a usize byte counter
    None            \* the absent value (Option::None)

ASSUME /\ Len(MemoryMap) > 0
       /\ \A i \in DOMAIN MemoryMap :
            /\ MemoryMap[i].start \in Nat
            /\ MemoryMap[i].count \in Nat
       /\ FRAME_BYTES \in Nat \ {0}
       /\ UsizeFrames \in Nat \ {0}

VARIABLES
    fstate,         \* frame index -> FrameType (the BitArray memory_map)
    memory,         \* FrameAllocatorMemory, in frames
    panic           \* None, or why the kernel panicked

fa_vars == <<fstate, memory, panic>>

FrameTypes == {"Unallocated", "Allocated", "Reserved", "Corrupted"}

-----------------------------------------------------------------------------
(* from_mmap: sizing the bitmap from the memory map.                       *)

\* The descriptor max_by_key(phys_start) returns: the last of the maximal.
LastDescriptor ==
    MemoryMap[Max({i \in DOMAIN MemoryMap :
                    \A j \in DOMAIN MemoryMap :
                        MemoryMap[j].start <= MemoryMap[i].start})]

\* total_memory / 0x1000: the frames the bitmap represents.
ElementCount == LastDescriptor.start + LastDescriptor.count

Frames == 0 .. ElementCount - 1

\* memory_size = (element_count * BIT_WIDTH) / 8, in whole bytes.
BitmapBytes == (ElementCount * 2) \div 8

\* memory_pages = align_up(memory_size, 0x1000) / 0x1000.
BitmapPages == (BitmapBytes + FRAME_BYTES - 1) \div FRAME_BYTES

\* Index of the first descriptor with page_count >= memory_pages, or None.
BitmapDescriptor ==
    LET fits == {i \in DOMAIN MemoryMap : MemoryMap[i].count >= BitmapPages}
    IN  IF fits = {} THEN None ELSE Min(fits)

\* Frame::range_count(start, count) as the sequence of frames it yields.
RangeCount(start, count) == [i \in 1 .. count |-> start + i - 1]

\* The frames from_mmap reserves, in order: the null frame, the bitmap's
\* frames, then the frames of every firmware-reserved descriptor.
InitReservations ==
    LET d == MemoryMap[BitmapDescriptor]
        fw == SelectSeq(MemoryMap, LAMBDA x : x.ty \in ReservedTypes)
    IN  <<0>> \o RangeCount(d.start, BitmapPages)
              \o FlattenSeq([i \in DOMAIN fw |-> RangeCount(fw[i].start, fw[i].count)])

\* reserve_frame on a from_mmap state record: set_eq(Reserved, Unallocated),
\* then the counters; a mismatch panics.
ReserveStep(st, f) ==
    IF st.panic # None THEN st
    ELSE IF f \notin Frames THEN [st EXCEPT !.panic = "bitmap index out of bounds"]
    ELSE IF st.fstate[f] = "Unallocated"
         THEN [st EXCEPT !.fstate[f] = "Reserved",
                         !.memory.free_memory = @ - 1,
                         !.memory.reserved_memory = @ + 1]
         ELSE [st EXCEPT !.panic = "attempted to reserve a non-free frame"]

\* The allocator from_mmap returns, or the panic it stops with.
from_mmap ==
    LET fresh == [fstate |-> [f \in Frames |-> "Unallocated"],
                  memory |-> [total_memory |-> ElementCount,
                              free_memory |-> ElementCount,
                              used_memory |-> 0,
                              reserved_memory |-> 0],
                  panic |-> None]
    IN  IF BitmapDescriptor = None
        THEN [fresh EXCEPT !.panic = "failed to find viable memory descriptor"]
        ELSE FoldLeft(ReserveStep, fresh, InitReservations)

FA_Init ==
    /\ fstate = from_mmap.fstate
    /\ memory = from_mmap.memory
    /\ panic = from_mmap.panic

-----------------------------------------------------------------------------
(* Counter arithmetic.  A usize subtraction below zero panics in a debug   *)
(* build and wraps in a release build; either outcome may happen.          *)

\* Variant: a subtraction that forgets the wrap-around.
WrapDecNoWrap(x) == x - 1

WrapDec(x) == IF x > 0 THEN x - 1 ELSE UsizeFrames - 1

\* An addition wraps too; its debug-build check is left out, as it needs
\* 2^52 more frees than locks to trip.
WrapInc(x) == (x + 1) % UsizeFrames

\* The debug build's overflow check on counter field of the pre-state.
OverflowCheck(field) ==
    \/ UNCHANGED panic
    \/ /\ memory[field] = 0
       /\ panic' = "attempt to subtract with overflow"

-----------------------------------------------------------------------------
(* Single-frame operations.  Each is set_eq (compare-and-set on the        *)
(* bitmap) followed by the counter update, or a panic on mismatch.         *)

\* set_eq(index, new, expected) succeeds on fstate iff the frame is expected.
SetEq(f, new, expected) ==
    /\ fstate[f] = expected
    /\ fstate' = [fstate EXCEPT ![f] = new]

\* free_frame: Allocated -> Unallocated; free += 0x1000; used -= 0x1000.
free_frame(f) ==
    \/ /\ SetEq(f, "Unallocated", "Allocated")
       /\ memory' = [memory EXCEPT !.free_memory = WrapInc(@),
                                   !.used_memory = WrapDec(@)]
       /\ OverflowCheck("used_memory")
    \/ /\ fstate[f] # "Allocated"
       /\ panic' = "attempted to reserve a non-free frame"
       /\ UNCHANGED <<fstate, memory>>

\* Variant: lock_frame with a plain set in place of set_eq.
lock_frame_unchecked(f) ==
    /\ fstate' = [fstate EXCEPT ![f] = "Allocated"]
    /\ memory' = [memory EXCEPT !.free_memory = WrapDec(@),
                                !.used_memory = WrapInc(@)]
    /\ OverflowCheck("free_memory")

\* lock_frame: Unallocated -> Allocated; free -= 0x1000; used += 0x1000.
lock_frame(f) ==
    \/ /\ SetEq(f, "Allocated", "Unallocated")
       /\ memory' = [memory EXCEPT !.free_memory = WrapDec(@),
                                   !.used_memory = WrapInc(@)]
       /\ OverflowCheck("free_memory")
    \/ /\ fstate[f] # "Unallocated"
       /\ panic' = "attempted to reserve a non-free frame"
       /\ UNCHANGED <<fstate, memory>>

\* The frame lock_next returns: the first Unallocated index, or None.
NextUnallocated ==
    LET free == {f \in Frames : fstate[f] = "Unallocated"}
    IN  IF free = {} THEN None ELSE Min(free)

\* Variant: lock_next returning the free frame without committing set_eq.
lock_next_unmarked ==
    /\ NextUnallocated # None
    /\ UNCHANGED <<fstate, memory, panic>>

\* lock_next: the linear scan's set_eq on the first Unallocated frame.  It
\* touches no counter.  The caller reads the result as NextUnallocated.
lock_next ==
    /\ NextUnallocated # None
    /\ SetEq(NextUnallocated, "Allocated", "Unallocated")
    /\ UNCHANGED <<memory, panic>>

\* The scan of lock_next_count(count): returns [first, count] or None.  The
\* reassignment `index = inner_index + 1` only changes the binding tested
\* by `index >= (index + count)`, never the loop's own progress.
RECURSIVE CountScan(_, _)
CountScan(count, index) ==
    IF index > ElementCount - 1 THEN None
    ELSE IF fstate[index] # "Unallocated" THEN CountScan(count, index + 1)
    ELSE LET high == Min({index + count, ElementCount})
             blocked == {i \in index + 1 .. high - 1 : fstate[i] # "Unallocated"}
             all_unallocated == blocked = {}
             idx == IF all_unallocated THEN index ELSE Min(blocked) + 1
         IN  IF all_unallocated /\ idx >= idx + count
             THEN [first |-> idx, count |-> count]
             ELSE CountScan(count, index + 1)

lock_next_count_result(count) == CountScan(count, 0)

\* lock_next_count(count): marks the returned run Allocated with a plain
\* set (no compare, no counters).
lock_next_count(count) ==
    LET r == lock_next_count_result(count)
    IN  /\ fstate' = IF r = None THEN fstate
                     ELSE [f \in Frames |->
                             IF f \in r.first .. r.first + r.count - 1
                             THEN "Allocated" ELSE fstate[f]]
        /\ UNCHANGED <<memory, panic>>

-----------------------------------------------------------------------------
(* Helpers for properties of composing modules.                            *)

\* The frames from_mmap reserved: they stay Reserved for the kernel's life.
BootReserved == {f \in Frames : from_mmap.fstate[f] = "Reserved"}

\* The frames that hold the bitmap's bytes: ceil(element_count * 2 / 8)
\* bytes from the start of the bitmap descriptor.
BitmapStorage ==
    LET bytes == (ElementCount * 2 + 7) \div 8
        d == MemoryMap[BitmapDescriptor]
    IN  d.start .. d.start + (bytes + FRAME_BYTES - 1) \div FRAME_BYTES - 1

FA_TypeOK ==
    /\ fstate \in [Frames -> FrameTypes]
    /\ memory \in [{"total_memory", "free_memory", "used_memory",
                    "reserved_memory"} -> 0 .. UsizeFrames - 1]

==============================================================================
