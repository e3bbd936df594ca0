-------------------------- MODULE MCFrameAllocator --------------------------
(***************************************************************************)
(* The frame allocator driven by a set of kernel clients on several CPUs.  *)
(* A client holds the frames it obtained and frees only those; it may     *)
(* also claim a frame by index with lock_frame (as an MMIO mapper does),  *)
(* which panics when that frame is not free.  Each operation is one step: *)
(* set_eq is an atomic compare-and-set on the bitmap.                     *)
(***************************************************************************)
EXTENDS FrameAllocator, FiniteSets

CONSTANTS
    Clients,        \* the kernel contexts calling the allocator
    MaxOwned,       \* bound: frames one client holds at a time
    Counts,         \* the run lengths passed to lock_next_count
    MaxCounter      \* bound: the byte counters drift (lock_next counts
                    \* nothing, free_frame counts one); states past it
                    \* are not explored

VARIABLES
    owned,          \* client -> the frames it holds
    batch           \* client -> its lock_frames / free_frames loop: the
                    \* operation and the frames of the iterator still left

\* Memory maps the configurations substitute for MemoryMap.

\* Conventional memory at frames 1..5 (the bitmap lands in frame 1), a
\* firmware runtime region at frame 6, conventional memory at frame 7.
SmallMap ==
    << [ty |-> "conventional", start |-> 1, count |-> 5],
       [ty |-> "runtime", start |-> 6, count |-> 1],
       [ty |-> "conventional", start |-> 7, count |-> 1] >>

\* Spec section 8's boot scenario: a 64 KiB firmware-reserved region at the
\* start of a 1 MiB usable region, in 4 KiB frames.
SpecScenarioMap ==
    << [ty |-> "runtime", start |-> 0, count |-> 16],
       [ty |-> "conventional", start |-> 16, count |-> 256] >>

\* 64 MiB + 4 KiB of memory: 16385 frames need 4097 bitmap bytes, but
\* memory_size rounds to 4096 and one bitmap frame is reserved.
RoundingMap ==
    << [ty |-> "conventional", start |-> 1, count |-> 16383],
       [ty |-> "runtime", start |-> 16384, count |-> 1] >>

vars == <<fstate, memory, panic, owned, batch>>

Init ==
    /\ FA_Init
    /\ owned = [c \in Clients |-> {}]
    /\ batch = [c \in Clients |-> [op |-> "lock", rest |-> <<>>]]

\* A client inside a lock_frames / free_frames loop makes no other call.
InLoop(c) == batch[c].rest # <<>>

ClientLockNext(c) ==
    /\ panic = None
    /\ ~InLoop(c)
    /\ Cardinality(owned[c]) < MaxOwned
    /\ lock_next
    /\ owned' = [owned EXCEPT ![c] = @ \cup {NextUnallocated}]
    /\ UNCHANGED batch

ClientLockFrame(c, f) ==
    /\ panic = None
    /\ ~InLoop(c)
    /\ Cardinality(owned[c]) < MaxOwned
    /\ f \notin owned[c]
    /\ lock_frame(f)
    /\ owned' = IF fstate[f] = "Unallocated" THEN [owned EXCEPT ![c] = @ \cup {f}] ELSE owned
    /\ UNCHANGED batch

ClientFree(c, f) ==
    /\ panic = None
    /\ ~InLoop(c)
    /\ f \in owned[c]
    /\ free_frame(f)
    /\ owned' = [owned EXCEPT ![c] = @ \ {f}]
    /\ UNCHANGED batch

ClientLockNextCount(c, n) ==
    LET r == lock_next_count_result(n)
    IN  /\ panic = None
        /\ lock_next_count(n)
        /\ owned' = IF r = None THEN owned
                    ELSE [owned EXCEPT ![c] = @ \cup (r.first .. r.first + n - 1)]
        /\ UNCHANGED batch

\* lock_frames(Frame::range_count(s, n)) and free_frames(...): a loop of
\* lock_frame / free_frame calls, one frame per step, so other clients run
\* between two frames of the range.  A client frees only frames it holds.
ClientLockFrames(c, s, n) ==
    /\ panic = None
    /\ ~InLoop(c)
    /\ n > 0 /\ s + n - 1 \in Frames
    /\ Cardinality(owned[c]) + n <= MaxOwned
    /\ batch' = [batch EXCEPT ![c] = [op |-> "lock", rest |-> RangeCount(s, n)]]
    /\ UNCHANGED <<fstate, memory, panic, owned>>

ClientFreeFrames(c, s, n) ==
    /\ panic = None
    /\ ~InLoop(c)
    /\ n > 0 /\ s .. s + n - 1 \subseteq owned[c]
    /\ batch' = [batch EXCEPT ![c] = [op |-> "free", rest |-> RangeCount(s, n)]]
    /\ UNCHANGED <<fstate, memory, panic, owned>>

\* One iteration of the loop: the next frame of the iterator.
ClientFramesStep(c) ==
    LET f == Head(batch[c].rest)
    IN  /\ panic = None
        /\ InLoop(c)
        /\ IF batch[c].op = "lock"
           THEN /\ lock_frame(f)
                /\ owned' = IF fstate[f] = "Unallocated"
                             THEN [owned EXCEPT ![c] = @ \cup {f}] ELSE owned
           ELSE /\ free_frame(f)
                /\ owned' = [owned EXCEPT ![c] = @ \ {f}]
        /\ batch' = [batch EXCEPT ![c].rest = Tail(@)]

\* The panic handler spins forever: the machine stops changing.
Halt ==
    /\ panic # None
    /\ UNCHANGED vars

Next ==
    \/ \E c \in Clients : ClientLockNext(c)
    \/ \E c \in Clients, f \in Frames : ClientLockFrame(c, f)
    \/ \E c \in Clients, f \in Frames : ClientFree(c, f)
    \/ \E c \in Clients, n \in Counts : ClientLockNextCount(c, n)
    \/ \E c \in Clients, f \in Frames, n \in Counts : ClientLockFrames(c, f, n)
    \/ \E c \in Clients, f \in Frames, n \in Counts : ClientFreeFrames(c, f, n)
    \/ \E c \in Clients : ClientFramesStep(c)
    \/ Halt

Spec == Init /\ [][Next]_vars

\* State constraint: the drifting counters stay below MaxCounter.
CounterBound ==
    \A k \in DOMAIN memory : memory[k] < MaxCounter

-----------------------------------------------------------------------------

TypeOK ==
    /\ FA_TypeOK
    /\ owned \in [Clients -> SUBSET Frames]
    /\ batch \in [Clients -> [op : {"lock", "free"}, rest : Seq(Frames)]]

\* Frame ownership (free_frame, lock_frame, lock_next): the Allocated frames
\* are exactly the frames some client holds, and no frame is held by two
\* clients.  Broken by a scan that hands out a frame already Allocated, or a
\* free that does not clear the bitmap.
FrameOwnership ==
    /\ {f \in Frames : fstate[f] = "Allocated"} = UNION {owned[c] : c \in Clients}
    /\ \A c, d \in Clients : c # d => owned[c] \cap owned[d] = {}

\* Boot reservations (from_mmap, lock_next): every frame from_mmap reserved
\* (null frame, bitmap, firmware regions) stays Reserved: no operation ever
\* hands one out.
BootReservedKept ==
    \A f \in BootReserved : fstate[f] = "Reserved"

\* from_mmap never panics on a double reservation when the memory map's
\* descriptors do not overlap.
InitNoDoubleReserve ==
    panic # "attempted to reserve a non-free frame"

\* The frames holding the bitmap's bytes are all reserved (from_mmap rounds
\* memory_size down to whole bytes before rounding up to pages).
BitmapStorageReserved ==
    \A f \in BitmapStorage : f \in Frames => fstate[f] = "Reserved"

==============================================================================
