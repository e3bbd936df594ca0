# TLA+ models of the gsai_os memory core

These TLA+ modules model the kernel's memory-management core, checked with TLC:
- the physical frame allocator: `src/kernel/src/memory/frame_allocator.rs`
- the block-based kernel heap: `src/kernel/src/block_malloc.rs`
- the typed address wrappers: `src/libkernel/src/addr.rs`
- MMIO regions, mapped by the heap's `alloc_to`: `src/libkernel/src/memory/mmio.rs`

Every definition that models code is listed, with the source lines it translates, under `map` in `PROJECT.json`.

## The system and how its parts interact

- **Frame allocator** (`FrameAllocator`): a 2-bit-per-frame bitmap plus four byte counters, built once by `from_mmap` from the UEFI memory map.
  - `from_mmap` reserves, in order, the null frame, the frames holding the bitmap, and every firmware-reserved descriptor.
  - `lock_frame`, `free_frame` and `lock_next` each compare-and-set a single frame with `set_eq`.
  - `lock_next_count` scans for a run of frames. Nothing in `src` calls it.
  - Nothing in `src` calls this file at all: the `kernel` crate's `lib.rs` declares no `memory` module. Its clients in the model are the clients of `MCFrameAllocator`.
- **Block allocator** (`BlockAllocator`): the global allocator.
  - Its map is a vector of BlockPages, each 4 sections of 64 bits, one bit per 16-byte block, and one BlockPage per 4 KiB heap page.
  - `alloc` searches under the map's read lock. If nothing fits, it `grow`s the map and searches again. Otherwise it takes the write lock and marks the run page by page.
  - The first bit set in a page maps the page to a frame from `lock_next`. The last bit cleared by `dealloc` unmaps the page and returns its frame with `free_frame(frame).unwrap()`.
  - `grow` extends the map: it takes the map's upgradeable lock, maps each new map page to a frame from `lock_next` through the addressor, then upgrades to the write lock and appends empty BlockPages.
  - `alloc_to(frames)` (used by `MMIO::map`) searches for a run of empty pages, takes the addressor, then `map.write()`, and maps every page of the run.
  - These frame calls go to libkernel's `falloc` (`block_malloc.rs:2-5`), which is not in the repository, and not to `frame_allocator.rs`. `BlockAllocator` therefore reaches frames only through spec 4.1's contract for `falloc`: `lock_next` and `falloc_free_frame` compare-and-set one frame of `FrameAllocator`'s bitmap, and a mismatch panics. `falloc`'s counters are its own and the heap model leaves them alone. So the heap's frame properties hold of any frame allocator that keeps that contract. They say nothing about `falloc`'s bookkeeping.
  - `init` runs once, before any other allocation. It builds the page table (identity-mapping the reserved frames) and calls `identity_map(frame, false)` on each reserved frame, which makes that frame's heap page full. It then calls its own `alloc` for a 1 MiB stack and copies the loader's stack frames into it, in order, frame i to page i. It moves `rsp` by the signed distance between the two stack bases and unmaps the loader's stack pages. The old base is the first frame the loop sees: `stack_base_cell` is a `OnceCell`, so only its first `set` succeeds.
- **MMIO** (`mmio.rs`): `MMIO::map` calls `alloc_to` and keeps the returned pointer and the frames. `read`/`write` check the offset against the region's size and access the pointer plus the offset.
- **Locks**: the map is a `spin::RwLock` (read, upgradeable, write), and the page-table addressor another `RwLock`. `alloc` and `dealloc` take the map's write lock and then the addressor, `grow` the upgradeable lock and then the addressor, and `alloc_to` the addressor and then the map's write lock.
- **Addresses** (`Addr`): `Address<Physical>` and `Address<Virtual>` check canonicality in `new`, mask or sign-extend in `new_truncate`, and re-run `new` after `+` and `-`. `page_offset` and `p1_index`..`p4_index` split a virtual address for the page tables.

A panic anywhere ends in the panic handler's `loop {}` (`src/kernel/src/kernel.rs`). Every module therefore records the panic in a variable `panic`, and after a panic its only step is `Halt`, which changes nothing.

## Modules

| module | models | state | actions |
|---|---|---|---|
| `FrameAllocator` | frame_allocator.rs | `fstate` (bitmap), `memory` (counters, in frames, wrapping at `UsizeFrames`), `panic` | `from_mmap` (fold of `ReserveStep`), `free_frame`, `lock_frame`, `lock_next`, `lock_next_count` (recursive `CountScan`) |
| `MCFrameAllocator` | kernel clients of the frame allocator | `owned`, `batch` (a client's `lock_frames`/`free_frames` loop) | `ClientLockNext`, `ClientLockFrame`, `ClientFree`, `ClientLockNextCount`, `ClientLockFrames`, `ClientFreeFrames`, `ClientFramesStep` |
| `BlockAllocator` | block_malloc.rs, over `FrameAllocator`'s bitmap as the `falloc` contract | `map`, `mapping` (page table: page → frame), `meta` (frames storing the map), `writer` (write-lock holder), `upgrader` (upgradeable-lock holder), `addressor` (addressor write-lock holder), `pending` (init's identity-map loop), `rsp` and `kstack` (init's CPU and the stack it allocates), per-CPU `pc`, `req`, `cur`, `live`, `regions` (MMIO regions), `access` (last MMIO access) | `BootIdentityMap`, `BootStackAlloc`, `BootRelocate`, `AllocRequest`, `AllocSearch`, `GrowLock`, `AllocGrow`, `AllocLock`, `AllocMarkPage`, `AllocDone`, `DeallocLock`, `DeallocPage`, `DeallocDone`, `MmioMap`, `AllocToSearch`, `AllocToAddressor`, `AllocToMap`, `MmioAccess`, `Halt` |
| `MCBlockAllocator` | small heap memory map, properties, and the refinement mapping onto `HeapContract` | n/a | n/a |
| `HeapContract` | the heap's promise to its callers (spec 4.2), no code | `requested`, `held`, `mapped` | `Request`, `Return`, `Free`, `MapRegion` |
| `Addr` | addr.rs | `paddr`, `vaddr`, `panic` | `PhysConstruct`, `VirtConstruct`, `PhysAdd`, `PhysSub`, `VirtAdd`, `VirtSub`; operators `page_offset`, `p1_index`..`p4_index` |
| `MCAddr` | properties | n/a | n/a |

Correspondence choices:
- **`set_eq`** is modelled as one atomic compare-and-set (`SetEq`). `BitArray` is in libkernel and is modelled from the spec.
- **Counters** are kept in frames, not bytes. A subtraction below zero either wraps (release build) or panics with "attempt to subtract with overflow" (debug build). The model lets either happen.
- **The `alloc` search** runs under the read lock. It is one step (`AllocSearch`) and requires no writer. The read lock is released before `map.write()`, and that gap is the interleaving point between CPUs.
- **The marking loop** holds the write lock (`writer = c`). It runs one step per BlockPage, with the cursor `cur` carrying `block_index`, `map_index`, the end and the skip of sections.
- **The three-tier search** (whole page, whole section, bit) is a `FoldLeft` over pages, sections and bits with a `done` flag (`Search`).
- **`grow`** is two steps: `GrowLock` takes the upgradeable lock, and `AllocGrow` takes the addressor and does the rest. Each new map page gets a frame from `lock_next`, which takes the lowest free frame, so the model takes the lowest free frames. Running out panics with "called unwrap on a None value".
- **Locks** are held by at most one CPU. `MapFree` (no writer, no upgradeable holder) guards every read and write acquisition, as spin's `RwLock` refuses both while an upgradeable guard is held. `AllocMarkPage` and `DeallocPage` need a free addressor only in the branch that maps or unmaps a page.
- **`alloc_to`** is three steps, `AllocToSearch`, `AllocToAddressor` and `AllocToMap`. Its scan of empty pages (`AllocToScan`) is a `FoldLeft`, and it may `grow` first, like `alloc`.
- **MMIO**: device frames are numbers past the end of RAM (`DeviceFrames`). An access records, for each byte, the frame the page table sends it to (`MmioAccess`). The bytes' contents are not modelled.
- **`init`'s stack move**:
  - `BootStackAlloc` sends init's CPU (`BootCpu`) down the ordinary alloc path. Its `Returned` step records `kstack` instead of a held allocation and leaves the CPU at `relocate`. No other CPU may call into the heap until init has returned (`BootDone`).
  - `BootRelocate` is the copy, the `rsp` move and the unmap. The copy is left out: it changes only bytes. `rsp` is a byte address at the model's page size (`PAGE_BYTES`). `RSP::sub`/`RSP::add` are outside `src` and are modelled as plain subtraction and addition.
  - The loader's stack (`StackFrames`) is assumed to lie in reserved frames. After `swap_into`, `init` keeps running on that stack, and the new page table maps only reserved frames.
- **Addresses** live in a `WIDTH`-bit usize. `(addr << 16) as isize >> 16` is modelled by what it does: a shift, a two's-complement reinterpretation, and an arithmetic shift.

## The heap's contract and the refinement

`HeapContract` says what `alloc`, `dealloc` and `alloc_to` promise, with no bitmap, page table or lock. A caller requests a layout. In one step `alloc` returns a run of blocks of the requested size, at a byte address aligned as requested, sharing no block with a boot page, a held allocation or a mapped region. `Free` gives a held allocation back. `MapRegion` hands out whole pages that share no block with anything in use.

`MCBlockAllocator` instantiates it with a refinement mapping (`Contract == INSTANCE HeapContract WITH ...`):
- `requested` is the layout of a CPU whose `alloc` is between its request and the end of its marking loop (`AllocPending`), including the grows it asks for.
- `held` is `live`, so `AllocDone` is the `Return` step and `DeallocLock` the `Free` step.
- `mapped` is the recorded MMIO regions, so `AllocToMap` is the `MapRegion` step.
- Every other step of the heap is a stutter of the contract.

`ImplementsContract` (the contract's specification) is checked as a property in `heap_two_cpus` and `heap_mmio_one_cpu`. It catches bugs the invariants do not: with the layout's alignment dropped, `AllocationsHeld` still holds but the contract is broken.

## Runs

| run | result | shows |
|---|---|---|
| `fa_ownership` | pass | Two clients locking, claiming, freeing, range-locking (`lock_frames`, one frame per step) and bulk-locking frames never share a frame and never get a boot-reserved one. |
| `fa_spec_boot` | violation | In the spec's own boot scenario (64 KiB firmware region at 0, then 1 MiB usable), `from_mmap` puts the bitmap in the first descriptor large enough, the firmware region at frame 0 (frame_allocator.rs:85). It has just reserved frame 0 as the null frame (101), so reserving the bitmap's first frame (103) panics in the initial state. |
| `fa_bitmap_rounding` | violation | With 16385 frames the bitmap needs 4097 bytes but only 4096 are reserved (frame_allocator.rs:80). |
| `heap_one_cpu` | pass | Allocations stay set and disjoint, pages are mapped exactly while in use, every Allocated frame backs a heap page or the map, no assert fails, the three-tier search is first fit, and `init` leaves the CPU at the same offset, inside a new stack that stays mapped (`KernelStackLive`). Sections are four bits here, so a run can start mid-section (the aligned starts are every second block). The loader's stack is two frames with `rsp` in the second, copied into a two-page stack above it, so `RSP::add` runs. The offset must come from the first frame: taking it from the last breaks the property. |
| `heap_two_cpus` | pass | The bookkeeping invariants survive two CPUs interleaving `alloc`, `grow` and `dealloc`, up to the first panic, and the map and addressor locks never leave every CPU stuck (`SomeCpuProgresses`), and the heap refines `HeapContract`. The loader's stack sits in a firmware region above the heap, so the new stack lands below it and `RSP::sub` runs. `KernelStackLive` then holds while both CPUs allocate and free around the new stack. |
| `heap_mmio_one_cpu` | pass | With MMIO regions of one and two frames mapped between allocations, every `alloc` and `alloc_to` leaves its search/grow loop, allocations, frames and MMIO regions stay intact, and the heap refines `HeapContract`, so regions and allocations never share a block. |
| `heap_race` | violation | Two CPUs find the same run under the read lock, and the second one to mark it trips the assert (block_malloc.rs:304/353). |
| `heap_mmio_race` | violation | In 13 steps: CPU 2's `alloc_to` finds page 3 empty under `map.read()` (block_malloc.rs:502-523). CPU 1 then allocates a block in page 3 and maps it to RAM frame 5. CPU 2 takes `map.write()` (536), sets page 3 full and maps it to device frame 10. CPU 1's allocation is now device memory, and frame 5 is lost. This breaks `HeapContract`'s `MapRegion`. |
| `heap_lock_order` | violation | In 10 steps: CPU 1 marks a run and holds `map.write()` while it waits for the addressor (block_malloc.rs:394); CPU 2, in `alloc_to`, holds the addressor (533) and waits for `map.write()` (536). Neither can move. |
| `heap_mmio_round_trip` | violation | `alloc_to` maps every page to `frames.start()` (block_malloc.rs:543). So a read at offset `PAGE_BYTES` of a two-frame region reaches frame 10 instead of frame 11, against spec 4.2. |
| `heap_mmio_access_size` | violation | `mapped_offset` checks only `offset < max_offset` and ignores `size_of::<T>()` (mmio.rs:56). So a two-byte read at the last byte of a one-frame region is accepted, and its second byte lies on the unmapped page after the region, against spec 5 (an offset past a region's bound is reported). A one-frame region keeps the `frames.start()` bug out of the way. |
| `addr_canonical` | pass | Every virtual address that `new`, `new_truncate`, `+` or `-` produce is canonical, and its page offset and four indices, put back together and sign-extended, give it back. |

Each property of a passing run has a mutant in `PROJECT.json`: a plausible bug in the mapped code that TLC shows breaks it.

Observations from reading the code, kept without a run:
- `init` never frees the loader's stack. It unmaps the pages (block_malloc.rs:267), but their BlockPages stay full and their frames stay `Reserved`, so neither the heap nor the frame allocator can reuse them. `PageBackedIffUsed` states this as the one exception to "a page is mapped iff it is in use". Spec 4.2 also says `init` identity-maps the boot stack's frames. The code does not, and it works only because the loader's stack lies in reserved frames.
- `alloc` tests `block_index % alignment` with `alignment` in bytes and `block_index` in 16-byte blocks (block_malloc.rs:317). So `alloc(16, 16)` can only start every 16th block, where spec 4.2 says `align / 16`. The result is still aligned, only more sparsely than it needs to be; `SearchIsFirstFit` checks the search against first fit at the code's stride, so it does not flag this.
- `lock_next_count` never returns a run: `index >= index + count` (frame_allocator.rs:237) is never true. Nothing in `src` calls it, so no property of the system depends on it.
- `Virtual::new` sign-extends an address whose bit 47 is set and whose higher bits are clear (addr.rs:128). So `0x7FFF_FFFF_F000 + 0x1000` becomes an upper-half address instead of panicking. This is the `x86_64` crate's behaviour too, so it is noted, not checked.

## Bounds and why they suffice

- **Frame allocator:**
  - Memory is 8 frames, with a firmware frame between two conventional regions.
  - There are two clients, each holding at most 2 frames. `Counts = {0, 2}` are the counts passed to `lock_next_count` and the range lengths of `lock_frames` and `free_frames` (an empty range is a call that does nothing, so ranges start at 1). Two frames per range are enough for another client to lock the second frame between the two iterations.
  - The counters are bounded by `MaxCounter`, a state constraint: they drift without bound, because `lock_next` counts nothing.
  - This covers reserved frames inside the scan range, runs broken by allocated frames, and every `set_eq` mismatch.
  - The violation configs use the real sizes (16385 frames, and the spec's 272-frame scenario). Only `from_mmap` runs there.
- **Heap:** a BlockPage has 2 sections of 2 bits (4 bits in `heap_one_cpu`), a block is 2 bytes, and there are 2 BlockPages per map frame. Memory is 10 frames, 3 of them reserved at boot (12 frames and 4 reserved in `heap_one_cpu`, whose loader stack takes two).
  - Sizes {2, 4, 6} bytes give runs of 1, 2 and 3 blocks. These are within a section, across sections, and across pages.
  - Alignment {1, 4} exercises the alignment test.
  - `MaxLive` = 3 allocations per CPU is enough to run out of frames, so `lock_next` returns `None` inside the marking loop, and to force `grow` twice.
  - `from_mmap`'s counters wrap at `UsizeFrames = 16`; the heap changes no counter.
  - The search's stride is `block_index % alignment` with `alignment` at least `MINIMUM_ALIGNMENT = BLOCK_SIZE = 2`, so every run starts at an even block; with 2-bit sections that is always a section boundary. `heap_one_cpu`'s 4-bit sections give two aligned starts per section, as the code's 64-bit sections and 16-block stride give four, so `calculate_bit_fields` runs with a non-zero bit offset.
  - The two-CPU run uses sizes {2, 6} and one live allocation per CPU to stay under five minutes. That is enough for the race, which needs only one allocation each.
  - The MMIO run maps one region of 1 or 2 frames (`AllocToCounts = {1, 2}`), beside one live allocation of 1 to 3 blocks. A two-frame region spans four BlockPages, so it forces `grow` from `alloc_to`, and an allocation can fall before or after it. Accesses at offsets 0 and 9 of one byte hit the first page, the second page and the out-of-range branch.
  - `init`'s new stack is `STACK_PAGES` heap pages (256 in the code). In `heap_one_cpu` the loader's stack is two frames (`HeapMapTwoFrameStack`) and the new stack two pages, with `rsp` 21 bytes in, in the second frame. So the copy loop runs twice, the offset taken from the first frame matters, and `rsp` must land in the second new page. The other runs use one frame and one page. That is enough for the copy to fit, for the unmapped pages to be boot pages, and for the new stack to share the heap with later allocations. The one-CPU maps put the loader's stack below the heap, and `HeapMapHighStack` (two-CPU run) above it, so the runs cover both signs of the offset.
  - Three CPUs do not fit: the two-CPU configuration with a third CPU passes a million distinct states in five minutes and is still growing. CPUs are not a symmetry set, because `init` runs on the one `BootCpu` chosen from them.
  - The lock-order and MMIO-race runs need only one allocation size and one region of one frame: each needs just one CPU in each path.
- **Addresses:** `WIDTH = 8`, `PHYS_BITS = 6`, `SIGN_BIT = 5`, offsets {1, 16}. These keep the proportions of 64/52/47. The page offset has `PAGE_SHIFT = 2` bits and each index `INDEX_BITS = 1`, so the offset and four indices cover the `SIGN_BIT + 1` low bits, as 12 + 4 * 9 = 48 do. Every byte value is constructed, so the wrap, overflow and high-bit cases all occur.

## Fairness

`heap_mmio_one_cpu` assumes weak fairness of each CPU's step. It is written as `<>[]CanStep(c) => []<><<CpuStep(c)>>_vars`, where `CanStep` spells out when the step is enabled (`WantsAddressor` is the marking or unmapping branch that needs the addressor). This gives TLC the same meaning while avoiding the cost of evaluating `ENABLED` through the search folds.

The run uses one CPU. A single context running the kernel is scheduled, so fairness holds there. The `spin` locks are not fair between CPUs, so no liveness is claimed for several CPUs. For two CPUs the run checks the safety form instead: `SomeCpuProgresses`, some CPU can always take a step.

## Not modelled

- `identity_map(_, true)`: nothing calls it.
- The bytes `init`'s copy loop moves. The model keeps where they land through `rsp`. A loader stack of more than 256 frames would overrun the new one (hazard at block_malloc.rs:228). `KernelStackLive` catches that case, because `rsp` then lands past the new stack's end, as a three-frame loader stack into two pages shows. The loader's stack size itself comes from firmware. `FrameIterator` is outside `src` and is assumed to yield ascending, contiguous frames (an `ASSUME` on `StackFrames`).
- `libkernel/src/memory/block_allocator.rs`: `memory/mod.rs` declares no such module, so it is not compiled.
- The contents of MMIO device memory, PCI, ACPI, ELF, boot info, EFI boot, registers, interrupt handlers and logging. These are I/O or one-shot parsing, outside the memory core, and are listed in `PROJECT.json` with reasons.
- Interrupts: no handler in `src` allocates or takes a heap lock. The timer handler writes to serial and the keyboard handler takes its own `KEYBOARD` mutex. No allocator code calls `without_interrupts`. So there is no interleaving of an interrupt with the heap to model.

## Plan

1. Larger heap instances (three CPUs, two live allocations each), which need a smaller search space per CPU or a faster checker than five minutes of TLC allow.
