-------------------------------- MODULE Addr --------------------------------
(***************************************************************************)
(* Address<Physical> and Address<Virtual> of libkernel/src/addr.rs, with   *)
(* usize shrunk to WIDTH bits.  Construction (new, new_truncate) and the  *)
(* Add / Sub operators, which re-run new on the result, are modelled as    *)
(* what they do to the value; a held physical and a held virtual address  *)
(* are the state, and every operator is an action on them.                *)
(***************************************************************************)
EXTENDS Integers, Bitwise

CONSTANTS
    WIDTH,          \* bits of a usize (64)
    PHYS_BITS,      \* Address<Physical>::new rejects addr >> PHYS_BITS # 0 (52)
    SIGN_BIT,       \* Address<Virtual>::new looks at addr >> SIGN_BIT (47)
    Offsets,        \* the rhs values passed to + and -
    PAGE_SHIFT,     \* bits of the page offset (12)
    INDEX_BITS,     \* bits of one page-table index (9)
    None

ASSUME /\ WIDTH \in Nat \ {0}
       /\ PHYS_BITS \in 1 .. WIDTH
       /\ SIGN_BIT \in 1 .. WIDTH - 1
       /\ PAGE_SHIFT + 4 * INDEX_BITS <= WIDTH

VARIABLES
    paddr,          \* the value of an Address<Physical> a caller holds
    vaddr,          \* the value of an Address<Virtual> a caller holds
    panic           \* None, or why the kernel panicked

addr_vars == <<paddr, vaddr, panic>>

Usize == 2 ^ WIDTH
Values == 0 .. Usize - 1

\* `(x << n)` on a usize, and `as isize` / `as usize` between the two.
Shl(x, n) == (x * 2 ^ n) % Usize
AsIsize(x) == IF x >= Usize \div 2 THEN x - Usize ELSE x
AsUsize(i) == i % Usize

\* An arithmetic `>>` on an isize: rounds towards minus infinity.
Sar(i, n) == i \div 2 ^ n

\* The high part new() matches on when it is all ones (0x1FFFF).
HighOnes == 2 ^ (WIDTH - SIGN_BIT) - 1

-----------------------------------------------------------------------------
(* Construction: the value, or the panic.                                  *)

PhysNew(a) ==
    IF shiftR(a, PHYS_BITS) = 0 THEN [value |-> a, panic |-> None]
    ELSE [value |-> None,
          panic |-> "given address is not canonical (bits 52..64 contain data)"]

\* Variant: a mask one bit too wide.
PhysNewTruncateWide(a) == a & (2 ^ (PHYS_BITS + 1) - 1)

\* addr & 0xFFFFFFFFFFFFF: keeps the low PHYS_BITS bits.
PhysNewTruncate(a) == a & (2 ^ PHYS_BITS - 1)

\* Variant: sign extension from one bit too high.
VirtNewTruncateOff(a) ==
    LET shift == WIDTH - SIGN_BIT - 2
    IN  AsUsize(Sar(AsIsize(Shl(a, shift)), shift))

\* (((addr << 16) as isize) >> 16) as usize: sign-extends from bit SIGN_BIT.
VirtNewTruncate(a) ==
    LET shift == WIDTH - SIGN_BIT - 1
    IN  AsUsize(Sar(AsIsize(Shl(a, shift)), shift))

VirtNew(a) ==
    LET high == shiftR(a, SIGN_BIT)
    IN  IF high \in {0, HighOnes} THEN [value |-> a, panic |-> None]
        ELSE IF high = 1 THEN [value |-> VirtNewTruncate(a), panic |-> None]
        ELSE [value |-> None,
              panic |-> "given address is not canonical (bits 48..64 contain data)"]

\* self.value + rhs and self.value - rhs on usize: a debug build panics on
\* overflow, a release build wraps; either build may be running.
UsizeResults(x) ==
    IF x \in Values THEN {[value |-> x, panic |-> None]}
    ELSE {[value |-> AsUsize(x), panic |-> None],
          [value |-> None,
           panic |-> IF x < 0 THEN "attempt to subtract with overflow"
                     ELSE "attempt to add with overflow"]}

\* Take a result: the value, or the panic it ends with.
Apply(r, var) ==
    IF r.panic = None THEN var' = r.value /\ UNCHANGED panic
    ELSE panic' = r.panic /\ UNCHANGED var

-----------------------------------------------------------------------------
(* The page-table view of an Address<Virtual>: the offset in its page and *)
(* its index in each of the four levels, by shifts and masks.             *)

IndexMask == 2 ^ INDEX_BITS - 1

\* self.value & 0xFFF
page_offset(v) == v & (2 ^ PAGE_SHIFT - 1)

\* (self.value >> 12) & 0x1FF
p1_index(v) == shiftR(v, PAGE_SHIFT) & IndexMask

\* Variant: p3_index with one `>> 9` missing.
p3_index_short(v) == shiftR(shiftR(v, PAGE_SHIFT), INDEX_BITS) & IndexMask

\* (self.value >> 12 >> 9) & 0x1FF, and so on one level further each time.
p2_index(v) == shiftR(shiftR(v, PAGE_SHIFT), INDEX_BITS) & IndexMask
p3_index(v) == shiftR(shiftR(shiftR(v, PAGE_SHIFT), INDEX_BITS), INDEX_BITS) & IndexMask
p4_index(v) ==
    shiftR(shiftR(shiftR(shiftR(v, PAGE_SHIFT), INDEX_BITS), INDEX_BITS), INDEX_BITS)
        & IndexMask

-----------------------------------------------------------------------------
(* The operators, each an action on the address it is applied to.          *)

\* Self::new(self.value + rhs) and Self::new(self.value - rhs).
PhysArith(x) ==
    \E u \in UsizeResults(x) :
        Apply(IF u.panic # None THEN u ELSE PhysNew(u.value), paddr)

VirtArith(x) ==
    \E u \in UsizeResults(x) :
        Apply(IF u.panic # None THEN u ELSE VirtNew(u.value), vaddr)

PhysAdd(rhs) == PhysArith(paddr + rhs) /\ UNCHANGED vaddr
PhysSub(rhs) == PhysArith(paddr - rhs) /\ UNCHANGED vaddr
VirtAdd(rhs) == VirtArith(vaddr + rhs) /\ UNCHANGED paddr
VirtSub(rhs) == VirtArith(vaddr - rhs) /\ UNCHANGED paddr

\* A fresh address from any usize: new (which may panic) or new_truncate.
PhysConstruct(a) ==
    /\ \/ Apply(PhysNew(a), paddr)
       \/ paddr' = PhysNewTruncate(a) /\ UNCHANGED panic
    /\ UNCHANGED vaddr

VirtConstruct(a) ==
    /\ \/ Apply(VirtNew(a), vaddr)
       \/ vaddr' = VirtNewTruncate(a) /\ UNCHANGED panic
    /\ UNCHANGED paddr

Init ==
    /\ paddr = 0
    /\ vaddr = 0
    /\ panic = None

Halt == panic # None /\ UNCHANGED addr_vars

Next ==
    \/ /\ panic = None
       /\ \/ \E a \in Values : PhysConstruct(a) \/ VirtConstruct(a)
          \/ \E rhs \in Offsets : \/ PhysAdd(rhs) \/ PhysSub(rhs)
                                  \/ VirtAdd(rhs) \/ VirtSub(rhs)
    \/ Halt

Spec == Init /\ [][Next]_addr_vars

==============================================================================
