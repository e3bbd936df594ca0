--------------------------------- MODULE MCAddr -----------------------------
(***************************************************************************)
(* Addresses in an 8-bit usize: physical addresses below 2^6, virtual      *)
(* addresses canonical around bit 5, offsets of 1 and 16 added or taken.  *)
(***************************************************************************)
EXTENDS Addr

\* Reference: a virtual address is canonical when bits SIGN_BIT..WIDTH-1
\* are all equal: it lies in the lowest or the highest 2^SIGN_BIT values.
Canonical(v) == v < 2 ^ SIGN_BIT \/ v >= Usize - 2 ^ SIGN_BIT

TypeOK ==
    /\ paddr \in 0 .. 2 ^ PHYS_BITS - 1
    /\ vaddr \in Values
    /\ panic \in {None} \cup STRING

\* Every Address<Virtual> a caller can hold is canonical, however it was
\* made: new, new_truncate, or any sequence of + and - (each re-running
\* new on a usize that may have wrapped).
VirtualCanonical == panic = None => Canonical(vaddr)

\* The page-table indices of a held virtual address (page_offset and
\* p1_index .. p4_index) identify it: rebuilt from the offset and the four
\* indices and sign-extended by new_truncate, they give back the address.
\* So the shifts and masks cover each bit below the sign bit exactly once.
PageIndicesRecompose ==
    panic = None =>
        LET low == page_offset(vaddr)
                   + p1_index(vaddr) * 2 ^ PAGE_SHIFT
                   + p2_index(vaddr) * 2 ^ (PAGE_SHIFT + INDEX_BITS)
                   + p3_index(vaddr) * 2 ^ (PAGE_SHIFT + 2 * INDEX_BITS)
                   + p4_index(vaddr) * 2 ^ (PAGE_SHIFT + 3 * INDEX_BITS)
        IN  VirtNewTruncate(low) = vaddr

==============================================================================
