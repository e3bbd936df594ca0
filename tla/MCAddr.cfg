\* Virtual and physical addresses under construction, + and -.
CONSTANTS
    WIDTH = 8
    PHYS_BITS = 6
    SIGN_BIT = 5
    Offsets = {1, 16}
    PAGE_SHIFT = 2
    INDEX_BITS = 1
    None = None
SPECIFICATION Spec
INVARIANTS
    TypeOK
    VirtualCanonical
    PageIndicesRecompose
