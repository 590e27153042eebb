-------------------------------- MODULE DMA ---------------------------------
(***************************************************************************)
(* The DMA memory of the drivers: hal_dma_alloc and hal_dma_free of the    *)
(* three ports (arch/*/io.c).  All three bump a pointer through a fixed    *)
(* region in units of a page.  On x86-64 nothing is ever given back; on    *)
(* AArch64 and RISC-V a block is given back when it is the last one.       *)
(*                                                                         *)
(* Addresses are page numbers from the start of the region.                *)
(***************************************************************************)
EXTENDS Integers

CONSTANTS
    RegionPages,    \* pages of the region
    PageSize,       \* DMA_ALIGN
    Sizes,          \* the sizes drivers ask for, in bytes
    Reclaims        \* whether the port takes the last block back

ASSUME DMAAssumption ==
    /\ RegionPages \in Nat
    /\ PageSize \in Nat \ {0}
    /\ Sizes \subseteq Nat \ {0}
    /\ Reclaims \in BOOLEAN

VARIABLES
    dma_next,       \* the bump pointer
    live            \* history: the blocks allocated and not freed

dmaVars == <<dma_next, live>>

Block == [addr : Nat, size : Nat \ {0}]
PagesFor(size) == (size + PageSize - 1) \div PageSize
EndOf(b) == b.addr + b.size

Fits(size) == dma_next + PagesFor(size) <= RegionPages
NewBlock(size) == [addr |-> dma_next, size |-> PagesFor(size)]

hal_dma_alloc(size) ==
    /\ Fits(size)
    /\ dma_next' = dma_next + PagesFor(size)
    /\ live' = live \cup {NewBlock(size)}

\* Out of DMA memory: the caller gets NULL.
hal_dma_alloc_fails(size) ==
    /\ ~Fits(size)
    /\ UNCHANGED dmaVars

\* The pointer after b is freed, when it stood at n.
AfterFree_Always(b, n) == b.addr
AfterFree(b, n) == IF Reclaims /\ EndOf(b) = n THEN b.addr ELSE n

hal_dma_free(b) ==
    /\ b \in live
    /\ live' = live \ {b}
    /\ dma_next' = AfterFree(b, dma_next)

DMAInit == dma_next = 0 /\ live = {}

DMANext ==
    \/ \E s \in Sizes : hal_dma_alloc(s) \/ hal_dma_alloc_fails(s)
    \/ \E b \in live : hal_dma_free(b)

DMASpec == DMAInit /\ [][DMANext]_dmaVars

-----------------------------------------------------------------------------
DMATypeOK ==
    /\ dma_next \in 0 .. RegionPages
    /\ live \subseteq Block

\* No two blocks in use share a page, and none reaches past the region or past
\* the pointer the next block starts from.
BlocksDisjoint ==
    /\ \A b \in live : EndOf(b) <= dma_next /\ EndOf(b) <= RegionPages
    /\ \A b, c \in live : b # c => EndOf(b) <= c.addr \/ EndOf(c) <= b.addr
=============================================================================
