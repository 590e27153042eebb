----------------------------- MODULE DMAProofs ------------------------------
(* For every region, page size and port: blocks in use never overlap. *)
EXTENDS DMA, TLAPS

\* A request of at least one byte takes at least one page.
LEMMA PagesPositive ==
    ASSUME NEW s \in Nat \ {0}
    PROVE  PagesFor(s) \in Nat \ {0}
<1>1. s + PageSize - 1 >= PageSize
    BY DMAAssumption
<1> QED
    BY <1>1, DMAAssumption, SMTT(30) DEF PagesFor

DMAInv == DMATypeOK /\ BlocksDisjoint

\* hal_dma_alloc places the new block past every block in use.
LEMMA AllocKeeps ==
    ASSUME DMAInv, NEW s \in Sizes, hal_dma_alloc(s)
    PROVE  DMAInv'
<1> DEFINE n == NewBlock(s)
<1>1. PagesFor(s) \in Nat \ {0}
    BY PagesPositive, DMAAssumption
<1>2. n \in Block /\ n.addr = dma_next /\ EndOf(n) = dma_next'
    BY <1>1, DMAAssumption DEF DMAInv, DMATypeOK, hal_dma_alloc, NewBlock, Block, EndOf
<1>3. DMATypeOK'
    BY <1>1, <1>2, DMAAssumption DEF DMAInv, DMATypeOK, hal_dma_alloc, Fits
<1>4. dma_next' <= RegionPages /\ dma_next <= dma_next'
    BY <1>1, DMAAssumption DEF DMAInv, DMATypeOK, hal_dma_alloc, Fits
<1>5. \A b \in live' : EndOf(b) <= dma_next' /\ EndOf(b) <= RegionPages
    BY <1>2, <1>4, DMAAssumption DEF DMAInv, DMATypeOK, BlocksDisjoint, hal_dma_alloc, Block, EndOf
<1>6. \A b, c \in live' : b # c => EndOf(b) <= c.addr \/ EndOf(c) <= b.addr
    BY <1>2 DEF DMAInv, BlocksDisjoint, hal_dma_alloc
<1> QED
    BY <1>3, <1>5, <1>6 DEF DMAInv, BlocksDisjoint

\* hal_dma_free moves the pointer back only over the block it frees.
LEMMA FreeKeeps ==
    ASSUME DMAInv, NEW b \in live, hal_dma_free(b)
    PROVE  DMAInv'
<1>1. b \in Block /\ EndOf(b) <= dma_next
    BY DEF DMAInv, DMATypeOK, BlocksDisjoint
<1>2. \A c \in live' : c \in live /\ c # b /\ c \in Block
    BY DEF DMAInv, DMATypeOK, hal_dma_free
<1>3. dma_next' = dma_next \/ (dma_next' = b.addr /\ EndOf(b) = dma_next)
    BY DEF hal_dma_free, AfterFree
<1>4. DMATypeOK'
    BY <1>1, <1>2, <1>3, DMAAssumption DEF DMAInv, DMATypeOK, Block, EndOf
<1>5. ASSUME NEW c \in live'
      PROVE  EndOf(c) <= dma_next' /\ EndOf(c) <= RegionPages
    <2>1. EndOf(c) <= dma_next /\ EndOf(c) <= RegionPages
        BY <1>2, <1>5 DEF DMAInv, BlocksDisjoint
    <2>2. EndOf(b) <= c.addr \/ EndOf(c) <= b.addr
        BY <1>2, <1>5 DEF DMAInv, BlocksDisjoint
    <2> QED
        BY <1>1, <1>2, <1>3, <1>5, <2>1, <2>2 DEF DMAInv, DMATypeOK, Block, EndOf
<1>6. \A c, d \in live' : c # d => EndOf(c) <= d.addr \/ EndOf(d) <= c.addr
    BY <1>2 DEF DMAInv, BlocksDisjoint
<1> QED
    BY <1>4, <1>5, <1>6 DEF DMAInv, BlocksDisjoint

\* On every port, for every region and every sequence of requests and frees, the
\* blocks in use are disjoint and inside the region.
THEOREM BlocksStayDisjoint == DMASpec => []BlocksDisjoint
<1>1. DMAInit => DMAInv
    BY DMAAssumption DEF DMAInit, DMAInv, DMATypeOK, BlocksDisjoint
<1>2. DMAInv /\ [DMANext]_dmaVars => DMAInv'
    <2> SUFFICES ASSUME DMAInv, [DMANext]_dmaVars PROVE DMAInv'
        OBVIOUS
    <2>1. CASE \E s \in Sizes : hal_dma_alloc(s)
        BY <2>1, AllocKeeps
    <2>2. CASE \E b \in live : hal_dma_free(b)
        BY <2>2, FreeKeeps
    <2>3. CASE UNCHANGED dmaVars
        BY <2>3 DEF dmaVars, DMAInv, DMATypeOK, BlocksDisjoint
    <2> QED
        BY <2>1, <2>2, <2>3 DEF DMANext, hal_dma_alloc_fails
<1> QED
    BY <1>1, <1>2, PTL DEF DMASpec, DMAInv
=============================================================================
