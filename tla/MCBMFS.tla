------------------------------- MODULE MCBMFS -------------------------------
EXTENDS BMFS, TLC

MCWriteRanges == {<<1, 1>>}
MCReserves == {1, 2}

\* Every property is stated for runs without a torn flush.
NotTorn == ~torn

Symmetry == Permutations(FileNames)

\* No action reads what the previous call wrote.
View == <<dir, disk, fds, mounted, promised, torn>>
=============================================================================
