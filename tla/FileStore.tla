----------------------------- MODULE FileStore ------------------------------
(***************************************************************************)
(* What the file system promises its callers (kernel/fs.h): a set of named *)
(* files, each with an extent of its own, kept in memory while mounted and *)
(* durably on the device.  A call changes one file, and the device moves   *)
(* to the new set in one step or not at all.  The promise ends when a      *)
(* flush is torn while the device was already behind the memory (torn).    *)
(***************************************************************************)
EXTENDS Integers

CONSTANT BlockSize

VARIABLES
    files,      \* the mounted files
    durable,    \* the files a remount would find
    up,         \* mounted
    torn

vars == <<files, durable, up, torn>>

Init ==
    /\ files = {} /\ durable = {}
    /\ up = FALSE
    /\ torn = FALSE

\* The call ends with the set F, flushed or not, or in a crash.
Commit(F) ==
    /\ durable' \in {durable, F}
    /\ \/ files' = F /\ up' = up
       \/ files' = {} /\ up' = FALSE
    /\ UNCHANGED torn

Apart(f, g) == f.start + f.reserved <= g.start \/ g.start + g.reserved <= f.start

Mount ==
    /\ \/ files' = durable /\ up' = TRUE
       \/ files' = {} /\ up' = FALSE
    /\ UNCHANGED <<durable, torn>>

Create(f) ==
    /\ up
    /\ f.start >= 1 /\ f.size = 0 /\ f.reserved >= 1
    /\ \A g \in files : g.name # f.name /\ Apart(f, g)
    /\ Commit(files \cup {f})

Delete(f) == up /\ Commit(files \ {f})

Grow(f, g) ==
    /\ up
    /\ g = [f EXCEPT !.size = g.size]
    /\ g.size > f.size /\ g.size <= f.reserved * BlockSize
    /\ Commit((files \ {f}) \cup {g})

Sync == Commit(files)

\* A crash is a Sync that does not return.
Next ==
    \/ Mount
    \/ \E f \in files' \cup durable' : Create(f)
    \/ \E f \in files : Delete(f)
    \/ \E f \in files, g \in files' \cup durable' : Grow(f, g)
    \/ Sync

Spec == Init /\ [][Next \/ torn']_vars
=============================================================================
