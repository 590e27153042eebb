------------------------------ MODULE SpinLock ------------------------------
(***************************************************************************)
(* hal_spin_lock and hal_spin_unlock of the three ports (arch/*/smp.c),    *)
(* one action per access to the lock word.  x86-64 reads the word and then *)
(* exchanges it.  AArch64 and RISC-V load with a reservation and store if  *)
(* nobody has written the word since; AArch64 sleeps in wfe between two    *)
(* looks and is woken when its reservation is taken away.                  *)
(***************************************************************************)
EXTENDS Integers, FiniteSets

CONSTANT Cores

VARIABLES
    port,       \* the architecture the kernel was built for
    lock,       \* the lock word is not zero
    spin,       \* per core: where in hal_spin_lock it is
    rsv         \* cores whose exclusive reservation of the word is alive

lockvars == <<port, lock, spin, rsv>>

Ports == {"x86_64", "aarch64", "riscv64"}
Reserves == port # "x86_64"

LockInit ==
    /\ port \in Ports
    /\ lock = FALSE /\ rsv = {}
    /\ spin = [c \in Cores |-> "out"]

hal_spin_lock(c) ==
    /\ spin[c] = "out"
    /\ spin' = [spin EXCEPT ![c] = "test"]
    /\ UNCHANGED <<port, lock, rsv>>

\* The plain read, ldaxr or lr.d.
test(c) ==
    /\ spin[c] = "test"
    /\ spin' = [spin EXCEPT ![c] = IF ~lock THEN "set"
                                   ELSE IF port = "aarch64" THEN "wfe" ELSE "test"]
    /\ rsv' = IF Reserves THEN rsv \cup {c} ELSE rsv
    /\ UNCHANGED <<port, lock>>

\* The event that ends wfe is the loss of the reservation.
wfe(c) ==
    /\ spin[c] = "wfe" /\ c \notin rsv
    /\ spin' = [spin EXCEPT ![c] = "test"]
    /\ UNCHANGED <<port, lock, rsv>>

\* xchg takes the lock if it was free; stxr and sc.d store if the reservation
\* is alive.
Takes_Always(c) == TRUE
Takes(c) == IF Reserves THEN c \in rsv ELSE ~lock

set(c) ==
    /\ spin[c] = "set"
    /\ IF Takes(c)
       THEN /\ spin' = [spin EXCEPT ![c] = "held"]
            /\ lock' = TRUE
            /\ rsv' = {}
       ELSE /\ spin' = [spin EXCEPT ![c] = "test"]
            /\ UNCHANGED lock
            /\ rsv' = rsv \ {c}
    /\ UNCHANGED port

\* stxr and sc.d may fail for reasons of their own (an interrupt, a cache line
\* that was evicted); the loop tries again.
set_fails(c) ==
    /\ spin[c] = "set" /\ Reserves
    /\ spin' = [spin EXCEPT ![c] = "test"]
    /\ rsv' = rsv \ {c}
    /\ UNCHANGED <<port, lock>>

hal_spin_unlock(c) ==
    /\ spin[c] = "held"
    /\ lock' = FALSE
    /\ rsv' = {}
    /\ spin' = [spin EXCEPT ![c] = "out"]
    /\ UNCHANGED port

\* A core on its way to the lock; failing stores are not counted on.
Spinning(c) == test(c) \/ wfe(c) \/ set(c)
=============================================================================
