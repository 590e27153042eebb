----------------------------- MODULE BlockDisk ------------------------------
(***************************************************************************)
(* What a storage driver promises to the file system: a call asks for a    *)
(* run of sectors to be moved between the disk and a buffer, the sectors   *)
(* move one way or the other while the call is pending, and HAL_OK means   *)
(* that each of them has moved between its own place on the disk and its   *)
(* own place in the buffer.  A call that fails may have moved some of its  *)
(* sectors and, when it gave up on a slow device, may move more of them    *)
(* later; a call that succeeded touches its buffer no more.                *)
(*                                                                         *)
(* NVMe, AHCI, UFS and EMMC are shown to implement this.                   *)
(***************************************************************************)
EXTENDS Naturals, Sequences

CONSTANTS
    Requests,       \* what callers ask for: [write, lba, n, buf]
    MaxCalls        \* bound: calls made

VARIABLES
    asked,          \* the requests, in the order of the calls
    result,         \* "pending", or what each call returned
    moved           \* the sectors that have moved: [call, write, lba, buf]

vars == <<asked, result, moved>>

Failures == {"ERROR", "TIMEOUT", "BUSY"}

Wanted(i) ==
    {[call |-> i, write |-> asked[i].write, lba |-> asked[i].lba + k, buf |-> asked[i].buf + k] :
        k \in 0 .. asked[i].n - 1}

Init == asked = <<>> /\ result = <<>> /\ moved = {}

\* A call starts, or is answered at once: refused, or asked for nothing.
Begin(r, rc) ==
    /\ \A i \in DOMAIN result : result[i] # "pending"
    /\ Len(asked) < MaxCalls
    /\ rc = "OK" => r.n = 0
    /\ asked' = Append(asked, r)
    /\ result' = Append(result, rc)
    /\ UNCHANGED moved

Move(i) ==
    /\ result[i] # "OK"
    /\ moved' \subseteq moved \cup Wanted(i) /\ moved \subseteq moved'
    /\ UNCHANGED <<asked, result>>

Return(rc) ==
    /\ result # <<>> /\ result[Len(result)] = "pending"
    /\ rc = "OK" => Wanted(Len(result)) \subseteq moved
    /\ result' = [result EXCEPT ![Len(result)] = rc]
    /\ UNCHANGED <<asked, moved>>

\* The driver copies the last sectors itself and returns.
MoveReturn ==
    /\ result # <<>> /\ result[Len(result)] = "pending"
    /\ moved \subseteq moved' /\ moved' \subseteq moved \cup Wanted(Len(result))
    /\ Wanted(Len(result)) \subseteq moved'
    /\ result' = [result EXCEPT ![Len(result)] = "OK"]
    /\ UNCHANGED asked

Next ==
    \/ \E r \in Requests, rc \in Failures \cup {"OK", "pending"} : Begin(r, rc)
    \/ \E i \in DOMAIN asked : Move(i)
    \/ \E rc \in Failures \cup {"OK"} : Return(rc)
    \/ MoveReturn

Spec == Init /\ [][Next]_vars
=============================================================================
