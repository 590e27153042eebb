-------------------------------- MODULE KLog --------------------------------
(***************************************************************************)
(* The persistent kernel log (kernel/klog.c): the ring of recent entries,  *)
(* the flush to klog.dat, and the part of the boot (kernel/main.c) that    *)
(* starts the log and mounts the file system.                              *)
(*                                                                         *)
(* An entry is the number of the klog call that made it, so entries are    *)
(* told apart and ordered over all boots.  klog.dat is what the file       *)
(* system promises: its header and the entries written to it, which        *)
(* survive a crash.  A flush writes the header and then one entry per      *)
(* step, and power may fail, or a write come back short, at any step.      *)
(***************************************************************************)
EXTENDS Integers, Sequences

CONSTANTS
    MaxEntries,     \* KLOG_MAX_ENTRIES
    Levels,         \* klog_level_t, an initial segment of Nat
    MaxLogs,        \* klog calls over all boots
    MaxBoots,
    MaxFailures,    \* writes that may fail
    Empty           \* a zeroed ring entry

Threshold == (MaxEntries * 3) \div 4

VARIABLES
    ring, head, count, minLevel,
    phase,      \* how far kernel_main has come: "off", "log" or "up"
    mounted,    \* fs_init succeeded
    file,       \* klog.dat: does it exist, entry_count of the header, the entries
    flush,      \* klog_flush: its next step, and the entry it writes
    logs, boots, failures,
    logged,     \* history: the entries of this boot
    flushed     \* history: the log as the last complete flush left it

vars == <<ring, head, count, minLevel, phase, mounted, file, flush,
          logs, boots, failures, logged, flushed>>

Idle == [step |-> "idle", i |-> 0]
Unknown == <<Empty>>

\* The ring in chronological order, as klog_flush writes it and klog_dump prints it.
Start == IF count < MaxEntries THEN 0 ELSE head
Entry(i) == ring[(Start + i - 1) % MaxEntries]
klog_dump == [i \in 1 .. count |-> Entry(i)]

\* What replay_from_disk would print of file f: as many entries as the header counts and the
\* file holds.
replay_from_disk(f) ==
    SubSeq(f.slots, 1, IF f.count <= Len(f.slots) THEN f.count ELSE Len(f.slots))

-----------------------------------------------------------------------------
Cleared == [i \in 0 .. MaxEntries - 1 |-> Empty]

\* klog_init is the first thing kernel_main does: the file system is not mounted
\* yet, so fs_open fails and nothing is replayed.
klog_init ==
    /\ phase = "off" /\ boots < MaxBoots
    /\ phase' = "log" /\ boots' = boots + 1
    /\ ring' = Cleared /\ head' = 0 /\ count' = 0
    /\ flush' = Idle
    /\ logged' = <<>>
    /\ UNCHANGED <<minLevel, mounted, file, logs, failures, flushed>>

\* The next entry is stored and the head moves on; past the threshold every call
\* goes on to flush.
NextHead == (head + 1) % MaxEntries
AutoFlush_AtFull(c) == c >= MaxEntries
AutoFlush(c) == c >= Threshold
Append1 ==
    /\ ring' = [ring EXCEPT ![head] = logs + 1]
    /\ head' = NextHead
    /\ count' = IF count < MaxEntries THEN count + 1 ELSE count
    /\ logs' = logs + 1
    /\ logged' = Append(logged, logs + 1)
    /\ flush' = IF AutoFlush(count') THEN [step |-> "open", i |-> 0] ELSE Idle

klog(level) ==
    /\ phase \in {"log", "up"} /\ flush = Idle /\ logs < MaxLogs
    /\ IF level < minLevel
       THEN UNCHANGED <<ring, head, count, logs, logged, flush>>
       ELSE Append1
    /\ UNCHANGED <<minLevel, phase, mounted, file, boots, failures, flushed>>

\* init_platform_services mounts the file system, or not, and logs which.
init_platform_services ==
    /\ phase = "log" /\ flush = Idle /\ logs < MaxLogs
    /\ phase' = "up"
    /\ mounted' \in BOOLEAN
    /\ Append1
    /\ UNCHANGED <<minLevel, file, boots, failures, flushed>>

klog_set_level(level) ==
    /\ phase = "up" /\ flush = Idle
    /\ minLevel' = level
    /\ UNCHANGED <<ring, head, count, phase, mounted, file, flush,
                   logs, boots, failures, logged, flushed>>

\* klog_flush called by the shell; it does nothing on an empty ring.
klog_flush ==
    /\ phase = "up" /\ flush = Idle /\ count > 0
    /\ flush' = [step |-> "open", i |-> 0]
    /\ UNCHANGED <<ring, head, count, minLevel, phase, mounted, file,
                   logs, boots, failures, logged, flushed>>

Rest == <<ring, head, count, minLevel, phase, mounted, logs, boots, logged>>

flush_open ==
    /\ flush.step = "open"
    /\ \/ /\ mounted
          /\ file' = [file EXCEPT !.exists = TRUE]
          /\ flush' = [step |-> "header", i |-> 0]
          /\ UNCHANGED failures
       \/ /\ ~mounted
          /\ flush' = Idle
          /\ UNCHANGED <<file, failures>>
       \/ /\ mounted /\ ~file.exists /\ failures < MaxFailures     \* fs_create fails
          /\ failures' = failures + 1
          /\ flush' = Idle
          /\ UNCHANGED file
    /\ UNCHANGED <<Rest, flushed>>

flush_header ==
    /\ flush.step = "header"
    /\ file' = [file EXCEPT !.count = count]
    /\ flush' = [step |-> "entry", i |-> 1]
    /\ flushed' = Unknown
    /\ UNCHANGED <<Rest, failures>>

\* One fs_write of an entry, inside the file or just past its end.
Written(s, i, e) == IF i <= Len(s) THEN [s EXCEPT ![i] = e] ELSE Append(s, e)
flush_entry ==
    /\ flush.step = "entry"
    /\ file' = [file EXCEPT !.slots = Written(@, flush.i, Entry(flush.i))]
    /\ flush' = IF flush.i >= count THEN Idle ELSE [flush EXCEPT !.i = @ + 1]
    /\ flushed' = IF flush.i >= count THEN klog_dump ELSE flushed
    /\ UNCHANGED <<Rest, failures>>

\* A write fails: the flush is given up.
flush_fails ==
    /\ flush.step \in {"header", "entry"} /\ failures < MaxFailures
    /\ failures' = failures + 1
    /\ flush' = Idle
    /\ UNCHANGED <<Rest, file, flushed>>

\* Power fails or the machine restarts; only the file is left.
Crash ==
    /\ phase # "off"
    /\ phase' = "off" /\ mounted' = FALSE
    /\ ring' = Cleared /\ head' = 0 /\ count' = 0 /\ minLevel' = 0
    /\ flush' = Idle /\ logged' = <<>>
    /\ UNCHANGED <<file, logs, boots, failures, flushed>>

Init ==
    /\ ring = Cleared /\ head = 0 /\ count = 0 /\ minLevel = 0
    /\ phase = "off" /\ mounted = FALSE
    /\ file = [exists |-> FALSE, count |-> 0, slots |-> <<>>]
    /\ flush = Idle
    /\ logs = 0 /\ boots = 0 /\ failures = 0
    /\ logged = <<>> /\ flushed = <<>>

Next ==
    \/ klog_init \/ init_platform_services \/ klog_flush
    \/ \E l \in Levels : klog(l) \/ klog_set_level(l)
    \/ flush_open \/ flush_header \/ flush_entry \/ flush_fails
    \/ Crash

Spec == Init /\ [][Next]_vars

-----------------------------------------------------------------------------
\* The dump is exactly the latest entries of this boot, oldest first, through
\* every wrap of the ring.  What the last complete flush wrote can be read back,
\* unless a later flush was cut short: a crash at any other moment loses nothing
\* of it, and later entries in the ring do not disturb it.  Once the ring is three
\* quarters full, on a disk that works, that is every entry in the ring when klog
\* returns.  And whatever flush a crash or a failed write cut short, a replay prints
\* only entries that were logged, never an unused slot of the ring or of the file.
LogReadsBack ==
    /\ Len(logged) <= MaxEntries => klog_dump = logged
    /\ Len(logged) > MaxEntries => klog_dump = SubSeq(logged, Len(logged) - MaxEntries + 1, Len(logged))
    /\ flush = Idle /\ flushed # Unknown => replay_from_disk(file) = flushed
    /\ flush = Idle /\ phase = "up" /\ mounted /\ failures = 0 /\ count >= Threshold =>
           replay_from_disk(file) = klog_dump
    /\ \A i \in 1 .. Len(replay_from_disk(file)) : replay_from_disk(file)[i] \in 1 .. logs
=============================================================================
