------------------------------- MODULE MCBoot -------------------------------
(***************************************************************************)
(* The boot, and what the kernel records about itself, one part in each    *)
(* behaviour: Boot, the kernel log and the panic report.                   *)
(***************************************************************************)
EXTENDS Boot

CONSTANTS MaxEntries, Levels, MaxLogs, MaxBoots, MaxFailures, Empty,
          Frames, MaxFrames, Timeouts, DefaultTimeout, MaxPanics

VARIABLES part,
          ring, head, count, minLevel, phase, fsup, file, flush, logs, boots, failures, logged, flushed,
          chain, fp, g_panic_handler, g_reboot_timeout, g_panic_in_progress,
          info, screen, crashlog, disk, step, ticks, panics, restarts

K == INSTANCE KLog WITH mounted <- fsup
P == INSTANCE Panic WITH mounted <- disk, count <- ticks, boots <- restarts

klog == <<ring, head, count, minLevel, phase, fsup, file, flush, logs, boots, failures, logged, flushed>>
panicked == <<chain, fp, g_panic_handler, g_reboot_timeout, g_panic_in_progress,
              info, screen, crashlog, disk, step, ticks, panics, restarts>>
all == <<part, vars, klog, panicked>>

\* A machine with everything; one with two controllers and an unsupported card;
\* one that fills the table; and one without any network.
MCMachines == {
    <<"nvme", "usb", "intel_wifi", "vga">>,
    <<"usb", "nic", "usb", "touch">>,
    <<"e1000", "virtio_net", "e1000", "ahci", "vga">>,
    <<"virtio_blk", "vga">> }

Pkg(size, code, signed, cat) == [size |-> size, code |-> code, signed |-> signed, cat |-> cat]
MCPackages == {Pkg(4, 2, TRUE, "storage"), Pkg(5, 3, FALSE, "network")}

Is(p) ==
    /\ part = p /\ UNCHANGED part
    /\ p # "boot" => UNCHANGED vars
    /\ p # "klog" => UNCHANGED klog
    /\ p # "panic" => UNCHANGED panicked

MCInit ==
    /\ part \in {"boot", "klog", "panic"}
    /\ Init /\ K!Init /\ P!Init
    /\ part # "boot" => machine = <<"virtio_blk", "vga">> /\ choice = "absent" /\ g_key_set
    /\ part # "panic" => disk /\ fp = "null" /\ chain = [f \in Frames |-> "null"]

\* The log may rest, and a halted core stays halted.
MCNext ==
    \/ Is("boot") /\ Next
    \/ Is("klog") /\ K!Next
    \/ Is("panic") /\ P!Next
    \/ part # "boot" /\ UNCHANGED all

\* kernel_main goes through its steps, and so does kernel_panic, which does not return.
MCSpec ==
    /\ MCInit /\ [][MCNext]_all
    /\ WF_all(\/ Is("boot") /\ Step
              \/ Is("panic") /\ (P!save_crash_log \/ P!handler_returns \/ P!countdown)
              \/ Is("panic") /\ P!kernel_panic /\ step = "handler")

-----------------------------------------------------------------------------
\* The log in memory is the latest entries in order, through every wrap of the ring;
\* a flush that has completed can be read back; and although a crash may come
\* between any two writes of a flush, a replay prints only entries that were logged.
LogReadsBack == K!LogReadsBack

\* The backtrace follows the saved frame pointers without a gap, stops within
\* PANIC_MAX_FRAMES whatever the chain is, a cycle included, and stops earlier
\* only where the chain ends.
TraceFaithful == P!TraceFaithful

\* A panic raised while one is in progress never touches the report of the first
\* one, on the screen or in crash.log.
ReportStands == P!ReportStands

\* The boot reaches the shell, and every panic ends in a halt or a reset, double
\* panics and failing disks included.
AllEnds ==
    LET under_way == (part = "boot" /\ pc # "shell")
                     \/ (g_panic_in_progress /\ step \notin {"halted", "reset"})
    IN  under_way ~> ~under_way
=============================================================================
