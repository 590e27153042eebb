------------------------------- MODULE Panic --------------------------------
(***************************************************************************)
(* kernel_panic (kernel/panic.c) on the core that runs the kernel: the     *)
(* re-entrancy guard, the stack walk, the panic screen, crash.log, the     *)
(* custom handler and the countdown to the reset.                          *)
(*                                                                         *)
(* A panic is the number of the kernel_panic call that raised it.  The     *)
(* handler may return or panic itself.  The stack is the chain of saved    *)
(* frame pointers, which after a fault may hold anything: a cycle, null, a *)
(* misaligned value, or all ones.                                          *)
(***************************************************************************)
EXTENDS Integers, Sequences

CONSTANTS
    Frames,         \* aligned frame addresses
    MaxFrames,      \* PANIC_MAX_FRAMES
    Timeouts,       \* values given to panic_set_reboot_timeout; 0 halts
    DefaultTimeout, \* initial g_reboot_timeout
    MaxPanics, MaxBoots

VARIABLES
    chain, fp,      \* the saved frame pointers and the current one
    g_panic_handler, g_reboot_timeout, g_panic_in_progress,
    info,           \* panic_info_t: the panic and its backtrace
    screen,         \* parts of the report on the console
    crashlog,       \* crash.log: does it exist, the info last written to it
    mounted,        \* whether the file system works
    step, count, panics, boots

vars == <<chain, fp, g_panic_handler, g_reboot_timeout, g_panic_in_progress,
          info, screen, crashlog, mounted, step, count, panics, boots>>

Pointers == Frames \cup {"null", "odd", "ones"}
NoInfo == [panic |-> 0, trace |-> <<>>]

\* The frames walk_stack records from f on, n at most.
walk_stack[n \in 0 .. MaxFrames + 1, f \in Pointers] ==
    IF n = 0 \/ f \notin Frames THEN <<>>
    ELSE <<f>> \o walk_stack[n - 1, chain[f]]
Backtrace_OneMore == walk_stack[MaxFrames + 1, fp]
Backtrace == walk_stack[MaxFrames, fp]

-----------------------------------------------------------------------------
panic_register_handler(h) ==
    /\ step = "running"
    /\ g_panic_handler' = h
    /\ UNCHANGED <<chain, fp, g_reboot_timeout, g_panic_in_progress, info, screen,
                   crashlog, mounted, step, count, panics, boots>>

panic_set_reboot_timeout(t) ==
    /\ step = "running"
    /\ g_reboot_timeout' = t
    /\ UNCHANGED <<chain, fp, g_panic_handler, g_panic_in_progress, info, screen,
                   crashlog, mounted, step, count, panics, boots>>

\* The guard: a panic inside a panic halts and leaves the report alone.
Guard_None == FALSE
Guard == g_panic_in_progress
kernel_panic ==
    /\ \/ step = "running" /\ panics < MaxPanics
       \/ step = "handler" /\ g_panic_handler = "panics"
    /\ panics' = panics + 1
    /\ IF Guard
       THEN /\ step' = "halted"
            /\ UNCHANGED <<g_panic_in_progress, info, screen>>
       ELSE /\ step' = "save"
            /\ g_panic_in_progress' = TRUE
            /\ info' = [panic |-> panics + 1, trace |-> Backtrace]
            /\ screen' = {"reason", "registers", "backtrace"}
    /\ UNCHANGED <<chain, fp, g_panic_handler, g_reboot_timeout, crashlog, mounted, count, boots>>

AfterSave == IF g_panic_handler = "none" THEN "countdown" ELSE "handler"

\* save_crash_log: open or create the file, write it in place; best effort.
save_crash_log ==
    /\ step = "save"
    /\ \/ ~mounted /\ UNCHANGED crashlog
       \/ mounted /\ crashlog' = [exists |-> TRUE, info |-> info]
       \/ mounted /\ crashlog' = [crashlog EXCEPT !.exists = TRUE]       \* fs_write fails
       \/ mounted /\ ~crashlog.exists /\ UNCHANGED crashlog             \* fs_create fails
    /\ step' = AfterSave
    /\ count' = g_reboot_timeout
    /\ UNCHANGED <<chain, fp, g_panic_handler, g_reboot_timeout, g_panic_in_progress,
                   info, screen, mounted, panics, boots>>

handler_returns ==
    /\ step = "handler" /\ g_panic_handler = "returns"
    /\ step' = "countdown"
    /\ UNCHANGED <<chain, fp, g_panic_handler, g_reboot_timeout, g_panic_in_progress,
                   info, screen, crashlog, mounted, count, panics, boots>>

Countdown(n) == n - 1
countdown ==
    /\ step = "countdown"
    /\ \/ g_reboot_timeout = 0 /\ step' = "halted" /\ UNCHANGED count
       \/ g_reboot_timeout > 0 /\ count > 0 /\ count' = Countdown(count) /\ UNCHANGED step
       \/ g_reboot_timeout > 0 /\ count = 0 /\ step' = "reset" /\ UNCHANGED count
    /\ UNCHANGED <<chain, fp, g_panic_handler, g_reboot_timeout, g_panic_in_progress,
                   info, screen, crashlog, mounted, panics, boots>>

Booted ==
    /\ chain' \in [Frames -> Pointers] /\ fp' \in Pointers
    /\ mounted' \in BOOLEAN
    /\ g_panic_handler' = "none" /\ g_reboot_timeout' = DefaultTimeout
    /\ g_panic_in_progress' = FALSE
    /\ info' = NoInfo /\ screen' = {} /\ step' = "running" /\ count' = 0

boot ==
    /\ step = "reset" /\ boots < MaxBoots
    /\ Booted
    /\ boots' = boots + 1
    /\ UNCHANGED <<crashlog, panics>>

Init ==
    /\ chain \in [Frames -> Pointers] /\ fp \in Pointers
    /\ mounted \in BOOLEAN /\ crashlog = [exists |-> FALSE, info |-> NoInfo]
    /\ g_panic_handler = "none" /\ g_reboot_timeout = DefaultTimeout
    /\ g_panic_in_progress = FALSE
    /\ info = NoInfo /\ screen = {} /\ step = "running" /\ count = 0
    /\ panics = 0 /\ boots = 1

Next ==
    \/ \E h \in {"returns", "panics"} : panic_register_handler(h)
    \/ \E t \in Timeouts : panic_set_reboot_timeout(t)
    \/ kernel_panic \/ save_crash_log \/ handler_returns \/ countdown \/ boot

\* kernel_panic does not return: the core goes through its steps.
Spec == Init /\ [][Next]_vars
        /\ WF_vars(save_crash_log \/ handler_returns \/ countdown)
        /\ WF_vars(kernel_panic /\ step = "handler")

-----------------------------------------------------------------------------
\* The backtrace follows the saved frame pointers without a gap, stops within
\* PANIC_MAX_FRAMES whatever the chain is, a cycle included, and stops earlier
\* only where the chain ends.
TraceFaithful ==
    LET t == info.trace
    IN  g_panic_in_progress =>
            /\ Len(t) <= MaxFrames
            /\ Len(t) > 0 => t[1] = fp
            /\ \A i \in 1 .. Len(t) - 1 : t[i + 1] = chain[t[i]]
            /\ Len(t) < MaxFrames => (IF t = <<>> THEN fp ELSE chain[t[Len(t)]]) \notin Frames

\* A panic raised while one is in progress never touches the report of the first
\* one, on the screen or in crash.log.
ReportStands ==
    [][g_panic_in_progress /\ g_panic_in_progress' /\ step # "save"
        => UNCHANGED <<info, screen, crashlog>>]_vars

\* Every panic ends in a halt or a reset, double panics and failing disks included.
PanicEnds == g_panic_in_progress ~> step \in {"halted", "reset"}
=============================================================================
