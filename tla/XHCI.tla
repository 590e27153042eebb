-------------------------------- MODULE XHCI --------------------------------
(***************************************************************************)
(* The USB host controller driver (drivers/input/xhci.c) and the drivers   *)
(* above it that find a keyboard (usb_hid.c) and a network adapter         *)
(* (usb_net.c), against a controller that works through its rings at its   *)
(* own pace, fails, or answers after the deadline.                         *)
(*                                                                         *)
(* A TRB is its kind, its cycle bit, the number of the call that queued    *)
(* it and the address of its buffer.  Data is the device it comes from     *)
(* and what it is; "zeros" is what memset leaves.  Every call takes one    *)
(* DMA buffer and frees it before it returns; where hal_dma_free gives the *)
(* last block back (aarch64, riscv64) the next call gets the same address. *)
(***************************************************************************)
EXTENDS Naturals, Sequences, SequencesExt

CONSTANTS
    NPorts,         \* root hub ports
    Attached,       \* the choices of what is attached: port -> kind or "none"
    RingSize,       \* XHCI_CMD_RING_SIZE, XHCI_XFER_RING_SIZE
    EventRingSize,  \* XHCI_EVT_RING_SIZE
    AsixWrites,     \* register accesses of asix_ax88179a_init
    Reclaims,       \* whether hal_dma_free gives the last block back
    MaxFaults,      \* bound: requests refused, failed or answered too late
    MaxIO,          \* bound: reports and frames asked for
    Follow          \* bound: whether the drivers go on once an event may go astray

VARIABLES
    dev,            \* the devices on the ports
    rings,          \* command ring, and per slot the rings of its endpoints
    hw,             \* the controller's place in each ring: deq, ccs, running, halted
    events, evt,    \* the event ring, and the driver's place in it
    post,           \* the controller's place in it
    slots,          \* xhci_slot_t: active, port, what dev_desc holds
    given,          \* slots the controller has handed out: their ports
    stage, i, todo, \* how far the drivers have come: stage, port or slot, calls left
    op,             \* the call in progress
    brk,            \* where the next DMA buffer goes
    buf,            \* what the buffer of the call in progress holds
    rc, data,       \* result of the last call
    done,           \* history: the controller has done what the call asks
    kbd, nic,       \* the slots of keyboard and network adapter, 0 for none
    ready,          \* what the devices have to send
    io, faults,
    amiss           \* history: why a call may get someone else's event

vars == <<dev, rings, hw, events, evt, post, slots, given, stage, i, todo,
          op, brk, buf, rc, data, done, kbd, nic, ready, io, faults, amiss>>

Zeros == [from |-> 0, what |-> "zeros"]
Cmd == <<0, "cmd">>
SlotIds == 1 .. NPorts
RingIds == {Cmd} \cup SlotIds \X {"ep0", "int", "in", "out"}

TRB(kind, n, addr) == [kind |-> kind, cyc |-> 0, n |-> n, addr |-> addr]
Empty == TRB("none", 0, 0)
NewRing == [trb |-> [k \in 1 .. RingSize |-> Empty], enq |-> 1, cyc |-> 1]
NewEndpoint == [deq |-> 1, ccs |-> 1, on |-> TRUE, running |-> FALSE, halted |-> FALSE]

-----------------------------------------------------------------------------
(* The rings. *)

\* The last entry links back to the first; it gets its cycle bit when the entry
\* before it has been filled.
LinkCycle_Fixed(r) == 1
LinkCycle(r) == r.cyc
xfer_enqueue(r, t) ==
    LET a == [r EXCEPT !.trb[r.enq] = [t EXCEPT !.cyc = r.cyc], !.enq = @ + 1]
    IN  IF a.enq < RingSize THEN a
        ELSE [a EXCEPT !.trb[RingSize] = [TRB("link", 0, 0) EXCEPT !.cyc = LinkCycle(r)],
                       !.enq = 1, !.cyc = 1 - @]

Queued(r, ts) == FoldLeft(xfer_enqueue, r, ts)

\* xhci_poll_event: the event at the driver's place, if its cycle bit is right.
HasEvent == events[evt.deq].cyc = evt.ccs
Event == events[evt.deq]
Taken == IF evt.deq = EventRingSize THEN [deq |-> 1, ccs |-> 1 - evt.ccs] ELSE [evt EXCEPT !.deq = @ + 1]

\* The controller posts an event, when the ring has room for it.
Ev(type, cc, slot, n) == [type |-> type, cc |-> cc, slot |-> slot, n |-> n, cyc |-> post.pcs]
Posted(e) ==
    /\ ~(post.enq = evt.deq /\ post.pcs # evt.ccs)
    /\ events' = [events EXCEPT ![post.enq] = e]
    /\ post' = IF post.enq = EventRingSize THEN [enq |-> 1, pcs |-> 1 - post.pcs]
               ELSE [post EXCEPT !.enq = @ + 1]

-----------------------------------------------------------------------------
(* Calls.  A call queues its TRBs, rings the doorbell and polls for an event.  *)

Commands == {"ENABLE_SLOT", "ADDRESS", "CONFIG_INT", "CONFIG_BULK"}
ControlIn == {"GET_DEV", "GET_CFG", "GET_STRING", "READ_MAC"}
ControlOut == {"ASIX_WRITE"}
Normal == [POLL |-> "int", RECV |-> "in", SEND |-> "out"]

RingOf(name, s) ==
    IF name \in Commands THEN Cmd
    ELSE <<s, IF name \in DOMAIN Normal THEN Normal[name] ELSE "ep0">>

TRBs(name, s, n, addr) ==
    IF name \in Commands THEN <<TRB(name, n, s)>>
    ELSE IF name \in DOMAIN Normal THEN <<TRB(name, n, addr)>>
    ELSE IF name \in ControlIn \cup ControlOut
    THEN <<TRB("setup", n, 0), TRB(name, n, addr), TRB("status", n, 0)>>
    ELSE <<TRB("setup", n, 0), TRB("status", n, 0)>>

\* The rings a command is about are allocated before it is sent.
xhci_address_device(s, r) == [r EXCEPT ![<<s, "ep0">>] = NewRing]
xhci_configure_interrupt_ep(s, r) == [r EXCEPT ![<<s, "int">>] = NewRing]
xhci_configure_bulk_eps(s, r) == [r EXCEPT ![<<s, "in">>] = NewRing, ![<<s, "out">>] = NewRing]
Fresh(name, s, r) ==
    CASE name = "ADDRESS" -> xhci_address_device(s, r)
      [] name = "CONFIG_INT" -> xhci_configure_interrupt_ep(s, r)
      [] name = "CONFIG_BULK" -> xhci_configure_bulk_eps(s, r)
      [] OTHER -> r

Begin(name, s) ==
    LET id == RingOf(name, s)
        n == op.n + 1
    IN  /\ op' = [name |-> name, slot |-> s, n |-> n, addr |-> brk, busy |-> TRUE]
        /\ rings' = [Fresh(name, s, rings) EXCEPT ![id] = Queued(@, TRBs(name, s, n, brk))]
        /\ hw' = [hw EXCEPT ![id].running = hw[id].on /\ ~hw[id].halted]
        /\ brk' = IF Reclaims /\ name \notin Commands THEN brk ELSE brk + 1
        /\ buf' = IF name = "SEND" THEN [from |-> 0, what |-> "frame"] ELSE Zeros
        /\ done' = FALSE

\* The parts of start-up that a failed call ends; the results of the others are
\* not looked at.
Must == IF stage = "net" THEN {"GET_CFG", "SET_CONFIG", "CONFIG_BULK", "ASIX_WRITE"}
        ELSE {"ENABLE_SLOT", "GET_DEV", "GET_CFG", "SET_CONFIG", "CONFIG_INT"}

\* What follows a configuration descriptor: usb_hid_init goes on if it has a boot
\* interface, usb_net_init if it has a CDC data interface or a known vendor's.
usb_hid_init(d) ==
    IF dev[d.from] \in {"keyboard", "mouse"} THEN <<"SET_CONFIG", "SET_PROTOCOL", "SET_IDLE", "CONFIG_INT">> ELSE <<>>
parse_cdc_ecm(d) == dev[d.from] = "ecm"
asix_ax88179a_init == [k \in 1 .. AsixWrites |-> "ASIX_WRITE"]
try_vendor_adapter(s, d) ==
    IF dev[d.from] = "asix" /\ slots[s].desc # Zeros
    THEN <<"READ_MAC", "SET_CONFIG", "CONFIG_BULK">> \o asix_ax88179a_init ELSE <<>>
usb_net_init(s, d) ==
    IF parse_cdc_ecm(d) THEN <<"GET_STRING", "SET_CONFIG", "CONFIG_BULK", "SET_INTERFACE">>
    ELSE try_vendor_adapter(s, d)
Rest(s, d) ==
    CASE d # Zeros /\ stage = "hid" -> usb_hid_init(d)
      [] d # Zeros /\ stage = "net" -> usb_net_init(s, d)
      [] OTHER -> <<>>

\* The call returns st; d is what its buffer holds and e the event it took.
Finish(st, d, e) ==
    LET ok == st = "OK"
        s == op.slot
        left == IF ~ok /\ op.name \in Must THEN <<>>
                ELSE IF op.name = "GET_CFG" THEN Rest(s, d) ELSE todo
    IN  /\ op' = [op EXCEPT !.busy = FALSE]
        /\ rc' = st
        /\ data' = IF ok /\ op.name \in ControlIn \cup {"POLL", "RECV"} THEN d ELSE data
        /\ todo' = left
        /\ slots' = IF ok /\ op.name = "ENABLE_SLOT"
                    THEN [slots EXCEPT ![e.slot] = [active |-> TRUE, port |-> i, desc |-> Zeros]]
                    ELSE IF ok /\ op.name = "GET_DEV" THEN [slots EXCEPT ![s].desc = d]
                    ELSE slots
        /\ kbd' = IF ok /\ op.name = "CONFIG_INT" /\ dev[data.from] = "keyboard" THEN s ELSE kbd
        /\ nic' = IF left = <<>> /\ (op.name = "SET_INTERFACE" \/ (op.name = "ASIX_WRITE" /\ ok))
                  THEN s ELSE nic

Waiting == <<dev, rings, hw, events, post, given, stage, i, brk, buf, done, ready, io>>

\* xhci_send_command goes on polling until it meets a completion event; every other
\* call takes the next event for its own.
Skips_None(e) == FALSE
Skips(e) == op.name \in Commands /\ e.type # "cmd"
poll_event ==
    /\ op.busy /\ HasEvent
    /\ evt' = Taken
    /\ IF Skips(Event)
       THEN UNCHANGED <<op, rc, data, todo, slots, kbd, nic>>
       ELSE Finish(IF Event.cc = "ok" /\ (op.name = "ENABLE_SLOT" => Event.slot \in SlotIds)
                   THEN "OK" ELSE "ERROR", buf, Event)
    /\ UNCHANGED <<Waiting, faults, amiss>>

\* The deadline passes; the TRB stays on the ring.  That is the normal case for a
\* read from a device that has nothing to say, and when the controller has stopped:
\* the endpoint was never configured, or has halted.
Idle == op.name \in {"POLL", "RECV"} /\ ready[slots[op.slot].port] = 0
Dead == ~hw[RingOf(op.name, op.slot)].running
Leaves == IF Dead THEN {} ELSE {"late"}
timeout ==
    /\ op.busy /\ ~HasEvent
    /\ IF Idle \/ Dead THEN UNCHANGED faults ELSE faults < MaxFaults /\ faults' = faults + 1
    /\ amiss' = amiss \cup Leaves
    /\ Finish("TIMEOUT", buf, Event)
    /\ UNCHANGED <<Waiting, evt>>

-----------------------------------------------------------------------------
(* The drivers. *)

Going == Follow \/ amiss = {}

Quiet == <<dev, events, evt, post, given, ready, io>>

\* xhci_enumerate_ports: reset the next port.  The controller reports the change on
\* the event ring, unless an earlier change has not been cleared; the port may
\* come out of the reset disabled.
port_reset ==
    /\ Going /\ stage = "port" /\ ~op.busy /\ todo = <<"RESET">>
    /\ \E reports \in BOOLEAN, enabled \in BOOLEAN :
         /\ IF reports THEN Posted(Ev("port", "ok", 0, 0)) ELSE UNCHANGED <<events, post>>
         /\ IF enabled
            THEN Begin("ENABLE_SLOT", 0) /\ todo' = <<"ADDRESS">> /\ UNCHANGED <<faults, amiss>>
            ELSE /\ faults < MaxFaults /\ faults' = faults + 1
                 /\ amiss' = IF reports THEN amiss \cup {"port"} ELSE amiss
                 /\ todo' = <<>>
                 /\ UNCHANGED <<op, rings, hw, brk, buf, done>>
    /\ UNCHANGED <<dev, evt, slots, given, stage, i, rc, data, kbd, nic, ready, io>>

\* The next call for the slot in hand; xhci_port_reset has just found its slot.
next_call ==
    /\ Going /\ ~op.busy /\ todo # <<>> /\ Head(todo) # "RESET"
    /\ Begin(Head(todo), IF stage = "port" THEN CHOOSE s \in SlotIds : slots[s].active /\ slots[s].port = i ELSE i)
    /\ todo' = Tail(todo)
    /\ UNCHANGED <<Quiet, slots, stage, i, rc, data, kbd, nic, faults, amiss>>

\* The loops over ports and slots; xhci_drv_init stops at the first keyboard and
\* usb_net_drv_init at the first adapter.
Plan(g, s) ==
    CASE g = "port" -> IF dev[s] = "none" THEN <<>> ELSE <<"RESET">>
      [] g = "ready" -> <<>>
      [] OTHER -> IF ~slots[s].active THEN <<>>
                  ELSE IF g = "net" /\ slots[s].desc # Zeros THEN <<"GET_CFG">>
                  ELSE <<"GET_DEV", "GET_CFG">>
Found == (stage = "hid" /\ kbd # 0) \/ (stage = "net" /\ nic # 0)
NextStage == [port |-> "identify", identify |-> "hid", hid |-> "net", net |-> "ready"]
next_item ==
    /\ Going /\ ~op.busy /\ todo = <<>> /\ stage # "ready"
    /\ LET over == i = NPorts \/ Found
       IN  /\ stage' = IF over THEN NextStage[stage] ELSE stage
           /\ i' = IF over THEN 1 ELSE i + 1
           /\ todo' = Plan(stage', i')
    /\ UNCHANGED <<Quiet, rings, hw, slots, op, brk, buf, rc, data, done, kbd, nic, faults, amiss>>

\* usb_hid_poll, usb_net_recv and usb_net_send.
IO(name, s) ==
    /\ Going /\ stage = "ready" /\ ~op.busy /\ s # 0 /\ io < MaxIO
    /\ Begin(name, s)
    /\ io' = io + 1
    /\ UNCHANGED <<dev, events, evt, post, slots, given, stage, i, todo,
                   rc, data, kbd, nic, ready, faults, amiss>>
poll_interrupt == IO("POLL", kbd)
bulk_recv == IO("RECV", nic)
bulk_send == IO("SEND", nic)

-----------------------------------------------------------------------------
(* The controller and the devices. *)

Advance(id) == [hw EXCEPT ![id].deq = @ + 1]
Mine(t) == op.busy /\ t.n = op.n
\* A write into the buffer at address a: seen by the call in progress if it is its own.
Stored(a, d) == IF op.busy /\ a = op.addr THEN d ELSE buf
Source(id) == slots[id[1]].port

Device == <<dev, rings, evt, slots, stage, i, todo, op, brk, rc, data, kbd, nic, io>>

\* The TRB at the controller's place, if it has been handed over.
Current(id, t) ==
    /\ hw[id].running
    /\ t = rings[id].trb[hw[id].deq]
    /\ t.cyc = hw[id].ccs

\* Nothing more to do, or the link back to the start.
hc_ring(id) ==
    /\ hw[id].running
    /\ LET t == rings[id].trb[hw[id].deq]
       IN  \/ /\ t.cyc # hw[id].ccs
              /\ hw' = [hw EXCEPT ![id].running = FALSE]
           \/ /\ t.cyc = hw[id].ccs /\ t.kind = "link"
              /\ hw' = [hw EXCEPT ![id].deq = 1, ![id].ccs = 1 - @]
    /\ UNCHANGED <<Device, events, post, given, buf, done, ready, faults, amiss>>

\* Done, or refused; a transfer that fails halts its endpoint.
Succeeds(t) == done' = (done \/ Mine(t)) /\ UNCHANGED faults
Fails == faults < MaxFaults /\ faults' = faults + 1 /\ UNCHANGED done

Configured(t) ==
    LET s == t.addr
    IN  CASE t.kind = "ADDRESS" -> [Advance(Cmd) EXCEPT ![<<s, "ep0">>] = NewEndpoint]
          [] t.kind = "CONFIG_INT" -> [Advance(Cmd) EXCEPT ![<<s, "int">>] = NewEndpoint]
          [] t.kind = "CONFIG_BULK" -> [Advance(Cmd) EXCEPT ![<<s, "in">>] = NewEndpoint, ![<<s, "out">>] = NewEndpoint]
          [] OTHER -> Advance(Cmd)

hc_command(t) ==
    /\ Current(Cmd, t) /\ t.kind # "link"
    /\ LET slot == IF t.kind = "ENABLE_SLOT" THEN Len(given) + 1 ELSE t.addr
       IN  \/ /\ slot \in SlotIds
              /\ Succeeds(t)
              /\ given' = IF t.kind = "ENABLE_SLOT" THEN Append(given, i) ELSE given
              /\ hw' = Configured(t)
              /\ Posted(Ev("cmd", "ok", slot, t.n))
           \/ /\ Fails
              /\ hw' = Advance(Cmd)
              /\ Posted(Ev("cmd", "error", 0, t.n))
              /\ UNCHANGED given
    /\ UNCHANGED <<Device, buf, ready, amiss>>

hc_control(id, t) ==
    /\ id[2] = "ep0" /\ Current(id, t) /\ t.kind # "link"
    /\ \/ /\ t.kind # "status"
          /\ buf' = IF t.kind \in ControlIn
                    THEN Stored(t.addr, [from |-> Source(id), what |-> t.kind]) ELSE buf
          /\ hw' = Advance(id)
          /\ UNCHANGED <<events, post, done, faults>>
       \/ /\ t.kind = "status"
          /\ Succeeds(t)
          /\ hw' = Advance(id)
          /\ Posted(Ev("xfer", "ok", id[1], t.n))
          /\ UNCHANGED buf
       \/ /\ Fails
          /\ hw' = [hw EXCEPT ![id].running = FALSE, ![id].halted = TRUE]
          /\ Posted(Ev("xfer", "stall", id[1], t.n))
          /\ UNCHANGED buf
    /\ UNCHANGED <<Device, given, ready, amiss>>

\* A device with something to say fills the oldest buffer.  If that is not the
\* buffer of a call that waits for it, the call in progress, or the next one,
\* will take the event for its own.
hc_in(id, t) ==
    /\ id[2] \in {"int", "in"} /\ Current(id, t) /\ t.kind # "link"
    /\ ready[Source(id)] > 0
    /\ ready' = [ready EXCEPT ![Source(id)] = @ - 1]
    /\ buf' = Stored(t.addr, [from |-> Source(id), what |-> t.kind])
    /\ done' = (done \/ Mine(t))
    /\ amiss' = IF op.busy /\ op.name = t.kind THEN amiss ELSE amiss \cup {"stray"}
    /\ hw' = Advance(id)
    /\ Posted(Ev("xfer", "ok", id[1], t.n))
    /\ UNCHANGED <<Device, given, faults>>

hc_out(id, t) ==
    /\ id[2] = "out" /\ Current(id, t) /\ t.kind # "link"
    /\ \/ Succeeds(t) /\ hw' = Advance(id) /\ Posted(Ev("xfer", "ok", id[1], t.n))
       \/ Fails /\ hw' = [hw EXCEPT ![id].running = FALSE, ![id].halted = TRUE] /\ Posted(Ev("xfer", "stall", id[1], t.n))
    /\ UNCHANGED <<Device, given, buf, ready, amiss>>

\* A key is pressed, a frame comes in.
device_input(p) ==
    /\ Going /\ stage = "ready" /\ dev[p] \in {"keyboard", "ecm", "asix"} /\ ready[p] = 0
    /\ ready' = [ready EXCEPT ![p] = 1]
    /\ UNCHANGED <<Device, hw, events, post, given, buf, done, faults, amiss>>

Controller ==
    \E id \in RingIds : LET t == rings[id].trb[hw[id].deq] IN
        \/ hc_ring(id) \/ hc_control(id, t) \/ hc_in(id, t) \/ hc_out(id, t)
        \/ id = Cmd /\ hc_command(t)

-----------------------------------------------------------------------------
Init ==
    /\ dev \in Attached
    /\ rings = [id \in RingIds |-> NewRing]
    /\ hw = [id \in RingIds |-> [NewEndpoint EXCEPT !.on = (id = Cmd)]]
    /\ events = [k \in 1 .. EventRingSize |-> [type |-> "none", cc |-> "ok", slot |-> 0, n |-> 0, cyc |-> 0]]
    /\ evt = [deq |-> 1, ccs |-> 1] /\ post = [enq |-> 1, pcs |-> 1]
    /\ slots = [s \in SlotIds |-> [active |-> FALSE, port |-> 1, desc |-> Zeros]]
    /\ given = <<>>
    /\ stage = "port" /\ i = 1 /\ todo = (IF dev[1] = "none" THEN <<>> ELSE <<"RESET">>)
    /\ op = [name |-> "none", slot |-> 0, n |-> 0, addr |-> 0, busy |-> FALSE]
    /\ brk = 1 /\ buf = Zeros /\ rc = "none" /\ data = Zeros /\ done = FALSE
    /\ kbd = 0 /\ nic = 0
    /\ ready = [p \in 1 .. NPorts |-> 0] /\ io = 0 /\ faults = 0 /\ amiss = {}

Driver == poll_event \/ timeout \/ port_reset \/ next_call \/ next_item
Finished ==
    /\ ~op.busy /\ (~Going \/ (stage = "ready" /\ (io = MaxIO \/ (kbd = 0 /\ nic = 0))))
    /\ UNCHANGED vars
Next ==
    \/ Driver \/ poll_interrupt \/ bulk_recv \/ bulk_send
    \/ Controller \/ \E p \in 1 .. NPorts : device_input(p)
    \/ Finished

Spec == Init /\ [][Next]_vars

-----------------------------------------------------------------------------
\* HAL_OK means that the controller has done what this very call asked for, and
\* the data handed over is what the device sent, through all wraps of the three
\* kinds of rings: as long as no earlier call was given up while its TRB was
\* queued, no port was left disabled after a reset, and no report or frame came
\* in while another call was waiting.
UsbCallsDone ==
    amiss = {} /\ ~op.busy /\ rc = "OK" =>
        /\ done
        /\ op.name \in ControlIn \cup {"POLL", "RECV"} =>
               data = [from |-> slots[op.slot].port, what |-> op.name]

\* When nothing fails, the keyboard and the network adapter are found, whatever
\* ports they are on.
DevicesFound ==
    faults = 0 /\ stage = "ready" =>
        /\ (\E p \in 1 .. NPorts : dev[p] = "keyboard") =>
               kbd # 0 /\ dev[slots[kbd].port] = "keyboard"
        /\ (\E p \in 1 .. NPorts : dev[p] \in {"ecm", "asix"}) =>
               nic # 0 /\ dev[slots[nic].port] \in {"ecm", "asix"}

\* "Poll for an interrupt transfer completion.  Returns HAL_OK if data available"
\* (xhci.h:355): what xhci_poll_interrupt hands over is a report of the device.
PollDelivers == ~op.busy /\ rc = "OK" /\ op.name = "POLL" => data # Zeros
=============================================================================
