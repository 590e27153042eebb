-------------------------------- MODULE EMMC --------------------------------
(***************************************************************************)
(* The SD card driver, drivers/storage/emmc.c, with the host controller    *)
(* and the card.  The driver identifies the card, which decides whether a  *)
(* command carries a block number or a byte address, tries to raise the    *)
(* bus speed, and then moves data block by block through the controller's  *)
(* buffer, waiting for one interrupt bit after the other with a deadline.  *)
(***************************************************************************)
EXTENDS Naturals, Sequences, FiniteSets

CONSTANTS
    Requests, MaxCalls,
    BlockSize,      \* bytes of a block
    CountWrap       \* the block count register counts modulo CountWrap (2^16)

VARIABLES asked, result, moved, drv, dev

vars == <<asked, result, moved, drv, dev>>
history == <<asked, result, moved>>

None == 999

Disk == INSTANCE BlockDisk

-----------------------------------------------------------------------------
(* emmc_init and emmc_card_init: each command may fail. *)

StartStep(here, d, v) ==
    /\ drv.at = here
    /\ \/ drv' = d /\ dev' = v
       \/ drv' = [drv EXCEPT !.at = "down"] /\ UNCHANGED dev
    /\ UNCHANGED history

\* The reset, then CMD0.
emmc_reset == StartStep("reset", [drv EXCEPT !.at = "cmd8"], dev)

\* CMD8: a version 2 card answers with the pattern.  Its failure is no error.
send_if_cond ==
    /\ drv.at = "cmd8"
    /\ drv' \in {[drv EXCEPT !.at = "acmd41", !.v2 = dev.card.v2], [drv EXCEPT !.at = "acmd41", !.v2 = FALSE]}
    /\ UNCHANGED <<history, dev>>

\* ACMD41 until the card is ready, with HCS when CMD8 was answered.  A high
\* capacity card stays busy for a host without HCS, and the loop times out.
\* A card in block mode says so in the OCR.
Ready == dev.card.hc => drv.v2
IsSdhc == drv.v2 /\ dev.card.hc
send_op_cond ==
    IF Ready THEN StartStep("acmd41", [drv EXCEPT !.at = "ident", !.sdhc = IsSdhc], dev)
    ELSE StartStep("acmd41", [drv EXCEPT !.at = "down"], dev)

\* CMD2, CMD3, CMD9 and CMD7, and CMD16 for a card with byte addresses.
select_card == StartStep("ident", [drv EXCEPT !.at = "width"], dev)

\* ACMD6: four data lines on the card, then on the host; failure is no error.
set_bus_width ==
    /\ drv.at = "width" /\ drv' = [drv EXCEPT !.at = "tune"]
    /\ dev' \in {dev, [dev EXCEPT !.card.wide = TRUE, !.wide = TRUE]}
    /\ UNCHANGED history

-----------------------------------------------------------------------------
(* emmc_tune_speed. *)

Modes == <<"HS", "SDR50", "DDR50">>

\* emmc_switch_func: the card may take a mode it offers and name it in its
\* answer.  A card that refuses, or whose command fails, keeps its mode.  High
\* speed is tried for version 2 cards; the faster modes for block mode cards.
emmc_switch_func(mode) ==
    /\ drv.at = "tune" /\ Modes[drv.try] = mode
    /\ drv.v2 /\ (mode = "HS" \/ drv.sdhc)
    /\ drv' \in {[drv EXCEPT !.at = "tuned", !.selected = m] : m \in {"none"} \cup ({mode} \cap dev.card.offers)}
    /\ dev' = IF drv'.selected = mode THEN [dev EXCEPT !.card.mode = mode] ELSE dev
    /\ UNCHANGED history

\* Without high speed, or without 1.8 V signalling after it, tuning ends; SDR50
\* refused leads on to DDR50 if the controller has it.  The outcome of
\* emmc_switch_1v8 and the controller's capabilities are the card's and the
\* board's choice.
emmc_switch_1v8 == BOOLEAN
GoesOn(mode, ok) ==
    /\ ok
    /\ \/ mode = "HS" /\ drv.selected = "HS" /\ drv.sdhc
       \/ mode = "SDR50" /\ drv.selected = "none"
HostTakes_Unasked(mode) == TRUE
HostTakes(mode) == drv.selected = mode
emmc_tune_speed(mode) ==
    /\ drv.at = "tuned" /\ Modes[drv.try] = mode
    /\ dev' = IF HostTakes(mode) THEN [dev EXCEPT !.mode = mode] ELSE dev
    /\ \E ok \in emmc_switch_1v8 :
        drv' = IF GoesOn(mode, ok) THEN [drv EXCEPT !.at = "tune", !.try = @ + 1] ELSE [drv EXCEPT !.at = "idle"]
    /\ UNCHANGED history
tune_skipped ==
    /\ drv.at = "tune" /\ ~drv.v2
    /\ drv' = [drv EXCEPT !.at = "idle"] /\ UNCHANGED <<history, dev>>

-----------------------------------------------------------------------------
(* emmc_read and emmc_write. *)

Now == asked[Len(asked)]
Returned(rc) == result' = [result EXCEPT ![Len(result)] = rc] /\ drv' = [drv EXCEPT !.at = "idle"]
Goto(at) == drv' = [drv EXCEPT !.at = at] /\ UNCHANGED result

Enter(r) ==
    /\ drv.at \in {"idle", "down"} /\ Len(asked) < MaxCalls
    /\ asked' = Append(asked, r)
    /\ result' = Append(result, CASE drv.at = "down" -> "ERROR"
                                  [] drv.at = "idle" /\ r.n = 0 -> "OK"
                                  [] OTHER -> "pending")
    /\ drv' = IF drv.at = "idle" /\ r.n > 0 THEN [drv EXCEPT !.at = "command", !.block = 0] ELSE drv
    /\ UNCHANGED <<moved, dev>>
emmc_read == \E r \in Requests : ~r.write /\ Enter(r)
emmc_write == \E r \in Requests : r.write /\ Enter(r)

\* Block number or byte address.
Arg == IF drv.sdhc THEN Now.lba ELSE Now.lba * BlockSize

\* emmc_send_cmd: emmc_wait_dat_ready, the status bits cleared, the command.
emmc_send_cmd ==
    /\ drv.at = "command"
    /\ \/ /\ ~dev.xfer.active
          /\ dev' = [dev EXCEPT !.int = {}, !.cmd = [call |-> Len(asked), write |-> Now.write, arg |-> Arg,
                                                     n |-> Now.n % CountWrap]]
          /\ Goto("cmd_done")
       \/ dev.xfer.active /\ Returned("TIMEOUT") /\ UNCHANGED dev
    /\ UNCHANGED <<asked, moved>>

NoCommand == [call |-> 0, write |-> FALSE, arg |-> 0, n |-> 0]
\* emmc_reset of the command line.
ResetCmd == [dev EXCEPT !.cmd = NoCommand]

\* emmc_wait_int: an error bit ends the wait and is cleared; the bit waited for
\* is cleared before the data is touched.
Waits == [cmd_done |-> "CMD", rd |-> "RD", wr |-> "WR", xfer |-> "XFER"]
After == [cmd_done |-> IF Now.write THEN "wr" ELSE "rd", rd |-> "drain", wr |-> "fill", xfer |-> "idle"]

emmc_wait_int(at) ==
    /\ drv.at = at
    /\ \/ /\ "ERR" \in dev.int
          /\ dev' = [(IF at = "cmd_done" THEN ResetCmd ELSE dev) EXCEPT !.int = {}]
          /\ Returned("ERROR")
       \/ /\ "ERR" \notin dev.int /\ Waits[at] \in dev.int
          /\ dev' = [dev EXCEPT !.int = @ \ {Waits[at]}]
          /\ IF at = "xfer" THEN Returned("OK") ELSE Goto(After[at])
    /\ UNCHANGED <<asked, moved>>
wait_timeout(at) ==
    /\ drv.at = at /\ Returned("TIMEOUT")
    /\ dev' = IF at = "cmd_done" THEN ResetCmd ELSE dev
    /\ UNCHANGED <<asked, moved>>

\* The loops of emmc_pio_read_blocks and emmc_pio_write_blocks.
MoreBlocks == drv.block + 1 < Now.n
NextBlock(again) == drv' = [drv EXCEPT !.block = @ + 1, !.at = IF MoreBlocks THEN again ELSE "xfer"]

emmc_pio_read_blocks ==
    /\ drv.at = "drain"
    /\ moved' = moved \cup {[call |-> Len(asked), write |-> FALSE, lba |-> dev.buffer, buf |-> Now.buf + drv.block]}
    /\ dev' = [dev EXCEPT !.buffer = None]
    /\ NextBlock("rd")
    /\ UNCHANGED <<asked, result>>

emmc_pio_write_blocks ==
    /\ drv.at = "fill"
    /\ dev' = [dev EXCEPT !.buffer = Now.buf + drv.block]
    /\ NextBlock("wr")
    /\ UNCHANGED history

-----------------------------------------------------------------------------
(* The host controller and the card. *)

CardAddress == IF dev.card.hc THEN dev.cmd.arg ELSE dev.cmd.arg \div BlockSize

\* The card answers, and the transfer begins; or the command fails.
host_command ==
    /\ dev.cmd # NoCommand
    /\ dev' \in {[dev EXCEPT !.cmd = NoCommand, !.int = @ \cup {"CMD"}, !.buffer = None, !.asks = FALSE,
                             !.xfer = [active |-> TRUE, call |-> dev.cmd.call, write |-> dev.cmd.write,
                                       lba |-> CardAddress, left |-> dev.cmd.n]],
                 [dev EXCEPT !.cmd = NoCommand, !.int = @ \cup {"ERR"}]}
    /\ UNCHANGED <<history, drv>>

OneLess == [dev.xfer EXCEPT !.lba = @ + 1, !.left = @ - 1]

\* Reading: a block into the empty buffer.
host_read ==
    /\ dev.xfer.active /\ ~dev.xfer.write /\ dev.xfer.left > 0 /\ dev.buffer = None
    /\ dev' = [dev EXCEPT !.buffer = dev.xfer.lba, !.xfer = OneLess, !.int = @ \cup {"RD"}]
    /\ UNCHANGED <<history, drv>>

\* Writing: ask for a block, and take it to the card.
host_ask ==
    /\ dev.xfer.active /\ dev.xfer.write /\ dev.xfer.left > 0 /\ dev.buffer = None /\ ~dev.asks
    /\ dev' = [dev EXCEPT !.int = @ \cup {"WR"}, !.asks = TRUE]
    /\ UNCHANGED <<history, drv>>
host_write ==
    /\ dev.xfer.active /\ dev.xfer.write /\ dev.xfer.left > 0 /\ dev.buffer # None
    /\ moved' = moved \cup {[call |-> dev.xfer.call, write |-> TRUE, lba |-> dev.xfer.lba, buf |-> dev.buffer]}
    /\ dev' = [dev EXCEPT !.buffer = None, !.asks = FALSE, !.xfer = OneLess]
    /\ UNCHANGED <<asked, result, drv>>

host_done ==
    /\ dev.xfer.active /\ dev.xfer.left = 0 /\ dev.buffer = None
    /\ dev' = [dev EXCEPT !.xfer.active = FALSE, !.int = @ \cup {"XFER"}]
    /\ UNCHANGED <<history, drv>>

\* A data error: the lines may stay occupied.
host_data_error ==
    /\ dev.xfer.active /\ dev.int = {}
    /\ \E stuck \in BOOLEAN : dev' = [dev EXCEPT !.int = {"ERR"}, !.xfer.active = stuck, !.xfer.left = 0]
    /\ UNCHANGED <<history, drv>>

-----------------------------------------------------------------------------
Cards == {[v2 |-> v2, hc |-> hc, offers |-> m, mode |-> "DS", wide |-> FALSE] :
            v2 \in BOOLEAN, hc \in BOOLEAN, m \in {{}, {"HS"}, {"HS", "SDR50", "DDR50"}}}
Init ==
    /\ Disk!Init
    /\ drv = [at |-> "reset", v2 |-> FALSE, sdhc |-> FALSE, block |-> 0, try |-> 1, selected |-> "none"]
    /\ \E c \in {c \in Cards : c.hc => c.v2} :
        dev = [card |-> c, mode |-> "DS", wide |-> FALSE, int |-> {}, cmd |-> NoCommand, buffer |-> None,
               asks |-> FALSE,
               xfer |-> [active |-> FALSE, call |-> 0, write |-> FALSE, lba |-> 0, left |-> 0]]

emmc_init ==
    \/ emmc_reset \/ send_if_cond \/ send_op_cond \/ select_card \/ set_bus_width \/ tune_skipped
    \/ \E i \in 1 .. 3 : emmc_switch_func(Modes[i]) \/ emmc_tune_speed(Modes[i])
Deadline == \E at \in DOMAIN Waits : wait_timeout(at)
Working ==
    \/ emmc_send_cmd \/ emmc_pio_read_blocks \/ emmc_pio_write_blocks \/ Deadline
    \/ \E at \in DOMAIN Waits : emmc_wait_int(at)
Host == host_command \/ host_read \/ host_ask \/ host_write \/ host_done \/ host_data_error
Next == emmc_init \/ emmc_read \/ emmc_write \/ Working \/ Host

Fairness == WF_vars(Working)
Spec == Init /\ [][Next]_vars /\ Fairness

-----------------------------------------------------------------------------
\* HAL_OK means that every block has moved between its place on the card, whose
\* addressing was found out at start-up, and its place in the caller's buffer.
ImplementsDisk == Disk!Spec

\* When the card is in use, host and card run the bus at the same speed and
\* width, whatever the card offered, refused or failed to answer.
ModesAgree == drv.at = "idle" => dev.mode = dev.card.mode /\ dev.wide = dev.card.wide

\* A call returns.
CallReturns == drv.at \in {"command", "cmd_done", "rd", "wr", "drain", "fill", "xfer"} ~> drv.at = "idle"
=============================================================================
