------------------------------ MODULE JtagUart ------------------------------
(***************************************************************************)
(* The driver of the JTAG UART that carries the standard streams of the    *)
(* Nios (altera_avalon_jtag_uart_init.c, _read.c, _write.c, _ioctl.c, the  *)
(* fast driver, no operating system): two ring buffers between the calls   *)
(* of the foreground and the interrupt routine, the interrupt enables they *)
(* share, and the alarm that decides whether the host is still there.      *)
(* The host may scan the device, or stop doing so, at any time.  Interrupt *)
(* routines do not nest and the foreground stands still while one runs.    *)
(***************************************************************************)
EXTENDS Integers, Sequences

CONSTANTS
  BufLen,      \* ALTERA_AVALON_JTAG_UART_BUF_LEN (2048)
  Depth,       \* of the FIFOs of the device (64)
  Threshold,   \* of the write interrupt (8)
  INT_MAX,
  timeout,     \* ALTERA_AVALON_JTAG_UART_DEFAULT_TIMEOUT (10)
  Counts,      \* lengths of the calls
  TxBytes,     \* bytes written: a bound
  RxBytes      \* bytes the host sends: a bound

ASSUME SizeAssumption ==
  /\ BufLen \in Nat /\ BufLen > 1
  /\ Depth \in Nat \ {0} /\ Threshold \in 0 .. Depth - 1
  /\ TxBytes \in Nat /\ RxBytes \in Nat
ASSUME CallAssumption == Counts \subseteq Nat \ {0}
ASSUME TimeoutAssumption ==
  INT_MAX \in Nat /\ timeout \in 1 .. INT_MAX - 2

VARIABLES
  rxFifo, txFifo,   \* the FIFOs of the device
  ac,               \* the AC bit: the host has scanned the device
  irq_enable,       \* sp->irq_enable and the bits RE and WE of the device
  rx_in, rx_out, rx_buf,
  tx_in, tx_out, tx_buf,
  host_inactive,
  isr,              \* where the interrupt routine is
  control,          \* its copy of the control register, space counted down
  ravail,           \* its RAVAIL of the last data read
  pc,               \* where the foreground is
  count,            \* count of write, space of read: what is left to move
  moved,            \* ptr # start
  nonblock,         \* flags & O_NONBLOCK
  snap,             \* out of write, in of read
  n,                \* the length of the next memcpy
  chunk,            \* the bytes it gave to the caller of read
  txSent, rxSent,   \* history: numbers of the next bytes of the two senders
  toHost, toCaller  \* history: the bytes delivered last

deviceVars == << rxFifo, txFifo, ac >>
rxVars == << rx_in, rx_out, rx_buf >>
txVars == << tx_in, tx_out, tx_buf >>
isrVars == << isr, control, ravail >>
callVars == << pc, count, moved, nonblock, snap, n, chunk >>
streamVars == << txSent, rxSent, toHost, toCaller >>
vars == << deviceVars, irq_enable, rxVars, txVars, host_inactive,
           isrVars, callVars, streamVars >>

Numbered(from, len) == [i \in 1 .. len |-> from + i - 1]

NoControl == [wi |-> FALSE, space |-> 0]

Init ==
  /\ rxFifo = << >> /\ txFifo = << >> /\ ac = FALSE
  /\ irq_enable = {"RE"}
  /\ rx_in = 0 /\ rx_out = 0 /\ rx_buf = [i \in 0 .. BufLen - 1 |-> 0]
  /\ tx_in = 0 /\ tx_out = 0 /\ tx_buf = [i \in 0 .. BufLen - 1 |-> 0]
  /\ host_inactive = 0
  /\ isr = "off" /\ control = NoControl /\ ravail = FALSE
  /\ pc = "idle" /\ count = 0 /\ moved = FALSE /\ nonblock = FALSE
  /\ snap = 0 /\ n = 0 /\ chunk = << >>
  /\ txSent = 0 /\ rxSent = 0 /\ toHost = << >> /\ toCaller = << >>

After(i, len) == (i + len) % BufLen
HostGone == host_inactive >= timeout
Smaller(x, y) == IF x < y THEN x ELSE y
----------------------------------------------------------------------------
(* The host scans the device: it takes a byte if there is one and may send *)
(* one if there is room.                                                   *)
HostScan ==
  /\ ac' = TRUE
  /\ IF txFifo = << >>
       THEN UNCHANGED << txFifo, toHost >>
       ELSE txFifo' = Tail(txFifo) /\ toHost' = << Head(txFifo) >>
  /\ \/ UNCHANGED << rxFifo, rxSent >>
     \/ /\ Len(rxFifo) < Depth /\ rxSent < RxBytes
        /\ rxFifo' = Append(rxFifo, rxSent)
        /\ rxSent' = rxSent + 1
  /\ UNCHANGED << irq_enable, rxVars, txVars, host_inactive,
                  isrVars, callVars, txSent, toCaller >>

(* altera_avalon_jtag_uart_timeout, once a second.                         *)
HostCheck ==
  /\ isr = "off"
  /\ \/ /\ ac
        /\ ac' = FALSE
        /\ host_inactive' = 0
     \/ /\ ~ac
        /\ host_inactive < INT_MAX - 2
        /\ host_inactive' = host_inactive + 1
        /\ UNCHANGED ac
  /\ UNCHANGED << rxFifo, txFifo, irq_enable, rxVars, txVars,
                  isrVars, callVars, streamVars >>
----------------------------------------------------------------------------
(* altera_avalon_jtag_uart_irq                                             *)
ReadPending == "RE" \in irq_enable /\ rxFifo # << >>
WritePending == "WE" \in irq_enable /\ Len(txFifo) <= Threshold

IsrUnchanged == UNCHANGED << ac, host_inactive, callVars >>

(* The control register is read on entry and again until nothing is pending. *)
IsrControl ==
  /\ isr = "control" \/ (isr = "off" /\ (ReadPending \/ WritePending))
  /\ IF ReadPending \/ WritePending
       THEN /\ control' = [wi |-> WritePending, space |-> Depth - Len(txFifo)]
            /\ isr' = IF ReadPending THEN "rx" ELSE "tx"
            /\ ravail' = ReadPending
       ELSE isr' = "off" /\ UNCHANGED << control, ravail >>
  /\ UNCHANGED << rxFifo, txFifo, irq_enable, rxVars, txVars, streamVars >>
  /\ IsrUnchanged

RxFull == After(rx_in, 1) = rx_out

(* Mutant of IsrRx: a byte is taken from the FIFO and then found to have   *)
(* no place.                                                               *)
IsrRxDrop ==
  /\ isr = "rx"
  /\ \/ /\ rxFifo = << >>
        /\ ravail' = FALSE
        /\ isr' = "rx_end"
        /\ UNCHANGED << rxFifo, rx_in, rx_buf >>
     \/ /\ rxFifo # << >>
        /\ rxFifo' = Tail(rxFifo)
        /\ ravail' = (Tail(rxFifo) # << >>)
        /\ IF RxFull
             THEN isr' = "rx_end" /\ UNCHANGED << rx_buf, rx_in >>
             ELSE /\ rx_buf' = [rx_buf EXCEPT ![rx_in] = Head(rxFifo)]
                  /\ rx_in' = After(rx_in, 1)
                  /\ UNCHANGED isr
  /\ UNCHANGED << txFifo, irq_enable, rx_out, txVars, control, streamVars >>
  /\ IsrUnchanged

(* One turn of the loop that empties the receive FIFO.                     *)
IsrRx ==
  /\ isr = "rx"
  /\ \/ /\ RxFull
        /\ isr' = "rx_end"
        /\ UNCHANGED << rxFifo, rx_in, rx_buf, ravail >>
     \/ /\ ~RxFull /\ rxFifo = << >>
        /\ ravail' = FALSE
        /\ isr' = "rx_end"
        /\ UNCHANGED << rxFifo, rx_in, rx_buf >>
     \/ /\ ~RxFull /\ rxFifo # << >>
        /\ rxFifo' = Tail(rxFifo)
        /\ ravail' = (Tail(rxFifo) # << >>)
        /\ rx_buf' = [rx_buf EXCEPT ![rx_in] = Head(rxFifo)]
        /\ rx_in' = After(rx_in, 1)
        /\ UNCHANGED isr
  /\ UNCHANGED << txFifo, irq_enable, rx_out, txVars, control, streamVars >>
  /\ IsrUnchanged

(* Bytes were left behind: the buffer is full.                             *)
IsrRxEnd ==
  /\ isr = "rx_end"
  /\ irq_enable' = IF ravail THEN irq_enable \ {"RE"} ELSE irq_enable
  /\ isr' = IF control.wi THEN "tx" ELSE "control"
  /\ ravail' = FALSE
  /\ control' = IF control.wi THEN control ELSE NoControl
  /\ UNCHANGED << rxFifo, txFifo, rxVars, txVars, streamVars >>
  /\ IsrUnchanged

(* Mutant of IsrTx: the interrupt is switched off when the FIFO is full.   *)
IsrTxOff ==
  /\ isr = "tx"
  /\ \/ /\ control.space > 0 /\ tx_out # tx_in
        /\ txFifo' = IF Len(txFifo) < Depth
                       THEN Append(txFifo, tx_buf[tx_out]) ELSE txFifo
        /\ tx_out' = After(tx_out, 1)
        /\ control' = [control EXCEPT !.space = @ - 1]
        /\ UNCHANGED << irq_enable, isr >>
     \/ /\ control.space > 0 /\ tx_out = tx_in
        /\ irq_enable' = irq_enable \ {"WE"}
        /\ isr' = "control" /\ control' = NoControl
        /\ UNCHANGED << txFifo, tx_out >>
     \/ /\ control.space = 0
        /\ isr' = "control" /\ control' = NoControl
        /\ irq_enable' = irq_enable \ {"WE"}
        /\ UNCHANGED << txFifo, tx_out >>
  /\ UNCHANGED << rxFifo, rxVars, tx_in, tx_buf, ravail, streamVars >>
  /\ IsrUnchanged

(* One turn of the loop that fills the transmit FIFO, or its end.  A byte  *)
(* written to a full FIFO would be lost.                                   *)
IsrTx ==
  /\ isr = "tx"
  /\ \/ /\ control.space > 0 /\ tx_out # tx_in
        /\ txFifo' = IF Len(txFifo) < Depth
                       THEN Append(txFifo, tx_buf[tx_out]) ELSE txFifo
        /\ tx_out' = After(tx_out, 1)
        /\ control' = [control EXCEPT !.space = @ - 1]
        /\ UNCHANGED << irq_enable, isr >>
     \/ /\ control.space > 0 /\ tx_out = tx_in
        /\ irq_enable' = irq_enable \ {"WE"}
        /\ isr' = "control" /\ control' = NoControl
        /\ UNCHANGED << txFifo, tx_out >>
     \/ /\ control.space = 0
        /\ isr' = "control" /\ control' = NoControl
        /\ UNCHANGED << txFifo, tx_out, irq_enable >>
  /\ UNCHANGED << rxFifo, rxVars, tx_in, tx_buf, ravail, streamVars >>
  /\ IsrUnchanged

Isr == IsrControl \/ IsrRx \/ IsrRxEnd \/ IsrTx
----------------------------------------------------------------------------
(* The foreground.                                                         *)
CallUnchanged == UNCHANGED << deviceVars, host_inactive, isrVars >>

Call(first, len, nb) ==
  /\ isr = "off" /\ pc = "idle"
  /\ pc' = first /\ count' = len /\ nonblock' = nb /\ moved' = FALSE
  /\ UNCHANGED << snap, n, chunk, irq_enable, rxVars, txVars, streamVars >>
  /\ CallUnchanged

(* The result is the number of bytes moved, or an error if there is none.  *)
Return ==
  /\ pc' = "idle"
  /\ count' = 0 /\ moved' = FALSE /\ nonblock' = FALSE
  /\ snap' = 0 /\ n' = 0 /\ chunk' = << >>

(* A step of the call in progress from one label to another.               *)
At(label) == isr = "off" /\ pc = label /\ CallUnchanged
Goto(label) == pc' = label /\ UNCHANGED << count, moved, nonblock >>

(* Mutant of TxRoom: the last cell is used although tx_out stands at 0.    *)
TxRoomWhole(out) ==
  IF tx_in < out THEN out - 1 - tx_in ELSE BufLen - tx_in

(* altera_avalon_jtag_uart_write: the room for one memcpy.                 *)
TxRoom(out) ==
  IF tx_in < out THEN out - 1 - tx_in
  ELSE IF out > 0 THEN BufLen - tx_in
  ELSE BufLen - 1 - tx_in

WriteLook ==
  /\ At("w_look")
  /\ snap' = tx_out
  /\ n' = Smaller(TxRoom(tx_out), count)
  /\ Goto(IF n' = 0 THEN "w_enable" ELSE "w_copy")
  /\ UNCHANGED << chunk, irq_enable, rxVars, txVars, streamVars >>

WriteCopy ==
  /\ At("w_copy")
  /\ tx_buf' = [i \in DOMAIN tx_buf |->
                  IF i \in tx_in .. tx_in + n - 1
                    THEN Numbered(txSent, n)[i - tx_in + 1] ELSE tx_buf[i]]
  /\ Goto("w_publish")
  /\ UNCHANGED << snap, n, chunk, irq_enable, rxVars, tx_in, tx_out, streamVars >>

WritePublish ==
  /\ At("w_publish")
  /\ tx_in' = After(tx_in, n)
  /\ txSent' = txSent + n
  /\ count' = count - n
  /\ moved' = TRUE
  /\ pc' = IF count' > 0 THEN "w_look" ELSE "w_enable"
  /\ n' = 0
  /\ UNCHANGED << nonblock, snap, chunk, irq_enable, rxVars, tx_out, tx_buf,
                  rxSent, toHost, toCaller >>

WriteEnable ==
  /\ At("w_enable")
  /\ irq_enable' = irq_enable \union {"WE"}
  /\ IF count > 0 /\ ~nonblock
       THEN Goto("w_spin") /\ UNCHANGED << snap, n, chunk >>
       ELSE Return
  /\ UNCHANGED << rxVars, txVars, streamVars >>

(* Mutant of WriteSpin: the write waits for room only.                     *)
WriteSpinForever ==
  /\ At("w_spin")
  /\ snap # tx_out
  /\ Goto("w_check")
  /\ UNCHANGED << snap, n, chunk, irq_enable, rxVars, txVars, streamVars >>

(* The wait for room, and the test of host_inactive that follows it.       *)
WriteSpin ==
  /\ At("w_spin")
  /\ snap # tx_out \/ HostGone
  /\ Goto("w_check")
  /\ UNCHANGED << snap, n, chunk, irq_enable, rxVars, txVars, streamVars >>

WriteCheck ==
  /\ At("w_check")
  /\ IF host_inactive # 0
       THEN Return
       ELSE Goto("w_look") /\ UNCHANGED << snap, n, chunk >>
  /\ UNCHANGED << irq_enable, rxVars, txVars, streamVars >>

(* altera_avalon_jtag_uart_read                                            *)
ReadLook ==
  /\ At("r_look")
  /\ snap' = rx_in
  /\ n' = Smaller(IF rx_in >= rx_out THEN rx_in - rx_out ELSE BufLen - rx_out, count)
  /\ Goto(IF n' > 0 THEN "r_copy"
          ELSE IF moved THEN "r_enable"
          ELSE IF nonblock THEN "r_fail" ELSE "r_spin")
  /\ UNCHANGED << chunk, irq_enable, rxVars, txVars, streamVars >>

ReadCopy ==
  /\ At("r_copy")
  /\ chunk' = [i \in 1 .. n |-> rx_buf[rx_out + i - 1]]
  /\ Goto("r_publish")
  /\ UNCHANGED << snap, n, irq_enable, rxVars, txVars, streamVars >>

ReadPublish ==
  /\ At("r_publish")
  /\ rx_out' = After(rx_out, n)
  /\ toCaller' = chunk
  /\ count' = count - n
  /\ moved' = TRUE
  /\ pc' = IF count' > 0 THEN "r_look" ELSE "r_enable"
  /\ n' = 0 /\ chunk' = << >>
  /\ UNCHANGED << nonblock, snap, irq_enable, rx_in, rx_buf, txVars,
                  txSent, rxSent, toHost >>

ReadSpin ==
  /\ At("r_spin")
  /\ snap # rx_in \/ HostGone
  /\ Goto("r_check")
  /\ UNCHANGED << snap, n, chunk, irq_enable, rxVars, txVars, streamVars >>

ReadCheck ==
  /\ At("r_check")
  /\ Goto(IF snap = rx_in THEN "r_fail" ELSE "r_look")
  /\ UNCHANGED << snap, n, chunk, irq_enable, rxVars, txVars, streamVars >>

(* Bytes were taken, so there is space for more.                           *)
ReadEnable ==
  /\ At("r_enable")
  /\ irq_enable' = irq_enable \union {"RE"}
  /\ Return
  /\ UNCHANGED << rxVars, txVars, streamVars >>

ReadFail ==
  /\ At("r_fail")
  /\ Return
  /\ UNCHANGED << irq_enable, rxVars, txVars, streamVars >>

(* altera_avalon_jtag_uart_close: the wait until everything was sent.      *)
Close ==
  /\ At("close")
  /\ tx_out = tx_in \/ HostGone \/ nonblock
  /\ Return
  /\ UNCHANGED << irq_enable, rxVars, txVars, streamVars >>

WriteStep == WriteLook \/ WriteCopy \/ WritePublish \/ WriteEnable \/ WriteSpin \/ WriteCheck
ReadStep == ReadLook \/ ReadCopy \/ ReadPublish \/ ReadSpin \/ ReadCheck \/ ReadEnable \/ ReadFail
CallStep == WriteStep \/ ReadStep \/ Close

Next ==
  \/ HostScan \/ HostCheck \/ Isr \/ CallStep
  \/ \E c \in Counts, nb \in BOOLEAN :
       \/ txSent + c <= TxBytes /\ Call("w_look", c, nb)
       \/ Call("r_look", c, nb)
  \/ \E nb \in BOOLEAN : Call("close", 0, nb)

(* The processor runs the interrupt routine to its end and the foreground  *)
(* when there is none; the second passes.  Nothing is assumed of the host. *)
Spec == Init /\ [][Next]_vars
        /\ WF_vars(Isr) /\ WF_vars(CallStep) /\ WF_vars(HostCheck)
----------------------------------------------------------------------------
InRing(buf, out, in) == [i \in 1 .. (in - out) % BufLen |-> buf[After(out, i - 1)]]

ToHost == INSTANCE ByteStream WITH
  Capacity <- BufLen - 1 + Depth, queue <- txFifo \o InRing(tx_buf, tx_out, tx_in),
  sent <- txSent, delivered <- toHost

FromHost == INSTANCE ByteStream WITH
  Capacity <- BufLen - 1 + Depth, queue <- InRing(rx_buf, rx_out, rx_in) \o rxFifo,
  sent <- rxSent, delivered <- toCaller

(* altera_avalon_jtag_uart.h:105-108: without critical sections, what the  *)
(* host is given is what write has accepted, in order, nothing lost.       *)
WritesReachHostInOrder == ToHost!Spec

(* altera_avalon_jtag_uart_init.c:134-136: no byte of the host is lost or  *)
(* overwritten, however full the buffer is while a read is in progress.    *)
ReadsAreInOrder == FromHost!Spec

(* Whatever the host does, a blocking write and a close return, for the     *)
(* alarm counts the seconds without a scan (_write.c:178-188,               *)
(* _init.c:243-247); and a read that waits returns once a byte has arrived  *)
(* (_read.c:172-178).                                                       *)
Writing == pc \in {"close", "w_look", "w_copy", "w_publish", "w_enable", "w_spin", "w_check"}

CallsReturn ==
  /\ Writing ~> ~Writing
  /\ (pc \in {"r_spin", "r_check"} /\ rxFifo # << >>) ~> pc = "idle"

(* A host that keeps scanning is given every byte, also when no other call *)
(* follows the write.                                                      *)
BytesReachHost ==
  []<><< HostScan >>_vars =>
    \A b \in 0 .. TxBytes - 1 : (txSent > b) ~> (toHost # << >> /\ toHost[1] >= b)
=============================================================================
