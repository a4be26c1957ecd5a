-------------------------------- MODULE USBserial --------------------------------
(***************************************************************************)
(* The serial port object of core/USBserial.cpp, the endpoint glue of      *)
(* core/USB-CDC.c below it, and the USB peripheral and host they talk to.  *)
(*                                                                         *)
(* Two actors run code.  The application calls write and read, whose       *)
(* bodies run with interrupts disabled; the USB interrupt runs             *)
(* usb_cb_completion and usb_cb_set_configuration, which nothing           *)
(* pre-empts.  So each call is one action.  Between the actions the        *)
(* peripheral moves bytes by DMA and the host polls, sends, reconfigures   *)
(* or resets, in any order.                                                *)
(*                                                                         *)
(* Bytes are numbered modulo Tags per direction.  txPending .. rxBroken    *)
(* are history variables: the two streams of ByteStream the port has to    *)
(* implement, and whether an event that voids the promise has happened;    *)
(* from then on the bytes are not numbered any more.                       *)
(*                                                                         *)
(* A definition Mut_... is a faulty version of one after it.               *)
(***************************************************************************)
EXTENDS RingBuffer

CONSTANTS
    Tags,           \* bytes are numbered modulo Tags
    WriteLens,      \* lengths passed to the bulk write
    ReadLens,       \* max_len values passed to the bulk read
    AppWrites,      \* whether the application writes at all
    HostSends       \* whether the host sends at all

ASSUME PortAssumption ==
    /\ Tags \in Nat \ {0} /\ Byte = 0 .. Tags - 1
    /\ WriteLens \subseteq Nat /\ ReadLens \subseteq Nat
    /\ AppWrites \in BOOLEAN /\ HostSends \in BOOLEAN

\* USB_SERIAL_BUFFER_LENGTH is 64: whole words, and more than one of them.
ASSUME LengthAssumption == N % AlignStep = 0 /\ N > AlignStep

VARIABLES
    tx, rx,                     \* tx_buffer, rx_buffer
    rxbuf,                      \* what the last bounced transfer left in
                                \* rx_buffer._rx_buffer, << >> once copied
    transmitDMAInProgress,
    receiveDMAInProgress,
    txCallback, rxCallback,     \* usbserial_tx/rx_callback # NULL
    current_tx_length,          \* usbserial_current_tx_length
    epIn, epOut,                \* the bulk endpoints of the peripheral
    txTag, txPending, txOut, txBroken,
    rxTag, rxPending, rxOut, rxBroken

txVars == <<tx, transmitDMAInProgress, current_tx_length, epIn>>
rxVars == <<rx, rxbuf, receiveDMAInProgress, epOut>>
cbVars == <<txCallback, rxCallback>>
txHist == <<txTag, txPending, txOut, txBroken>>
rxHist == <<rxTag, rxPending, rxOut, rxBroken>>
vars   == <<txVars, rxVars, cbVars, txHist, rxHist>>

-----------------------------------------------------------------------------
(* The USB library and peripheral, as the callers in core/ use them.        *)

\* off: not enabled; idle: enabled, nothing armed; busy: armed;
\* done: the transfer has completed and usb_ep_pending holds.
EpState  == {"off", "idle", "busy", "done"}
Endpoint == [state : EpState, addr : 0 .. N, len : 0 .. N, bounce : BOOLEAN]

Ep(state) == [state |-> state, addr |-> 0, len |-> 0, bounce |-> FALSE]
InFlight(ep) == ep.state \in {"busy", "done"}

\* usb_ep_start_in, usb_ep_start_out: no effect on an endpoint that is off.
StartTransfer(ep, addr, len, bounce) ==
    IF ep.state = "off" THEN ep
    ELSE [state |-> "busy", addr |-> addr, len |-> len, bounce |-> bounce]

-----------------------------------------------------------------------------
(* History.                                                                 *)

TxBytes(n) == [k \in 1 .. n |-> IF txBroken THEN 0 ELSE (txTag + k - 1) % Tags]
RxBytes(n) == [k \in 1 .. n |-> IF rxBroken THEN 0 ELSE (rxTag + k - 1) % Tags]

\* n numbered bytes enter a stream; the bytes `data' leave it.
TxAccept(n) == /\ txTag' = IF txBroken' THEN 0 ELSE (txTag + n) % Tags
               /\ txPending' = IF txBroken' THEN << >> ELSE txPending \o TxBytes(n)
               /\ txOut' = IF txBroken' THEN << >> ELSE txOut
TxDeliver(data) ==
               /\ txOut' = IF txBroken' THEN << >> ELSE data
               /\ txPending' = IF txBroken' THEN << >>
                               ELSE SubSeq(txPending, Len(data) + 1, Len(txPending))
               /\ UNCHANGED txTag
RxAccept(n) == /\ rxTag' = IF rxBroken' THEN 0 ELSE (rxTag + n) % Tags
               /\ rxPending' = IF rxBroken' THEN << >> ELSE rxPending \o RxBytes(n)
               /\ rxOut' = IF rxBroken' THEN << >> ELSE rxOut
RxDeliver(data) ==
               /\ rxOut' = IF rxBroken' THEN << >> ELSE data
               /\ rxPending' = IF rxBroken' THEN << >>
                               ELSE SubSeq(rxPending, Len(data) + 1, Len(rxPending))
               /\ rxTag' = IF rxBroken' THEN 0 ELSE rxTag

\* The promise of a stream is void from here on if `event' holds.
TxVoidIf(event) == /\ txBroken' = (txBroken \/ event)
                   /\ txPending' = IF txBroken' THEN << >> ELSE txPending
                   /\ txOut' = IF txBroken' THEN << >> ELSE txOut
                   /\ txTag' = IF txBroken' THEN 0 ELSE txTag
RxVoidIf(event) == /\ rxBroken' = (rxBroken \/ event)
                   /\ rxPending' = IF rxBroken' THEN << >> ELSE rxPending
                   /\ rxOut' = IF rxBroken' THEN << >> ELSE rxOut
                   /\ rxTag' = IF rxBroken' THEN 0 ELSE rxTag

-----------------------------------------------------------------------------
(* Callbacks.                                                               *)

\* _send_data_cb: account for what was sent, then name the next transfer.
SendDataCb(r, tx_len) ==
    LET sent == IF tx_len > 0 THEN CompleteDirectRead(r, "tx", tx_len) ELSE r
        next == PrepareDirectRead(sent, "tx")
    IN  CASE IsEmpty(sent) ->
               [ring |-> sent, len |-> current_tx_length, start |-> FALSE]
          [] ~IsEmpty(sent) /\ next.len = 0 ->
               [ring |-> next.ring, len |-> 0, start |-> FALSE]
          [] OTHER ->
               [ring |-> next.ring, len |-> next.len, start |-> TRUE]

\* completeDirectWrite is forgotten.
Mut_ReceiveDataCb(r, len) ==
    IF IsFull(r) THEN [ring |-> r, len |-> 0, start |-> FALSE]
    ELSE [ring |-> r, len |-> PrepareDirectWrite(r, "rx"), start |-> TRUE]

\* _receive_data_cb: take in what was received, then name the next transfer.
ReceiveDataCb(r, len) ==
    LET got == IF len > 0 THEN CompleteDirectWrite(r, "rx", len, rxbuf) ELSE r
    IN  IF IsFull(got) THEN [ring |-> got, len |-> 0, start |-> FALSE]
        ELSE [ring |-> got, len |-> PrepareDirectWrite(got, "rx"), start |-> TRUE]

\* usbserial_run_tx_callback(len), the ring and the endpoint being r and ep.
RunTxCallback(r, ep, len) ==
    \/ /\ txCallback
       /\ LET cb == SendDataCb(r, len)
          IN  /\ tx' = cb.ring
              /\ transmitDMAInProgress' = cb.start
              /\ current_tx_length' = cb.len
              /\ epIn' = IF cb.start
                         THEN StartTransfer(ep, cb.ring.tail, cb.len, FALSE) ELSE ep
    \/ /\ ~txCallback
       /\ tx' = r /\ epIn' = ep
       /\ current_tx_length' = 0
       /\ UNCHANGED transmitDMAInProgress

\* usbserial_run_rx_callback(len)
RunRxCallback(r, ep, len) ==
    \/ /\ rxCallback
       /\ LET cb == ReceiveDataCb(r, len)
              bounce == Bounces(cb.ring, "rx")
          IN  /\ rx' = cb.ring
              /\ rxbuf' = << >>
              /\ receiveDMAInProgress' = cb.start
              /\ epOut' = IF cb.start
                          THEN StartTransfer(ep, IF bounce THEN 0 ELSE cb.ring.head,
                                             cb.len, bounce)
                          ELSE ep
    \/ /\ ~rxCallback
       /\ rx' = r /\ epOut' = ep
       /\ UNCHANGED <<rxbuf, receiveDMAInProgress>>

-----------------------------------------------------------------------------
(* The state after the constructor of usbserial, which runs before          *)
(* usb_init: both callbacks are set, no endpoint is enabled.  The           *)
(* usb_ep_ready test of set_rx_callback reads a peripheral that has no      *)
(* clock yet; if it answers true the receive flag is set early.             *)

EmptyRing == Clear([buf |-> [i \in Slot |-> 0], head |-> 0, tail |-> 0])

Init ==
    /\ tx = EmptyRing /\ rx = EmptyRing /\ rxbuf = << >>
    /\ transmitDMAInProgress = FALSE /\ receiveDMAInProgress \in BOOLEAN
    /\ txCallback = TRUE /\ rxCallback = TRUE
    /\ current_tx_length = 0
    /\ epIn = Ep("off") /\ epOut = Ep("off")
    /\ txTag = 0 /\ txPending = << >> /\ txOut = << >> /\ txBroken = FALSE
    /\ rxTag = 0 /\ rxPending = << >> /\ rxOut = << >> /\ rxBroken = FALSE

-----------------------------------------------------------------------------
(* The application.                                                         *)

\* "if no running tx transfer start one"
Mut_StartTxAlways(r) == RunTxCallback(r, epIn, 0)     \* the flag is not tested
Mut_StartTxNever(r) ==                                \* left to the interrupt
    tx' = r /\ UNCHANGED <<transmitDMAInProgress, current_tx_length, epIn>>
StartTxIfIdle(r) ==
    \/ transmitDMAInProgress /\ tx' = r
       /\ UNCHANGED <<transmitDMAInProgress, current_tx_length, epIn>>
    \/ ~transmitDMAInProgress /\ RunTxCallback(r, epIn, 0)

Mut_StartRxNever(r) ==                                \* left to the interrupt
    rx' = r /\ UNCHANGED <<rxbuf, receiveDMAInProgress, epOut>>
StartRxIfIdle(r) ==
    \/ receiveDMAInProgress /\ rx' = r
       /\ UNCHANGED <<rxbuf, receiveDMAInProgress, epOut>>
    \/ ~receiveDMAInProgress /\ RunRxCallback(r, epOut, 0)

\* A bulk store that reaches endPtr voids the stream.
Write(len) ==
    LET res == Store(tx, TxBytes(len))
    IN  /\ AppWrites
        /\ StartTxIfIdle(res.ring)
        /\ txBroken' = (txBroken \/ Splits(tx.head, res.len))
        /\ TxAccept(res.len)
        /\ UNCHANGED <<rxVars, cbVars, rxHist>>

WriteChar ==
    LET res == StoreChar(tx, txTag)
    IN  /\ AppWrites
        /\ StartTxIfIdle(res.ring)
        /\ UNCHANGED txBroken
        /\ TxAccept(res.len)
        /\ UNCHANGED <<rxVars, cbVars, rxHist>>

\* A bulk read that reaches endPtr voids the stream.
ReadBulk(max_len) ==
    LET res == Read(rx, max_len)
    IN  /\ StartRxIfIdle(res.ring)
        /\ rxBroken' = (rxBroken \/ Splits(rx.tail, Len(res.data)))
        /\ RxDeliver(res.data)
        /\ UNCHANGED <<txVars, cbVars, txHist>>

ReadOne ==
    LET res == ReadChar(rx)
    IN  /\ StartRxIfIdle(res.ring)
        /\ UNCHANGED rxBroken
        /\ RxDeliver(res.data)
        /\ UNCHANGED <<txVars, cbVars, txHist>>

\* _del(): both callbacks are removed; the setters run the now empty callback
\* if the IN endpoint (tested for both directions) is idle.
Del ==
    /\ txCallback' = FALSE /\ rxCallback' = FALSE
    /\ current_tx_length' = IF epIn.state = "idle" THEN 0 ELSE current_tx_length
    /\ UNCHANGED <<tx, transmitDMAInProgress, epIn, rxVars, txHist, rxHist>>

-----------------------------------------------------------------------------
(* The USB interrupt.                                                       *)

\* usb_cb_completion: received data first, then data sent.  Data received
\* with no callback is dropped.
UsbCompletion ==
    /\ epOut.state = "done" \/ epIn.state = "done"
    /\ \/ epOut.state = "done" /\ RunRxCallback(rx, Ep("idle"), epOut.len)
       \/ epOut.state # "done" /\ UNCHANGED rxVars
    /\ \/ epIn.state = "done" /\ RunTxCallback(tx, Ep("idle"), current_tx_length)
       \/ epIn.state # "done" /\ UNCHANGED txVars
    /\ RxVoidIf(epOut.state = "done" /\ epOut.len > 0 /\ ~rxCallback)
    /\ UNCHANGED <<cbVars, txHist>>

\* usb_cb_set_configuration(0 or 1) -> usbserial_init: the endpoints are set
\* up afresh and both transfers started afresh.  Void: a completion the
\* interrupt had not seen, and a short transfer whose filler is in the ring.
SetConfiguration ==
    /\ RunTxCallback(tx, Ep("idle"), 0)
    /\ RunRxCallback(rx, Ep("idle"), 0)
    /\ TxVoidIf(\/ epIn.state = "done"
                \/ transmitDMAInProgress /\ ~Aligned(current_tx_length))
    /\ RxVoidIf(epOut.state = "done" /\ epOut.len > 0)
    /\ UNCHANGED cbVars

\* The endpoints go off: a bus reset or a disconnect, for which usb_cb_reset
\* does nothing, or usbserial_disable().
EndpointsOff ==
    /\ epIn.state # "off"
    /\ epIn' = Ep("off") /\ epOut' = Ep("off")
    /\ TxVoidIf(epIn.state = "done")
    /\ RxVoidIf(epOut.state = "done" /\ epOut.len > 0)
    /\ UNCHANGED <<tx, transmitDMAInProgress, current_tx_length, rx, rxbuf,
                   receiveDMAInProgress, cbVars>>

-----------------------------------------------------------------------------
(* The peripheral and the host.                                             *)

\* The host polls the IN endpoint and takes the transfer, read by DMA.
HostIn ==
    /\ epIn.state = "busy"
    /\ epIn' = [epIn EXCEPT !.state = "done"]
    /\ UNCHANGED txBroken
    /\ TxDeliver(MemcpyOut(tx.buf, epIn.addr, epIn.len))
    /\ UNCHANGED <<tx, transmitDMAInProgress, current_tx_length, rxVars, cbVars, rxHist>>

\* The host sends n bytes, possibly none, and DMA writes them: never more than
\* the length given to usb_ep_start_out.
HostOut(n) ==
    /\ HostSends
    /\ epOut.state = "busy" /\ n <= epOut.len
    /\ epOut' = [epOut EXCEPT !.state = "done", !.len = n]
    /\ \/ /\ epOut.bounce
          /\ rxbuf' = RxBytes(n)
          /\ UNCHANGED rx
       \/ /\ ~epOut.bounce
          /\ rx' = [rx EXCEPT !.buf = MemcpyIn(@, epOut.addr, RxBytes(n))]
          /\ UNCHANGED rxbuf
    /\ UNCHANGED rxBroken
    /\ RxAccept(n)
    /\ UNCHANGED <<receiveDMAInProgress, txVars, cbVars, txHist>>

-----------------------------------------------------------------------------
Next ==
    \/ \E len \in WriteLens : Write(len)
    \/ WriteChar
    \/ \E max_len \in ReadLens : ReadBulk(max_len)
    \/ ReadOne
    \/ Del
    \/ UsbCompletion
    \/ SetConfiguration
    \/ EndpointsOff
    \/ HostIn
    \/ \E n \in 0 .. N : HostOut(n)

Spec == Init /\ [][Next]_vars

\* A pending interrupt is taken, the host keeps polling an armed endpoint, and
\* the application keeps reading.
Fairness == /\ WF_vars(UsbCompletion)
            /\ WF_vars(HostIn)
            /\ WF_vars(ReadOne)

FairSpec == Spec /\ Fairness

-----------------------------------------------------------------------------
(* Properties.                                                              *)

\* Pointers of both ring buffers and addresses given to the USB DMA stay inside the
\* storage, slots hold bytes.
TypeOK ==
    /\ tx \in Ring /\ rx \in Ring /\ rxbuf \in Seq(Byte)
    /\ transmitDMAInProgress \in BOOLEAN /\ receiveDMAInProgress \in BOOLEAN
    /\ txCallback \in BOOLEAN /\ rxCallback \in BOOLEAN
    /\ current_tx_length \in 0 .. N
    /\ epIn \in Endpoint /\ epOut \in Endpoint
    /\ txTag \in Byte /\ txPending \in Seq(Byte) /\ txOut \in Seq(Byte)
    /\ rxTag \in Byte /\ rxPending \in Seq(Byte) /\ rxOut \in Seq(Byte)
    /\ txBroken \in BOOLEAN /\ rxBroken \in BOOLEAN

\* The transfer in the IN endpoint is the one the ring will account for at its
\* completion: it starts at tailPtr on a word boundary, has the recorded length,
\* and the rounded length does not carry tailPtr past endPtr.
InTransferMatchesRing ==
    /\ Aligned(tx.tail)
    /\ InFlight(epIn) =>
         /\ epIn.addr = tx.tail /\ epIn.len = current_tx_length
         /\ epIn.len > 0 /\ tx.tail + RoundUp(epIn.len) <= N

\* The transfer in the OUT endpoint writes, on a word boundary, where
\* completeDirectWrite will look for it: at headPtr, or in _rx_buffer and no
\* longer than that; and headPtr stays inside the storage after it.
OutTransferMatchesRing ==
    InFlight(epOut) =>
        /\ epOut.bounce <=> ~Aligned(rx.head)
        /\ epOut.bounce => epOut.len <= BounceSize
        /\ ~epOut.bounce => epOut.addr = rx.head
        /\ rx.head + epOut.len <= N

\* While DMA owns a region neither side reuses it: the bytes being sent are
\* still counted as used, the bytes being received as available.  Said of a
\* direction only until its stream is void (txBroken, rxBroken): a bulk call that
\* reaches endPtr moves a pointer too far.
DmaRegionsReserved ==
    /\ ~txBroken /\ InFlight(epIn)  => RoundUp(epIn.len) <= UsedSpace(tx)
    /\ ~rxBroken /\ InFlight(epOut) => epOut.len <= AvailableSpace(rx)

\* No wake-up is lost on the way out: bytes in the ring always have a transfer
\* under way, and the flag that says so is true to the endpoint.
NoTxStall ==
    txCallback => /\ ~IsEmpty(tx) => transmitDMAInProgress
                  /\ transmitDMAInProgress /\ epIn.state # "off" => InFlight(epIn)

\* No wake-up is lost on the way in: an enabled OUT endpoint is armed or waits
\* for its interrupt unless the ring is full, and only then does a read rearm it.
NoRxStall ==
    rxCallback /\ epOut.state # "off" =>
        /\ receiveDMAInProgress <=> InFlight(epOut)
        /\ receiveDMAInProgress \/ IsFull(rx)

TxStream == INSTANCE ByteStream WITH
    pending <- txPending, out <- txOut, broken <- txBroken,
    Capacity <- N - 1, Clearable <- FALSE
RxStream == INSTANCE ByteStream WITH
    pending <- rxPending, out <- rxOut, broken <- rxBroken,
    Capacity <- N - 1, Clearable <- FALSE

\* Bytes the application wrote reach the host in order, each once, and nothing
\* else does; at most N - 1 of them wait.  Void after a bulk write across
\* endPtr, or a reconfiguration over a short or unacknowledged transfer.
TxStreamSpec == TxStream!Spec

\* The same of the bytes the host sent and the application reads.  Void after a
\* bulk read across endPtr, a reset or reconfiguration over a transfer whose
\* interrupt is still pending, or data received after _del().
RxStreamSpec == RxStream!Spec

\* core/USBserial.h:15 write "returns bytes added to buffer": when the host
\* reconfigures the port, the transfer that usbserial_init starts over holds no
\* more bytes than the writes have returned and the host has not got.
OnlyWrittenBytesSent ==
    [][SetConfiguration /\ epIn.state # "done" /\ ~txBroken
         => epIn'.len <= Len(txPending)]_vars

TxWaiting == txPending # << >> /\ txCallback /\ epIn.state # "off"

\* Accepted bytes do not wait forever in the ring while the port stays up: the
\* host keeps getting transfers for as long as bytes are waiting.
TxProgress == []<>~TxWaiting \/ []<><<HostIn>>_vars

\* The host is never shut out for good while the application keeps reading.
RxReopens == []<>(epOut.state \in {"off", "busy"} \/ ~rxCallback)
=============================================================================
