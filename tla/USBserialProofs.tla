---------------------------- MODULE USBserialProofs ----------------------------
(***************************************************************************)
(* Proofs about USBserial for every buffer length made of whole words.     *)
(*                                                                         *)
(* The two directions share nothing but the interrupt, so the inductive    *)
(* invariant is a part for each of them and one for the history.           *)
(***************************************************************************)
EXTENDS USBserial, RingBufferProofs

\* The way out: besides the run's invariants, the flag of _send_data_cb is set
\* whenever the IN endpoint is armed, so nothing rearms it over a transfer.
TxPart ==
    /\ tx \in Ring /\ epIn \in Endpoint /\ current_tx_length \in 0 .. N
    /\ transmitDMAInProgress \in BOOLEAN /\ txCallback \in BOOLEAN
    /\ InFlight(epIn) => transmitDMAInProgress
    /\ InTransferMatchesRing /\ NoTxStall

\* The way in.
RxPart ==
    /\ rx \in Ring /\ rxbuf \in Seq(Byte) /\ epOut \in Endpoint
    /\ receiveDMAInProgress \in BOOLEAN /\ rxCallback \in BOOLEAN
    /\ OutTransferMatchesRing /\ NoRxStall

\* The numbered streams.
TxHistType == /\ txTag \in Byte /\ txPending \in Seq(Byte) /\ txOut \in Seq(Byte)
              /\ txBroken \in BOOLEAN
RxHistType == /\ rxTag \in Byte /\ rxPending \in Seq(Byte) /\ rxOut \in Seq(Byte)
              /\ rxBroken \in BOOLEAN

PortInv == TxPart /\ RxPart /\ TxHistType /\ RxHistType

\* The filler and the first number are bytes.
LEMMA ZeroIsAByte == 0 \in Byte
  BY PortAssumption

\* USB_SERIAL_BUFFER_LENGTH is what the DMA side of the ring needs.
LEMMA BufferOfWords == Words
  BY LengthAssumption DEF Words

-----------------------------------------------------------------------------
(* The callbacks.                                                           *)

\* _send_data_cb asks for a transfer exactly when the ring has bytes, and the
\* transfer it asks for is one the ring can account for.
LEMMA SendDataCbFacts ==
  ASSUME NEW r \in Ring, Aligned(r.tail), NEW tx_len \in Nat,
         r.tail + RoundUp(tx_len) <= N, current_tx_length \in 0 .. N,
         NEW cb, cb = SendDataCb(r, tx_len)
  PROVE  /\ cb.ring \in Ring /\ Aligned(cb.ring.tail)
         /\ cb.len \in 0 .. N /\ cb.start \in BOOLEAN
         /\ cb.start => /\ cb.len > 0 /\ cb.ring.tail + RoundUp(cb.len) <= N
         /\ ~cb.start => IsEmpty(cb.ring) /\ cb.len = current_tx_length
<1> DEFINE sent == IF tx_len > 0 THEN CompleteDirectRead(r, "tx", tx_len) ELSE r
           next == PrepareDirectRead(sent, "tx")
<1>1. sent \in Ring /\ Aligned(sent.tail)
  BY CompleteDirectReadFacts, BufferOfWords
<1> HIDE DEF sent
<1>2. CASE IsEmpty(sent)
  <2>1. cb = [ring |-> sent, len |-> current_tx_length, start |-> FALSE]
    BY <1>2 DEF SendDataCb, sent
  <2> QED BY <1>1, <1>2, <2>1
<1>3. CASE ~IsEmpty(sent)
  <2>1. next = PrepareDirectRead(sent, "tx") /\ Words
    BY BufferOfWords
  <2> HIDE DEF next
  <2>2. /\ next.ring \in Ring /\ next.ring.tail = sent.tail
        /\ next.len \in 1 .. N /\ sent.tail + RoundUp(next.len) <= N
    BY <1>1, <1>3, <2>1, PrepareDirectReadFacts
  <2>3. next.len # 0 /\ next.len > 0 /\ next.len \in 0 .. N
    BY <2>2, NAssumption
  <2>4. cb = [ring |-> next.ring, len |-> next.len, start |-> TRUE]
    BY <1>3, <2>3 DEF SendDataCb, sent, next
  <2> QED BY <1>1, <2>2, <2>3, <2>4
<1> QED BY <1>2, <1>3

\* _receive_data_cb asks for a transfer exactly when the ring has room, and the
\* transfer fits where it will be written.
LEMMA ReceiveDataCbFacts ==
  ASSUME NEW r \in Ring, NEW len \in Nat, r.head + len <= N, rxbuf \in Seq(Byte),
         NEW cb, cb = ReceiveDataCb(r, len)
  PROVE  /\ cb.ring \in Ring /\ cb.len \in 0 .. N /\ cb.start \in BOOLEAN
         /\ len = 0 => cb.ring = r
         /\ cb.start => /\ cb.ring.head + cb.len <= N
                        /\ Bounces(cb.ring, "rx") => cb.len <= BounceSize
         /\ ~cb.start => IsFull(cb.ring)
<1> DEFINE got == IF len > 0 THEN CompleteDirectWrite(r, "rx", len, rxbuf) ELSE r
<1>1. got \in Ring /\ (len = 0 => got = r)
  BY CompleteDirectWriteFacts
<1> HIDE DEF got
<1>2. CASE IsFull(got)
  <2>1. cb = [ring |-> got, len |-> 0, start |-> FALSE]
    BY <1>2 DEF ReceiveDataCb, got
  <2> QED BY <1>1, <1>2, <2>1, NAssumption
<1>3. CASE ~IsFull(got)
  <2> DEFINE new == PrepareDirectWrite(got, "rx")
  <2>1. cb = [ring |-> got, len |-> new, start |-> TRUE]
    BY <1>3 DEF ReceiveDataCb, got
  <2>2. /\ new \in 1 .. AvailableSpace(got) /\ got.head + new <= N
        /\ Bounces(got, "rx") => new <= BounceSize
    BY <1>1, <1>3, PrepareDirectWriteFacts
  <2> HIDE DEF new
  <2>3. new \in 0 .. N
    BY <1>1, <2>2, SpaceFacts, NAssumption
  <2> QED BY <1>1, <2>1, <2>2, <2>3
<1> QED BY <1>2, <1>3

-----------------------------------------------------------------------------
(* Running a callback re-establishes its direction.                         *)

\* r and ep are the ring and the endpoint the callback starts from: an armed
\* endpoint only with the flag set, in which case the caller does not run it.
LEMMA RunTxFacts ==
  ASSUME NEW r \in Ring, Aligned(r.tail), NEW len \in Nat, r.tail + RoundUp(len) <= N,
         NEW ep \in Endpoint, ~InFlight(ep),
         current_tx_length \in 0 .. N, transmitDMAInProgress \in BOOLEAN,
         txCallback \in BOOLEAN, txCallback' = txCallback,
         RunTxCallback(r, ep, len)
  PROVE  TxPart'
<1>1. CASE txCallback
  <2> DEFINE cb == SendDataCb(r, len)
  <2>1. /\ tx' = cb.ring /\ transmitDMAInProgress' = cb.start
        /\ current_tx_length' = cb.len
        /\ epIn' = IF cb.start THEN StartTransfer(ep, cb.ring.tail, cb.len, FALSE) ELSE ep
    BY <1>1 DEF RunTxCallback
  <2>2. /\ cb.ring \in Ring /\ Aligned(cb.ring.tail)
        /\ cb.len \in 0 .. N /\ cb.start \in BOOLEAN
        /\ cb.start => /\ cb.len > 0 /\ cb.ring.tail + RoundUp(cb.len) <= N
        /\ ~cb.start => IsEmpty(cb.ring)
    BY SendDataCbFacts
  <2> HIDE DEF cb
  <2>3. CASE cb.start
    <3>1. cb.ring.tail \in 0 .. N
      <4>1. cb.ring.tail \in Slot
        BY <2>2 DEF Ring
      <4> QED BY <4>1, NAssumption DEF Slot
    <3>2. /\ epIn' \in Endpoint
          /\ InFlight(epIn)' => epIn'.addr = cb.ring.tail /\ epIn'.len = cb.len
          /\ InFlight(epIn)' \/ epIn'.state = "off"
      BY <2>1, <2>2, <2>3, <3>1 DEF StartTransfer, Endpoint, EpState, InFlight
    <3>3. InTransferMatchesRing' /\ NoTxStall'
      BY <2>1, <2>2, <2>3, <3>2 DEF InTransferMatchesRing, NoTxStall
    <3> QED BY <2>1, <2>2, <2>3, <3>2, <3>3 DEF TxPart
  <2>4. CASE ~cb.start
    BY <2>1, <2>2, <2>4 DEF TxPart, InTransferMatchesRing, NoTxStall, InFlight
  <2> QED BY <2>2, <2>3, <2>4
<1>2. CASE ~txCallback
  <2>1. /\ tx' = r /\ epIn' = ep /\ current_tx_length' = 0
        /\ transmitDMAInProgress' = transmitDMAInProgress
    BY <1>2 DEF RunTxCallback
  <2>2. current_tx_length' \in 0 .. N
    BY <2>1, NAssumption
  <2>3. InTransferMatchesRing' /\ NoTxStall' /\ ~InFlight(epIn)'
    BY <1>2, <2>1 DEF InTransferMatchesRing, NoTxStall, InFlight
  <2> QED BY <2>1, <2>2, <2>3 DEF TxPart
<1> QED BY <1>1, <1>2

\* The same for the way in; no caller runs this callback over an armed endpoint.
LEMMA RunRxFacts ==
  ASSUME NEW r \in Ring, NEW len \in Nat, r.head + len <= N,
         NEW ep \in Endpoint, ~InFlight(ep),
         rxbuf \in Seq(Byte), receiveDMAInProgress \in BOOLEAN,
         rxCallback \in BOOLEAN, rxCallback' = rxCallback,
         RunRxCallback(r, ep, len)
  PROVE  RxPart'
<1>1. CASE rxCallback
  <2> DEFINE cb == ReceiveDataCb(r, len)
             bounce == Bounces(cb.ring, "rx")
  <2>1. /\ rx' = cb.ring /\ rxbuf' = << >> /\ receiveDMAInProgress' = cb.start
        /\ epOut' = IF cb.start
                    THEN StartTransfer(ep, IF bounce THEN 0 ELSE cb.ring.head,
                                       cb.len, bounce)
                    ELSE ep
    BY <1>1 DEF RunRxCallback
  <2>2. /\ cb.ring \in Ring /\ cb.len \in 0 .. N /\ cb.start \in BOOLEAN
        /\ cb.start => /\ cb.ring.head + cb.len <= N
                       /\ bounce => cb.len <= BounceSize
        /\ ~cb.start => IsFull(cb.ring)
    BY ReceiveDataCbFacts
  <2>3. bounce \in BOOLEAN /\ (bounce <=> ~Aligned(cb.ring.head))
    BY DEF Bounces
  <2> HIDE DEF cb, bounce
  <2>4. CASE cb.start
    <3>1. (IF bounce THEN 0 ELSE cb.ring.head) \in 0 .. N
      <4>1. cb.ring.head \in 0 .. N - 1
        BY <2>2 DEF Ring, Slot
      <4>2. 0 \in 0 .. N /\ cb.ring.head \in 0 .. N
        BY <4>1, NAssumption
      <4> QED BY <4>2
    <3>2. /\ epOut' \in Endpoint
          /\ InFlight(epOut)' => /\ epOut'.len = cb.len /\ epOut'.bounce = bounce
                                 /\ ~bounce => epOut'.addr = cb.ring.head
          /\ InFlight(epOut)' \/ epOut'.state = "off"
      BY <2>1, <2>2, <2>3, <2>4, <3>1 DEF StartTransfer, Endpoint, EpState, InFlight
    <3>3. OutTransferMatchesRing'
      BY <2>1, <2>2, <2>3, <2>4, <3>2 DEF OutTransferMatchesRing
    <3>4. NoRxStall'
      BY <2>1, <2>4, <3>2 DEF NoRxStall
    <3> QED BY <2>1, <2>2, <3>2, <3>3, <3>4 DEF RxPart
  <2>5. CASE ~cb.start
    BY <2>1, <2>2, <2>5 DEF RxPart, OutTransferMatchesRing, NoRxStall, InFlight
  <2> QED BY <2>2, <2>4, <2>5
<1>2. CASE ~rxCallback
  BY <1>2 DEF RunRxCallback, RxPart, OutTransferMatchesRing, NoRxStall, InFlight
<1> QED BY <1>1, <1>2

-----------------------------------------------------------------------------
(* The history.                                                             *)

\* Numbers stay below Tags.
LEMMA TagStays ==
  ASSUME NEW t \in Byte, NEW n \in Nat
  PROVE  (t + n) % Tags \in Byte
  BY PortAssumption

\* What the application writes is a sequence of bytes.
LEMMA TxBytesType ==
  ASSUME NEW n \in Nat, txTag \in Byte
  PROVE  TxBytes(n) \in Seq(Byte) /\ Len(TxBytes(n)) = n
<1>1. \A k \in 1 .. n : (txTag + k - 1) % Tags \in Byte
  BY PortAssumption
<1> QED BY <1>1, ZeroIsAByte DEF TxBytes

\* What the host sends is a sequence of bytes.
LEMMA RxBytesType ==
  ASSUME NEW n \in Nat, rxTag \in Byte
  PROVE  RxBytes(n) \in Seq(Byte) /\ Len(RxBytes(n)) = n
<1>1. \A k \in 1 .. n : (rxTag + k - 1) % Tags \in Byte
  BY PortAssumption
<1> QED BY <1>1, ZeroIsAByte DEF RxBytes

\* What is left of a stream after a delivery is a stream.
LEMMA RestType ==
  ASSUME NEW s \in Seq(Byte), NEW n \in Nat
  PROVE  SubSeq(s, n + 1, Len(s)) \in Seq(Byte)
<1>1. CASE n <= Len(s)
  BY <1>1
<1>2. CASE n > Len(s)
  <2>1. SubSeq(s, n + 1, Len(s)) = << >>
    BY <1>2
  <2> QED BY <2>1
<1> QED BY <1>1, <1>2

\* The history of the way out stays typed whatever event it records.
LEMMA TxHistSteps ==
  ASSUME TxHistType, txBroken' \in BOOLEAN
  PROVE  /\ \A n \in Nat : TxAccept(n) => TxHistType'
         /\ \A data \in Seq(Byte) : TxDeliver(data) => TxHistType'
         /\ \A event : TxVoidIf(event) => TxHistType'
<1>1. ASSUME NEW n \in Nat, TxAccept(n) PROVE TxHistType'
  BY <1>1, TxBytesType, TagStays, ZeroIsAByte DEF TxHistType, TxAccept
<1>2. ASSUME NEW data \in Seq(Byte), TxDeliver(data) PROVE TxHistType'
  BY <1>2, RestType DEF TxHistType, TxDeliver
<1>3. ASSUME NEW event, TxVoidIf(event) PROVE TxHistType'
  BY <1>3, ZeroIsAByte DEF TxHistType, TxVoidIf
<1> QED BY <1>1, <1>2, <1>3

\* The same of the way in.
LEMMA RxHistSteps ==
  ASSUME RxHistType, rxBroken' \in BOOLEAN
  PROVE  /\ \A n \in Nat : RxAccept(n) => RxHistType'
         /\ \A data \in Seq(Byte) : RxDeliver(data) => RxHistType'
         /\ \A event : RxVoidIf(event) => RxHistType'
<1>1. ASSUME NEW n \in Nat, RxAccept(n) PROVE RxHistType'
  BY <1>1, RxBytesType, TagStays, ZeroIsAByte DEF RxHistType, RxAccept
<1>2. ASSUME NEW data \in Seq(Byte), RxDeliver(data) PROVE RxHistType'
  BY <1>2, RestType, ZeroIsAByte DEF RxHistType, RxDeliver
<1>3. ASSUME NEW event, RxVoidIf(event) PROVE RxHistType'
  BY <1>3, ZeroIsAByte DEF RxHistType, RxVoidIf
<1> QED BY <1>1, <1>2, <1>3

-----------------------------------------------------------------------------
(* The actions.                                                             *)

\* The port as its constructor leaves it satisfies the invariant.
LEMMA InitInv == Init => PortInv
<1> SUFFICES ASSUME Init PROVE PortInv
  OBVIOUS
<1>1. 0 \in Slot /\ 0 \in 0 .. N /\ Aligned(0)
  BY NAssumption DEF Slot, Aligned, AlignStep
<1>2. EmptyRing \in Ring /\ EmptyRing.tail = 0 /\ IsEmpty(EmptyRing)
  BY <1>1, ZeroIsAByte DEF EmptyRing, Clear, Ring, IsEmpty
<1>3. Ep("off") \in Endpoint /\ ~InFlight(Ep("off")) /\ Ep("off").state = "off"
  BY <1>1 DEF Ep, Endpoint, EpState, InFlight
<1>4. TxPart
  BY <1>1, <1>2, <1>3 DEF Init, TxPart, InTransferMatchesRing, NoTxStall
<1>5. RxPart
  BY <1>2, <1>3 DEF Init, RxPart, OutTransferMatchesRing, NoRxStall
<1>6. TxHistType /\ RxHistType
  <2>1. << >> \in Seq(Byte)
    OBVIOUS
  <2>2. txPending = << >> /\ txOut = << >> /\ rxPending = << >> /\ rxOut = << >>
    BY DEF Init
  <2>3. txBroken \in BOOLEAN /\ rxBroken \in BOOLEAN /\ txTag \in Byte /\ rxTag \in Byte
    BY ZeroIsAByte DEF Init
  <2> QED BY <2>1, <2>2, <2>3 DEF TxHistType, RxHistType
<1> QED BY <1>4, <1>5, <1>6 DEF PortInv

\* A step that leaves a direction and its callback alone keeps its part.
LEMMA TxFrame == TxPart /\ UNCHANGED <<txVars, txCallback>> => TxPart'
  BY DEF TxPart, txVars, InTransferMatchesRing, NoTxStall

\* The same of the way in.
LEMMA RxFrame == RxPart /\ UNCHANGED <<rxVars, rxCallback>> => RxPart'
  BY DEF RxPart, rxVars, OutTransferMatchesRing, NoRxStall

\* A step that leaves the history of a direction alone keeps its type.
LEMMA TxHistFrame == TxHistType /\ UNCHANGED txHist => TxHistType'
  BY DEF TxHistType, txHist

\* The same of the way in.
LEMMA RxHistFrame == RxHistType /\ UNCHANGED rxHist => RxHistType'
  BY DEF RxHistType, rxHist

\* A write puts bytes in front of the tail only, and starts a transfer if the
\* flag says that none is under way.
LEMMA StartTxFacts ==
  ASSUME TxPart, NEW r \in Ring, r.tail = tx.tail, txCallback' = txCallback,
         StartTxIfIdle(r)
  PROVE  TxPart'
<1>1. Aligned(r.tail) /\ r.tail + RoundUp(0) <= N /\ 0 \in Nat
  BY NAssumption DEF TxPart, InTransferMatchesRing, RoundUp, Aligned, AlignStep, Ring, Slot
<1>2. CASE transmitDMAInProgress
  <2>1. tx' = r /\ UNCHANGED <<transmitDMAInProgress, current_tx_length, epIn>>
    BY <1>2 DEF StartTxIfIdle
  <2> QED BY <1>2, <2>1 DEF TxPart, InTransferMatchesRing, NoTxStall
<1>3. CASE ~transmitDMAInProgress
  <2>1. RunTxCallback(r, epIn, 0) /\ ~InFlight(epIn)
    BY <1>3 DEF StartTxIfIdle, TxPart
  <2> QED BY <1>1, <2>1, RunTxFacts DEF TxPart
<1> QED BY <1>2, <1>3 DEF TxPart

\* A read moves the tail only, and reopens the OUT endpoint if it was shut.
LEMMA StartRxFacts ==
  ASSUME RxPart, NEW r \in Ring, r.head = rx.head, rxCallback' = rxCallback,
         StartRxIfIdle(r)
  PROVE  RxPart'
<1>1. CASE receiveDMAInProgress
  BY <1>1 DEF StartRxIfIdle, RxPart, OutTransferMatchesRing, NoRxStall
<1>2. CASE ~receiveDMAInProgress /\ rxCallback
  <2>1. RunRxCallback(r, epOut, 0) /\ ~InFlight(epOut)
    BY <1>2 DEF StartRxIfIdle, RxPart, NoRxStall, InFlight
  <2>2. r.head + 0 <= N /\ 0 \in Nat
    BY NAssumption DEF Ring, Slot
  <2> QED BY <2>1, <2>2, RunRxFacts DEF RxPart
<1>3. CASE ~receiveDMAInProgress /\ ~rxCallback
  <2>1. rx' = r /\ UNCHANGED <<rxbuf, receiveDMAInProgress, epOut>>
    BY <1>3 DEF StartRxIfIdle, RunRxCallback
  <2> QED BY <1>3, <2>1 DEF RxPart, OutTransferMatchesRing, NoRxStall
<1> QED BY <1>1, <1>2, <1>3 DEF RxPart

-----------------------------------------------------------------------------
(* Every action preserves the invariant.                                    *)

\* USBserial::write(data, len).
LEMMA WriteInv ==
  ASSUME PortInv, NEW len \in Nat, Write(len)
  PROVE  PortInv'
<1> DEFINE res == Store(tx, TxBytes(len))
<1>1. TxBytes(len) \in Seq(Byte) /\ Len(TxBytes(len)) = len
  BY TxBytesType DEF PortInv, TxHistType
<1>2. res.ring \in Ring /\ res.ring.tail = tx.tail /\ res.len \in Nat
  BY <1>1, StoreFacts DEF PortInv, TxPart
<1>3. /\ StartTxIfIdle(res.ring) /\ TxAccept(res.len)
      /\ txBroken' \in BOOLEAN /\ UNCHANGED <<rxVars, cbVars, rxHist>>
  BY DEF Write
<1> HIDE DEF res
<1> QED BY <1>2, <1>3, StartTxFacts, TxHistSteps, RxFrame, RxHistFrame DEF PortInv, cbVars

\* USBserial::write(c).
LEMMA WriteCharInv ==
  ASSUME PortInv, WriteChar
  PROVE  PortInv'
<1> DEFINE res == StoreChar(tx, txTag)
<1>1. res.ring \in Ring /\ res.ring.tail = tx.tail /\ res.len \in Nat
  BY StoreCharFacts DEF PortInv, TxPart, TxHistType
<1>2. /\ StartTxIfIdle(res.ring) /\ TxAccept(res.len)
      /\ UNCHANGED <<txBroken, rxVars, cbVars, rxHist>>
  BY DEF WriteChar
<1> HIDE DEF res
<1>3. txBroken' \in BOOLEAN
  BY <1>2 DEF PortInv, TxHistType
<1> QED BY <1>1, <1>2, <1>3, StartTxFacts, TxHistSteps, RxFrame, RxHistFrame
        DEF PortInv, cbVars

\* USBserial::read.
LEMMA ReadBulkInv ==
  ASSUME PortInv, NEW max_len \in Nat, ReadBulk(max_len)
  PROVE  PortInv'
<1> DEFINE res == Read(rx, max_len)
<1>1. res.ring \in Ring /\ res.ring.head = rx.head /\ res.data \in Seq(Byte)
  BY ReadFacts DEF PortInv, RxPart
<1>2. /\ StartRxIfIdle(res.ring) /\ RxDeliver(res.data)
      /\ rxBroken' \in BOOLEAN /\ UNCHANGED <<txVars, cbVars, txHist>>
  BY DEF ReadBulk
<1> HIDE DEF res
<1> QED BY <1>1, <1>2, StartRxFacts, RxHistSteps, TxFrame, TxHistFrame DEF PortInv, cbVars

\* USBserial::read_char.
LEMMA ReadOneInv ==
  ASSUME PortInv, ReadOne
  PROVE  PortInv'
<1> DEFINE res == ReadChar(rx)
<1>1. res.ring \in Ring /\ res.ring.head = rx.head /\ res.data \in Seq(Byte)
  BY ReadCharFacts DEF PortInv, RxPart
<1>2. /\ StartRxIfIdle(res.ring) /\ RxDeliver(res.data)
      /\ UNCHANGED <<rxBroken, txVars, cbVars, txHist>>
  BY DEF ReadOne
<1> HIDE DEF res
<1>3. rxBroken' \in BOOLEAN
  BY <1>2 DEF PortInv, RxHistType
<1> QED BY <1>1, <1>2, <1>3, StartRxFacts, RxHistSteps, TxFrame, TxHistFrame
        DEF PortInv, cbVars

\* Without callbacks the recorded length may be cleared only under an endpoint
\* that holds no transfer.
LEMMA DelInv ==
  ASSUME PortInv, Del
  PROVE  PortInv'
<1>1. TxPart'
  <2>1. /\ txCallback' = FALSE /\ UNCHANGED <<tx, transmitDMAInProgress, epIn>>
        /\ InFlight(epIn) => current_tx_length' = current_tx_length
        /\ current_tx_length' \in 0 .. N
    BY NAssumption DEF Del, InFlight, PortInv, TxPart
  <2> QED BY <2>1 DEF PortInv, TxPart, InTransferMatchesRing, NoTxStall
<1>2. RxPart'
  BY DEF Del, PortInv, RxPart, rxVars, OutTransferMatchesRing, NoRxStall
<1> QED BY <1>1, <1>2, TxHistFrame, RxHistFrame DEF Del, PortInv

\* The interrupt accounts for exactly what was armed, and an endpoint it has
\* handled is idle when the callback runs.
LEMMA UsbCompletionInv ==
  ASSUME PortInv, UsbCompletion
  PROVE  PortInv'
<1>1. Ep("idle") \in Endpoint /\ ~InFlight(Ep("idle"))
  BY NAssumption DEF Ep, Endpoint, EpState, InFlight
<1>2. RxPart'
  <2>1. CASE epOut.state = "done"
    <3>1. RunRxCallback(rx, Ep("idle"), epOut.len)
      BY <2>1 DEF UsbCompletion
    <3>2. rx.head + epOut.len <= N /\ epOut.len \in Nat
      BY <2>1, NAssumption DEF PortInv, RxPart, OutTransferMatchesRing, InFlight, Endpoint
    <3> QED BY <1>1, <3>1, <3>2, RunRxFacts DEF PortInv, RxPart, UsbCompletion, cbVars
  <2>2. CASE epOut.state # "done"
    BY <2>2, RxFrame DEF UsbCompletion, PortInv, cbVars
  <2> QED BY <2>1, <2>2
<1>3. TxPart'
  <2>1. CASE epIn.state = "done"
    <3>1. RunTxCallback(tx, Ep("idle"), current_tx_length)
      BY <2>1 DEF UsbCompletion
    <3>2. /\ Aligned(tx.tail) /\ current_tx_length \in Nat
          /\ tx.tail + RoundUp(current_tx_length) <= N
      BY <2>1, NAssumption DEF PortInv, TxPart, InTransferMatchesRing, InFlight
    <3> QED BY <1>1, <3>1, <3>2, RunTxFacts DEF PortInv, TxPart, UsbCompletion, cbVars
  <2>2. CASE epIn.state # "done"
    BY <2>2, TxFrame DEF UsbCompletion, PortInv, cbVars
  <2> QED BY <2>1, <2>2
<1>4. RxHistType'
  <2>1. rxBroken' \in BOOLEAN
    BY DEF UsbCompletion, RxVoidIf
  <2> QED BY <2>1, RxHistSteps DEF UsbCompletion, PortInv
<1> QED BY <1>2, <1>3, <1>4, TxHistFrame DEF UsbCompletion, PortInv

\* A reconfiguration starts both directions from idle endpoints.
LEMMA SetConfigurationInv ==
  ASSUME PortInv, SetConfiguration
  PROVE  PortInv'
<1>1. Ep("idle") \in Endpoint /\ ~InFlight(Ep("idle"))
  BY NAssumption DEF Ep, Endpoint, EpState, InFlight
<1>2. TxPart'
  <2>1. tx.tail + RoundUp(0) <= N /\ Aligned(tx.tail) /\ 0 \in Nat
    BY NAssumption DEF PortInv, TxPart, InTransferMatchesRing, RoundUp, Aligned,
                       AlignStep, Ring, Slot
  <2> QED BY <1>1, <2>1, RunTxFacts DEF PortInv, TxPart, SetConfiguration, cbVars
<1>3. RxPart'
  <2>1. rx.head + 0 <= N /\ 0 \in Nat
    BY NAssumption DEF PortInv, RxPart, Ring, Slot
  <2> QED BY <1>1, <2>1, RunRxFacts DEF PortInv, RxPart, SetConfiguration, cbVars
<1>4. txBroken' \in BOOLEAN /\ rxBroken' \in BOOLEAN
  BY DEF SetConfiguration, TxVoidIf, RxVoidIf
<1> QED BY <1>2, <1>3, <1>4, TxHistSteps, RxHistSteps DEF SetConfiguration, PortInv

\* A bus reset leaves nothing armed, and the flags as they are.
LEMMA EndpointsOffInv ==
  ASSUME PortInv, EndpointsOff
  PROVE  PortInv'
<1>1. /\ Ep("off") \in Endpoint /\ ~InFlight(Ep("off")) /\ Ep("off").state = "off"
  BY NAssumption DEF Ep, Endpoint, EpState, InFlight
<1>2. TxPart'
  BY <1>1 DEF EndpointsOff, PortInv, TxPart, InTransferMatchesRing, NoTxStall, cbVars
<1>3. RxPart'
  BY <1>1 DEF EndpointsOff, PortInv, RxPart, OutTransferMatchesRing, NoRxStall, cbVars
<1>4. txBroken' \in BOOLEAN /\ rxBroken' \in BOOLEAN
  BY DEF EndpointsOff, TxVoidIf, RxVoidIf
<1> QED BY <1>2, <1>3, <1>4, TxHistSteps, RxHistSteps DEF EndpointsOff, PortInv

\* A transfer to the host reads bytes of the storage and moves no pointer.
LEMMA HostInInv ==
  ASSUME PortInv, HostIn
  PROVE  PortInv'
<1>1. TxPart'
  <2>1. /\ epIn' \in Endpoint /\ epIn'.state = "done" /\ epIn.state = "busy"
        /\ epIn'.len = epIn.len /\ epIn'.addr = epIn.addr
    BY DEF HostIn, PortInv, TxPart, Endpoint, EpState
  <2>2. UNCHANGED <<tx, transmitDMAInProgress, current_tx_length, txCallback>>
    BY DEF HostIn, cbVars
  <2> QED BY <2>1, <2>2 DEF PortInv, TxPart, InTransferMatchesRing, NoTxStall, InFlight
<1>2. MemcpyOut(tx.buf, epIn.addr, epIn.len) \in Seq(Byte)
  <2>1. /\ epIn.addr \in Nat /\ epIn.len \in Nat /\ epIn.addr = tx.tail
        /\ tx.tail + RoundUp(epIn.len) <= N
    BY NAssumption DEF HostIn, PortInv, TxPart, InTransferMatchesRing, InFlight, Endpoint
  <2>2. epIn.addr + epIn.len <= N
    BY <2>1, RoundUpFacts, NAssumption
  <2> QED BY <2>1, <2>2, MemcpyOutType DEF PortInv, TxPart, Ring
<1>3. txBroken' \in BOOLEAN
  BY DEF HostIn, PortInv, TxHistType
<1>4. TxHistType'
  BY <1>2, <1>3, TxHistSteps DEF HostIn, PortInv
<1> QED BY <1>1, <1>4, RxFrame, RxHistFrame DEF HostIn, PortInv, cbVars

\* A transfer from the host writes inside the storage or into _rx_buffer.
LEMMA HostOutInv ==
  ASSUME PortInv, NEW n \in Nat, HostOut(n)
  PROVE  PortInv'
<1>1. RxBytes(n) \in Seq(Byte) /\ Len(RxBytes(n)) = n
  BY RxBytesType DEF PortInv, RxHistType
<1>2. /\ epOut' \in Endpoint /\ InFlight(epOut)' /\ InFlight(epOut)
      /\ epOut'.addr = epOut.addr /\ epOut'.bounce = epOut.bounce
      /\ epOut'.len = n /\ n <= epOut.len /\ epOut'.state = "done"
      /\ epOut.state = "busy"
  <2>1. /\ epOut \in Endpoint /\ epOut.state = "busy" /\ n \in 0 .. N /\ n <= epOut.len
        /\ epOut' = [epOut EXCEPT !.state = "done", !.len = n]
    <3>1. /\ epOut.state = "busy" /\ n <= epOut.len
          /\ epOut' = [epOut EXCEPT !.state = "done", !.len = n]
      BY DEF HostOut
    <3>2. epOut \in Endpoint
      BY DEF PortInv, RxPart
    <3>3. epOut.len \in 0 .. N
      BY <3>2 DEF Endpoint
    <3> QED BY <3>1, <3>2, <3>3, NAssumption
  <2>2. epOut' = [state |-> "done", addr |-> epOut.addr, len |-> n,
                  bounce |-> epOut.bounce]
    BY <2>1 DEF Endpoint
  <2>3. epOut'.state = "done" /\ epOut'.len = n /\ epOut'.addr = epOut.addr
    BY <2>2
  <2>4. epOut'.bounce = epOut.bounce
    BY <2>1 DEF Endpoint
  <2>5. epOut' \in Endpoint
    BY <2>1 DEF Endpoint, EpState
  <2> QED BY <2>1, <2>3, <2>4, <2>5 DEF InFlight
<1>3. rx' \in Ring /\ rx'.head = rx.head /\ UsedSpace(rx') = UsedSpace(rx)
  <2>1. CASE epOut.bounce
    BY <2>1 DEF HostOut, PortInv, RxPart
  <2>2. CASE ~epOut.bounce
    <3>1. MemcpyIn(rx.buf, epOut.addr, RxBytes(n)) \in [Slot -> Byte]
      BY <1>1, MemcpyInType, NAssumption DEF PortInv, RxPart, Ring, Endpoint
    <3>2. rx' = [rx EXCEPT !.buf = MemcpyIn(rx.buf, epOut.addr, RxBytes(n))]
      BY <2>2 DEF HostOut
    <3> QED BY <3>1, <3>2 DEF PortInv, RxPart, Ring, UsedSpace
  <2> QED BY <2>1, <2>2
<1>4. rxbuf' \in Seq(Byte)
  BY <1>1 DEF HostOut, PortInv, RxPart
<1>5. UNCHANGED <<receiveDMAInProgress, rxCallback>>
  BY DEF HostOut, cbVars
<1>6. OutTransferMatchesRing'
  <2>1. /\ epOut.bounce <=> ~Aligned(rx.head)
        /\ epOut.bounce => epOut.len <= BounceSize
        /\ ~epOut.bounce => epOut.addr = rx.head
        /\ rx.head + epOut.len <= N
    BY <1>2 DEF PortInv, RxPart, OutTransferMatchesRing
  <2>2. rx.head \in Nat /\ epOut.len \in Nat
    BY NAssumption DEF PortInv, RxPart, Ring, Slot, Endpoint
  <2>3. rx.head + n <= N /\ (epOut.bounce => n <= BounceSize)
    BY <1>2, <2>1, <2>2, NAssumption DEF BounceSize
  <2> QED BY <1>2, <1>3, <2>1, <2>3 DEF OutTransferMatchesRing
<1>7. NoRxStall'
  BY <1>2, <1>3, <1>5 DEF PortInv, RxPart, NoRxStall, IsFull, AvailableSpace
<1>8. RxPart'
  BY <1>2, <1>3, <1>4, <1>5, <1>6, <1>7 DEF PortInv, RxPart
<1>9. RxHistType'
  BY RxHistSteps DEF HostOut, PortInv, RxHistType
<1> QED BY <1>8, <1>9, TxFrame, TxHistFrame DEF HostOut, PortInv, cbVars

\* The invariant holds in every reachable state of the port.
THEOREM PortInvHolds == Spec => []PortInv
<1>1. PortInv /\ [Next]_vars => PortInv'
  <2> SUFFICES ASSUME PortInv, [Next]_vars PROVE PortInv'
    OBVIOUS
  <2>1. CASE UNCHANGED vars
    BY <2>1, TxFrame, RxFrame, TxHistFrame, RxHistFrame DEF vars, cbVars, PortInv
  <2>2. ASSUME NEW len \in WriteLens, Write(len) PROVE PortInv'
    BY <2>2, WriteInv, PortAssumption
  <2>3. ASSUME NEW max_len \in ReadLens, ReadBulk(max_len) PROVE PortInv'
    BY <2>3, ReadBulkInv, PortAssumption
  <2>4. ASSUME NEW n \in 0 .. N, HostOut(n) PROVE PortInv'
    BY <2>4, HostOutInv, NAssumption
  <2> QED BY <2>1, <2>2, <2>3, <2>4, WriteCharInv, ReadOneInv, DelInv, UsbCompletionInv,
             SetConfigurationInv, EndpointsOffInv, HostInInv DEF Next
<1> QED BY <1>1, InitInv, PTL DEF Spec

\* Type correctness of the port: pointers and DMA addresses of core/USBserial.cpp
\* and core/RingBuffer.h stay inside the storage for every buffer length.
THEOREM TypeCorrect == Spec => []TypeOK
<1>1. PortInv => TypeOK
  BY DEF PortInv, TxPart, RxPart, TxHistType, RxHistType, TypeOK
<1> QED BY <1>1, PortInvHolds, PTL

\* The completion interrupt moves tailPtr over the transfer that took place, by
\* whole words and never past endPtr: completeDirectRead agrees with the endpoint.
THEOREM InTransfersMatch == Spec => []InTransferMatchesRing
<1>1. PortInv => InTransferMatchesRing
  BY DEF PortInv, TxPart
<1> QED BY <1>1, PortInvHolds, PTL

\* completeDirectWrite looks for received bytes where the endpoint wrote them.
THEOREM OutTransfersMatch == Spec => []OutTransferMatchesRing
<1>1. PortInv => OutTransferMatchesRing
  BY DEF PortInv, RxPart
<1> QED BY <1>1, PortInvHolds, PTL

\* No interleaving of write with the completion interrupt, a reset or a
\* reconfiguration leaves bytes in tx_buffer with nothing under way.
THEOREM TxNeverStalls == Spec => []NoTxStall
<1>1. PortInv => NoTxStall
  BY DEF PortInv, TxPart
<1> QED BY <1>1, PortInvHolds, PTL

\* None leaves the host shut out of an rx_buffer with room in it.
THEOREM RxNeverStalls == Spec => []NoRxStall
<1>1. PortInv => NoRxStall
  BY DEF PortInv, RxPart
<1> QED BY <1>1, PortInvHolds, PTL

-----------------------------------------------------------------------------
(* A region armed for the USB DMA is left alone until its completion: the   *)
(* side of the processor only moves its pointer away from the region, and   *)
(* each prepare names a region the ring still owns.                         *)

\* The two halves of DmaRegionsReserved.
TxReserved == ~txBroken /\ InFlight(epIn)  => RoundUp(epIn.len) <= UsedSpace(tx)
RxReserved == ~rxBroken /\ InFlight(epOut) => epOut.len <= AvailableSpace(rx)

-----------------------------------------------------------------------------
(* Naming a region.                                                         *)

\* The words of a transfer that prepareDirectRead names are counted as used,
\* the filler of a short one included.
LEMMA PrepareReserves ==
  ASSUME NEW r \in Ring, Words, Aligned(r.tail), ~IsEmpty(r),
         NEW res, res = PrepareDirectRead(r, "tx")
  PROVE  RoundUp(res.len) <= UsedSpace(res.ring)
<1> DEFINE max == min(N - r.tail, UsedSpace(r))
<1>1. r.head \in 0 .. N - 1 /\ r.tail \in 0 .. N - 1 /\ N \in Nat
  BY NAssumption DEF Ring, Slot
<1>2. N - r.tail >= AlignStep
  BY <1>1, AlignedSum DEF Words, Aligned, AlignStep
<1>3. max \in 1 .. N - 1 /\ max <= N - r.tail /\ max <= UsedSpace(r)
  BY <1>1, <1>2, SpaceFacts DEF min, AlignStep
<1>4. CASE max < AlignStep
  <2>1. r.head = r.tail + max
    BY <1>1, <1>2, <1>3, <1>4 DEF UsedSpace, min, AlignStep
  <2>2. r.head + (AlignStep - max) = r.tail + AlignStep
    BY <1>1, <1>3, <2>1 DEF AlignStep
  <2>3. /\ res.ring.head = Wrap(r.tail + AlignStep) /\ res.ring.tail = r.tail
        /\ res.len = max
    BY <1>4, <2>2 DEF PrepareDirectRead, Ring
  <2>4. RoundUp(res.len) = AlignStep
    BY <1>3, <1>4, <2>3 DEF RoundUp, Aligned, AlignStep
  <2>5. UsedSpace(res.ring) = AlignStep
    BY <1>1, <1>2, <2>3, LengthAssumption DEF UsedSpace, Wrap, AlignStep
  <2> QED BY <2>4, <2>5 DEF AlignStep
<1>5. CASE max >= AlignStep
  <2>1. res.ring = r /\ res.len = max - (max % AlignStep)
    BY <1>3, <1>5 DEF PrepareDirectRead, AlignStep
  <2>2. /\ max - (max % AlignStep) \in 1 .. max
        /\ Aligned(max - (max % AlignStep))
    BY <1>3, <1>5 DEF Aligned, AlignStep
  <2>3. RoundUp(res.len) = res.len /\ res.len <= max
    BY <2>1, <2>2, RoundUpFacts
  <2> QED BY <1>1, <1>3, <2>1, <2>2, <2>3, SpaceFacts
<1> QED BY <1>3, <1>4, <1>5 DEF AlignStep

-----------------------------------------------------------------------------
(* Running a callback: what it arms is reserved.                            *)

\* What _send_data_cb arms is counted as used in the ring it leaves.
LEMMA SendDataCbReserves ==
  ASSUME NEW r \in Ring, Aligned(r.tail), NEW tx_len \in Nat,
         r.tail + RoundUp(tx_len) <= N,
         NEW cb, cb = SendDataCb(r, tx_len), cb.start
  PROVE  RoundUp(cb.len) <= UsedSpace(cb.ring)
<1> DEFINE sent == IF tx_len > 0 THEN CompleteDirectRead(r, "tx", tx_len) ELSE r
           next == PrepareDirectRead(sent, "tx")
<1>1. sent \in Ring /\ Aligned(sent.tail)
  BY CompleteDirectReadFacts, BufferOfWords
<1>2. ~IsEmpty(sent) /\ cb.len = next.len /\ cb.ring = next.ring
  BY DEF SendDataCb
<1> HIDE DEF sent
<1>3. RoundUp(next.len) <= UsedSpace(next.ring)
  BY <1>1, <1>2, PrepareReserves, BufferOfWords
<1> QED BY <1>2, <1>3

\* What _receive_data_cb arms is counted as available.
LEMMA ReceiveDataCbReserves ==
  ASSUME NEW r \in Ring, NEW len \in Nat, r.head + len <= N, rxbuf \in Seq(Byte),
         NEW cb, cb = ReceiveDataCb(r, len), cb.start
  PROVE  cb.len <= AvailableSpace(cb.ring)
<1> DEFINE got == IF len > 0 THEN CompleteDirectWrite(r, "rx", len, rxbuf) ELSE r
           new == PrepareDirectWrite(got, "rx")
<1>1. got \in Ring
  BY CompleteDirectWriteFacts
<1>2. ~IsFull(got) /\ cb.ring = got /\ cb.len = new
  BY DEF ReceiveDataCb
<1> HIDE DEF got
<1>3. new \in 1 .. AvailableSpace(got)
  BY <1>1, <1>2, PrepareDirectWriteFacts
<1> HIDE DEF new
<1>4. AvailableSpace(got) \in 0 .. N - 1
  BY <1>1, SpaceFacts
<1> QED BY <1>2, <1>3, <1>4

\* usbserial_run_tx_callback, from an endpoint that holds nothing.
LEMMA RunTxReserves ==
  ASSUME NEW r \in Ring, Aligned(r.tail), NEW len \in Nat, r.tail + RoundUp(len) <= N,
         NEW ep \in Endpoint, ~InFlight(ep), RunTxCallback(r, ep, len)
  PROVE  TxReserved' /\ (InFlight(epIn)' => RoundUp(epIn'.len) <= UsedSpace(tx'))
<1>1. CASE txCallback
  <2> DEFINE cb == SendDataCb(r, len)
  <2>1. /\ tx' = cb.ring
        /\ epIn' = IF cb.start THEN StartTransfer(ep, cb.ring.tail, cb.len, FALSE) ELSE ep
    BY <1>1 DEF RunTxCallback
  <2>2. cb.start => RoundUp(cb.len) <= UsedSpace(cb.ring)
    BY SendDataCbReserves
  <2> HIDE DEF cb
  <2>3. InFlight(epIn)' => cb.start /\ epIn'.len = cb.len
    BY <2>1 DEF StartTransfer, InFlight
  <2> QED BY <2>1, <2>2, <2>3 DEF TxReserved
<1>2. CASE ~txCallback
  BY <1>2 DEF RunTxCallback, TxReserved, InFlight
<1> QED BY <1>1, <1>2

\* usbserial_run_rx_callback, from an endpoint that holds nothing.
LEMMA RunRxReserves ==
  ASSUME NEW r \in Ring, NEW len \in Nat, r.head + len <= N, rxbuf \in Seq(Byte),
         NEW ep \in Endpoint, ~InFlight(ep), RunRxCallback(r, ep, len)
  PROVE  RxReserved' /\ (InFlight(epOut)' => epOut'.len <= AvailableSpace(rx'))
<1>1. CASE rxCallback
  <2> DEFINE cb == ReceiveDataCb(r, len)
             bounce == Bounces(cb.ring, "rx")
  <2>1. /\ rx' = cb.ring
        /\ epOut' = IF cb.start
                    THEN StartTransfer(ep, IF bounce THEN 0 ELSE cb.ring.head,
                                       cb.len, bounce)
                    ELSE ep
    BY <1>1 DEF RunRxCallback
  <2>2. cb.start => cb.len <= AvailableSpace(cb.ring)
    BY ReceiveDataCbReserves
  <2> HIDE DEF cb, bounce
  <2>3. InFlight(epOut)' => cb.start /\ epOut'.len = cb.len
    BY <2>1 DEF StartTransfer, InFlight
  <2> QED BY <2>1, <2>2, <2>3 DEF RxReserved
<1>2. CASE ~rxCallback
  BY <1>2 DEF RunRxCallback, RxReserved, InFlight
<1> QED BY <1>1, <1>2

\* A write under an armed transfer: the used space does not shrink.
LEMMA StartTxReserves ==
  ASSUME PortInv, TxReserved, NEW r \in Ring, r.tail = tx.tail,
         txBroken \/ UsedSpace(tx) <= UsedSpace(r) \/ txBroken',
         txBroken => txBroken', StartTxIfIdle(r)
  PROVE  TxReserved'
<1>1. CASE transmitDMAInProgress
  <2>1. tx' = r /\ epIn' = epIn
    BY <1>1 DEF StartTxIfIdle
  <2>2. UsedSpace(tx) \in Int /\ UsedSpace(r) \in Int
    BY SpaceFacts, NAssumption DEF PortInv, TxPart
  <2>3. InFlight(epIn) => RoundUp(epIn.len) \in Nat
    BY RoundUpFacts, NAssumption DEF PortInv, TxPart, Endpoint
  <2> QED BY <2>1, <2>2, <2>3 DEF TxReserved
<1>2. CASE ~transmitDMAInProgress
  <2>1. RunTxCallback(r, epIn, 0) /\ ~InFlight(epIn) /\ epIn \in Endpoint
    BY <1>2 DEF StartTxIfIdle, PortInv, TxPart
  <2>2. Aligned(r.tail) /\ r.tail + RoundUp(0) <= N /\ 0 \in Nat
    BY NAssumption DEF PortInv, TxPart, InTransferMatchesRing, RoundUp, Aligned,
                       AlignStep, Ring, Slot
  <2> QED BY <2>1, <2>2, RunTxReserves
<1> QED BY <1>1, <1>2 DEF PortInv, TxPart

\* A read under an armed transfer: the available space does not shrink.
LEMMA StartRxReserves ==
  ASSUME PortInv, RxReserved, NEW r \in Ring, r.head = rx.head,
         rxBroken \/ AvailableSpace(rx) <= AvailableSpace(r) \/ rxBroken',
         rxBroken => rxBroken', StartRxIfIdle(r)
  PROVE  RxReserved'
<1>1. CASE receiveDMAInProgress \/ ~rxCallback
  <2>1. rx' = r /\ epOut' = epOut
    BY <1>1 DEF StartRxIfIdle, RunRxCallback
  <2>2. AvailableSpace(rx) \in Int /\ AvailableSpace(r) \in Int
    BY SpaceFacts, NAssumption DEF PortInv, RxPart
  <2>3. epOut.len \in Int
    BY NAssumption DEF PortInv, RxPart, Endpoint
  <2> QED BY <2>1, <2>2, <2>3 DEF RxReserved
<1>2. CASE ~receiveDMAInProgress /\ rxCallback
  <2>1. RunRxCallback(r, epOut, 0) /\ ~InFlight(epOut) /\ epOut \in Endpoint
    BY <1>2 DEF StartRxIfIdle, PortInv, RxPart, NoRxStall, InFlight
  <2>2. r.head + 0 <= N /\ 0 \in Nat /\ rxbuf \in Seq(Byte)
    BY NAssumption DEF PortInv, RxPart, Ring, Slot
  <2> QED BY <2>1, <2>2, RunRxReserves
<1> QED BY <1>1, <1>2 DEF PortInv, RxPart

-----------------------------------------------------------------------------
(* The actions.                                                             *)

\* A direction nobody touches keeps what it reserved.
LEMMA TxReservedFrame == TxReserved /\ UNCHANGED <<tx, epIn, txBroken>> => TxReserved'
  BY DEF TxReserved

\* The same of the way in.
LEMMA RxReservedFrame == RxReserved /\ UNCHANGED <<rx, epOut, rxBroken>> => RxReserved'
  BY DEF RxReserved

\* USBserial::write(data, len).
LEMMA WriteReserves ==
  ASSUME PortInv, DmaRegionsReserved, NEW len \in Nat, Write(len)
  PROVE  DmaRegionsReserved'
<1> DEFINE res == Store(tx, TxBytes(len))
<1>1. TxBytes(len) \in Seq(Byte) /\ tx \in Ring
  BY TxBytesType DEF PortInv, TxPart, TxHistType
<1>2. res.ring \in Ring /\ res.ring.tail = tx.tail
  BY <1>1, StoreFacts
<1>3. ~Splits(tx.head, res.len) => UsedSpace(tx) <= UsedSpace(res.ring)
  BY <1>1, StoreGrows
<1>4. /\ StartTxIfIdle(res.ring)
      /\ txBroken' = (txBroken \/ Splits(tx.head, res.len))
      /\ UNCHANGED <<rxVars, rxHist>>
  BY DEF Write
<1> HIDE DEF res
<1>5. /\ txBroken \/ UsedSpace(tx) <= UsedSpace(res.ring) \/ txBroken'
      /\ txBroken => txBroken'
  BY <1>3, <1>4
<1>6. TxReserved /\ RxReserved
  BY DEF DmaRegionsReserved, TxReserved, RxReserved
<1>7. TxReserved'
  BY <1>2, <1>4, <1>5, <1>6, StartTxReserves
<1>8. RxReserved'
  BY <1>4, <1>6, RxReservedFrame DEF rxVars, rxHist
<1> QED BY <1>7, <1>8 DEF DmaRegionsReserved, TxReserved, RxReserved

\* USBserial::write(c).
LEMMA WriteCharReserves ==
  ASSUME PortInv, DmaRegionsReserved, WriteChar
  PROVE  DmaRegionsReserved'
<1> DEFINE res == StoreChar(tx, txTag)
<1>1. txTag \in Byte /\ tx \in Ring
  BY DEF PortInv, TxPart, TxHistType
<1>2. /\ res.ring \in Ring /\ res.ring.tail = tx.tail
      /\ UsedSpace(tx) <= UsedSpace(res.ring)
  BY <1>1, StoreCharFacts, StoreCharGrows
<1>3. StartTxIfIdle(res.ring) /\ UNCHANGED <<txBroken, rxVars, rxHist>>
  BY DEF WriteChar
<1> HIDE DEF res
<1>4. TxReserved /\ RxReserved
  BY DEF DmaRegionsReserved, TxReserved, RxReserved
<1>5. TxReserved'
  BY <1>2, <1>3, <1>4, StartTxReserves
<1>6. RxReserved'
  BY <1>3, <1>4, RxReservedFrame DEF rxVars, rxHist
<1> QED BY <1>5, <1>6 DEF DmaRegionsReserved, TxReserved, RxReserved

\* USBserial::read.
LEMMA ReadBulkReserves ==
  ASSUME PortInv, DmaRegionsReserved, NEW max_len \in Nat, ReadBulk(max_len)
  PROVE  DmaRegionsReserved'
<1> DEFINE res == Read(rx, max_len)
<1>1. rx \in Ring
  BY DEF PortInv, RxPart
<1>2. res.ring \in Ring /\ res.ring.head = rx.head
  BY <1>1, ReadFacts
<1>3. ~Splits(rx.tail, Len(res.data)) => AvailableSpace(rx) <= AvailableSpace(res.ring)
  BY <1>1, ReadShrinks
<1>4. /\ StartRxIfIdle(res.ring)
      /\ rxBroken' = (rxBroken \/ Splits(rx.tail, Len(res.data)))
      /\ UNCHANGED <<txVars, txHist>>
  BY DEF ReadBulk
<1> HIDE DEF res
<1>5. /\ rxBroken \/ AvailableSpace(rx) <= AvailableSpace(res.ring) \/ rxBroken'
      /\ rxBroken => rxBroken'
  BY <1>3, <1>4
<1>6. TxReserved /\ RxReserved
  BY DEF DmaRegionsReserved, TxReserved, RxReserved
<1>7. RxReserved'
  BY <1>2, <1>4, <1>5, <1>6, StartRxReserves
<1>8. TxReserved'
  BY <1>4, <1>6, TxReservedFrame DEF txVars, txHist
<1> QED BY <1>7, <1>8 DEF DmaRegionsReserved, TxReserved, RxReserved

\* USBserial::read_char.
LEMMA ReadOneReserves ==
  ASSUME PortInv, DmaRegionsReserved, ReadOne
  PROVE  DmaRegionsReserved'
<1> DEFINE res == ReadChar(rx)
<1>1. rx \in Ring
  BY DEF PortInv, RxPart
<1>2. /\ res.ring \in Ring /\ res.ring.head = rx.head
      /\ AvailableSpace(rx) <= AvailableSpace(res.ring)
  BY <1>1, ReadCharFacts, ReadCharShrinks
<1>3. StartRxIfIdle(res.ring) /\ UNCHANGED <<rxBroken, txVars, txHist>>
  BY DEF ReadOne
<1> HIDE DEF res
<1>4. TxReserved /\ RxReserved
  BY DEF DmaRegionsReserved, TxReserved, RxReserved
<1>5. RxReserved'
  BY <1>2, <1>3, <1>4, StartRxReserves
<1>6. TxReserved'
  BY <1>3, <1>4, TxReservedFrame DEF txVars, txHist
<1> QED BY <1>5, <1>6 DEF DmaRegionsReserved, TxReserved, RxReserved

\* The completion interrupt rearms from endpoints it has taken the result of.
LEMMA UsbCompletionReserves ==
  ASSUME PortInv, DmaRegionsReserved, UsbCompletion
  PROVE  DmaRegionsReserved'
<1>1. Ep("idle") \in Endpoint /\ ~InFlight(Ep("idle"))
  BY NAssumption DEF Ep, Endpoint, EpState, InFlight
<1>2. RxReserved'
  <2>1. CASE epOut.state = "done"
    <3>1. RunRxCallback(rx, Ep("idle"), epOut.len)
      BY <2>1 DEF UsbCompletion
    <3>2. /\ rx \in Ring /\ rx.head + epOut.len <= N /\ epOut.len \in Nat
          /\ rxbuf \in Seq(Byte)
      BY <2>1, NAssumption DEF PortInv, RxPart, OutTransferMatchesRing, InFlight, Endpoint
    <3> QED BY <1>1, <3>1, <3>2, RunRxReserves
  <2>2. CASE epOut.state # "done"
    <3>1. UNCHANGED rxVars /\ (rxBroken => rxBroken')
      BY <2>2 DEF UsbCompletion, RxVoidIf
    <3> QED BY <3>1 DEF DmaRegionsReserved, RxReserved, rxVars
  <2> QED BY <2>1, <2>2
<1>3. TxReserved'
  <2>1. CASE epIn.state = "done"
    <3>1. RunTxCallback(tx, Ep("idle"), current_tx_length)
      BY <2>1 DEF UsbCompletion
    <3>2. /\ tx \in Ring /\ Aligned(tx.tail) /\ current_tx_length \in Nat
          /\ tx.tail + RoundUp(current_tx_length) <= N
      BY <2>1, NAssumption DEF PortInv, TxPart, InTransferMatchesRing, InFlight
    <3> QED BY <1>1, <3>1, <3>2, RunTxReserves
  <2>2. CASE epIn.state # "done"
    <3>1. UNCHANGED <<txVars, txHist>>
      BY <2>2 DEF UsbCompletion
    <3> QED BY <3>1 DEF DmaRegionsReserved, TxReserved, txVars, txHist
  <2> QED BY <2>1, <2>2
<1> QED BY <1>2, <1>3 DEF DmaRegionsReserved, TxReserved, RxReserved

\* So does a reconfiguration, from endpoints set up afresh.
LEMMA SetConfigurationReserves ==
  ASSUME PortInv, SetConfiguration
  PROVE  DmaRegionsReserved'
<1>1. Ep("idle") \in Endpoint /\ ~InFlight(Ep("idle"))
  BY NAssumption DEF Ep, Endpoint, EpState, InFlight
<1>2. TxReserved'
  <2>1. tx \in Ring /\ tx.tail + RoundUp(0) <= N /\ Aligned(tx.tail) /\ 0 \in Nat
    BY NAssumption DEF PortInv, TxPart, InTransferMatchesRing, RoundUp, Aligned,
                       AlignStep, Ring, Slot
  <2> QED BY <1>1, <2>1, RunTxReserves DEF SetConfiguration
<1>3. RxReserved'
  <2>1. rx \in Ring /\ rx.head + 0 <= N /\ 0 \in Nat /\ rxbuf \in Seq(Byte)
    BY NAssumption DEF PortInv, RxPart, Ring, Slot
  <2> QED BY <1>1, <2>1, RunRxReserves DEF SetConfiguration
<1> QED BY <1>2, <1>3 DEF DmaRegionsReserved, TxReserved, RxReserved

\* A poll by the host changes neither the length armed nor the ring.
LEMMA HostInReserves ==
  ASSUME PortInv, DmaRegionsReserved, HostIn
  PROVE  DmaRegionsReserved'
<1>1. epIn'.len = epIn.len /\ InFlight(epIn)
  BY DEF HostIn, PortInv, TxPart, Endpoint, InFlight
<1>2. UNCHANGED <<tx, txBroken, rxVars, rxHist>>
  BY DEF HostIn
<1> QED BY <1>1, <1>2 DEF DmaRegionsReserved, rxVars, rxHist

\* The host sends no more than was armed, and moves no pointer.
LEMMA HostOutReserves ==
  ASSUME PortInv, DmaRegionsReserved, NEW n \in Nat, HostOut(n)
  PROVE  DmaRegionsReserved'
<1>1. epOut'.len = n /\ n <= epOut.len /\ InFlight(epOut)
  BY DEF HostOut, PortInv, RxPart, Endpoint, InFlight
<1>2. UsedSpace(rx') = UsedSpace(rx)
  BY DEF HostOut, PortInv, RxPart, Ring, UsedSpace
<1>3. UNCHANGED <<rxBroken, txVars, txHist>>
  BY DEF HostOut
<1>4. AvailableSpace(rx) \in Int /\ epOut.len \in Int
  BY SpaceFacts, NAssumption DEF PortInv, RxPart, Endpoint
<1>5. AvailableSpace(rx') = AvailableSpace(rx)
  BY <1>2 DEF AvailableSpace
<1> QED BY <1>1, <1>3, <1>4, <1>5 DEF DmaRegionsReserved, txVars, txHist

\* Every step leaves the armed regions of core/USBserial.cpp reserved.
LEMMA StepReserves == PortInv /\ DmaRegionsReserved /\ [Next]_vars => DmaRegionsReserved'
<1> SUFFICES ASSUME PortInv, DmaRegionsReserved, [Next]_vars PROVE DmaRegionsReserved'
  OBVIOUS
<1>1. CASE UNCHANGED vars
  BY <1>1 DEF vars, txVars, rxVars, txHist, rxHist, DmaRegionsReserved
<1>2. ASSUME NEW len \in WriteLens, Write(len) PROVE DmaRegionsReserved'
  BY <1>2, WriteReserves, PortAssumption
<1>3. ASSUME NEW max_len \in ReadLens, ReadBulk(max_len) PROVE DmaRegionsReserved'
  BY <1>3, ReadBulkReserves, PortAssumption
<1>4. CASE Del
  BY <1>4 DEF Del, rxVars, txHist, rxHist, DmaRegionsReserved
<1>5. CASE EndpointsOff
  BY <1>5 DEF EndpointsOff, Ep, InFlight, DmaRegionsReserved
<1>6. ASSUME NEW n \in 0 .. N, HostOut(n) PROVE DmaRegionsReserved'
  BY <1>6, HostOutReserves, NAssumption
<1> QED BY <1>1, <1>2, <1>3, <1>4, <1>5, <1>6, WriteCharReserves, ReadOneReserves,
           UsbCompletionReserves, SetConfigurationReserves, HostInReserves DEF Next

\* While the USB DMA reads tx_buffer or writes rx_buffer, no write or read of the
\* application and no other step gives its region away, until the promise of the
\* stream is void.
THEOREM DmaRegionsAreReserved == Spec => []DmaRegionsReserved
<1>1. Init => DmaRegionsReserved
  BY DEF Init, Ep, InFlight, DmaRegionsReserved
<1> QED BY <1>1, StepReserves, PortInvHolds, PTL DEF Spec
-----------------------------------------------------------------------------
(* The way in is a byte stream: until an event voids it, what waits is what *)
(* rx_buffer holds and then what has landed but is not accounted for yet.   *)

\* The bytes of a transfer whose completion the interrupt has not seen.
Landed == IF epOut.state # "done" THEN << >>
          ELSE IF epOut.bounce THEN rxbuf
          ELSE MemcpyOut(rx.buf, rx.head, epOut.len)

RxHolds == ~rxBroken => /\ rxPending = Contents(rx) \o Landed
                        /\ epOut.state = "done" => Len(Landed) = epOut.len

\* What a step may do to the stream.
RxStep == RxStream!Next \/ UNCHANGED <<rxPending, rxOut, rxBroken>>

\* What landed is a sequence of bytes.
LEMMA LandedType == ASSUME RxPart PROVE Landed \in Seq(Byte)
<1>1. CASE epOut.state = "done" /\ ~epOut.bounce
  <2>1. rx.head + epOut.len <= N /\ rx.head \in Nat /\ epOut.len \in Nat
        /\ rx.buf \in [Slot -> Byte]
    BY <1>1, NAssumption
       DEF RxPart, OutTransferMatchesRing, InFlight, Endpoint, Ring, Slot
  <2>2. Landed = MemcpyOut(rx.buf, rx.head, epOut.len)
    BY <1>1 DEF Landed
  <2> QED BY <2>1, <2>2, MemcpyOutType
<1>2. CASE epOut.state # "done" \/ epOut.bounce
  <2>1. rxbuf \in Seq(Byte) /\ << >> \in Seq(Byte)
    BY DEF RxPart
  <2>2. Landed = << >> \/ Landed = rxbuf
    BY <1>2 DEF Landed
  <2> QED BY <2>1, <2>2, Zenon
<1> QED BY <1>1, <1>2

\* A void stream promises nothing.
LEMMA RxVoided == ASSUME rxBroken' = TRUE PROVE RxHolds' /\ RxStep
  BY DEF RxHolds, RxStep, RxStream!Next, RxStream!Break

\* _receive_data_cb appends the transfer it is told about to the contents.
LEMMA RunRxAppends ==
  ASSUME NEW r \in Ring, NEW len \in Nat, r.head + len <= N, len <= AvailableSpace(r),
         rxbuf \in Seq(Byte), Bounces(r, "rx") => Len(rxbuf) = len \/ len = 0,
         NEW ep \in Endpoint, ~InFlight(ep), rxCallback, RunRxCallback(r, ep, len)
  PROVE  /\ rx' \in Ring /\ epOut'.state # "done"
         /\ len = 0 => rx' = r
         /\ Contents(rx') = Contents(r) \o
              (IF len = 0 THEN << >> ELSE IF Bounces(r, "rx") THEN rxbuf
               ELSE MemcpyOut(r.buf, r.head, len))
<1> DEFINE got  == IF len > 0 THEN CompleteDirectWrite(r, "rx", len, rxbuf) ELSE r
           data == IF Bounces(r, "rx") THEN rxbuf ELSE MemcpyOut(r.buf, r.head, len)
<1>1. rx' = got
  BY DEF RunRxCallback, ReceiveDataCb
<1>2. epOut'.state # "done"
  BY DEF RunRxCallback, StartTransfer, InFlight
<1>3. got \in Ring /\ (len = 0 => got = r)
  BY CompleteDirectWriteFacts
<1>4. CASE len = 0
  <2>1. Contents(r) \in Seq(Byte)
    BY ContentsType
  <2> QED BY <1>1, <1>2, <1>3, <1>4, <2>1, NothingAdded
<1>5. CASE len # 0
  <2>1. got = CompleteDirectWrite(r, "rx", len, rxbuf)
    BY <1>5
  <2>2. got.head = Wrap(r.head + len) /\ got.tail = r.tail
    BY <2>1, CompleteDirectWriteFacts
  <2>3. r.buf \in [Slot -> Byte] /\ r.head \in Nat
    BY NAssumption DEF Ring, Slot
  <2>4. data \in Seq(Byte) /\ Len(data) = len
    BY <1>5, <2>3, MemcpyOutType
  <2>5. got.buf = MemcpyIn(r.buf, r.head, data)
    <3>1. CASE Bounces(r, "rx")
      BY <2>1, <3>1 DEF CompleteDirectWrite, Ring
    <3>2. CASE ~Bounces(r, "rx")
      <4>1. got.buf = r.buf
        BY <2>1, <3>2 DEF CompleteDirectWrite, Ring
      <4> QED BY <2>3, <3>2, <4>1, CopiedBack
    <3> QED BY <3>1, <3>2
  <2> HIDE DEF got, data
  <2>6. Contents(got) = Contents(r) \o data
    BY <1>3, <2>2, <2>4, <2>5, WrittenIsAppended
  <2> QED BY <1>1, <1>2, <1>3, <1>5, <2>6 DEF data
<1> QED BY <1>4, <1>5

\* The bytes a read took out of the ring are the oldest of the stream, and what is
\* left of the ring is what is left of the stream.
LEMMA RxDelivers ==
  ASSUME PortInv, RxHolds, ~rxBroken, rxBroken' = FALSE,
         NEW r \in Ring, NEW n \in Nat, n <= UsedSpace(rx), rx.tail + n <= N,
         r.buf = rx.buf, r.head = rx.head, r.tail = Wrap(rx.tail + n),
         NEW data, data = MemcpyOut(rx.buf, rx.tail, n),
         StartRxIfIdle(r), RxDeliver(data)
  PROVE  RxHolds' /\ RxStep
<1>1. /\ rx \in Ring /\ RxPart /\ rxbuf \in Seq(Byte) /\ epOut \in Endpoint
      /\ rxBroken = FALSE /\ rxPending = Contents(rx) \o Landed
      /\ epOut.state = "done" => Len(Landed) = epOut.len
  BY DEF PortInv, RxPart, RxHistType, RxHolds
<1>2. Landed \in Seq(Byte)
  BY <1>1, LandedType
<1>3. /\ Contents(rx) \in Seq(Byte) /\ Len(Contents(rx)) = UsedSpace(rx)
      /\ UsedSpace(rx) \in Nat /\ Contents(r) \in Seq(Byte)
  BY <1>1, ContentsType, SpaceFacts
<1>4. /\ data = SubSeq(Contents(rx), 1, n)
      /\ Contents(r) = SubSeq(Contents(rx), n + 1, Len(Contents(rx)))
  BY <1>1, TakenIsOldest
<1>5. n \in 0 .. Len(Contents(rx))
  BY <1>3
<1>6. Len(data) = n
  BY <1>3, <1>4, <1>5
<1>7. /\ data = SubSeq(rxPending, 1, n)
      /\ SubSeq(rxPending, n + 1, Len(rxPending)) = Contents(r) \o Landed
  BY <1>1, <1>2, <1>3, <1>4, <1>5, KeepFirst, DropFirst
<1>8. /\ rxOut' = data
      /\ rxPending' = SubSeq(rxPending, n + 1, Len(rxPending))
  BY <1>6 DEF RxDeliver
<1>9. n \in 0 .. Len(rxPending)
  BY <1>1, <1>2, <1>3, <1>5
<1>10. RxStep
  BY <1>1, <1>7, <1>8, <1>9 DEF RxStep, RxStream!Next, RxStream!Deliver
<1>11. Contents(rx)' = Contents(rx')
  OBVIOUS
<1>12. CASE receiveDMAInProgress \/ ~rxCallback
  <2>1. rx' = r /\ UNCHANGED <<rxbuf, epOut>>
    BY <1>12 DEF StartRxIfIdle, RunRxCallback
  <2>2. Landed' = Landed
    BY <2>1 DEF Landed
  <2> QED BY <1>1, <1>7, <1>8, <1>10, <1>11, <2>1, <2>2 DEF RxHolds
<1>13. CASE ~receiveDMAInProgress /\ rxCallback
  <2>1. RunRxCallback(r, epOut, 0) /\ ~InFlight(epOut)
    BY <1>1, <1>13 DEF StartRxIfIdle, RxPart, NoRxStall, InFlight
  <2>2. r.head + 0 <= N /\ 0 \in Nat /\ 0 <= AvailableSpace(r)
    BY SpaceFacts, NAssumption DEF Ring, Slot
  <2>3. rx' = r /\ epOut'.state # "done"
    BY <1>1, <1>13, <2>1, <2>2, RunRxAppends
  <2>4. Landed = << >> /\ Landed' = << >>
    BY <2>1, <2>3 DEF Landed, InFlight
  <2> QED BY <1>1, <1>7, <1>8, <1>10, <1>11, <2>3, <2>4 DEF RxHolds
<1> QED BY <1>12, <1>13 DEF PortInv, RxPart

\* USBserial::read.
LEMMA ReadBulkStream ==
  ASSUME PortInv, RxHolds, NEW max_len \in Nat, ReadBulk(max_len)
  PROVE  RxHolds' /\ RxStep
<1> DEFINE res == Read(rx, max_len)
<1>1. rx \in Ring /\ rxBroken \in BOOLEAN
  BY DEF PortInv, RxPart, RxHistType
<1>2. res.ring \in Ring /\ res.ring.head = rx.head
  BY <1>1, ReadFacts
<1>3. ~Splits(rx.tail, Len(res.data)) =>
        \E n \in 0 .. UsedSpace(rx) :
            /\ res.data = MemcpyOut(rx.buf, rx.tail, n) /\ rx.tail + n <= N
            /\ res.ring.buf = rx.buf /\ res.ring.tail = Wrap(rx.tail + n)
  BY <1>1, ReadUnsplit
<1>4. /\ StartRxIfIdle(res.ring) /\ RxDeliver(res.data)
      /\ rxBroken' = (rxBroken \/ Splits(rx.tail, Len(res.data)))
  BY DEF ReadBulk
<1> HIDE DEF res
<1>5. CASE rxBroken \/ Splits(rx.tail, Len(res.data))
  BY <1>1, <1>4, <1>5, RxVoided
<1>6. CASE ~rxBroken /\ ~Splits(rx.tail, Len(res.data))
  <2>1. rxBroken' = FALSE
    BY <1>1, <1>4, <1>6
  <2>2. PICK n \in 0 .. UsedSpace(rx) :
            /\ res.data = MemcpyOut(rx.buf, rx.tail, n) /\ rx.tail + n <= N
            /\ res.ring.buf = rx.buf /\ res.ring.tail = Wrap(rx.tail + n)
    BY <1>3, <1>6
  <2>3. n \in Nat /\ n <= UsedSpace(rx)
    BY <1>1, SpaceFacts
  <2> QED BY <1>2, <1>4, <1>6, <2>1, <2>2, <2>3, RxDelivers
<1> QED BY <1>5, <1>6

\* USBserial::read_char.
LEMMA ReadOneStream ==
  ASSUME PortInv, RxHolds, ReadOne
  PROVE  RxHolds' /\ RxStep
<1> DEFINE res == ReadChar(rx)
<1>1. rx \in Ring /\ rxBroken \in BOOLEAN /\ rx.tail \in 0 .. N - 1 /\ N \in Nat
  BY NAssumption DEF PortInv, RxPart, RxHistType, Ring, Slot
<1>2. /\ StartRxIfIdle(res.ring) /\ RxDeliver(res.data) /\ rxBroken' = rxBroken
  BY DEF ReadOne
<1>3. CASE rxBroken
  BY <1>1, <1>2, <1>3, RxVoided
<1>4. CASE ~rxBroken
  <2>1. rxBroken' = FALSE
    BY <1>1, <1>2, <1>4
  <2>2. CASE IsEmpty(rx)
    <3>1. res.ring = rx /\ res.data = << >>
      BY <2>2 DEF ReadChar
    <3>2. MemcpyOut(rx.buf, rx.tail, 0) = << >>
      BY DEF MemcpyOut
    <3>3. Wrap(rx.tail + 0) = rx.tail /\ rx.tail + 0 <= N /\ 0 <= UsedSpace(rx) /\ 0 \in Nat
      BY <1>1, SpaceFacts DEF Wrap
    <3> HIDE DEF res
    <3> QED BY <1>1, <1>2, <1>4, <2>1, <3>1, <3>2, <3>3, RxDelivers
  <2>3. CASE ~IsEmpty(rx)
    <3>1. /\ res.ring = [rx EXCEPT !.tail = Wrap(rx.tail + 1)]
          /\ res.data = << rx.buf[rx.tail] >>
      BY <2>3 DEF ReadChar
    <3>2. << rx.buf[rx.tail] >> = MemcpyOut(rx.buf, rx.tail, 1)
      BY <1>1 DEF MemcpyOut
    <3>3. res.ring \in Ring
      BY <1>1, ReadCharFacts
    <3> HIDE DEF res
    <3>4. /\ res.ring.tail = Wrap(rx.tail + 1) /\ res.ring.buf = rx.buf
          /\ res.ring.head = rx.head
      BY <1>1, <3>1 DEF Ring
    <3>5. 1 <= UsedSpace(rx) /\ rx.tail + 1 <= N /\ 1 \in Nat
      BY <1>1, <2>3, SpaceFacts
    <3> QED BY <1>2, <1>4, <2>1, <3>1, <3>2, <3>3, <3>4, <3>5, RxDelivers
  <2> QED BY <2>2, <2>3
<1> QED BY <1>3, <1>4

\* A void event leaves the stream as it is unless it happens.
LEMMA RxVoidFacts ==
  ASSUME RxHistType, NEW event, event \in BOOLEAN, RxVoidIf(event)
  PROVE  \/ rxBroken' = TRUE
         \/ rxBroken' = FALSE /\ ~event /\ ~rxBroken /\ UNCHANGED <<rxPending, rxOut, rxBroken>>
  BY DEF RxVoidIf, RxHistType

\* The completion interrupt moves what landed into the ring.
LEMMA UsbCompletionRxStream ==
  ASSUME PortInv, DmaRegionsReserved, RxHolds, UsbCompletion
  PROVE  RxHolds' /\ RxStep
<1>1. /\ RxPart /\ RxHistType /\ rx \in Ring /\ epOut \in Endpoint /\ rxbuf \in Seq(Byte)
  BY DEF PortInv, RxPart
<1>2. \/ rxBroken' = TRUE
      \/ /\ rxBroken' = FALSE /\ ~rxBroken /\ UNCHANGED <<rxPending, rxOut, rxBroken>>
         /\ ~(epOut.state = "done" /\ epOut.len > 0 /\ ~rxCallback)
  BY <1>1, RxVoidFacts DEF UsbCompletion
<1>3. CASE rxBroken' = TRUE
  BY <1>3, RxVoided
<1>4. CASE rxBroken' # TRUE
  <2>1. /\ rxBroken' = FALSE /\ ~rxBroken /\ UNCHANGED <<rxPending, rxOut, rxBroken>>
        /\ ~(epOut.state = "done" /\ epOut.len > 0 /\ ~rxCallback)
    BY <1>2, <1>4
  <2>2. rxPending = Contents(rx) \o Landed /\ (epOut.state = "done" => Len(Landed) = epOut.len)
    BY <2>1 DEF RxHolds
  <2>3. Contents(rx)' = Contents(rx') /\ RxStep
    BY <2>1 DEF RxStep
  <2>4. Contents(rx) \in Seq(Byte) /\ Landed \in Seq(Byte)
    BY <1>1, ContentsType, LandedType
  <2>5. CASE epOut.state # "done"
    <3>1. UNCHANGED rxVars
      BY <2>5 DEF UsbCompletion
    <3>2. Landed' = Landed /\ Contents(rx)' = Contents(rx)
      BY <3>1 DEF rxVars, Landed
    <3> QED BY <2>1, <2>2, <2>3, <2>5, <3>1, <3>2 DEF RxHolds, rxVars
  <2>6. CASE epOut.state = "done"
    <3>1. RunRxCallback(rx, Ep("idle"), epOut.len) /\ Ep("idle") \in Endpoint
          /\ ~InFlight(Ep("idle"))
      BY <2>6, NAssumption DEF UsbCompletion, Ep, Endpoint, EpState, InFlight
    <3>2. /\ rx.head + epOut.len <= N /\ epOut.len \in Nat /\ epOut.len <= AvailableSpace(rx)
          /\ epOut.bounce <=> Bounces(rx, "rx")
      BY <1>1, <2>1, <2>6, NAssumption
         DEF RxPart, OutTransferMatchesRing, InFlight, Endpoint, DmaRegionsReserved, Bounces
    <3>3. CASE rxCallback
      <4>1. Bounces(rx, "rx") => Len(rxbuf) = epOut.len
        BY <2>2, <2>6, <3>2 DEF Landed
      <4>2. /\ epOut'.state # "done"
            /\ Contents(rx') = Contents(rx) \o
                 (IF epOut.len = 0 THEN << >> ELSE IF Bounces(rx, "rx") THEN rxbuf
                  ELSE MemcpyOut(rx.buf, rx.head, epOut.len))
        BY <1>1, <3>1, <3>2, <3>3, <4>1, RunRxAppends
      <4>3. epOut.len = 0 => Landed = << >>
        BY <2>2, <2>4, <2>6
      <4>4. Contents(rx') = Contents(rx) \o Landed
        BY <2>6, <3>2, <4>2, <4>3 DEF Landed
      <4>5. Landed' = << >> /\ Contents(rx') \o << >> = Contents(rx')
        <5>1. Contents(rx') \in Seq(Byte)
          BY <2>4, <4>4
        <5> QED BY <4>2, <5>1, NothingAdded DEF Landed
      <4> QED BY <2>1, <2>2, <2>3, <4>2, <4>4, <4>5 DEF RxHolds
    <3>4. CASE ~rxCallback
      <4>1. rx' = rx /\ epOut' = Ep("idle") /\ epOut.len = 0
        BY <1>1, <2>1, <2>6, <3>1, <3>2, <3>4 DEF RunRxCallback
      <4>2. Landed = << >> /\ Landed' = << >> /\ epOut'.state # "done"
        BY <2>2, <2>4, <2>6, <4>1 DEF Landed, Ep
      <4>3. Contents(rx)' = Contents(rx)
        BY <4>1
      <4> QED BY <2>1, <2>2, <2>3, <4>2, <4>3 DEF RxHolds
    <3> QED BY <3>3, <3>4
  <2> QED BY <2>5, <2>6
<1> QED BY <1>3, <1>4

\* A reconfiguration keeps the stream when nothing had landed.
LEMMA SetConfigurationRxStream ==
  ASSUME PortInv, RxHolds, SetConfiguration
  PROVE  RxHolds' /\ RxStep
<1>1. /\ RxPart /\ RxHistType /\ rx \in Ring /\ epOut \in Endpoint /\ rxbuf \in Seq(Byte)
      /\ rxCallback \in BOOLEAN /\ epOut.len \in Nat
  BY NAssumption DEF PortInv, RxPart, Endpoint
<1>2. \/ rxBroken' = TRUE
      \/ /\ rxBroken' = FALSE /\ ~rxBroken /\ UNCHANGED <<rxPending, rxOut, rxBroken>>
         /\ ~(epOut.state = "done" /\ epOut.len > 0)
  BY <1>1, RxVoidFacts DEF SetConfiguration
<1>3. CASE rxBroken' = TRUE
  BY <1>3, RxVoided
<1>4. CASE rxBroken' # TRUE
  <2>1. /\ rxBroken' = FALSE /\ ~rxBroken /\ UNCHANGED <<rxPending, rxOut, rxBroken>>
        /\ ~(epOut.state = "done" /\ epOut.len > 0)
    BY <1>2, <1>4
  <2>2. rxPending = Contents(rx) \o Landed /\ (epOut.state = "done" => Len(Landed) = epOut.len)
    BY <2>1 DEF RxHolds
  <2>3. Contents(rx)' = Contents(rx') /\ RxStep
    BY <2>1 DEF RxStep
  <2>4. Landed = << >>
    <3>1. Landed \in Seq(Byte)
      BY <1>1, LandedType
    <3> QED BY <1>1, <2>1, <2>2, <3>1 DEF Landed
  <2>5. RunRxCallback(rx, Ep("idle"), 0) /\ Ep("idle") \in Endpoint /\ ~InFlight(Ep("idle"))
    BY NAssumption DEF SetConfiguration, Ep, Endpoint, EpState, InFlight
  <2>6. rx' = rx /\ epOut'.state # "done"
    <3>1. CASE rxCallback
      <4>1. rx.head + 0 <= N /\ 0 \in Nat /\ 0 <= AvailableSpace(rx)
        BY <1>1, SpaceFacts, NAssumption DEF Ring, Slot
      <4> QED BY <1>1, <2>5, <3>1, <4>1, RunRxAppends
    <3>2. CASE ~rxCallback
      BY <2>5, <3>2 DEF RunRxCallback, Ep
    <3> QED BY <3>1, <3>2
  <2>7. Landed' = << >> /\ Contents(rx)' = Contents(rx)
    BY <2>6 DEF Landed
  <2> QED BY <2>1, <2>2, <2>3, <2>4, <2>6, <2>7 DEF RxHolds
<1> QED BY <1>3, <1>4

\* So does a reset.
LEMMA EndpointsOffRxStream ==
  ASSUME PortInv, RxHolds, EndpointsOff
  PROVE  RxHolds' /\ RxStep
<1>1. RxPart /\ RxHistType /\ epOut \in Endpoint /\ epOut.len \in Nat
  BY NAssumption DEF PortInv, RxPart, Endpoint
<1>2. \/ rxBroken' = TRUE
      \/ /\ rxBroken' = FALSE /\ ~rxBroken /\ UNCHANGED <<rxPending, rxOut, rxBroken>>
         /\ ~(epOut.state = "done" /\ epOut.len > 0)
  BY <1>1, RxVoidFacts DEF EndpointsOff
<1>3. CASE rxBroken' = TRUE
  BY <1>3, RxVoided
<1>4. CASE rxBroken' # TRUE
  <2>1. /\ rxBroken' = FALSE /\ ~rxBroken /\ UNCHANGED <<rxPending, rxOut, rxBroken>>
        /\ ~(epOut.state = "done" /\ epOut.len > 0)
    BY <1>2, <1>4
  <2>2. rxPending = Contents(rx) \o Landed /\ (epOut.state = "done" => Len(Landed) = epOut.len)
    BY <2>1 DEF RxHolds
  <2>3. Landed = << >>
    <3>1. Landed \in Seq(Byte)
      BY <1>1, LandedType
    <3> QED BY <1>1, <2>1, <2>2, <3>1 DEF Landed
  <2>4. rx' = rx /\ epOut'.state # "done"
    BY DEF EndpointsOff, Ep
  <2>5. Landed' = << >> /\ Contents(rx)' = Contents(rx)
    BY <2>4 DEF Landed
  <2> QED BY <2>1, <2>2, <2>3, <2>4, <2>5 DEF RxHolds, RxStep
<1> QED BY <1>3, <1>4

\* The host's bytes land behind those of the ring.
LEMMA HostOutStream ==
  ASSUME PortInv, PortInv', DmaRegionsReserved, RxHolds, NEW n \in Nat, HostOut(n)
  PROVE  RxHolds' /\ RxStep
<1> DEFINE data == RxBytes(n)
<1>1. /\ RxPart /\ rx \in Ring /\ epOut \in Endpoint /\ rx' \in Ring
      /\ rxBroken \in BOOLEAN /\ rxBroken' = rxBroken
  BY DEF PortInv, RxPart, RxHistType, HostOut
<1>2. data \in Seq(Byte) /\ Len(data) = n
  BY RxBytesType DEF PortInv, RxHistType
<1>3. CASE rxBroken
  BY <1>1, <1>3, RxVoided
<1>4. CASE ~rxBroken
  <2>1. rxBroken = FALSE /\ rxBroken' = FALSE
    BY <1>1, <1>4
  <2>2. /\ epOut.state = "busy" /\ n <= epOut.len /\ epOut.len \in Nat
        /\ epOut'.state = "done" /\ epOut'.len = n /\ epOut'.bounce = epOut.bounce
    <3>1. epOut' = [epOut EXCEPT !.state = "done", !.len = n]
          /\ epOut.state = "busy" /\ n <= epOut.len
      BY DEF HostOut
    <3>2. epOut' = [state |-> "done", addr |-> epOut.addr, len |-> n,
                    bounce |-> epOut.bounce]
      BY <1>1, <3>1 DEF Endpoint
    <3>3. epOut'.bounce = epOut.bounce
      BY <3>2, Zenon
    <3> QED BY <1>1, <3>1, <3>2, <3>3, NAssumption DEF Endpoint
  <2>3. /\ epOut.len <= AvailableSpace(rx) /\ rx.head + epOut.len <= N
        /\ ~epOut.bounce => epOut.addr = rx.head
    BY <1>1, <1>4, <2>2 DEF RxPart, OutTransferMatchesRing, InFlight, DmaRegionsReserved
  <2>4. /\ rx.head \in Nat /\ N \in Nat /\ AvailableSpace(rx) \in Nat
        /\ rx.buf \in [Slot -> Byte] /\ UsedSpace(rx) \in Nat
        /\ UsedSpace(rx) + AvailableSpace(rx) = N - 1
    BY <1>1, SpaceFacts, NAssumption DEF Ring, Slot
  <2>5. n <= AvailableSpace(rx) /\ rx.head + n <= N
    BY <2>2, <2>3, <2>4
  <2>6. /\ rxPending = Contents(rx) \o Landed /\ Landed = << >>
        /\ Contents(rx) \in Seq(Byte) /\ Len(Contents(rx)) = UsedSpace(rx)
    BY <1>1, <1>4, <2>2, ContentsType DEF RxHolds, Landed
  <2>7. rxPending = Contents(rx)
    BY <2>6, NothingAdded
  <2>8. rxPending' = rxPending \o data /\ rxOut' = rxOut
    BY <2>1 DEF HostOut, RxAccept
  <2>9. Contents(rx') = Contents(rx) /\ Landed' = data
    <3>1. CASE epOut.bounce
      <4>1. rxbuf' = data /\ rx' = rx
        BY <3>1 DEF HostOut
      <4> QED BY <2>2, <3>1, <4>1 DEF Landed
    <3>2. CASE ~epOut.bounce
      <4> DEFINE buf == MemcpyIn(rx.buf, rx.head, data)
      <4>1. rx' = [rx EXCEPT !.buf = buf]
        BY <2>3, <3>2 DEF HostOut
      <4>2. rx'.buf = buf /\ rx'.head = rx.head /\ rx'.tail = rx.tail
        <5> HIDE DEF buf
        <5> QED BY <1>1, <4>1 DEF Ring
      <4>3. Contents(rx') = Contents(rx)
        BY <1>1, <1>2, <2>5, <4>2, BeyondTheHead
      <4>4. MemcpyOut(buf, rx.head, Len(data)) = data
        BY <1>2, <2>4, <2>5, CopiedOut
      <4> HIDE DEF buf, data
      <4>5. Landed' = MemcpyOut(rx'.buf, rx'.head, epOut'.len)
        BY <2>2, <3>2 DEF Landed
      <4>6. Landed' = data
        BY <1>2, <2>2, <4>2, <4>4, <4>5
      <4> QED BY <4>3, <4>6
    <3> QED BY <3>1, <3>2
  <2>10. Contents(rx)' = Contents(rx')
    OBVIOUS
  <2>11. RxHolds'
    BY <1>2, <2>2, <2>7, <2>8, <2>9, <2>10 DEF RxHolds
  <2> HIDE DEF data
  <2>12. RxStep
    <3>1. CASE n = 0
      <4>1. data = << >>
        BY <1>2, <3>1
      <4>2. rxPending' = rxPending
        BY <2>6, <2>7, <2>8, <4>1, NothingAdded
      <4> QED BY <2>1, <2>8, <4>2 DEF RxStep
    <3>2. CASE n # 0
      <4>1. Len(rxPending \o data) = Len(rxPending) + n
        BY <1>2, <2>6, <2>7
      <4>2. Len(rxPending') \in Len(rxPending) + 1 .. N - 1
        BY <2>4, <2>5, <2>6, <2>7, <2>8, <3>2, <4>1
      <4>3. SubSeq(rxPending', 1, Len(rxPending)) = rxPending
        BY <1>2, <2>6, <2>7, <2>8, FirstPart
      <4> QED BY <2>1, <2>8, <4>2, <4>3 DEF RxStep, RxStream!Next, RxStream!Accept
    <3> QED BY <3>1, <3>2
  <2> QED BY <2>11, <2>12
<1> QED BY <1>1, <1>3, <1>4

\* The other direction leaves the stream alone.
LEMMA RxStreamFrame ==
  ASSUME RxHolds, UNCHANGED <<rxVars, rxHist>>
  PROVE  RxHolds' /\ RxStep
<1>1. Contents(rx)' = Contents(rx) /\ Landed' = Landed
  BY DEF rxVars, Landed
<1> QED BY <1>1 DEF rxVars, rxHist, RxHolds, RxStep

\* Every step keeps the bytes of the way in together and is a step of the stream.
LEMMA RxStreamNext ==
  ASSUME PortInv, PortInv', DmaRegionsReserved, RxHolds, [Next]_vars
  PROVE  RxHolds' /\ [RxStream!Next]_<<rxPending, rxOut, rxBroken>>
<1>1. RxHolds' /\ RxStep
  <2>1. CASE UNCHANGED vars
    BY <2>1, RxStreamFrame DEF vars
  <2>2. ASSUME NEW len \in WriteLens, Write(len) PROVE RxHolds' /\ RxStep
    BY <2>2, RxStreamFrame DEF Write
  <2>3. ASSUME NEW max_len \in ReadLens, ReadBulk(max_len) PROVE RxHolds' /\ RxStep
    BY <2>3, ReadBulkStream, PortAssumption
  <2>4. ASSUME NEW n \in 0 .. N, HostOut(n) PROVE RxHolds' /\ RxStep
    BY <2>4, HostOutStream, NAssumption
  <2>5. CASE WriteChar \/ Del \/ HostIn
    BY <2>5, RxStreamFrame DEF WriteChar, Del, HostIn
  <2> QED BY <2>1, <2>2, <2>3, <2>4, <2>5, ReadOneStream, UsbCompletionRxStream,
             SetConfigurationRxStream, EndpointsOffRxStream DEF Next
<1> QED BY <1>1 DEF RxStep

\* An idle port with an empty buffer holds an empty stream.
LEMMA RxStreamInit == ASSUME Init PROVE RxHolds /\ RxStream!Init
<1>1. rx \in Ring /\ IsEmpty(rx)
  <2>1. PortInv
    BY InitInv
  <2>2. rx.head = 0 /\ rx.tail = 0
    BY DEF Init, EmptyRing, Clear
  <2> QED BY <2>1, <2>2 DEF PortInv, RxPart, IsEmpty
<1>2. Contents(rx) \in Seq(Byte) /\ Len(Contents(rx)) = 0
  BY <1>1, ContentsType, SpaceFacts
<1>3. Contents(rx) = << >> /\ Landed = << >> /\ rxPending = << >> /\ epOut.state = "off"
  BY <1>2 DEF Init, Landed, Ep
<1> QED BY <1>3 DEF Init, RxHolds, RxStream!Init

\* The bytes the host sends reach the application in order, each once and nothing
\* else, through both halves of rx_buffer and _rx_buffer, for every interleaving of
\* the reads with DMA, the interrupt, resets and reconfigurations.
THEOREM RxIsStream == Spec => RxStreamSpec
<1>1. Init => DmaRegionsReserved
  BY DEF Init, Ep, InFlight, DmaRegionsReserved
<1> QED BY <1>1, StepReserves, RxStreamInit, RxStreamNext, PortInvHolds, PTL
        DEF Spec, RxStreamSpec, RxStream!Spec

-----------------------------------------------------------------------------
(* The way out is a byte stream.  What waits is what tx_buffer holds, less  *)
(* the filler of the transfer _send_data_cb has asked for and, once the     *)
(* host has taken it, less the transfer itself.                             *)

\* The contents c without the filler of a transfer of len bytes at its front.
Layout(c, len, taken) ==
    (IF taken THEN << >> ELSE SubSeq(c, 1, len)) \o SubSeq(c, RoundUp(len) + 1, Len(c))

\* A transfer lies at the front of the ring; without callbacks only one that was
\* armed before counts.
TxAsked == transmitDMAInProgress /\ (txCallback \/ InFlight(epIn))

TxHolds ==
    ~txBroken =>
        /\ TxAsked =>
             /\ RoundUp(current_tx_length) <= UsedSpace(tx)
             /\ txPending = Layout(Contents(tx), current_tx_length, epIn.state = "done")
        /\ txCallback /\ ~transmitDMAInProgress => txPending = Contents(tx)
        /\ Len(txPending) <= UsedSpace(tx)

\* What a step may do to the stream.
TxStep == TxStream!Next \/ UNCHANGED <<txPending, txOut, txBroken>>

\* The layout is a part of the contents.
LEMMA LayoutType ==
  ASSUME NEW c \in Seq(Byte), NEW len \in Nat, RoundUp(len) <= Len(c), NEW taken
  PROVE  Layout(c, len, taken) \in Seq(Byte) /\ Len(Layout(c, len, taken)) <= Len(c)
<1>1. RoundUp(len) \in Nat /\ len <= RoundUp(len)
  BY RoundUpFacts
<1> DEFINE start == SubSeq(c, 1, len)
           rest  == SubSeq(c, RoundUp(len) + 1, Len(c))
<1>2. /\ start \in Seq(Byte) /\ Len(start) = len
      /\ rest \in Seq(Byte) /\ Len(rest) = Len(c) - RoundUp(len)
      /\ Len(c) \in Nat
  BY <1>1
<1> HIDE DEF start, rest
<1>3. start \o rest \in Seq(Byte) /\ Len(start \o rest) <= Len(c)
  BY <1>1, <1>2
<1>4. << >> \o rest \in Seq(Byte) /\ Len(<< >> \o rest) <= Len(c)
  BY <1>1, <1>2, NothingAdded
<1> QED BY <1>3, <1>4 DEF Layout, start, rest

\* Bytes stored behind a transfer do not change what it lays out.
LEMMA LayoutAppend ==
  ASSUME NEW c \in Seq(Byte), NEW d \in Seq(Byte), NEW len \in Nat,
         RoundUp(len) <= Len(c), NEW taken
  PROVE  Layout(c \o d, len, taken) = Layout(c, len, taken) \o d
<1>1. RoundUp(len) \in Nat /\ len <= RoundUp(len)
  BY RoundUpFacts
<1> DEFINE start == SubSeq(c, 1, len)
           rest  == SubSeq(c, RoundUp(len) + 1, Len(c))
<1>2. len \in 0 .. Len(c) /\ RoundUp(len) \in 0 .. Len(c)
  BY <1>1
<1>3. start \in Seq(Byte) /\ rest \in Seq(Byte) /\ << >> \in Seq(Byte)
  BY <1>1, <1>2
<1>4. /\ SubSeq(c \o d, 1, len) = start
      /\ SubSeq(c \o d, RoundUp(len) + 1, Len(c \o d)) = rest \o d
  BY <1>2, KeepFirst, DropFirst
<1> HIDE DEF start, rest
<1>5. /\ (start \o rest) \o d = start \o (rest \o d)
      /\ (<< >> \o rest) \o d = << >> \o (rest \o d)
  BY <1>3, ThreeParts
<1> QED BY <1>4, <1>5 DEF Layout, start, rest

\* A transfer of whole words needs no filler.
LEMMA LayoutWords ==
  ASSUME NEW c \in Seq(Byte), NEW len \in Nat, Aligned(len), len <= Len(c)
  PROVE  Layout(c, len, FALSE) = c
<1>1. RoundUp(len) = len /\ len \in 0 .. Len(c)
  BY RoundUpFacts
<1> QED BY <1>1, TwoParts DEF Layout

\* prepareDirectRead: the filler aside, the contents are those it found.
LEMMA PrepareLayout ==
  ASSUME NEW r \in Ring, Aligned(r.tail), ~IsEmpty(r),
         NEW res, res = PrepareDirectRead(r, "tx")
  PROVE  Layout(Contents(res.ring), res.len, FALSE) = Contents(r)
<1> DEFINE max == min(N - r.tail, UsedSpace(r))
           s   == res.ring
<1>1. r.head \in 0 .. N - 1 /\ r.tail \in 0 .. N - 1 /\ N \in Nat
  BY NAssumption DEF Ring, Slot
<1>2. N - r.tail >= AlignStep
  BY <1>1, AlignedSum, BufferOfWords DEF Words, Aligned, AlignStep
<1>3. max \in 1 .. N - 1 /\ max <= N - r.tail /\ max <= UsedSpace(r)
  BY <1>1, <1>2, SpaceFacts DEF min, AlignStep
<1>4. Contents(r) \in Seq(Byte) /\ Len(Contents(r)) = UsedSpace(r)
  BY ContentsType
<1>5. CASE max < AlignStep
  <2>1. UsedSpace(r) = max /\ r.head = r.tail + max
    BY <1>1, <1>2, <1>3, <1>5 DEF UsedSpace, min, AlignStep
  <2>2. r.head + (AlignStep - max) = r.tail + AlignStep
    BY <1>1, <1>3, <2>1 DEF AlignStep
  <2>3. s.head = Wrap(r.tail + AlignStep) /\ s.tail = r.tail /\ s.buf = r.buf /\ res.len = max
    BY <1>5, <2>2 DEF PrepareDirectRead, Ring
  <2>4. s \in Ring
    BY PrepareDirectReadFacts, BufferOfWords
  <2> HIDE DEF max, s
  <2>5. RoundUp(max) = AlignStep
    BY <1>3, <1>5 DEF RoundUp, Aligned, AlignStep
  <2>6. UsedSpace(s) = AlignStep
    BY <1>1, <1>2, <2>3, LengthAssumption DEF UsedSpace, Wrap, AlignStep
  <2>7. /\ Contents(s) \in Seq(Byte) /\ Len(Contents(s)) = AlignStep
        /\ \A k \in 1 .. AlignStep : Contents(s)[k] = s.buf[SlotAt(s, k)]
    BY <2>4, <2>6, ContentsType
  <2>8. \A k \in 1 .. max : Contents(r)[k] = r.buf[SlotAt(r, k)]
    BY <2>1, ContentsType
  <2>9. ASSUME NEW k \in 1 .. max PROVE Contents(s)[k] = Contents(r)[k]
    <3>1. SlotAt(s, k) = SlotAt(r, k) /\ k \in 1 .. AlignStep
      BY <1>3, <1>5, <2>3 DEF SlotAt, AlignStep
    <3> QED BY <2>3, <2>7, <2>8, <3>1
  <2> DEFINE c     == Contents(s)
             start == SubSeq(c, 1, max)
  <2>10. c \in Seq(Byte) /\ Len(c) = AlignStep /\ max \in 0 .. Len(c)
    BY <1>3, <1>5, <2>7 DEF AlignStep
  <2>11. \A k \in 1 .. max : c[k] = Contents(r)[k]
    BY <2>9
  <2> HIDE DEF c
  <2>12. start \in Seq(Byte) /\ Len(start) = max /\ \A k \in 1 .. max : start[k] = c[k]
    BY <2>10
  <2>13. SubSeq(c, AlignStep + 1, Len(c)) = << >>
    BY <2>10 DEF AlignStep
  <2> HIDE DEF start
  <2>14. start = Contents(r)
    BY <1>4, <2>1, <2>11, <2>12, SameElements
  <2>15. start \o << >> = start
    BY <2>12, NothingAdded
  <2>16. Layout(c, max, FALSE) = start \o << >>
    BY <2>5, <2>13 DEF Layout, start
  <2> QED BY <2>3, <2>14, <2>15, <2>16 DEF c, s
<1>6. CASE max >= AlignStep
  <2>1. res.ring = r /\ res.len = max - (max % AlignStep)
    BY <1>3, <1>6 DEF PrepareDirectRead, AlignStep
  <2>2. /\ max - (max % AlignStep) \in 1 .. max
        /\ Aligned(max - (max % AlignStep))
    BY <1>3, <1>6 DEF Aligned, AlignStep
  <2> HIDE DEF max
  <2>3. res.len \in Nat /\ Aligned(res.len) /\ res.len <= Len(Contents(r))
    BY <1>1, <1>3, <1>4, <2>1, <2>2, SpaceFacts
  <2> QED BY <1>4, <2>1, <2>3, LayoutWords
<1>7. max \in Int
  BY <1>1, <1>3
<1>8. max < AlignStep \/ max >= AlignStep
  BY <1>7 DEF AlignStep
<1> HIDE DEF max
<1> QED BY <1>5, <1>6, <1>8, Zenon

\* A length that equals a bound is within it.
LEMMA EqualIsBounded == \A m, n : n \in Nat /\ m = n => m <= n
OBVIOUS

\* _send_data_cb takes the transfer it is told about off the contents, and lays out
\* the next one over what is left, which is what waits.
LEMMA RunTxTakes ==
  ASSUME NEW r \in Ring, Aligned(r.tail), NEW len \in Nat, r.tail + RoundUp(len) <= N,
         RoundUp(len) <= UsedSpace(r), NEW ep \in Endpoint, ~InFlight(ep),
         txCallback, RunTxCallback(r, ep, len),
         txPending' = SubSeq(Contents(r), RoundUp(len) + 1, Len(Contents(r)))
  PROVE  TxHolds'
<1> DEFINE sent == IF len > 0 THEN CompleteDirectRead(r, "tx", len) ELSE r
           next == PrepareDirectRead(sent, "tx")
           cb   == SendDataCb(r, len)
<1>1. sent \in Ring /\ Aligned(sent.tail)
  BY CompleteDirectReadFacts, BufferOfWords
<1>2. Contents(sent) = SubSeq(Contents(r), RoundUp(len) + 1, Len(Contents(r)))
  <2>1. CASE len > 0
    <3>1. sent = [r EXCEPT !.tail = Wrap(r.tail + RoundUp(len))]
      BY <2>1 DEF CompleteDirectRead
    <3> HIDE DEF sent
    <3>2. /\ sent.tail = Wrap(r.tail + RoundUp(len)) /\ sent.buf = r.buf
          /\ sent.head = r.head
      BY <3>1 DEF Ring
    <3>3. RoundUp(len) \in Nat
      BY RoundUpFacts
    <3> QED BY <1>1, <3>2, <3>3, TakenIsOldest
  <2>2. CASE ~(len > 0)
    <3>1. len = 0 /\ RoundUp(len) = 0 /\ sent = r
      BY <2>2 DEF RoundUp, Aligned, AlignStep
    <3>2. Contents(r) \in Seq(Byte)
      BY ContentsType
    <3>3. SubSeq(Contents(r), 1, Len(Contents(r))) = Contents(r)
      BY <3>2
    <3> QED BY <3>1, <3>3
  <2> QED BY <2>1, <2>2
<1>3. /\ tx' = cb.ring /\ transmitDMAInProgress' = cb.start /\ current_tx_length' = cb.len
      /\ epIn' = IF cb.start THEN StartTransfer(ep, cb.ring.tail, cb.len, FALSE) ELSE ep
  BY DEF RunTxCallback
<1>4. Contents(tx)' = Contents(tx') /\ UsedSpace(tx)' = UsedSpace(tx')
  OBVIOUS
<1>5. CASE IsEmpty(sent)
  <2>1. cb.ring = sent /\ cb.start = FALSE
    BY <1>5 DEF SendDataCb
  <2> HIDE DEF sent, cb
  <2>2. tx' = sent /\ transmitDMAInProgress' = FALSE
    BY <1>3, <2>1
  <2>3. txPending' = Contents(tx') /\ Len(Contents(tx')) = UsedSpace(tx')
        /\ UsedSpace(tx') \in Nat
    BY <1>1, <1>2, <2>2, ContentsType, SpaceFacts
  <2>4. ~TxAsked'
    BY <2>2 DEF TxAsked
  <2>5. Len(txPending') = UsedSpace(tx')
    BY <2>3
  <2>6. Len(txPending') <= UsedSpace(tx')
    BY <2>3, <2>5, EqualIsBounded, Zenon
  <2>7. txPending' = Contents(tx)' /\ Len(txPending)' <= UsedSpace(tx)'
    BY <1>4, <2>3, <2>6
  <2> QED BY <2>4, <2>7 DEF TxHolds
<1>6. CASE ~IsEmpty(sent)
  <2>1. next.len # 0 /\ next.len \in Nat /\ next.ring \in Ring
    <3> HIDE DEF sent
    <3>1. next.len \in 1 .. N /\ next.ring \in Ring
      BY <1>1, <1>6, PrepareDirectReadFacts, BufferOfWords
    <3> QED BY <3>1, NAssumption
  <2>2. cb.ring = next.ring /\ cb.len = next.len /\ cb.start = TRUE
    BY <1>6, <2>1 DEF SendDataCb
  <2> HIDE DEF cb
  <2>3. tx' = next.ring /\ current_tx_length' = next.len /\ transmitDMAInProgress' = TRUE
        /\ epIn'.state # "done"
    BY <1>3, <2>2 DEF StartTransfer, InFlight
  <2> HIDE DEF sent
  <2>4. /\ RoundUp(next.len) <= UsedSpace(next.ring)
        /\ Layout(Contents(next.ring), next.len, FALSE) = Contents(sent)
    BY <1>1, <1>6, PrepareReserves, PrepareLayout, BufferOfWords
  <2> HIDE DEF next
  <2>5. Contents(next.ring) \in Seq(Byte) /\ Len(Contents(next.ring)) = UsedSpace(next.ring)
    BY <2>1, ContentsType
  <2>6. Len(Layout(Contents(next.ring), next.len, FALSE)) <= UsedSpace(next.ring)
    BY <2>1, <2>4, <2>5, LayoutType
  <2>7. (epIn.state = "done")' = FALSE
    BY <2>3
  <2>8. Layout(Contents(tx), current_tx_length, epIn.state = "done")'
          = Layout(Contents(next.ring), next.len, FALSE)
    BY <1>4, <2>3, <2>7
  <2> QED BY <1>2, <1>4, <2>3, <2>4, <2>6, <2>8 DEF TxHolds
<1> QED BY <1>5, <1>6

\* Without a callback nothing is asked for.
LEMMA RunTxSilent ==
  ASSUME NEW r, NEW len, NEW ep, ~InFlight(ep), ~txCallback, UNCHANGED txCallback,
         RunTxCallback(r, ep, len), Len(txPending') <= UsedSpace(r)
  PROVE  TxHolds'
<1>1. tx' = r /\ epIn' = ep /\ ~InFlight(epIn)' /\ ~txCallback'
  BY DEF RunTxCallback, InFlight
<1>2. UsedSpace(tx)' = UsedSpace(tx')
  OBVIOUS
<1> QED BY <1>1, <1>2 DEF TxHolds, TxAsked

\* A void stream promises nothing.
LEMMA TxVoided == ASSUME txBroken' = TRUE PROVE TxHolds' /\ TxStep
  BY DEF TxHolds, TxStep, TxStream!Next, TxStream!Break

\* A void event leaves the stream as it is unless it happens.
LEMMA TxVoidFacts ==
  ASSUME TxHistType, NEW event, event \in BOOLEAN, TxVoidIf(event)
  PROVE  \/ txBroken' = TRUE
         \/ txBroken' = FALSE /\ ~event /\ ~txBroken /\ UNCHANGED <<txPending, txOut, txBroken>>
  BY DEF TxVoidIf, TxHistType

\* The bytes a write put in front of the head join the stream.
LEMMA TxAppends ==
  ASSUME PortInv, TxHolds, ~txBroken, txBroken' = FALSE, UNCHANGED txCallback,
         NEW r \in Ring, NEW n \in Nat, n <= AvailableSpace(tx), tx.head + n <= N,
         r.buf = MemcpyIn(tx.buf, tx.head, TxBytes(n)),
         r.head = Wrap(tx.head + n), r.tail = tx.tail,
         StartTxIfIdle(r), TxAccept(n)
  PROVE  TxHolds' /\ TxStep
<1> DEFINE data == TxBytes(n)
<1>1. /\ tx \in Ring /\ TxPart /\ epIn \in Endpoint /\ Aligned(tx.tail)
      /\ txBroken = FALSE /\ current_tx_length \in Nat
      /\ transmitDMAInProgress \in BOOLEAN /\ txCallback \in BOOLEAN
      /\ txPending \in Seq(Byte)
  BY NAssumption DEF PortInv, TxPart, TxHistType, InTransferMatchesRing
<1>2. data \in Seq(Byte) /\ Len(data) = n
  BY TxBytesType DEF PortInv, TxHistType
<1>3. Contents(r) = Contents(tx) \o data /\ UsedSpace(r) = UsedSpace(tx) + n
  BY <1>1, <1>2, WrittenIsAppended
<1>4. /\ Contents(tx) \in Seq(Byte) /\ Len(Contents(tx)) = UsedSpace(tx)
      /\ Contents(r) \in Seq(Byte) /\ Len(Contents(r)) = UsedSpace(r)
      /\ UsedSpace(tx) \in Nat /\ UsedSpace(r) \in 0 .. N - 1 /\ N \in Nat
  <2>1. N \in Nat
    BY NAssumption
  <2>2. /\ Contents(tx) \in Seq(Byte) /\ Len(Contents(tx)) = UsedSpace(tx)
        /\ Contents(r) \in Seq(Byte) /\ Len(Contents(r)) = UsedSpace(r)
    BY <1>1, ContentsType
  <2>3. UsedSpace(tx) \in 0 .. N - 1 /\ UsedSpace(r) \in 0 .. N - 1
    BY <1>1, SpaceFacts
  <2> QED BY <2>1, <2>2, <2>3
<1>5. txPending' = txPending \o data /\ txOut' = txOut
  BY DEF TxAccept
<1> HIDE DEF data
<1>6. /\ Len(txPending) <= UsedSpace(tx)
      /\ Len(txPending') = Len(txPending) + n /\ Len(txPending) \in Nat
  <2>1. Len(txPending \o data) = Len(txPending) + n
    BY <1>1, <1>2
  <2> QED BY <1>1, <1>5, <2>1 DEF TxHolds
<1>7. Len(txPending') <= UsedSpace(r)
  BY <1>3, <1>4, <1>6
<1>8. TxStep
  <2>1. CASE n = 0
    <3>1. data = << >>
      BY <1>2, <2>1
    <3>2. txPending' = txPending
      BY <1>1, <1>5, <3>1, NothingAdded
    <3> QED BY <1>1, <1>5, <3>2 DEF TxStep
  <2>2. CASE n # 0
    <3>1. Len(txPending') \in Len(txPending) + 1 .. N - 1
      BY <1>4, <1>6, <1>7, <2>2
    <3>2. SubSeq(txPending', 1, Len(txPending)) = txPending
      BY <1>1, <1>2, <1>5, FirstPart
    <3> QED BY <1>1, <1>5, <3>1, <3>2 DEF TxStep, TxStream!Next, TxStream!Accept
  <2> QED BY <2>1, <2>2
<1>9. Contents(tx)' = Contents(tx') /\ UsedSpace(tx)' = UsedSpace(tx')
  OBVIOUS
<1>10. CASE transmitDMAInProgress
  <2>1. tx' = r /\ UNCHANGED <<transmitDMAInProgress, current_tx_length, epIn>>
    BY <1>10 DEF StartTxIfIdle
  <2>2. TxAsked' <=> TxAsked
    BY <2>1 DEF TxAsked, InFlight
  <2>3. CASE TxAsked
    <3> DEFINE taken == epIn.state = "done"
    <3>1. /\ RoundUp(current_tx_length) <= UsedSpace(tx)
          /\ txPending = Layout(Contents(tx), current_tx_length, taken)
      BY <2>3 DEF TxHolds
    <3>2. Layout(Contents(tx) \o data, current_tx_length, taken)
            = Layout(Contents(tx), current_tx_length, taken) \o data
      <4>1. RoundUp(current_tx_length) <= Len(Contents(tx))
        BY <1>4, <3>1
      <4>2. Contents(tx) \in Seq(Byte) /\ data \in Seq(Byte) /\ current_tx_length \in Nat
        BY <1>1, <1>2, <1>4
      <4> HIDE DEF taken
      <4> QED BY <4>1, <4>2, LayoutAppend, Zenon
    <3>3. RoundUp(current_tx_length) <= UsedSpace(r)
      BY <1>1, <1>3, <1>4, <3>1, RoundUpFacts
    <3>4. Layout(Contents(tx), current_tx_length, epIn.state = "done")'
            = Layout(Contents(r), current_tx_length, taken)
      BY <1>9, <2>1
    <3> HIDE DEF taken
    <3>5. txPending' = Layout(Contents(tx), current_tx_length, epIn.state = "done")'
      BY <1>3, <1>5, <3>1, <3>2, <3>4
    <3> QED BY <1>7, <1>8, <1>9, <1>10, <2>1, <3>3, <3>5 DEF TxHolds
  <2>4. CASE ~TxAsked
    BY <1>7, <1>8, <1>9, <1>10, <2>1, <2>2, <2>4 DEF TxHolds
  <2> QED BY <2>3, <2>4
<1>11. CASE ~transmitDMAInProgress
  <2>1. RunTxCallback(r, epIn, 0) /\ ~InFlight(epIn)
    BY <1>1, <1>11 DEF StartTxIfIdle, TxPart
  <2>2. CASE txCallback
    <3>1. txPending = Contents(tx)
      BY <1>11, <2>2 DEF TxHolds
    <3>2. RoundUp(0) = 0 /\ 0 \in Nat
      BY DEF RoundUp, Aligned, AlignStep
    <3>3. r.tail + RoundUp(0) <= N /\ RoundUp(0) <= UsedSpace(r)
      BY <1>4, <3>2 DEF Ring, Slot
    <3>4. SubSeq(Contents(r), RoundUp(0) + 1, Len(Contents(r))) = Contents(r)
      BY <1>4, <3>2
    <3>5. txPending' = SubSeq(Contents(r), RoundUp(0) + 1, Len(Contents(r)))
      BY <1>3, <1>5, <3>1, <3>4
    <3> QED BY <1>1, <1>8, <2>1, <2>2, <3>2, <3>3, <3>5, RunTxTakes
  <2>3. CASE ~txCallback
    BY <1>7, <1>8, <2>1, <2>3, RunTxSilent
  <2> QED BY <2>2, <2>3
<1> QED BY <1>10, <1>11

\* The numbered bytes of a shorter write are the first ones of a longer.
LEMMA FirstTxBytes ==
  ASSUME NEW n \in Nat, NEW m \in Nat, m <= n, txTag \in Byte
  PROVE  SubSeq(TxBytes(n), 1, m) = TxBytes(m)
<1>1. TxBytes(n) \in Seq(Byte) /\ TxBytes(m) \in Seq(Byte)
      /\ Len(TxBytes(n)) = n /\ Len(TxBytes(m)) = m
  BY TxBytesType
<1>2. ASSUME NEW k \in 1 .. m PROVE TxBytes(n)[k] = TxBytes(m)[k]
  BY <1>2 DEF TxBytes
<1>3. /\ SubSeq(TxBytes(n), 1, m) \in Seq(Byte)
      /\ Len(SubSeq(TxBytes(n), 1, m)) = m
      /\ \A k \in 1 .. m : SubSeq(TxBytes(n), 1, m)[k] = TxBytes(n)[k]
  BY <1>1
<1> QED BY <1>1, <1>2, <1>3, SameElements

\* USBserial::write(data, len).
LEMMA WriteStream ==
  ASSUME PortInv, TxHolds, NEW len \in Nat, Write(len)
  PROVE  TxHolds' /\ TxStep
<1> DEFINE data == TxBytes(len)
           res  == Store(tx, data)
<1>1. /\ tx \in Ring /\ data \in Seq(Byte) /\ Len(data) = len
      /\ txTag \in Byte /\ txBroken \in BOOLEAN
  BY TxBytesType DEF PortInv, TxPart, TxHistType
<1>2. /\ res.ring \in Ring /\ res.ring.tail = tx.tail /\ res.len \in 0 .. len
  BY <1>1, StoreFacts
<1>3. ~Splits(tx.head, res.len) =>
        /\ res.len <= AvailableSpace(tx) /\ tx.head + res.len <= N
        /\ res.ring.buf = MemcpyIn(tx.buf, tx.head, SubSeq(data, 1, res.len))
        /\ res.ring.head = Wrap(tx.head + res.len)
  BY <1>1, StoreUnsplit
<1>4. SubSeq(data, 1, res.len) = TxBytes(res.len) /\ res.len \in Nat
  BY <1>1, <1>2, FirstTxBytes
<1>5. /\ StartTxIfIdle(res.ring) /\ TxAccept(res.len) /\ UNCHANGED txCallback
      /\ txBroken' = (txBroken \/ Splits(tx.head, res.len))
  BY DEF Write, cbVars
<1> HIDE DEF data, res
<1>6. CASE txBroken \/ Splits(tx.head, res.len)
  BY <1>1, <1>5, <1>6, TxVoided
<1>7. CASE ~txBroken /\ ~Splits(tx.head, res.len)
  <2>1. txBroken' = FALSE
    BY <1>1, <1>5, <1>7
  <2> QED BY <1>2, <1>3, <1>4, <1>5, <1>7, <2>1, TxAppends
<1> QED BY <1>6, <1>7

\* USBserial::write(c).
LEMMA WriteCharStream ==
  ASSUME PortInv, TxHolds, WriteChar
  PROVE  TxHolds' /\ TxStep
<1> DEFINE res == StoreChar(tx, txTag)
<1>1. /\ tx \in Ring /\ txTag \in Byte /\ txBroken \in BOOLEAN
      /\ tx.buf \in [Slot -> Byte] /\ tx.head \in 0 .. N - 1 /\ N \in Nat
  BY NAssumption DEF PortInv, TxPart, TxHistType, Ring, Slot
<1>2. /\ StartTxIfIdle(res.ring) /\ TxAccept(res.len) /\ txBroken' = txBroken
      /\ UNCHANGED txCallback
  BY DEF WriteChar, cbVars
<1>3. res.ring \in Ring
  BY <1>1, StoreCharFacts
<1>4. CASE txBroken
  BY <1>1, <1>2, <1>4, TxVoided
<1>5. CASE ~txBroken /\ IsFull(tx)
  <2>1. res.ring = tx /\ res.len = 0
    BY <1>5 DEF StoreChar
  <2> HIDE DEF res
  <2>2. TxBytes(0) = << >> /\ tx.head + 0 = tx.head
    BY <1>1 DEF TxBytes
  <2>3. MemcpyIn(tx.buf, tx.head, TxBytes(0)) = tx.buf
    BY <1>1, <2>2 DEF MemcpyIn
  <2>4. Wrap(tx.head + 0) = tx.head /\ tx.head + 0 <= N /\ 0 <= AvailableSpace(tx)
    BY <1>1, <2>2, SpaceFacts DEF Wrap
  <2>5. txBroken' = FALSE /\ 0 \in Nat
    BY <1>1, <1>2, <1>5
  <2> QED BY <1>1, <1>2, <1>5, <2>1, <2>3, <2>4, <2>5, TxAppends
<1>6. CASE ~txBroken /\ ~IsFull(tx)
  <2>1. /\ res.len = 1
        /\ res.ring = [tx EXCEPT !.buf[tx.head] = txTag, !.head = Wrap(tx.head + 1)]
    BY <1>6 DEF StoreChar
  <2> HIDE DEF res
  <2>2. TxBytes(1) \in Seq(Byte) /\ Len(TxBytes(1)) = 1
    BY <1>1, TxBytesType
  <2>3. TxBytes(1)[1] = txTag
    BY <1>1, <1>6, PortAssumption DEF TxBytes
  <2>4. /\ res.ring.buf = [tx.buf EXCEPT ![tx.head] = txTag]
        /\ res.ring.head = Wrap(tx.head + 1) /\ res.ring.tail = tx.tail
    BY <1>1, <2>1 DEF Ring
  <2>5. res.ring.buf = MemcpyIn(tx.buf, tx.head, TxBytes(1))
    BY <1>1, <2>2, <2>3, <2>4, StoreCharCopies
  <2>6. 1 <= AvailableSpace(tx) /\ tx.head + 1 <= N /\ 1 \in Nat
    BY <1>1, <1>6, SpaceFacts DEF IsFull
  <2>7. txBroken' = FALSE
    BY <1>1, <1>2, <1>6
  <2> QED BY <1>2, <1>3, <1>6, <2>1, <2>4, <2>5, <2>6, <2>7, TxAppends
<1> QED BY <1>4, <1>5, <1>6

\* Without callbacks a transfer counts only while the endpoint holds it.
LEMMA DelTxStream ==
  ASSUME PortInv, TxHolds, Del
  PROVE  TxHolds' /\ TxStep
<1>1. /\ ~txCallback' /\ UNCHANGED <<tx, transmitDMAInProgress, epIn, txHist>>
      /\ InFlight(epIn) => current_tx_length' = current_tx_length
  BY DEF Del, InFlight
<1>2. TxAsked' => TxAsked /\ current_tx_length' = current_tx_length
  BY <1>1 DEF TxAsked, InFlight
<1>3. Contents(tx)' = Contents(tx) /\ UsedSpace(tx)' = UsedSpace(tx)
  BY <1>1
<1> QED BY <1>1, <1>2, <1>3 DEF TxHolds, TxStep, txHist

\* The completion interrupt accounts for a transfer the host has taken.
LEMMA UsbCompletionTxStream ==
  ASSUME PortInv, TxHolds, UsbCompletion
  PROVE  TxHolds' /\ TxStep
<1>1. UNCHANGED <<txPending, txOut, txBroken, txCallback>>
  BY DEF UsbCompletion, txHist, cbVars
<1>2. TxStep
  BY <1>1 DEF TxStep
<1>3. CASE epIn.state # "done"
  <2>1. UNCHANGED txVars
    BY <1>3 DEF UsbCompletion
  <2>2. Contents(tx)' = Contents(tx) /\ UsedSpace(tx)' = UsedSpace(tx)
    BY <2>1 DEF txVars
  <2> QED BY <1>1, <1>2, <2>1, <2>2 DEF TxHolds, TxAsked, txVars
<1>4. CASE txBroken
  BY <1>1, <1>2, <1>4 DEF TxHolds
<1>5. CASE epIn.state = "done" /\ ~txBroken
  <2> DEFINE len == current_tx_length
  <2>1. /\ tx \in Ring /\ Aligned(tx.tail) /\ len \in Nat /\ tx.tail + RoundUp(len) <= N
        /\ transmitDMAInProgress /\ InFlight(epIn)
    BY <1>5, NAssumption DEF PortInv, TxPart, InTransferMatchesRing, InFlight
  <2>2. RoundUp(len) <= UsedSpace(tx) /\ txPending = Layout(Contents(tx), len, TRUE)
    BY <1>5, <2>1 DEF TxHolds, TxAsked
  <2>3. RunTxCallback(tx, Ep("idle"), len) /\ Ep("idle") \in Endpoint /\ ~InFlight(Ep("idle"))
    BY <1>5, NAssumption DEF UsbCompletion, Ep, Endpoint, EpState, InFlight
  <2>4. Contents(tx) \in Seq(Byte) /\ Len(Contents(tx)) = UsedSpace(tx)
        /\ RoundUp(len) \in Nat
    BY <2>1, ContentsType, RoundUpFacts
  <2> HIDE DEF len
  <2>5. SubSeq(Contents(tx), RoundUp(len) + 1, Len(Contents(tx))) \in Seq(Byte)
    BY <2>4, RestType
  <2>6. txPending' = SubSeq(Contents(tx), RoundUp(len) + 1, Len(Contents(tx)))
    BY <1>1, <2>2, <2>5, NothingAdded DEF Layout
  <2>7. CASE txCallback
    BY <1>2, <2>1, <2>2, <2>3, <2>6, <2>7, RunTxTakes
  <2>8. CASE ~txCallback
    <3>1. Len(txPending') <= UsedSpace(tx)
      BY <1>1, <1>5 DEF TxHolds
    <3> QED BY <1>1, <1>2, <2>3, <2>8, <3>1, RunTxSilent
  <2> QED BY <2>7, <2>8
<1> QED BY <1>3, <1>4, <1>5

\* A reconfiguration starts over a transfer that has no filler behind it.
LEMMA SetConfigurationTxStream ==
  ASSUME PortInv, TxHolds, SetConfiguration
  PROVE  TxHolds' /\ TxStep
<1>1. /\ tx \in Ring /\ Aligned(tx.tail) /\ current_tx_length \in Nat
      /\ transmitDMAInProgress \in BOOLEAN /\ TxHistType /\ UNCHANGED txCallback
  BY NAssumption DEF PortInv, TxPart, InTransferMatchesRing, SetConfiguration, cbVars
<1>2. \/ txBroken' = TRUE
      \/ /\ txBroken' = FALSE /\ ~txBroken /\ UNCHANGED <<txPending, txOut, txBroken>>
         /\ ~(\/ epIn.state = "done"
              \/ transmitDMAInProgress /\ ~Aligned(current_tx_length))
  BY <1>1, TxVoidFacts DEF SetConfiguration
<1>3. CASE txBroken' = TRUE
  BY <1>3, TxVoided
<1>4. CASE txBroken' # TRUE
  <2>1. /\ txBroken' = FALSE /\ ~txBroken /\ UNCHANGED <<txPending, txOut, txBroken>>
        /\ epIn.state # "done"
        /\ transmitDMAInProgress => Aligned(current_tx_length)
    BY <1>2, <1>4
  <2>2. TxStep
    BY <2>1 DEF TxStep
  <2>3. RunTxCallback(tx, Ep("idle"), 0) /\ Ep("idle") \in Endpoint /\ ~InFlight(Ep("idle"))
    BY NAssumption DEF SetConfiguration, Ep, Endpoint, EpState, InFlight
  <2>4. Contents(tx) \in Seq(Byte) /\ Len(Contents(tx)) = UsedSpace(tx)
        /\ UsedSpace(tx) \in Nat
    BY <1>1, ContentsType, SpaceFacts
  <2>5. CASE txCallback
    <3>1. txPending = Contents(tx)
      <4>1. CASE transmitDMAInProgress
        <5>1. /\ RoundUp(current_tx_length) <= UsedSpace(tx)
              /\ txPending = Layout(Contents(tx), current_tx_length, epIn.state = "done")
          BY <2>1, <2>5, <4>1 DEF TxHolds, TxAsked
        <5>2. txPending = Layout(Contents(tx), current_tx_length, FALSE)
          BY <2>1, <5>1 DEF Layout
        <5>3. RoundUp(current_tx_length) = current_tx_length
          BY <1>1, <2>1, <4>1, RoundUpFacts
        <5> QED BY <1>1, <2>1, <2>4, <4>1, <5>1, <5>2, <5>3, LayoutWords
      <4>2. CASE ~transmitDMAInProgress
        BY <2>1, <2>5, <4>2 DEF TxHolds
      <4> QED BY <4>1, <4>2
    <3>2. RoundUp(0) = 0 /\ 0 \in Nat
      BY DEF RoundUp, Aligned, AlignStep
    <3>3. tx.tail + RoundUp(0) <= N /\ RoundUp(0) <= UsedSpace(tx)
      BY <1>1, <2>4, <3>2, NAssumption DEF Ring, Slot
    <3>4. SubSeq(Contents(tx), RoundUp(0) + 1, Len(Contents(tx))) = Contents(tx)
      BY <2>4, <3>2
    <3>5. txPending' = SubSeq(Contents(tx), RoundUp(0) + 1, Len(Contents(tx)))
      BY <2>1, <3>1, <3>4
    <3> QED BY <1>1, <2>2, <2>3, <2>5, <3>2, <3>3, <3>5, RunTxTakes
  <2>6. CASE ~txCallback
    <3>1. Len(txPending') <= UsedSpace(tx)
      BY <2>1 DEF TxHolds
    <3> QED BY <1>1, <2>2, <2>3, <2>6, <3>1, RunTxSilent
  <2> QED BY <2>5, <2>6
<1> QED BY <1>3, <1>4

\* A reset leaves the transfer asked for where it is.
LEMMA EndpointsOffTxStream ==
  ASSUME PortInv, TxHolds, EndpointsOff
  PROVE  TxHolds' /\ TxStep
<1>1. /\ TxHistType /\ epIn' = Ep("off")
      /\ UNCHANGED <<tx, transmitDMAInProgress, current_tx_length, txCallback>>
  BY DEF PortInv, EndpointsOff, cbVars
<1>2. \/ txBroken' = TRUE
      \/ /\ txBroken' = FALSE /\ ~txBroken /\ UNCHANGED <<txPending, txOut, txBroken>>
         /\ ~(epIn.state = "done")
  BY <1>1, TxVoidFacts DEF EndpointsOff
<1>3. CASE txBroken' = TRUE
  BY <1>3, TxVoided
<1>4. CASE txBroken' # TRUE
  <2>1. /\ txBroken' = FALSE /\ ~txBroken /\ UNCHANGED <<txPending, txOut, txBroken>>
        /\ epIn.state # "done"
    BY <1>2, <1>4
  <2>2. (TxAsked' => TxAsked) /\ epIn'.state # "done"
    BY <1>1 DEF TxAsked, InFlight, Ep
  <2>3. Contents(tx)' = Contents(tx) /\ UsedSpace(tx)' = UsedSpace(tx)
    BY <1>1
  <2>4. Layout(Contents(tx), current_tx_length, epIn.state = "done")'
          = Layout(Contents(tx), current_tx_length, epIn.state = "done")
    BY <1>1, <2>1, <2>2, <2>3 DEF Layout
  <2>5. RoundUp(current_tx_length)' = RoundUp(current_tx_length)
    BY <1>1
  <2> QED BY <1>1, <2>1, <2>2, <2>3, <2>4, <2>5 DEF TxHolds, TxStep
<1> QED BY <1>3, <1>4

\* The host takes the oldest bytes.
LEMMA HostInStream ==
  ASSUME PortInv, TxHolds, HostIn
  PROVE  TxHolds' /\ TxStep
<1> DEFINE len  == current_tx_length
           data == MemcpyOut(tx.buf, epIn.addr, epIn.len)
<1>1. /\ tx \in Ring /\ epIn \in Endpoint /\ epIn.state = "busy" /\ InFlight(epIn)
      /\ txBroken \in BOOLEAN /\ len \in Nat /\ transmitDMAInProgress
      /\ epIn.addr = tx.tail /\ epIn.len = len /\ tx.tail + RoundUp(len) <= N
      /\ txPending \in Seq(Byte)
  BY NAssumption
     DEF PortInv, TxPart, TxHistType, InTransferMatchesRing, HostIn, InFlight
<1>2. /\ txBroken' = txBroken /\ TxDeliver(data)
      /\ UNCHANGED <<tx, transmitDMAInProgress, current_tx_length, txCallback>>
  BY DEF HostIn, cbVars
<1>3. epIn'.state = "done"
  BY <1>1 DEF HostIn, Endpoint
<1>4. CASE txBroken
  BY <1>1, <1>2, <1>4, TxVoided
<1>5. CASE ~txBroken
  <2> DEFINE c     == Contents(tx)
             start == SubSeq(c, 1, len)
             rest  == SubSeq(c, RoundUp(len) + 1, Len(c))
  <2>1. RoundUp(len) <= UsedSpace(tx) /\ txPending = Layout(c, len, epIn.state = "done")
    BY <1>1, <1>5 DEF TxHolds, TxAsked
  <2>2. txPending = start \o rest
    BY <1>1, <2>1 DEF Layout
  <2>3. c \in Seq(Byte) /\ Len(c) = UsedSpace(tx) /\ UsedSpace(tx) \in Nat
    BY <1>1, ContentsType, SpaceFacts
  <2>4. RoundUp(len) \in Nat /\ len <= RoundUp(len)
    BY <1>1, RoundUpFacts
  <2>5. len <= UsedSpace(tx) /\ tx.tail + len <= N
    BY <1>1, <2>1, <2>3, <2>4, NAssumption DEF Ring, Slot
  <2>6. data = start
    <3> DEFINE s == [tx EXCEPT !.tail = Wrap(tx.tail + len)]
    <3>1. tx.tail + len \in 0 .. N
      BY <1>1, <2>5, NAssumption DEF Ring, Slot
    <3>2. Wrap(tx.tail + len) \in Slot
      BY <3>1, WrapFacts
    <3>3. s \in Ring /\ s.buf = tx.buf /\ s.head = tx.head /\ s.tail = Wrap(tx.tail + len)
      BY <1>1, <3>2 DEF Ring
    <3> HIDE DEF s
    <3> QED BY <1>1, <2>5, <3>3, TakenIsOldest
  <2>7. /\ start \in Seq(Byte) /\ Len(start) = len
        /\ rest \in Seq(Byte) /\ Len(rest) \in Nat
    BY <1>1, <2>1, <2>3, <2>4, <2>5
  <2>8. txOut' = data /\ txPending' = SubSeq(txPending, Len(data) + 1, Len(txPending))
    BY <1>2, <1>5 DEF TxDeliver
  <2> HIDE DEF len, data, start, rest
  <2>9. Len(txPending) = Len(start) + Len(rest) /\ Len(start) \in 0 .. Len(start)
    <3>1. Len(start \o rest) = Len(start) + Len(rest)
      BY <2>7
    <3>2. Len(start) \in Nat
      BY <2>7
    <3> QED BY <2>2, <3>1, <3>2
  <2>10. /\ SubSeq(txPending, 1, Len(start)) = start
         /\ SubSeq(txPending, Len(start) + 1, Len(txPending))
              = SubSeq(start, Len(start) + 1, Len(start)) \o rest
    BY <2>2, <2>7, <2>9, FirstPart, DropFirst
  <2>11. SubSeq(start, Len(start) + 1, Len(start)) = << >>
    BY <2>7
  <2>12. txPending' = rest
    BY <2>6, <2>7, <2>8, <2>10, <2>11, NothingAdded
  <2>13. TxStep
    <3>1. Len(start) \in 0 .. Len(txPending)
      BY <1>1, <2>7, <2>9
    <3> QED BY <1>2, <2>6, <2>8, <2>10, <3>1 DEF TxStep, TxStream!Next, TxStream!Deliver
  <2>14. Contents(tx)' = c /\ UsedSpace(tx)' = UsedSpace(tx)
    BY <1>2
  <2>15. Layout(Contents(tx), current_tx_length, epIn.state = "done")' = << >> \o rest
    BY <1>2, <1>3, <2>14 DEF Layout, rest, len
  <2>16. << >> \o rest = rest
    BY <2>7, NothingAdded
  <2>17. Len(rest) <= UsedSpace(tx)
    BY <1>1, <1>5, <2>7, <2>9, <2>3 DEF TxHolds
  <2>18. RoundUp(current_tx_length)' = RoundUp(current_tx_length)
    BY <1>2
  <2> QED BY <1>1, <1>2, <2>1, <2>12, <2>13, <2>14, <2>15, <2>16, <2>17, <2>18
          DEF TxHolds, len
<1> QED BY <1>1, <1>4, <1>5

\* The other direction leaves the stream alone.
LEMMA TxStreamFrame ==
  ASSUME TxHolds, UNCHANGED <<txVars, txCallback, txHist>>
  PROVE  TxHolds' /\ TxStep
<1>1. Contents(tx)' = Contents(tx) /\ UsedSpace(tx)' = UsedSpace(tx)
  BY DEF txVars
<1> QED BY <1>1 DEF txVars, txHist, TxHolds, TxAsked, TxStep

\* Every step keeps the bytes of the way out together and is a step of the stream.
LEMMA TxStreamNext ==
  ASSUME PortInv, TxHolds, [Next]_vars
  PROVE  TxHolds' /\ [TxStream!Next]_<<txPending, txOut, txBroken>>
<1>1. TxHolds' /\ TxStep
  <2>1. CASE UNCHANGED vars
    BY <2>1, TxStreamFrame DEF vars, cbVars
  <2>2. ASSUME NEW len \in WriteLens, Write(len) PROVE TxHolds' /\ TxStep
    BY <2>2, WriteStream, PortAssumption
  <2>3. ASSUME NEW max_len \in ReadLens, ReadBulk(max_len) PROVE TxHolds' /\ TxStep
    BY <2>3, TxStreamFrame DEF ReadBulk, cbVars
  <2>4. ASSUME NEW n \in 0 .. N, HostOut(n) PROVE TxHolds' /\ TxStep
    BY <2>4, TxStreamFrame DEF HostOut, cbVars
  <2>5. CASE ReadOne
    BY <2>5, TxStreamFrame DEF ReadOne, cbVars
  <2> QED BY <2>1, <2>2, <2>3, <2>4, <2>5, WriteCharStream, DelTxStream, HostInStream,
             UsbCompletionTxStream, SetConfigurationTxStream, EndpointsOffTxStream DEF Next
<1> QED BY <1>1 DEF TxStep

\* An idle port with an empty buffer holds an empty stream.
LEMMA TxStreamInit == ASSUME Init PROVE TxHolds /\ TxStream!Init
<1>1. tx \in Ring /\ IsEmpty(tx)
  <2>1. PortInv
    BY InitInv
  <2>2. tx.head = 0 /\ tx.tail = 0
    BY DEF Init, EmptyRing, Clear
  <2> QED BY <2>1, <2>2 DEF PortInv, TxPart, IsEmpty
<1>2. Contents(tx) \in Seq(Byte) /\ Len(Contents(tx)) = 0 /\ UsedSpace(tx) = 0
  BY <1>1, ContentsType, SpaceFacts
<1>3. Contents(tx) = << >> /\ txPending = << >> /\ ~TxAsked
  BY <1>2 DEF Init, TxAsked, Ep
<1> QED BY <1>2, <1>3 DEF Init, TxHolds, TxStream!Init

\* The bytes the application writes reach the host in order, each once, and no
\* filler does, for every interleaving of the writes with DMA, the interrupt, resets
\* and reconfigurations.
THEOREM TxIsStream == Spec => TxStreamSpec
  BY TxStreamInit, TxStreamNext, PortInvHolds, PTL DEF Spec, TxStreamSpec, TxStream!Spec
=============================================================================
