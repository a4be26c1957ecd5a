---------------------------- MODULE SerialCallsProofs ----------------------------
(***************************************************************************)
(* Proofs about the calls one instruction group at a time: the nested      *)
(* critical sections give PRIMASK back as they found it and hold it from   *)
(* the first to the last step of a call; the answers of the unprotected    *)
(* polls hold until they are used; and the port of USBserial, in which a   *)
(* call is one step, is implemented.                                       *)
(***************************************************************************)
EXTENDS SerialCalls, USBserialProofs

InCall == {"ring_pause", "ring", "ring_resume", "start", "resume"}

\* Inside a call interrupts are disabled and the port remembers how the application
\* left them; from the second pause to its resume the ring remembers "disabled".
MaskInv ==
    /\ pc \in {"out", "poll"} \cup InCall
    /\ primask \in BOOLEAN /\ masked \in BOOLEAN
    /\ irq_status \in [{"port", "tx", "rx"} -> BOOLEAN]
    /\ pc \notin InCall => primask = masked
    /\ pc \in InCall => primask = TRUE /\ irq_status["port"] = masked
    /\ pc \in {"ring", "ring_resume"} => irq_status[RingOf(call)] = TRUE

-----------------------------------------------------------------------------
\* The ring keeps its __irq_status where neither the port nor the other ring does.
LEMMA RingOfType == ASSUME NEW name PROVE RingOf(name) \in {"tx", "rx"}
  BY DEF RingOf

\* pauseInterrupts: the owner remembers PRIMASK, nobody else's memory changes.
LEMMA Pause ==
    ASSUME NEW owner \in {"port", "tx", "rx"}, pauseInterrupts(owner),
           primask \in BOOLEAN, irq_status \in [{"port", "tx", "rx"} -> BOOLEAN]
    PROVE  /\ primask' = TRUE
           /\ irq_status' \in [{"port", "tx", "rx"} -> BOOLEAN]
           /\ irq_status'[owner] = primask
           /\ \A o \in {"port", "tx", "rx"} \ {owner} : irq_status'[o] = irq_status[o]
  BY DEF pauseInterrupts

\* resumeInterrupts inside interrupts that were disabled leaves them so.
LEMMA Resume ==
    ASSUME NEW owner \in {"port", "tx", "rx"}, resumeInterrupts(owner),
           primask = TRUE, irq_status \in [{"port", "tx", "rx"} -> BOOLEAN]
    PROVE  primask' = irq_status[owner]
  BY DEF resumeInterrupts

-----------------------------------------------------------------------------
LEMMA MaskInit == ASSUME CallsInit PROVE MaskInv
  BY DEF CallsInit, MaskInv, InCall

LEMMA MaskNext == ASSUME MaskInv, [CallsNext]_allVars PROVE MaskInv'
  <1>1. ASSUME NEW name \in Calls, Enter(name) PROVE MaskInv'
    <2>1. pc = "out" /\ pc' = "ring_pause" /\ UNCHANGED masked
      BY <1>1 DEF Enter, Go
    <2>2. pauseInterrupts("port")
      BY <1>1 DEF Enter
    <2>3. /\ primask' = TRUE /\ irq_status' \in [{"port", "tx", "rx"} -> BOOLEAN]
          /\ irq_status'["port"] = primask
      BY <2>2, Pause DEF MaskInv
    <2> QED
      BY <2>1, <2>3 DEF MaskInv, InCall
  <1>2. CASE RingPause
    <2>1. pc = "ring_pause" /\ pc' = "ring" /\ UNCHANGED <<masked, call>>
      BY <1>2 DEF RingPause, Go
    <2>2. pauseInterrupts(RingOf(call)) /\ RingOf(call) \in {"tx", "rx"}
      BY <1>2, RingOfType DEF RingPause
    <2>3. /\ primask' = TRUE /\ irq_status' \in [{"port", "tx", "rx"} -> BOOLEAN]
          /\ irq_status'[RingOf(call)] = primask
          /\ irq_status'["port"] = irq_status["port"]
      BY <2>2, Pause DEF MaskInv
    <2>4. RingOf(call)' = RingOf(call)
      BY <2>1 DEF RingOf
    <2> QED
      BY <2>1, <2>3, <2>4 DEF MaskInv, InCall
  <1>3. CASE RingCall
    <2>1. pc = "ring" /\ pc' = "ring_resume" /\ UNCHANGED <<masked, call, primask, irq_status>>
      BY <1>3 DEF RingCall, Go
    <2> QED
      BY <2>1 DEF MaskInv, InCall, RingOf
  <1>4. CASE RingResume
    <2>1. pc = "ring_resume" /\ pc' = "start" /\ UNCHANGED <<masked, call, irq_status>>
      BY <1>4 DEF RingResume, Go
    <2>2. resumeInterrupts(RingOf(call)) /\ RingOf(call) \in {"tx", "rx"}
      BY <1>4, RingOfType DEF RingResume
    <2>3. primask' = TRUE
      BY <2>1, <2>2, Resume DEF MaskInv, InCall
    <2> QED
      BY <2>1, <2>3 DEF MaskInv, InCall
  <1>5. CASE StartTransferIfIdle
    <2>1. pc = "start" /\ pc' = "resume" /\ UNCHANGED <<masked, call, primask, irq_status>>
      BY <1>5 DEF StartTransferIfIdle, Go
    <2> QED
      BY <2>1 DEF MaskInv, InCall
  <1>6. CASE Return
    <2>1. pc = "resume" /\ pc' = "out" /\ UNCHANGED <<masked, call, irq_status>>
      BY <1>6 DEF Return, Go
    <2>2. resumeInterrupts("port")
      BY <1>6 DEF Return
    <2>3. primask' = masked
      BY <2>1, <2>2, Resume DEF MaskInv, InCall
    <2> QED
      BY <2>1, <2>3 DEF MaskInv, InCall
  <1>7. ASSUME NEW name \in Polls, NEW pointer \in {"head", "tail"}, PollFirst(name, pointer)
        PROVE  MaskInv'
    BY <1>7 DEF PollFirst, Go, MaskInv, InCall
  <1>8. CASE PollSecond
    BY <1>8 DEF PollSecond, Go, MaskInv, InCall
  <1>9. CASE MaskInterrupts
    <2>1. /\ pc = "out" /\ pc' = pc /\ irq_status' = irq_status
          /\ masked' \in BOOLEAN /\ primask' = masked'
      BY <1>9 DEF MaskInterrupts, MaskInv
    <2> QED
      BY <2>1 DEF MaskInv, InCall
  <1>10. CASE UNCHANGED callVars
    BY <1>10 DEF callVars, MaskInv, RingOf
  <1>11. UNCHANGED allVars => UNCHANGED callVars
    BY DEF allVars
  <1> QED
    BY <1>1, <1>2, <1>3, <1>4, <1>5, <1>6, <1>7, <1>8, <1>9, <1>10, <1>11 DEF CallsNext

-----------------------------------------------------------------------------
\* The inductive invariant of the two nested critical sections.
THEOREM MaskInvHolds == CallsSpec => []MaskInv
  BY MaskInit, MaskNext, PTL DEF CallsSpec

\* Between calls PRIMASK is as the application left it, for every buffer length.
THEOREM MaskIsRestored == CallsSpec => []MaskRestored
  <1>1. MaskInv => MaskRestored
    BY DEF MaskInv, MaskRestored, InCall
  <1> QED
    BY <1>1, MaskInvHolds, PTL

\* The USB interrupt runs in no step of a call: not between the store and the start
\* of the transfer either, where the ring has ended its own critical section.
NoInterruptInCall == [][(pc \in InCall) => ~UsbInterrupt]_allVars

\* Hence USBserial may take a call for one step.
THEOREM CallsAreNotInterrupted == CallsSpec => NoInterruptInCall
  <1>1. MaskInv /\ [CallsNext]_allVars => [(pc \in InCall) => ~UsbInterrupt]_allVars
    BY DEF MaskInv, UsbInterrupt
  <1> QED
    BY <1>1, MaskInvHolds, PTL DEF CallsSpec, NoInterruptInCall

-----------------------------------------------------------------------------
(* The port under the calls: what holds at every step of them, also where a *)
(* byte is in the ring and its transfer has not been started.               *)

\* The way out: a transfer in the endpoint is the one the ring will account for,
\* and its words, the filler included, are counted as used.
TxOk ==
    /\ tx \in Ring /\ epIn \in Endpoint /\ current_tx_length \in 0 .. N
    /\ transmitDMAInProgress \in BOOLEAN /\ txCallback = TRUE
    /\ InFlight(epIn) => transmitDMAInProgress
    /\ InTransferMatchesRing
    /\ InFlight(epIn) => RoundUp(epIn.len) <= UsedSpace(tx)

\* The way in: the transfer armed fits in what is available.
RxOk ==
    /\ rx \in Ring /\ rxbuf \in Seq(Byte) /\ epOut \in Endpoint
    /\ receiveDMAInProgress \in BOOLEAN /\ rxCallback = TRUE
    /\ InFlight(epOut) => receiveDMAInProgress
    /\ OutTransferMatchesRing
    /\ InFlight(epOut) => epOut.len <= AvailableSpace(rx)

PortOk == TxOk /\ RxOk /\ TxHistType /\ RxHistType

\* The call in progress has changed the ring it started from by one byte.
CallOk ==
    /\ direction \in {"out", "in"}
    /\ pc \in InCall => call \in {"write", "read_char"} /\ (call = "write" => AppWrites)
    /\ InRing => before \in Ring
    /\ InRing /\ call = "write" => tx = StoreChar(before, txTag).ring
    /\ InRing /\ call = "read_char" =>
         rx.head = before.head /\ rx.tail = ReadChar(before).ring.tail

\* A step that leaves the way out alone keeps its part.
LEMMA TxOkFrame == TxOk /\ UNCHANGED <<txVars, txCallback>> => TxOk'
  BY DEF TxOk, txVars, InTransferMatchesRing

\* The same of the way in.
LEMMA RxOkFrame == RxOk /\ UNCHANGED <<rxVars, rxCallback>> => RxOk'
  BY DEF RxOk, rxVars, OutTransferMatchesRing

\* Running _send_data_cb from an endpoint that holds nothing.
LEMMA RunTxOk ==
  ASSUME TxOk, NEW r \in Ring, Aligned(r.tail), NEW len \in Nat, r.tail + RoundUp(len) <= N,
         NEW ep \in Endpoint, ~InFlight(ep), txCallback' = txCallback,
         RunTxCallback(r, ep, len)
  PROVE  TxOk'
<1>1. txCallback = TRUE /\ transmitDMAInProgress \in BOOLEAN /\ current_tx_length \in 0 .. N
  BY DEF TxOk
<1>2. txCallback \in BOOLEAN
  BY <1>1
<1>3. TxPart'
  BY <1>1, <1>2, RunTxFacts
<1>4. InFlight(epIn)' => RoundUp(epIn'.len) <= UsedSpace(tx')
  BY RunTxReserves
<1> QED BY <1>1, <1>3, <1>4 DEF TxPart, TxOk

\* Running _receive_data_cb from an endpoint that holds nothing.
LEMMA RunRxOk ==
  ASSUME RxOk, NEW r \in Ring, NEW len \in Nat, r.head + len <= N,
         NEW ep \in Endpoint, ~InFlight(ep), rxCallback' = rxCallback,
         RunRxCallback(r, ep, len)
  PROVE  RxOk'
<1>1. rxCallback = TRUE /\ receiveDMAInProgress \in BOOLEAN /\ rxbuf \in Seq(Byte)
  BY DEF RxOk
<1>2. rxCallback \in BOOLEAN
  BY <1>1
<1>3. RxPart'
  BY <1>1, <1>2, RunRxFacts
<1>4. InFlight(epOut)' => epOut'.len <= AvailableSpace(rx')
  BY <1>1, RunRxReserves
<1>5. rxCallback' = TRUE
  BY <1>1
<1>6. InFlight(epOut)' => receiveDMAInProgress'
  BY <1>3, <1>5 DEF RxPart, NoRxStall, InFlight
<1> QED BY <1>3, <1>4, <1>5, <1>6 DEF RxPart, RxOk

\* An endpoint without a transfer, as the interrupt and a reset leave one.
LEMMA NoTransfer ==
  \A state \in {"off", "idle"} : Ep(state) \in Endpoint /\ ~InFlight(Ep(state))
  BY NAssumption DEF Ep, Endpoint, EpState, InFlight

\* No transfer at all fits at any tail.
LEMMA NothingFits ==
  ASSUME NEW r \in Ring
  PROVE  /\ 0 \in Nat /\ r.tail + RoundUp(0) <= N /\ r.head + 0 <= N
         /\ RoundUp(0) = 0
  BY NAssumption DEF RoundUp, Aligned, AlignStep, Ring, Slot

-----------------------------------------------------------------------------
(* The steps of a call.                                                     *)

\* store(c) moves the head away from the region being sent, read_char the tail
\* away from the region being received.
LEMMA RingCallOk ==
  ASSUME PortOk, CallOk, pc \in InCall, RingCall
  PROVE  PortOk' /\ CallOk'
<1>1. tx \in Ring /\ rx \in Ring /\ txTag \in Byte
  BY DEF PortOk, TxOk, RxOk, TxHistType
<1>2. /\ UNCHANGED <<transmitDMAInProgress, current_tx_length, epIn, rxbuf,
                     receiveDMAInProgress, epOut, cbVars, txHist, rxHist, call>>
      /\ pc' = "ring_resume"
  BY DEF RingCall, Go
<1>9. direction' = direction
  BY DEF RingCall, Go
<1>3. txHist' = txHist /\ rxHist' = rxHist /\ TxHistType /\ RxHistType
  BY <1>2 DEF PortOk
<1>4. TxHistType' /\ RxHistType'
  BY <1>3, TxHistFrame, RxHistFrame
<1>5. CASE call = "write"
  <2>1. before' = tx /\ tx' = StoreChar(tx, txTag).ring /\ rx' = rx
    BY <1>5 DEF RingCall
  <2>2. tx' \in Ring /\ tx'.tail = tx.tail /\ UsedSpace(tx) <= UsedSpace(tx')
    BY <1>1, <2>1, StoreCharFacts, StoreCharGrows
  <2>3. InFlight(epIn) => RoundUp(epIn.len) <= UsedSpace(tx')
    <3>1. UsedSpace(tx) \in Int /\ UsedSpace(tx') \in Int
      BY <1>1, <2>2, SpaceFacts
    <3>2. InFlight(epIn) => RoundUp(epIn.len) <= UsedSpace(tx)
      BY DEF PortOk, TxOk
    <3>3. RoundUp(epIn.len) \in Int
      BY RoundUpFacts, NAssumption DEF PortOk, TxOk, Endpoint
    <3> QED BY <2>2, <3>1, <3>2, <3>3
  <2>4. TxOk'
    BY <1>2, <2>2, <2>3 DEF PortOk, TxOk, InTransferMatchesRing, cbVars
  <2>5. RxOk'
    BY <1>2, <2>1, RxOkFrame DEF PortOk, rxVars, cbVars
  <2>6. CallOk'
    BY <1>1, <1>2, <1>5, <1>9, <2>1 DEF CallOk, InRing, InCall, txHist
  <2> QED BY <1>4, <2>4, <2>5, <2>6 DEF PortOk
<1>6. CASE call = "read_char"
  <2>1. before' = rx /\ rx' = ReadChar(rx).ring /\ tx' = tx
    BY <1>6 DEF RingCall
  <2>2. rx' \in Ring /\ rx'.head = rx.head /\ AvailableSpace(rx) <= AvailableSpace(rx')
    BY <1>1, <2>1, ReadCharFacts, ReadCharShrinks
  <2>3. InFlight(epOut) => epOut.len <= AvailableSpace(rx')
    <3>1. AvailableSpace(rx) \in Int /\ AvailableSpace(rx') \in Int
      BY <1>1, <2>2, SpaceFacts
    <3>2. InFlight(epOut) => epOut.len <= AvailableSpace(rx)
      BY DEF PortOk, RxOk
    <3>3. epOut.len \in Int
      BY NAssumption DEF PortOk, RxOk, Endpoint
    <3> QED BY <2>2, <3>1, <3>2, <3>3
  <2>4. RxOk'
    BY <1>2, <2>2, <2>3 DEF PortOk, RxOk, OutTransferMatchesRing, cbVars
  <2>5. TxOk'
    BY <1>2, <2>1, TxOkFrame DEF PortOk, txVars, cbVars
  <2>6. CallOk'
    BY <1>1, <1>2, <1>6, <1>9, <2>1, <2>2 DEF CallOk, InRing, InCall
  <2> QED BY <1>4, <2>4, <2>5, <2>6 DEF PortOk
<1> QED BY <1>5, <1>6 DEF RingCall

\* write starts a transfer if the flag says that none is under way.
LEMMA StartTxOk ==
  ASSUME PortOk, StartTxIfIdle(tx), UNCHANGED <<rxVars, cbVars, rxHist>>,
         UNCHANGED txBroken, NEW n \in Nat, TxAccept(n)
  PROVE  PortOk'
<1>1. TxOk'
  <2>1. CASE transmitDMAInProgress
    <3>1. UNCHANGED <<txVars, txCallback>>
      BY <2>1 DEF StartTxIfIdle, txVars, cbVars
    <3> QED BY <3>1, TxOkFrame DEF PortOk
  <2>2. CASE ~transmitDMAInProgress
    <3>1. RunTxCallback(tx, epIn, 0) /\ ~InFlight(epIn) /\ epIn \in Endpoint
      BY <2>2 DEF StartTxIfIdle, PortOk, TxOk
    <3>2. tx \in Ring /\ Aligned(tx.tail) /\ TxOk /\ txCallback' = txCallback
      BY DEF PortOk, TxOk, InTransferMatchesRing, cbVars
    <3>3. 0 \in Nat /\ tx.tail + RoundUp(0) <= N
      BY <3>2, NothingFits
    <3> QED BY <3>1, <3>2, <3>3, RunTxOk
  <2> QED BY <2>1, <2>2
<1>2. RxOk'
  BY RxOkFrame DEF PortOk, cbVars
<1>3. TxHistType'
  BY TxHistSteps DEF PortOk, TxHistType
<1>4. RxHistType'
  BY RxHistFrame DEF PortOk
<1> QED BY <1>1, <1>2, <1>3, <1>4 DEF PortOk

\* read_char reopens the OUT endpoint if it was shut.
LEMMA StartRxOk ==
  ASSUME PortOk, StartRxIfIdle(rx), UNCHANGED <<txVars, cbVars, txHist>>,
         UNCHANGED rxBroken, NEW data \in Seq(Byte), RxDeliver(data)
  PROVE  PortOk'
<1>1. RxOk'
  <2>1. CASE receiveDMAInProgress
    <3>1. UNCHANGED <<rxVars, rxCallback>>
      BY <2>1 DEF StartRxIfIdle, rxVars, cbVars
    <3> QED BY <3>1, RxOkFrame DEF PortOk
  <2>2. CASE ~receiveDMAInProgress
    <3>1. RunRxCallback(rx, epOut, 0) /\ ~InFlight(epOut) /\ epOut \in Endpoint
      BY <2>2 DEF StartRxIfIdle, PortOk, RxOk
    <3>2. rx \in Ring /\ RxOk /\ rxCallback' = rxCallback
      BY DEF PortOk, RxOk, cbVars
    <3>3. 0 \in Nat /\ rx.head + 0 <= N
      BY <3>2, NothingFits
    <3> QED BY <3>1, <3>2, <3>3, RunRxOk
  <2> QED BY <2>1, <2>2
<1>2. TxOk'
  BY TxOkFrame DEF PortOk, cbVars
<1>3. RxHistType'
  BY RxHistSteps DEF PortOk, RxHistType
<1>4. TxHistType'
  BY TxHistFrame DEF PortOk
<1> QED BY <1>1, <1>2, <1>3, <1>4 DEF PortOk

-----------------------------------------------------------------------------
(* The interrupt and the host.                                              *)

\* usb_cb_completion rearms from endpoints it has taken the result of.
LEMMA UsbCompletionOk ==
  ASSUME PortOk, UsbCompletion
  PROVE  PortOk'
<1>1. Ep("idle") \in Endpoint /\ ~InFlight(Ep("idle"))
  BY NoTransfer
<1>2. UNCHANGED <<txCallback, rxCallback>> /\ txHist' = txHist
  BY DEF UsbCompletion, cbVars
<1>3. RxOk'
  <2>1. CASE epOut.state = "done"
    <3>1. RunRxCallback(rx, Ep("idle"), epOut.len)
      BY <2>1 DEF UsbCompletion
    <3>2. rx \in Ring /\ rx.head + epOut.len <= N /\ epOut.len \in Nat /\ RxOk
      BY <2>1, NAssumption DEF PortOk, RxOk, OutTransferMatchesRing, InFlight, Endpoint
    <3> QED BY <1>1, <1>2, <3>1, <3>2, RunRxOk
  <2>2. CASE epOut.state # "done"
    BY <1>2, <2>2, RxOkFrame DEF UsbCompletion, PortOk
  <2> QED BY <2>1, <2>2
<1>4. TxOk'
  <2>1. CASE epIn.state = "done"
    <3>1. RunTxCallback(tx, Ep("idle"), current_tx_length)
      BY <2>1 DEF UsbCompletion
    <3>2. /\ tx \in Ring /\ Aligned(tx.tail) /\ current_tx_length \in Nat /\ TxOk
          /\ tx.tail + RoundUp(current_tx_length) <= N
      BY <2>1, NAssumption DEF PortOk, TxOk, InTransferMatchesRing, InFlight
    <3> QED BY <1>1, <1>2, <3>1, <3>2, RunTxOk
  <2>2. CASE epIn.state # "done"
    BY <1>2, <2>2, TxOkFrame DEF UsbCompletion, PortOk
  <2> QED BY <2>1, <2>2
<1>5. rxBroken' \in BOOLEAN
  BY DEF UsbCompletion, RxVoidIf
<1>6. RxHistType'
  BY <1>5, RxHistSteps DEF UsbCompletion, PortOk
<1>7. TxHistType'
  BY <1>2, TxHistFrame DEF PortOk
<1> QED BY <1>3, <1>4, <1>6, <1>7 DEF PortOk

\* usb_cb_set_configuration starts both directions from idle endpoints.
LEMMA SetConfigurationOk ==
  ASSUME PortOk, SetConfiguration
  PROVE  PortOk'
<1>1. Ep("idle") \in Endpoint /\ ~InFlight(Ep("idle"))
  BY NoTransfer
<1>2. /\ UNCHANGED <<txCallback, rxCallback>>
      /\ RunTxCallback(tx, Ep("idle"), 0) /\ RunRxCallback(rx, Ep("idle"), 0)
  BY DEF SetConfiguration, cbVars
<1>3. tx \in Ring /\ Aligned(tx.tail) /\ rx \in Ring /\ TxOk /\ RxOk
  BY DEF PortOk, TxOk, RxOk, InTransferMatchesRing
<1>4. 0 \in Nat /\ tx.tail + RoundUp(0) <= N /\ rx.head + 0 <= N
  BY <1>3, NothingFits
<1>5. TxOk'
  BY <1>1, <1>2, <1>3, <1>4, RunTxOk
<1>6. RxOk'
  BY <1>1, <1>2, <1>3, <1>4, RunRxOk
<1>7. txBroken' \in BOOLEAN /\ rxBroken' \in BOOLEAN
  BY DEF SetConfiguration, TxVoidIf, RxVoidIf
<1>8. TxHistType' /\ RxHistType'
  BY <1>7, TxHistSteps, RxHistSteps DEF SetConfiguration, PortOk
<1> QED BY <1>5, <1>6, <1>8 DEF PortOk

\* A bus reset leaves nothing armed, and the flags as they are.
LEMMA EndpointsOffOk ==
  ASSUME PortOk, EndpointsOff
  PROVE  PortOk'
<1>1. Ep("off") \in Endpoint /\ ~InFlight(Ep("off"))
  BY NoTransfer
<1>2. TxOk'
  BY <1>1 DEF EndpointsOff, PortOk, TxOk, InTransferMatchesRing, cbVars
<1>3. RxOk'
  BY <1>1 DEF EndpointsOff, PortOk, RxOk, OutTransferMatchesRing, cbVars
<1>4. txBroken' \in BOOLEAN /\ rxBroken' \in BOOLEAN
  BY DEF EndpointsOff, TxVoidIf, RxVoidIf
<1>5. TxHistType' /\ RxHistType'
  BY <1>4, TxHistSteps, RxHistSteps DEF EndpointsOff, PortOk
<1> QED BY <1>2, <1>3, <1>5 DEF PortOk

\* A transfer to the host reads bytes of the storage and moves no pointer.
LEMMA HostInOk ==
  ASSUME PortOk, HostIn
  PROVE  PortOk'
<1>1. TxOk'
  <2>1. /\ epIn' \in Endpoint /\ epIn'.state = "done" /\ epIn.state = "busy"
        /\ epIn'.len = epIn.len /\ epIn'.addr = epIn.addr
    BY DEF HostIn, PortOk, TxOk, Endpoint, EpState
  <2>2. UNCHANGED <<tx, transmitDMAInProgress, current_tx_length, txCallback>>
    BY DEF HostIn, cbVars
  <2> QED BY <2>1, <2>2 DEF PortOk, TxOk, InTransferMatchesRing, InFlight
<1>2. MemcpyOut(tx.buf, epIn.addr, epIn.len) \in Seq(Byte)
  <2>1. /\ epIn.addr \in Nat /\ epIn.len \in Nat /\ epIn.addr = tx.tail
        /\ tx.tail + RoundUp(epIn.len) <= N
    BY NAssumption DEF HostIn, PortOk, TxOk, InTransferMatchesRing, InFlight, Endpoint
  <2>2. epIn.addr + epIn.len <= N
    BY <2>1, RoundUpFacts, NAssumption
  <2> QED BY <2>1, <2>2, MemcpyOutType DEF PortOk, TxOk, Ring
<1>3. txBroken' \in BOOLEAN
  BY DEF HostIn, PortOk, TxHistType
<1>4. TxHistType'
  BY <1>2, <1>3, TxHistSteps DEF HostIn, PortOk
<1>5. RxOk' /\ RxHistType'
  BY RxOkFrame, RxHistFrame DEF HostIn, PortOk, cbVars
<1> QED BY <1>1, <1>4, <1>5 DEF PortOk

\* A transfer from the host writes inside the storage or into _rx_buffer.
LEMMA HostOutOk ==
  ASSUME PortOk, NEW n \in Nat, HostOut(n)
  PROVE  PortOk'
<1>1. RxBytes(n) \in Seq(Byte) /\ Len(RxBytes(n)) = n
  BY RxBytesType DEF PortOk, RxHistType
<1>2. /\ epOut.state = "busy" /\ n <= epOut.len
      /\ epOut' = [epOut EXCEPT !.state = "done", !.len = n]
      /\ epOut \in Endpoint
  BY DEF HostOut, PortOk, RxOk
<1>3. epOut.len \in 0 .. N /\ n \in 0 .. N
  <2>1. epOut.len \in 0 .. N
    BY <1>2 DEF Endpoint
  <2> QED BY <1>2, <2>1, NAssumption
<1>4. /\ epOut'.state = "done" /\ epOut'.len = n /\ epOut'.addr = epOut.addr
      /\ InFlight(epOut)' /\ InFlight(epOut)
  BY <1>2 DEF Endpoint, InFlight
<1>5. epOut'.bounce = epOut.bounce
  BY <1>2 DEF Endpoint
<1>6. epOut' \in Endpoint
  BY <1>2, <1>3 DEF Endpoint, EpState
<1>7. rx' \in Ring /\ rx'.head = rx.head /\ rx'.tail = rx.tail
  <2>1. CASE epOut.bounce
    BY <2>1 DEF HostOut, PortOk, RxOk
  <2>2. CASE ~epOut.bounce
    <3>1. MemcpyIn(rx.buf, epOut.addr, RxBytes(n)) \in [Slot -> Byte]
      BY <1>1, MemcpyInType, NAssumption DEF PortOk, RxOk, Ring, Endpoint
    <3>2. rx' = [rx EXCEPT !.buf = MemcpyIn(rx.buf, epOut.addr, RxBytes(n))]
      BY <2>2 DEF HostOut
    <3> QED BY <3>1, <3>2 DEF PortOk, RxOk, Ring
  <2> QED BY <2>1, <2>2
<1>8. rxbuf' \in Seq(Byte)
  BY <1>1 DEF HostOut, PortOk, RxOk
<1>9. receiveDMAInProgress' = receiveDMAInProgress /\ rxCallback' = rxCallback
  BY DEF HostOut, cbVars
<1>10. /\ epOut.bounce <=> ~Aligned(rx.head)
       /\ epOut.bounce => epOut.len <= BounceSize
       /\ ~epOut.bounce => epOut.addr = rx.head
       /\ rx.head + epOut.len <= N
       /\ epOut.len <= AvailableSpace(rx)
  BY <1>4 DEF PortOk, RxOk, OutTransferMatchesRing
<1>11. /\ rx.head + n <= N /\ (epOut.bounce => n <= BounceSize)
       /\ n <= AvailableSpace(rx)
  <2>1. rx \in Ring
    BY DEF PortOk, RxOk
  <2>2. rx.head \in Nat /\ AvailableSpace(rx) \in Int
    BY <2>1, SpaceFacts, NAssumption DEF Ring, Slot
  <2> QED BY <1>2, <1>3, <1>10, <2>2, NAssumption DEF BounceSize
<1>12. AvailableSpace(rx') = AvailableSpace(rx)
  BY <1>7 DEF AvailableSpace, UsedSpace
<1>13. OutTransferMatchesRing'
  BY <1>4, <1>5, <1>7, <1>10, <1>11 DEF OutTransferMatchesRing
<1>14. RxOk'
  BY <1>4, <1>6, <1>7, <1>8, <1>9, <1>11, <1>12, <1>13 DEF PortOk, RxOk
<1>15. RxHistType'
  BY RxHistSteps DEF HostOut, PortOk, RxHistType
<1>16. TxOk' /\ TxHistType'
  BY TxOkFrame, TxHistFrame DEF HostOut, PortOk, cbVars
<1> QED BY <1>14, <1>15, <1>16 DEF PortOk

\* The host moves no pointer, so what a call has done to its ring stays.
LEMMA HostCallOk ==
  ASSUME PortOk, CallOk, HostSteps, UNCHANGED callVars
  PROVE  PortOk' /\ CallOk'
<1>1. PortOk'
  <2>1. ASSUME NEW n \in 0 .. N, HostOut(n) PROVE PortOk'
    BY <2>1, HostOutOk, NAssumption
  <2> QED BY <2>1, EndpointsOffOk, HostInOk DEF HostSteps
<1>2. tx' = tx /\ rx'.head = rx.head /\ rx'.tail = rx.tail
  <2>1. ASSUME NEW n \in 0 .. N, HostOut(n)
        PROVE  tx' = tx /\ rx'.head = rx.head /\ rx'.tail = rx.tail
    BY <2>1 DEF HostOut, PortOk, RxOk, Ring, txVars
  <2>2. EndpointsOff \/ HostIn => tx' = tx /\ rx' = rx
    BY DEF EndpointsOff, HostIn, rxVars
  <2> QED BY <2>1, <2>2 DEF HostSteps
<1>3. txTag' = txTag
  <2>1. txTag \in Byte /\ txTag' \in Byte
    BY <1>1 DEF PortOk, TxHistType
  <2> QED BY <2>1, CallsAssumption, PortAssumption
<1> QED BY <1>1, <1>2, <1>3 DEF CallOk, InRing, callVars

-----------------------------------------------------------------------------
(* The polls.  What the interrupt may do to a ring between the two reads,   *)
(* and between an answer and its use.                                       *)

\* While the application stands still the interrupt leaves no tx_buffer full that
\* it has touched, and rx_buffer only fills.
Moves ==
    /\ ~IsFull(tx') \/ (tx'.head = tx.head /\ tx'.tail = tx.tail)
    /\ rx'.tail = rx.tail /\ UsedSpace(rx) <= UsedSpace(rx')

\* Half way through a poll: the pointer read first still tells the truth, or a late
\* answer about a ring that has moved can only err on the safe side.
PollOk ==
    pc = "poll" =>
      /\ call \in {"writeBufFull", "available", "readBufFull"}
      /\ call = "writeBufFull" =>
           \/ ~IsFull(tx)
           \/ first.pointer = "head" /\ first.offset = tx.head
           \/ first.pointer = "tail" /\ first.offset = tx.tail
      /\ call # "writeBufFull" =>
           \/ first.pointer = "tail" /\ first.offset = rx.tail
           \/ /\ first.pointer = "head" /\ first.offset \in Slot
              /\ UsedSpace([rx EXCEPT !.head = first.offset]) <= UsedSpace(rx)

\* prepareDirectRead either moves no pointer or leaves one word in the ring.
LEMMA PrepareMoves ==
  ASSUME NEW r \in Ring, Aligned(r.tail), ~IsEmpty(r),
         NEW res, res = PrepareDirectRead(r, "tx")
  PROVE  res.ring = r \/ UsedSpace(res.ring) = AlignStep
<1> DEFINE max == min(N - r.tail, UsedSpace(r))
<1>1. r.head \in 0 .. N - 1 /\ r.tail \in 0 .. N - 1 /\ N \in Nat
  BY NAssumption DEF Ring, Slot
<1>2. N - r.tail >= AlignStep
  BY <1>1, AlignedSum, BufferOfWords DEF Words, Aligned, AlignStep
<1>3. max \in 1 .. N - 1 /\ max <= N - r.tail /\ max <= UsedSpace(r)
  BY <1>1, <1>2, SpaceFacts DEF min, AlignStep
<1>4. CASE max < AlignStep
  <2>1. r.head = r.tail + max
    BY <1>1, <1>2, <1>3, <1>4 DEF UsedSpace, min, AlignStep
  <2>2. r.head + (AlignStep - max) = r.tail + AlignStep
    BY <1>1, <1>3, <2>1 DEF AlignStep
  <2>3. res.ring.head = Wrap(r.tail + AlignStep) /\ res.ring.tail = r.tail
    BY <1>4, <2>2 DEF PrepareDirectRead, Ring
  <2> QED BY <1>1, <1>2, <2>3, LengthAssumption DEF UsedSpace, Wrap, AlignStep
<1>5. CASE max >= AlignStep
  BY <1>3, <1>5 DEF PrepareDirectRead, AlignStep
<1> QED BY <1>3, <1>4, <1>5 DEF AlignStep

\* A ring is not full below its capacity, as with one word in it.
LEMMA HasRoom ==
  ASSUME NEW r \in Ring, UsedSpace(r) < N - 1 \/ UsedSpace(r) = AlignStep
  PROVE  ~IsFull(r)
<1>1. UsedSpace(r) \in Int
  BY SpaceFacts
<1>2. N \in Nat /\ N - 1 > AlignStep
  BY NAssumption, LengthAssumption DEF AlignStep
<1> QED BY <1>1, <1>2 DEF IsFull, AvailableSpace, AlignStep

\* _send_data_cb frees what was sent before it adds a filler.
LEMMA RunTxMoves ==
  ASSUME tx \in Ring, Aligned(tx.tail), NEW len \in Nat, tx.tail + RoundUp(len) <= N,
         RoundUp(len) <= UsedSpace(tx), txCallback = TRUE, NEW ep, RunTxCallback(tx, ep, len)
  PROVE  ~IsFull(tx') \/ (tx'.head = tx.head /\ tx'.tail = tx.tail)
<1> DEFINE sent == IF len > 0 THEN CompleteDirectRead(tx, "tx", len) ELSE tx
           next == PrepareDirectRead(sent, "tx")
<1>1. sent \in Ring /\ Aligned(sent.tail)
  BY CompleteDirectReadFacts, BufferOfWords
<1>2. sent = tx \/ UsedSpace(sent) < N - 1
  <2>1. CASE len > 0
    <3>1. sent.buf = tx.buf /\ sent.head = tx.head /\ sent.tail = Wrap(tx.tail + RoundUp(len))
      BY <2>1 DEF CompleteDirectRead, Ring
    <3>2. RoundUp(len) \in Nat /\ RoundUp(len) >= AlignStep
      BY <2>1, RoundUpFacts
    <3>3. /\ tx.head \in 0 .. N - 1 /\ tx.tail \in 0 .. N - 1 /\ N \in Nat
      BY NAssumption DEF Ring, Slot
    <3> HIDE DEF sent
    <3>4. UsedSpace(sent) = UsedSpace(tx) - RoundUp(len)
      BY <3>1, <3>2, <3>3 DEF UsedSpace, Wrap
    <3>5. UsedSpace(tx) \in 0 .. N - 1
      BY SpaceFacts
    <3> QED BY <3>2, <3>3, <3>4, <3>5 DEF AlignStep
  <2>2. CASE ~(len > 0)
    BY <2>2
  <2> QED BY <2>1, <2>2
<1>3. tx' = sent \/ (~IsEmpty(sent) /\ tx' = next.ring)
  BY DEF RunTxCallback, SendDataCb
<1> HIDE DEF sent
<1>4. ~IsEmpty(sent) => (next.ring = sent \/ UsedSpace(next.ring) = AlignStep)
  BY <1>1, PrepareMoves
<1> HIDE DEF next
<1>5. tx' = tx \/ UsedSpace(tx') < N - 1 \/ UsedSpace(tx') = AlignStep
  BY <1>2, <1>3, <1>4
<1>6. tx' \in Ring
  <2>1. ~IsEmpty(sent) => next.ring \in Ring
    BY <1>1, PrepareDirectReadFacts, BufferOfWords DEF next
  <2> QED BY <1>1, <1>3, <2>1
<1> QED BY <1>5, <1>6, HasRoom

\* _receive_data_cb moves the head over what was available.
LEMMA RunRxMoves ==
  ASSUME rx \in Ring, rxbuf \in Seq(Byte), NEW len \in Nat, rx.head + len <= N,
         len <= AvailableSpace(rx), rxCallback = TRUE, NEW ep, RunRxCallback(rx, ep, len)
  PROVE  rx'.tail = rx.tail /\ UsedSpace(rx) <= UsedSpace(rx')
<1> DEFINE got == IF len > 0 THEN CompleteDirectWrite(rx, "rx", len, rxbuf) ELSE rx
<1>1. rx' = got
  BY DEF RunRxCallback, ReceiveDataCb
<1>2. got.tail = rx.tail /\ got.head = Wrap(rx.head + len)
  <2>1. CASE len > 0
    BY <2>1, CompleteDirectWriteFacts
  <2>2. CASE ~(len > 0)
    <3>1. len = 0 /\ got = rx
      BY <2>2
    <3> QED BY <3>1, NAssumption DEF Wrap, Ring, Slot
  <2> QED BY <2>1, <2>2
<1>3. rx.head \in 0 .. N - 1 /\ rx.tail \in 0 .. N - 1 /\ N \in Nat
  BY NAssumption DEF Ring, Slot
<1> HIDE DEF got
<1>4. UsedSpace(got) = UsedSpace(rx) + len
  BY <1>2, <1>3 DEF UsedSpace, AvailableSpace, Wrap
<1>5. UsedSpace(rx) \in Int
  BY SpaceFacts
<1> QED BY <1>1, <1>2, <1>4, <1>5

\* The same pointers, the same space.
LEMMA SamePointers ==
  ASSUME NEW r, NEW s, s.head = r.head, s.tail = r.tail
  PROVE  UsedSpace(s) = UsedSpace(r) /\ (IsFull(s) <=> IsFull(r)) /\ (IsEmpty(s) <=> IsEmpty(r))
  BY DEF UsedSpace, IsFull, AvailableSpace, IsEmpty

\* The interrupt.
LEMMA InterruptMoves ==
  ASSUME PortOk, UsbCompletion \/ SetConfiguration
  PROVE  Moves
<1>1. tx \in Ring /\ rx \in Ring /\ Aligned(tx.tail) /\ rxbuf \in Seq(Byte)
  BY DEF PortOk, TxOk, RxOk, InTransferMatchesRing
<1>2. txCallback = TRUE /\ rxCallback = TRUE
  BY DEF PortOk, TxOk, RxOk
<1>3. UsedSpace(tx) \in 0 .. N - 1 /\ UsedSpace(rx) \in 0 .. N - 1
      /\ AvailableSpace(rx) \in 0 .. N - 1
  BY <1>1, SpaceFacts
<1>4. /\ 0 \in Nat /\ tx.tail + RoundUp(0) <= N /\ rx.head + 0 <= N /\ RoundUp(0) = 0
  BY <1>1, NothingFits
<1>5. CASE SetConfiguration
  <2>1. RunTxCallback(tx, Ep("idle"), 0) /\ RunRxCallback(rx, Ep("idle"), 0)
    BY <1>5 DEF SetConfiguration
  <2>2. RoundUp(0) <= UsedSpace(tx) /\ 0 <= AvailableSpace(rx)
    BY <1>3, <1>4
  <2>3. ~IsFull(tx') \/ (tx'.head = tx.head /\ tx'.tail = tx.tail)
    BY <1>1, <1>2, <1>4, <2>1, <2>2, RunTxMoves
  <2>4. rx'.tail = rx.tail /\ UsedSpace(rx) <= UsedSpace(rx')
    BY <1>1, <1>2, <1>4, <2>1, <2>2, RunRxMoves
  <2> QED BY <2>3, <2>4 DEF Moves
<1>6. CASE UsbCompletion
  <2>1. ~IsFull(tx') \/ (tx'.head = tx.head /\ tx'.tail = tx.tail)
    <3>1. CASE epIn.state = "done"
      <4>1. RunTxCallback(tx, Ep("idle"), current_tx_length)
        BY <1>6, <3>1 DEF UsbCompletion
      <4>2. /\ current_tx_length \in Nat /\ tx.tail + RoundUp(current_tx_length) <= N
            /\ RoundUp(current_tx_length) <= UsedSpace(tx)
        BY <3>1, NAssumption DEF PortOk, TxOk, InTransferMatchesRing, InFlight
      <4> QED BY <1>1, <1>2, <4>1, <4>2, RunTxMoves
    <3>2. CASE epIn.state # "done"
      BY <1>6, <3>2 DEF UsbCompletion, txVars
    <3> QED BY <3>1, <3>2
  <2>2. rx'.tail = rx.tail /\ UsedSpace(rx) <= UsedSpace(rx')
    <3>1. CASE epOut.state = "done"
      <4>1. RunRxCallback(rx, Ep("idle"), epOut.len)
        BY <1>6, <3>1 DEF UsbCompletion
      <4>2. /\ epOut.len \in Nat /\ rx.head + epOut.len <= N
            /\ epOut.len <= AvailableSpace(rx)
        BY <3>1, NAssumption DEF PortOk, RxOk, OutTransferMatchesRing, InFlight, Endpoint
      <4> QED BY <1>1, <1>2, <4>1, <4>2, RunRxMoves
    <3>2. CASE epOut.state # "done"
      <4>1. rx' = rx
        BY <1>6, <3>2 DEF UsbCompletion, rxVars
      <4> QED BY <1>3, <4>1
    <3> QED BY <3>1, <3>2
  <2> QED BY <2>1, <2>2 DEF Moves
<1> QED BY <1>5, <1>6

\* The host.
LEMMA HostMoves ==
  ASSUME PortOk, HostSteps
  PROVE  Moves
<1>1. tx' = tx /\ rx'.head = rx.head /\ rx'.tail = rx.tail
  <2>1. ASSUME NEW n \in 0 .. N, HostOut(n)
        PROVE  tx' = tx /\ rx'.head = rx.head /\ rx'.tail = rx.tail
    BY <2>1 DEF HostOut, PortOk, RxOk, Ring, txVars
  <2>2. EndpointsOff \/ HostIn => tx' = tx /\ rx' = rx
    BY DEF EndpointsOff, HostIn, rxVars
  <2> QED BY <2>1, <2>2 DEF HostSteps
<1>2. UsedSpace(rx') = UsedSpace(rx)
  BY <1>1, SamePointers
<1>3. UsedSpace(rx) \in Int
  BY SpaceFacts DEF PortOk, RxOk
<1> QED BY <1>1, <1>2, <1>3 DEF Moves

\* What moves between an answer and the call that relies on it does not make it
\* wrong.
LEMMA MovesKeepPromises ==
  ASSUME PortOk, PortOk', PollsHold, Moves, UNCHANGED promised
  PROVE  PollsHold'
<1>1. rx \in Ring /\ rx' \in Ring
  BY DEF PortOk, RxOk
<1>2. /\ UsedSpace(rx) \in 0 .. N - 1 /\ UsedSpace(rx') \in 0 .. N - 1 /\ N \in Nat
      /\ IsFull(rx) => UsedSpace(rx) = N - 1
      /\ UsedSpace(rx') = N - 1 => IsFull(rx')
      /\ IsEmpty(rx) <=> UsedSpace(rx) = 0
      /\ IsEmpty(rx') <=> UsedSpace(rx') = 0
  <2>1. /\ UsedSpace(rx) \in 0 .. N - 1 /\ UsedSpace(rx') \in 0 .. N - 1
        /\ IsEmpty(rx) <=> UsedSpace(rx) = 0
        /\ IsEmpty(rx') <=> UsedSpace(rx') = 0
    BY <1>1, SpaceFacts
  <2> QED BY <2>1, NAssumption DEF IsFull, AvailableSpace
<1>3. UsedSpace(rx) <= UsedSpace(rx')
  BY DEF Moves
<1>4. ~IsFull(tx) => ~IsFull(tx')
  BY SamePointers DEF Moves
<1>5. ~IsEmpty(rx) => ~IsEmpty(rx')
  BY <1>2, <1>3
<1>6. IsFull(rx) => IsFull(rx')
  BY <1>2, <1>3
<1> QED BY <1>4, <1>5, <1>6 DEF PollsHold

\* Nor does what moves under a poll mislead the second read.
LEMMA MovesKeepPolls ==
  ASSUME PortOk, PortOk', PollOk, PollsHold, Moves, UNCHANGED callVars
  PROVE  PollOk' /\ PollsHold'
<1>1. UNCHANGED <<pc, call, first, promised>>
  BY DEF callVars
<1>2. rx \in Ring /\ rx' \in Ring
  BY DEF PortOk, RxOk
<1>3. UsedSpace(rx) \in 0 .. N - 1 /\ UsedSpace(rx') \in 0 .. N - 1 /\ N \in Nat
  BY <1>2, SpaceFacts, NAssumption
<1>4. IsFull(tx') => IsFull(tx) /\ tx'.head = tx.head /\ tx'.tail = tx.tail
  BY SamePointers DEF Moves
<1>5. UsedSpace(rx) <= UsedSpace(rx') /\ rx'.tail = rx.tail
  BY DEF Moves
<1>6. PollsHold'
  BY <1>1, MovesKeepPromises
<1>7. ASSUME NEW p \in Slot, UsedSpace([rx EXCEPT !.head = p]) <= UsedSpace(rx)
      PROVE  UsedSpace([rx' EXCEPT !.head = p]) <= UsedSpace(rx')
  <2> DEFINE r == [rx EXCEPT !.head = p]
             s == [rx' EXCEPT !.head = p]
  <2>1. r \in Ring /\ s.head = r.head /\ s.tail = r.tail
    BY <1>2, <1>5 DEF Ring
  <2>2. UsedSpace(r) <= UsedSpace(rx)
    BY <1>7
  <2> HIDE DEF r, s
  <2>3. UsedSpace(s) = UsedSpace(r) /\ UsedSpace(r) \in 0 .. N - 1
    BY <2>1, SamePointers, SpaceFacts
  <2>4. UsedSpace(s) <= UsedSpace(rx')
    BY <1>3, <1>5, <2>2, <2>3
  <2> QED BY <2>4 DEF s
<1>8. PollOk'
  BY <1>1, <1>4, <1>5, <1>7 DEF PollOk
<1> QED BY <1>6, <1>8

-----------------------------------------------------------------------------
(* Every step of a call, of a poll, of the interrupt and of the host.       *)

CallsInv == MaskInv /\ PortOk /\ CallOk /\ PollOk /\ PollsHold

\* A step that leaves the port alone.
LEMMA PortOkFrame == PortOk /\ UNCHANGED vars => PortOk'
  BY TxOkFrame, RxOkFrame, TxHistFrame, RxHistFrame DEF PortOk, vars, cbVars

\* The USB interrupt acts outside of the calls.
LEMMA InterruptOutside == MaskInv /\ UsbInterrupt => pc \notin InCall
  BY DEF MaskInv, UsbInterrupt

\* The port stays sound and the ring of a call one byte away from where it was.
LEMMA CallStep ==
  ASSUME MaskInv, PortOk, CallOk, [CallsNext]_allVars
  PROVE  PortOk' /\ CallOk'
<1>1. ASSUME NEW name \in Calls, Enter(name) PROVE PortOk' /\ CallOk'
  <2>1. /\ UNCHANGED vars /\ call' = name /\ direction' = direction
        /\ pc' = "ring_pause"
    BY <1>1 DEF Enter, Go
  <2>2. name \in {"write", "read_char"} /\ (name = "write" => AppWrites)
    BY <1>1 DEF Calls, CallOk
  <2>3. CallOk'
    BY <2>1, <2>2 DEF CallOk, InRing
  <2> QED BY <2>1, <2>3, PortOkFrame
<1>2. CASE RingPause
  <2>1. /\ UNCHANGED <<vars, call, direction>>
        /\ pc = "ring_pause" /\ pc' = "ring"
    BY <1>2 DEF RingPause, Go
  <2>2. CallOk'
    BY <2>1 DEF CallOk, InRing, InCall
  <2> QED BY <2>1, <2>2, PortOkFrame
<1>3. CASE RingCall
  <2>1. pc \in InCall
    BY <1>3 DEF RingCall, Go, InCall
  <2> QED BY <1>3, <2>1, RingCallOk
<1>4. CASE RingResume
  <2>1. /\ UNCHANGED <<vars, call, before, direction>>
        /\ pc = "ring_resume" /\ pc' = "start"
    BY <1>4 DEF RingResume, Go
  <2>2. UNCHANGED <<tx, rx, txTag>>
    BY <2>1 DEF vars, txVars, rxVars, txHist
  <2>3. CallOk'
    BY <2>1, <2>2 DEF CallOk, InRing, InCall
  <2> QED BY <2>1, <2>3, PortOkFrame
<1>5. CASE StartTransferIfIdle
  <2>1. /\ pc = "start" /\ pc' = "resume" /\ UNCHANGED <<call, direction>>
        /\ before \in Ring /\ txTag \in Byte
    BY <1>5 DEF StartTransferIfIdle, Go, CallOk, InRing, PortOk, TxHistType
  <2>2. CallOk'
    BY <2>1 DEF CallOk, InRing, InCall
  <2>3. CASE call = "write"
    <3>1. StoreChar(before, txTag).len \in Nat
      BY <2>1, StoreCharFacts
    <3>2. /\ StartTxIfIdle(tx) /\ UNCHANGED txBroken
          /\ UNCHANGED <<rxVars, cbVars, rxHist>>
          /\ TxAccept(StoreChar(before, txTag).len)
      BY <1>5, <2>3 DEF StartTransferIfIdle
    <3>3. PortOk'
      BY <3>1, <3>2, StartTxOk
    <3> QED BY <2>2, <3>3
  <2>4. CASE call = "read_char"
    <3>1. ReadChar(before).data \in Seq(Byte)
      BY <2>1, ReadCharFacts
    <3>2. /\ StartRxIfIdle(rx) /\ UNCHANGED rxBroken
          /\ UNCHANGED <<txVars, cbVars, txHist>>
          /\ RxDeliver(ReadChar(before).data)
      BY <1>5, <2>4 DEF StartTransferIfIdle
    <3>3. PortOk'
      BY <3>1, <3>2, StartRxOk
    <3> QED BY <2>2, <3>3
  <2> QED BY <1>5, <2>3, <2>4 DEF StartTransferIfIdle
<1>6. CASE Return
  <2>1. UNCHANGED <<vars, direction>> /\ pc' = "out"
    BY <1>6 DEF Return, Go
  <2>2. CallOk'
    BY <2>1 DEF CallOk, InRing, InCall
  <2> QED BY <2>1, <2>2, PortOkFrame
<1>7. ASSUME NEW name \in Polls, NEW pointer \in {"head", "tail"}, PollFirst(name, pointer)
      PROVE  PortOk' /\ CallOk'
  <2>1. UNCHANGED <<vars, direction>> /\ pc' = "poll"
    BY <1>7 DEF PollFirst, Go
  <2>2. CallOk'
    BY <2>1 DEF CallOk, InRing, InCall
  <2> QED BY <2>1, <2>2, PortOkFrame
<1>8. CASE PollSecond
  <2>1. UNCHANGED <<vars, direction>> /\ pc' = "out"
    BY <1>8 DEF PollSecond, Go
  <2>2. CallOk'
    BY <2>1 DEF CallOk, InRing, InCall
  <2> QED BY <2>1, <2>2, PortOkFrame
<1>9. CASE MaskInterrupts
  <2>1. UNCHANGED <<vars, direction>> /\ pc' = "out"
    BY <1>9 DEF MaskInterrupts
  <2>2. CallOk'
    BY <2>1 DEF CallOk, InRing, InCall
  <2> QED BY <2>1, <2>2, PortOkFrame
<1>10. CASE UsbInterrupt /\ UNCHANGED callVars
  <2>1. pc \notin InCall /\ pc' = pc /\ direction' = direction
    BY <1>10, InterruptOutside DEF callVars
  <2>2. CallOk'
    BY <2>1 DEF CallOk, InRing, InCall
  <2>3. PortOk'
    BY <1>10, UsbCompletionOk, SetConfigurationOk DEF UsbInterrupt
  <2> QED BY <2>2, <2>3
<1>11. CASE HostSteps /\ UNCHANGED callVars
  BY <1>11, HostCallOk
<1>12. CASE UNCHANGED allVars
  <2>1. UNCHANGED vars /\ UNCHANGED callVars
    BY <1>12 DEF allVars
  <2>2. UNCHANGED <<tx, rx, txTag, pc, call, before, direction>>
    BY <2>1 DEF vars, txVars, rxVars, txHist, callVars
  <2>3. CallOk'
    BY <2>2 DEF CallOk, InRing
  <2> QED BY <2>1, <2>3, PortOkFrame
<1> QED BY <1>1, <1>2, <1>3, <1>4, <1>5, <1>6, <1>7, <1>8, <1>9, <1>10, <1>11, <1>12 DEF CallsNext

\* The first read of a poll sees the pointer as it is.
LEMMA PollFirstOk ==
  ASSUME PortOk, PollsHold, NEW name \in Polls, NEW pointer \in {"head", "tail"},
         PollFirst(name, pointer)
  PROVE  PollOk' /\ PollsHold'
<1>1. /\ call' = name /\ pc' = "poll" /\ UNCHANGED <<tx, rx, promised>>
      /\ first' = [pointer |-> pointer, offset |-> Polled(name)[pointer]]
  BY DEF PollFirst, Go, vars, txVars, rxVars
<1>2. PollsHold'
  BY <1>1 DEF PollsHold
<1>3. name \in {"writeBufFull", "available", "readBufFull"}
  BY DEF Polls
<1>4. rx \in Ring /\ UsedSpace(rx) \in Int
  BY SpaceFacts DEF PortOk, RxOk
<1>5. [rx EXCEPT !.head = rx.head] = rx /\ rx.head \in Slot
  BY <1>4 DEF Ring
<1>6. CASE name = "writeBufFull"
  <2>1. \/ first'.pointer = "head" /\ first'.offset = tx'.head
        \/ first'.pointer = "tail" /\ first'.offset = tx'.tail
    BY <1>1, <1>6 DEF Polled
  <2> QED BY <1>1, <1>2, <1>6, <2>1 DEF PollOk
<1>7. CASE name # "writeBufFull"
  <2>1. \/ first'.pointer = "head" /\ first'.offset = rx'.head
        \/ first'.pointer = "tail" /\ first'.offset = rx'.tail
    BY <1>1, <1>7 DEF Polled
  <2>2. UsedSpace([rx' EXCEPT !.head = rx'.head]) <= UsedSpace(rx')
    BY <1>1, <1>4, <1>5
  <2>3. rx'.head \in Slot
    BY <1>1, <1>5
  <2> QED BY <1>1, <1>2, <1>3, <1>7, <2>1, <2>2, <2>3 DEF PollOk
<1> QED BY <1>6, <1>7

\* The answer holds when it is given.
LEMMA PollSecondOk ==
  ASSUME PortOk, PollOk, PollsHold, PollSecond
  PROVE  PollOk' /\ PollsHold'
<1> DEFINE mixed == [Polled(call) EXCEPT ![first.pointer] = first.offset]
           holds == Answer(call, mixed) = (call # "writeBufFull")
<1>1. /\ pc = "poll" /\ pc' = "out" /\ UNCHANGED <<tx, rx>>
      /\ promised' = IF holds THEN promised \cup {call} ELSE promised
  BY DEF PollSecond, Go, vars, txVars, rxVars
<1>2. tx \in Ring /\ rx \in Ring
  BY DEF PortOk, TxOk, RxOk
<1>3. PollOk'
  BY <1>1 DEF PollOk
<1>4. CASE call = "writeBufFull"
  <2>1. mixed = [tx EXCEPT ![first.pointer] = first.offset] /\ (holds => ~IsFull(mixed))
    BY <1>4 DEF Polled, Answer
  <2>2. IsFull(tx) => mixed = tx
    BY <1>1, <1>2, <1>4, <2>1 DEF PollOk, Ring
  <2> HIDE DEF mixed, holds
  <2>3. holds => ~IsFull(tx)
    BY <2>1, <2>2
  <2> QED BY <1>1, <1>3, <1>4, <2>3 DEF PollsHold
<1>5. CASE call # "writeBufFull"
  <2>1. UsedSpace(mixed) <= UsedSpace(rx) /\ mixed \in Ring
    <3>1. mixed = [rx EXCEPT ![first.pointer] = first.offset]
      BY <1>5 DEF Polled
    <3>2. CASE first.pointer = "tail" /\ first.offset = rx.tail
      <4>1. mixed = rx
        BY <1>2, <3>1, <3>2 DEF Ring
      <4>2. UsedSpace(rx) \in Int
        BY <1>2, SpaceFacts
      <4> HIDE DEF mixed
      <4> QED BY <1>2, <4>1, <4>2
    <3>3. CASE /\ first.pointer = "head" /\ first.offset \in Slot
               /\ UsedSpace([rx EXCEPT !.head = first.offset]) <= UsedSpace(rx)
      <4>1. mixed = [rx EXCEPT !.head = first.offset]
        BY <3>1, <3>3
      <4>2. mixed \in Ring
        BY <1>2, <3>3, <4>1 DEF Ring
      <4> HIDE DEF mixed
      <4> QED BY <3>3, <4>1, <4>2
    <3> QED BY <1>1, <1>5, <3>2, <3>3 DEF PollOk
  <2> HIDE DEF mixed
  <2>2. /\ UsedSpace(mixed) \in 0 .. N - 1 /\ UsedSpace(rx) \in 0 .. N - 1 /\ N \in Nat
        /\ IsEmpty(mixed) <=> UsedSpace(mixed) = 0
        /\ IsEmpty(rx) <=> UsedSpace(rx) = 0
    BY <1>2, <2>1, SpaceFacts, NAssumption
  <2>3. ~IsEmpty(mixed) => ~IsEmpty(rx)
    BY <2>1, <2>2
  <2>4. IsFull(mixed) => IsFull(rx)
    BY <2>1, <2>2 DEF IsFull, AvailableSpace
  <2>5. call = "available" => (holds => ~IsEmpty(rx))
    BY <1>5, <2>3 DEF Answer
  <2>6. call = "readBufFull" => (holds => IsFull(rx))
    BY <1>5, <2>4 DEF Answer
  <2>7. call \in {"available", "readBufFull"}
    BY <1>1, <1>5 DEF PollOk
  <2> HIDE DEF holds
  <2> QED BY <1>1, <1>3, <2>5, <2>6, <2>7 DEF PollsHold
<1> QED BY <1>4, <1>5

\* No step makes a promise false: the interrupt and the host only move what cannot
\* hurt it, and the call that uses it up is the one that may.
LEMMA PollStep ==
  ASSUME MaskInv, PortOk, PortOk', CallOk, PollOk, PollsHold, [CallsNext]_allVars
  PROVE  PollOk' /\ PollsHold'
<1>1. ASSUME UNCHANGED <<vars, promised>>, pc' # "poll" PROVE PollOk' /\ PollsHold'
  BY <1>1 DEF PollOk, PollsHold, vars, txVars, rxVars
<1>2. ASSUME NEW name \in Calls, Enter(name) PROVE PollOk' /\ PollsHold'
  BY <1>1, <1>2 DEF Enter, Go
<1>3. CASE RingPause
  BY <1>1, <1>3 DEF RingPause, Go
<1>4. CASE RingCall
  <2>1. pc' # "poll"
    BY <1>4 DEF RingCall, Go
  <2>2. \/ rx' = rx /\ promised' = promised \ {"writeBufFull"}
        \/ tx' = tx /\ promised' = promised \ {"available", "readBufFull"}
    <3>1. CASE call = "write"
      BY <1>4, <3>1 DEF RingCall
    <3>2. CASE call = "read_char"
      BY <1>4, <3>2 DEF RingCall
    <3> QED BY <1>4, <3>1, <3>2 DEF RingCall
  <2> QED BY <2>1, <2>2 DEF PollOk, PollsHold
<1>5. CASE RingResume
  BY <1>1, <1>5 DEF RingResume, Go
<1>6. CASE StartTransferIfIdle
  <2>1. pc' # "poll" /\ promised' = promised
    BY <1>6 DEF StartTransferIfIdle, Go
  <2>2. Moves
    <3>1. tx \in Ring /\ rx \in Ring /\ Aligned(tx.tail) /\ rxbuf \in Seq(Byte)
          /\ txCallback = TRUE /\ rxCallback = TRUE
      BY DEF PortOk, TxOk, RxOk, InTransferMatchesRing
    <3>2. /\ 0 \in Nat /\ tx.tail + RoundUp(0) <= N /\ rx.head + 0 <= N
          /\ RoundUp(0) = 0
      BY <3>1, NothingFits
    <3>3. /\ UsedSpace(tx) \in 0 .. N - 1 /\ UsedSpace(rx) \in 0 .. N - 1
          /\ AvailableSpace(rx) \in 0 .. N - 1
      BY <3>1, SpaceFacts
    <3>4. RoundUp(0) <= UsedSpace(tx) /\ 0 <= AvailableSpace(rx)
          /\ UsedSpace(rx) <= UsedSpace(rx)
      BY <3>2, <3>3
    <3>5. CASE call = "write"
      <4>1. StartTxIfIdle(tx) /\ rx' = rx
        BY <1>6, <3>5 DEF StartTransferIfIdle, rxVars
      <4>2. ~IsFull(tx') \/ (tx'.head = tx.head /\ tx'.tail = tx.tail)
        <5>1. CASE transmitDMAInProgress
          BY <4>1, <5>1 DEF StartTxIfIdle
        <5>2. CASE ~transmitDMAInProgress
          <6>1. RunTxCallback(tx, epIn, 0)
            BY <4>1, <5>2 DEF StartTxIfIdle
          <6> QED BY <3>1, <3>2, <3>4, <6>1, RunTxMoves
        <5> QED BY <5>1, <5>2
      <4> QED BY <3>4, <4>1, <4>2 DEF Moves
    <3>6. CASE call = "read_char"
      <4>1. StartRxIfIdle(rx) /\ tx' = tx
        BY <1>6, <3>6 DEF StartTransferIfIdle, txVars
      <4>2. rx'.tail = rx.tail /\ UsedSpace(rx) <= UsedSpace(rx')
        <5>1. CASE receiveDMAInProgress
          <6>1. rx' = rx
            BY <4>1, <5>1 DEF StartRxIfIdle
          <6> QED BY <3>4, <6>1
        <5>2. CASE ~receiveDMAInProgress
          <6>1. RunRxCallback(rx, epOut, 0)
            BY <4>1, <5>2 DEF StartRxIfIdle
          <6> QED BY <3>1, <3>2, <3>4, <6>1, RunRxMoves
        <5> QED BY <5>1, <5>2
      <4> QED BY <4>1, <4>2 DEF Moves
    <3> QED BY <1>6, <3>5, <3>6 DEF StartTransferIfIdle
  <2> QED BY <2>1, <2>2, MovesKeepPromises DEF PollOk
<1>7. CASE Return
  BY <1>1, <1>7 DEF Return, Go
<1>8. ASSUME NEW name \in Polls, NEW pointer \in {"head", "tail"}, PollFirst(name, pointer)
      PROVE  PollOk' /\ PollsHold'
  BY <1>8, PollFirstOk
<1>9. CASE PollSecond
  BY <1>9, PollSecondOk
<1>10. CASE MaskInterrupts
  BY <1>1, <1>10 DEF MaskInterrupts
<1>11. CASE UsbInterrupt /\ UNCHANGED callVars
  BY <1>11, InterruptMoves, MovesKeepPolls DEF UsbInterrupt
<1>12. CASE HostSteps /\ UNCHANGED callVars
  BY <1>12, HostMoves, MovesKeepPolls
<1>13. CASE UNCHANGED allVars
  BY <1>13 DEF allVars, vars, txVars, rxVars, callVars, PollOk, PollsHold
<1> QED BY <1>2, <1>3, <1>4, <1>5, <1>6, <1>7, <1>8, <1>9, <1>10, <1>11, <1>12, <1>13
        DEF CallsNext

\* The port after its constructor, before the first call.
LEMMA CallsInvInit == ASSUME CallsInit PROVE CallsInv
<1>1. MaskInv
  BY MaskInit
<1>2. PortInv
  BY InitInv DEF CallsInit
<1>3. /\ txCallback = TRUE /\ rxCallback = TRUE /\ pc = "out" /\ promised = {}
      /\ ~InFlight(epIn) /\ ~InFlight(epOut) /\ direction \in {"out", "in"}
  <2>1. epIn = Ep("off") /\ epOut = Ep("off")
    BY DEF CallsInit, Init
  <2>2. ~InFlight(epIn) /\ ~InFlight(epOut)
    BY <2>1, NoTransfer
  <2> QED BY <2>2 DEF CallsInit, Init
<1>4. TxOk
  BY <1>2, <1>3 DEF PortInv, TxPart, TxOk
<1>5. RxOk
  BY <1>2, <1>3 DEF PortInv, RxPart, RxOk
<1>6. PortOk
  BY <1>2, <1>4, <1>5 DEF PortInv, PortOk
<1>7. CallOk /\ PollOk /\ PollsHold
  BY <1>3 DEF CallOk, PollOk, PollsHold, InRing, InCall
<1> QED BY <1>1, <1>6, <1>7 DEF CallsInv

\* The inductive invariant of the calls: the masks, the port under the calls, what a
\* call has done so far and what a poll has read so far.
THEOREM CallsInvHolds == CallsSpec => []CallsInv
<1>1. CallsInv /\ [CallsNext]_allVars => CallsInv'
  <2> SUFFICES ASSUME CallsInv, [CallsNext]_allVars PROVE CallsInv'
    OBVIOUS
  <2>1. MaskInv'
    BY MaskNext DEF CallsInv
  <2>2. PortOk' /\ CallOk'
    BY CallStep DEF CallsInv
  <2>3. PollOk' /\ PollsHold'
    BY <2>2, PollStep DEF CallsInv
  <2> QED BY <2>1, <2>2, <2>3 DEF CallsInv
<1> QED BY <1>1, CallsInvInit, PTL DEF CallsSpec

\* Answers of writeBufFull, available and readBufFull hold until the application has
\* acted on them, for every buffer length, although nothing protects their two reads.
THEOREM PollsAreHeld == CallsSpec => []PollsHold
<1>1. CallsInv => PollsHold
  BY DEF CallsInv
<1> QED BY <1>1, CallsInvHolds, PTL

-----------------------------------------------------------------------------
(* A call is one step of the port.  The operators of the port on values do  *)
(* not depend on what its variables stand for.                              *)

\* Occupancy and words.
LEMMA SameOccupancy ==
  /\ \A r : /\ Port!UsedSpace(r) = UsedSpace(r) /\ Port!AvailableSpace(r) = AvailableSpace(r)
            /\ Port!IsFull(r) = IsFull(r) /\ Port!IsEmpty(r) = IsEmpty(r)
  /\ \A x, y : Port!min(x, y) = min(x, y)
  /\ \A p : /\ Port!Wrap(p) = Wrap(p) /\ Port!Aligned(p) = Aligned(p)
            /\ Port!RoundUp(p) = RoundUp(p)
  /\ Port!AlignStep = AlignStep /\ Port!BounceSize = BounceSize /\ Port!Slot = Slot
  BY DEF Port!UsedSpace, UsedSpace, Port!AvailableSpace, AvailableSpace, Port!IsFull,
         IsFull, Port!IsEmpty, IsEmpty, Port!min, min, Port!Wrap, Wrap, Port!Aligned,
         Aligned, Port!RoundUp, RoundUp, Port!AlignStep, AlignStep, Port!BounceSize,
         BounceSize, Port!Slot, Slot

\* Copies.
LEMMA SameCopies ==
  /\ \A buf, at, data : Port!MemcpyIn(buf, at, data) = MemcpyIn(buf, at, data)
  /\ \A buf, at, len : Port!MemcpyOut(buf, at, len) = MemcpyOut(buf, at, len)
  BY SameOccupancy DEF Port!MemcpyIn, MemcpyIn, Port!MemcpyOut, MemcpyOut

\* The member functions for one byte.
LEMMA SameBytes ==
  /\ \A r, c : Port!StoreChar(r, c) = StoreChar(r, c)
  /\ \A r : Port!ReadChar(r) = ReadChar(r)
  BY SameOccupancy DEF Port!StoreChar, StoreChar, Port!ReadChar, ReadChar

\* The member functions for DMA.
LEMMA SameDma ==
  /\ \A r, align : /\ Port!Bounces(r, align) = Bounces(r, align)
                   /\ Port!PrepareDirectWrite(r, align) = PrepareDirectWrite(r, align)
                   /\ Port!PrepareDirectRead(r, align) = PrepareDirectRead(r, align)
  /\ \A r, align, len : Port!CompleteDirectRead(r, align, len) = CompleteDirectRead(r, align, len)
  /\ \A r, align, len, data : Port!CompleteDirectWrite(r, align, len, data)
                                = CompleteDirectWrite(r, align, len, data)
<1>1. \A r, align : Port!Bounces(r, align) = Bounces(r, align)
  BY SameOccupancy DEF Port!Bounces, Bounces
<1>2. \A r, align : Port!PrepareDirectWrite(r, align) = PrepareDirectWrite(r, align)
  BY <1>1, SameOccupancy DEF Port!PrepareDirectWrite, PrepareDirectWrite
<1>3. \A r, align : Port!PrepareDirectRead(r, align) = PrepareDirectRead(r, align)
  BY SameOccupancy DEF Port!PrepareDirectRead, PrepareDirectRead
<1>4. \A r, align, len : Port!CompleteDirectRead(r, align, len) = CompleteDirectRead(r, align, len)
  BY SameOccupancy DEF Port!CompleteDirectRead, CompleteDirectRead
<1>5. \A r, align, len, data : Port!CompleteDirectWrite(r, align, len, data)
                                = CompleteDirectWrite(r, align, len, data)
  BY <1>1, SameOccupancy, SameCopies DEF Port!CompleteDirectWrite, CompleteDirectWrite
<1> QED BY <1>1, <1>2, <1>3, <1>4, <1>5

\* The callbacks and the endpoints.
LEMMA SameCallbacks ==
  /\ \A r, len : /\ Port!SendDataCb(r, len) = SendDataCb(r, len)
                 /\ Port!ReceiveDataCb(r, len) = ReceiveDataCb(r, len)
  /\ \A ep, addr, len, bounce :
        Port!StartTransfer(ep, addr, len, bounce) = StartTransfer(ep, addr, len, bounce)
  /\ \A state : Port!Ep(state) = Ep(state)
<1>1. \A r, len : Port!SendDataCb(r, len) = SendDataCb(r, len)
  BY SameOccupancy, SameDma DEF Port!SendDataCb, SendDataCb
<1>2. \A r, len : Port!ReceiveDataCb(r, len) = ReceiveDataCb(r, len)
  BY SameOccupancy, SameDma DEF Port!ReceiveDataCb, ReceiveDataCb
<1>3. \A ep, addr, len, bounce :
        Port!StartTransfer(ep, addr, len, bounce) = StartTransfer(ep, addr, len, bounce)
  BY DEF Port!StartTransfer, StartTransfer
<1>4. \A state : Port!Ep(state) = Ep(state)
  BY DEF Port!Ep, Ep
<1> QED BY <1>1, <1>2, <1>3, <1>4

\* The history.
LEMMA SameHistory ==
  /\ \A n : /\ Port!TxBytes(n) = TxBytes(n) /\ Port!RxBytes(n) = RxBytes(n)
            /\ TxAccept(n) => Port!TxAccept(n)
            /\ RxAccept(n) => Port!RxAccept(n)
  /\ \A data : /\ TxDeliver(data) => Port!TxDeliver(data)
               /\ RxDeliver(data) => Port!RxDeliver(data)
  /\ \A event : /\ TxVoidIf(event) => Port!TxVoidIf(event)
                /\ RxVoidIf(event) => Port!RxVoidIf(event)
  BY DEF Port!TxBytes, TxBytes, Port!RxBytes, RxBytes, Port!TxAccept, TxAccept,
         Port!RxAccept, RxAccept, Port!TxDeliver, TxDeliver, Port!RxDeliver, RxDeliver,
         Port!TxVoidIf, TxVoidIf, Port!RxVoidIf, RxVoidIf

\* Where the port stands for the ring as it is after the step, running a callback is
\* running the port's.
LEMMA SameRunTx ==
  ASSUME NEW r, NEW ep, NEW len, RunTxCallback(r, ep, len), PortTx' = tx'
  PROVE  Port!RunTxCallback(r, ep, len)
  BY SameCallbacks DEF RunTxCallback, Port!RunTxCallback

\* The same of the way in.
LEMMA SameRunRx ==
  ASSUME NEW r, NEW ep, NEW len, RunRxCallback(r, ep, len), PortRx' = rx'
  PROVE  Port!RunRxCallback(r, ep, len)
  BY SameCallbacks, SameDma DEF RunRxCallback, Port!RunRxCallback

\* Outside of a call the port is what it is.
LEMMA Outside == pc \notin InCall => ~InRing /\ PortTx = tx /\ PortRx = rx
  BY DEF InRing, InCall, PortTx, PortRx

-----------------------------------------------------------------------------
(* The steps.                                                               *)

\* The port is as its constructor leaves it.
LEMMA AtomicInit == ASSUME CallsInit PROVE Port!Init
<1>1. PortTx = tx /\ PortRx = rx
  BY Outside DEF CallsInit, InCall
<1>2. Port!EmptyRing = EmptyRing
  BY SameOccupancy DEF Port!EmptyRing, EmptyRing, Port!Clear, Clear
<1> QED BY <1>1, <1>2, SameCallbacks DEF CallsInit, Init, Port!Init

\* Nothing the port sees has changed.
LEMMA Stutter ==
  ASSUME PortTx' = PortTx, PortRx' = PortRx,
         UNCHANGED <<transmitDMAInProgress, current_tx_length, epIn, rxbuf,
                     receiveDMAInProgress, epOut, cbVars, txHist, rxHist>>
  PROVE  UNCHANGED Port!vars
  BY DEF Port!vars, Port!txVars, Port!rxVars, Port!cbVars, Port!txHist, Port!rxHist,
         cbVars, txHist, rxHist

\* The change of the ring is not a step of the port yet.
LEMMA RingCallStutters ==
  ASSUME PortOk, RingCall
  PROVE  UNCHANGED Port!vars
<1>1. pc = "ring" /\ pc' = "ring_resume" /\ call' = call
  BY DEF RingCall, Go
<1>2. PortTx = tx /\ PortRx = rx
  BY <1>1, Outside DEF InRing, PortTx, PortRx
<1>3. rx \in Ring
  BY DEF PortOk, RxOk
<1>4. PortTx' = tx /\ PortRx' = rx
  <2>1. CASE call = "write"
    <3>1. before' = tx /\ rx' = rx
      BY <2>1 DEF RingCall
    <3> QED BY <1>1, <2>1, <3>1 DEF PortTx, PortRx, InRing
  <2>2. CASE call = "read_char"
    <3>1. before' = rx /\ rx' = ReadChar(rx).ring /\ tx' = tx
      BY <2>2 DEF RingCall
    <3>2. [ReadChar(rx).ring EXCEPT !.tail = rx.tail] = rx
      BY <1>3 DEF ReadChar, Ring
    <3>3. PortRx' = [rx' EXCEPT !.tail = before'.tail] /\ PortTx' = tx'
      BY <1>1, <2>2 DEF PortTx, PortRx, InRing
    <3> QED BY <3>1, <3>2, <3>3
  <2> QED BY <2>1, <2>2 DEF RingCall
<1>5. UNCHANGED <<transmitDMAInProgress, current_tx_length, epIn, rxbuf,
                  receiveDMAInProgress, epOut, cbVars, txHist, rxHist>>
  BY DEF RingCall
<1> QED BY <1>2, <1>4, <1>5, Stutter

\* The start of the transfer is where the port writes or reads.
LEMMA StartIsWrite ==
  ASSUME PortOk, CallOk, StartTransferIfIdle, call = "write"
  PROVE  Port!WriteChar
<1>1. /\ pc = "start" /\ pc' = "resume" /\ call' = call
      /\ StartTxIfIdle(tx) /\ UNCHANGED txBroken
      /\ TxAccept(StoreChar(before, txTag).len)
      /\ UNCHANGED <<rxVars, cbVars, rxHist>>
  BY DEF StartTransferIfIdle, Go
<1>2. tx = StoreChar(before, txTag).ring /\ AppWrites
  BY <1>1 DEF CallOk, InRing, InCall
<1>3. PortTx = before /\ PortTx' = tx' /\ PortRx = rx /\ PortRx' = rx'
  BY <1>1 DEF PortTx, PortRx, InRing
<1>4. Port!StartTxIfIdle(tx)
  BY <1>1, <1>3, SameRunTx DEF StartTxIfIdle, Port!StartTxIfIdle
<1>5. Port!TxAccept(StoreChar(before, txTag).len)
  BY <1>1, SameHistory
<1>6. UNCHANGED <<Port!rxVars, Port!cbVars, Port!rxHist>>
  BY <1>1, <1>3 DEF rxVars, cbVars, rxHist, Port!rxVars, Port!cbVars, Port!rxHist
<1>7. Port!StoreChar(PortTx, txTag) = StoreChar(before, txTag)
  BY <1>3, SameBytes
<1> QED BY <1>1, <1>2, <1>4, <1>5, <1>6, <1>7 DEF Port!WriteChar

\* The same of a read.
LEMMA StartIsRead ==
  ASSUME PortOk, CallOk, StartTransferIfIdle, call = "read_char"
  PROVE  Port!ReadOne
<1>1. /\ pc = "start" /\ pc' = "resume" /\ call' = call
      /\ StartRxIfIdle(rx) /\ UNCHANGED rxBroken
      /\ RxDeliver(ReadChar(before).data)
      /\ UNCHANGED <<txVars, cbVars, txHist>>
  BY DEF StartTransferIfIdle, Go
<1>2. rx.head = before.head /\ rx.tail = ReadChar(before).ring.tail /\ before \in Ring
  BY <1>1 DEF CallOk, InRing
<1>3. /\ PortTx = tx /\ PortTx' = tx' /\ PortRx' = rx'
      /\ PortRx = [rx EXCEPT !.tail = before.tail]
  BY <1>1 DEF PortTx, PortRx, InRing
<1>4. rx \in Ring
  BY DEF PortOk, RxOk
<1> DEFINE old == [rx EXCEPT !.tail = before.tail]
<1>5. old \in Ring /\ old.head = before.head /\ old.tail = before.tail /\ old.buf = rx.buf
  BY <1>2, <1>4 DEF Ring
<1>6. ReadChar(old).ring = rx
  <2>1. rx = [buf |-> rx.buf, head |-> rx.head, tail |-> rx.tail]
    BY <1>4 DEF Ring
  <2>2. ReadChar(old).ring = [buf |-> rx.buf, head |-> rx.head,
                              tail |-> ReadChar(before).ring.tail]
    BY <1>2, <1>4, <1>5 DEF ReadChar, IsEmpty, Ring
  <2> QED BY <1>2, <2>1, <2>2
<1>7. ReadChar(old).data = ReadChar(before).data
  <2>1. old.buf[old.tail] = before.buf[before.tail]
    <3>1. old.buf[old.tail] \in Byte /\ before.buf[before.tail] \in Byte
      BY <1>2, <1>5 DEF Ring
    <3> QED BY <3>1, CallsAssumption, PortAssumption
  <2> QED BY <1>5, <2>1 DEF ReadChar, IsEmpty
<1> HIDE DEF old
<1>8. Port!StartRxIfIdle(rx)
  BY <1>1, <1>3, SameRunRx DEF StartRxIfIdle, Port!StartRxIfIdle
<1>9. Port!RxDeliver(ReadChar(before).data)
  BY <1>1, SameHistory
<1>10. UNCHANGED <<Port!txVars, Port!cbVars, Port!txHist>>
  BY <1>1, <1>3 DEF txVars, cbVars, txHist, Port!txVars, Port!cbVars, Port!txHist
<1>11. Port!ReadChar(PortRx) = ReadChar(old)
  BY <1>3, SameBytes DEF old
<1> QED BY <1>1, <1>6, <1>7, <1>8, <1>9, <1>10, <1>11 DEF Port!ReadOne

\* The interrupt acts where the port is what it is.
LEMMA InterruptIsPorts ==
  ASSUME UsbCompletion \/ SetConfiguration,
         PortTx = tx, PortTx' = tx', PortRx = rx, PortRx' = rx'
  PROVE  Port!UsbCompletion \/ Port!SetConfiguration
<1>1. CASE UsbCompletion
  <2>1. \/ epOut.state = "done" /\ Port!RunRxCallback(PortRx, Port!Ep("idle"), epOut.len)
        \/ epOut.state # "done" /\ UNCHANGED Port!rxVars
    BY <1>1, SameRunRx, SameCallbacks DEF UsbCompletion, rxVars, Port!rxVars
  <2>2. \/ epIn.state = "done" /\ Port!RunTxCallback(PortTx, Port!Ep("idle"), current_tx_length)
        \/ epIn.state # "done" /\ UNCHANGED Port!txVars
    BY <1>1, SameRunTx, SameCallbacks DEF UsbCompletion, txVars, Port!txVars
  <2>3. Port!RxVoidIf(epOut.state = "done" /\ epOut.len > 0 /\ ~rxCallback)
    BY <1>1 DEF UsbCompletion, RxVoidIf, Port!RxVoidIf
  <2>4. UNCHANGED <<Port!cbVars, Port!txHist>>
    BY <1>1 DEF UsbCompletion, cbVars, txHist, Port!cbVars, Port!txHist
  <2>5. epOut.state = "done" \/ epIn.state = "done"
    BY <1>1 DEF UsbCompletion
  <2> QED BY <2>1, <2>2, <2>3, <2>4, <2>5 DEF Port!UsbCompletion
<1>2. CASE SetConfiguration
  <2>1. Port!RunTxCallback(PortTx, Port!Ep("idle"), 0)
    BY <1>2, SameRunTx, SameCallbacks DEF SetConfiguration
  <2>2. Port!RunRxCallback(PortRx, Port!Ep("idle"), 0)
    BY <1>2, SameRunRx, SameCallbacks DEF SetConfiguration
  <2>3. Port!TxVoidIf(\/ epIn.state = "done"
                      \/ transmitDMAInProgress /\ ~Port!Aligned(current_tx_length))
    BY <1>2, SameOccupancy DEF SetConfiguration, TxVoidIf, Port!TxVoidIf
  <2>4. Port!RxVoidIf(epOut.state = "done" /\ epOut.len > 0)
    BY <1>2 DEF SetConfiguration, RxVoidIf, Port!RxVoidIf
  <2>5. UNCHANGED Port!cbVars
    BY <1>2 DEF SetConfiguration, cbVars, Port!cbVars
  <2> QED BY <2>1, <2>2, <2>3, <2>4, <2>5 DEF Port!SetConfiguration
<1> QED BY <1>1, <1>2

\* DMA reads the same bytes from the ring a call has written to.
LEMMA HostInIsPorts ==
  ASSUME PortOk, CallOk, HostIn, UNCHANGED callVars
  PROVE  Port!HostIn
<1>1. /\ epIn.state = "busy" /\ epIn' = [epIn EXCEPT !.state = "done"] /\ UNCHANGED txBroken
      /\ TxDeliver(MemcpyOut(tx.buf, epIn.addr, epIn.len))
      /\ UNCHANGED <<tx, transmitDMAInProgress, current_tx_length, rxVars, cbVars, rxHist>>
  BY DEF HostIn
<1>2. PortTx' = PortTx /\ PortRx' = PortRx
  BY <1>1 DEF callVars, rxVars, PortTx, PortRx, InRing
<1>3. PortTx \in Ring /\ tx \in Ring
  BY DEF PortTx, PortOk, TxOk, CallOk
<1>4. epIn.addr \in Nat /\ epIn.len \in Nat /\ epIn.addr + epIn.len <= N
  <2>1. /\ epIn.addr \in Nat /\ epIn.len \in Nat /\ epIn.addr = tx.tail
        /\ tx.tail + RoundUp(epIn.len) <= N
    BY <1>1, NAssumption DEF PortOk, TxOk, InTransferMatchesRing, InFlight, Endpoint
  <2> QED BY <2>1, RoundUpFacts, NAssumption
<1>5. MemcpyOut(PortTx.buf, epIn.addr, epIn.len) = MemcpyOut(tx.buf, epIn.addr, epIn.len)
  <2>1. ASSUME NEW k \in 1 .. epIn.len
        PROVE  PortTx.buf[epIn.addr + k - 1] = tx.buf[epIn.addr + k - 1]
    <3>1. epIn.addr + k - 1 \in Slot
      BY <1>4, NAssumption DEF Slot
    <3>2. PortTx.buf[epIn.addr + k - 1] \in Byte /\ tx.buf[epIn.addr + k - 1] \in Byte
      BY <1>3, <3>1 DEF Ring
    <3> QED BY <3>2, CallsAssumption, PortAssumption
  <2> QED BY <2>1 DEF MemcpyOut
<1>6. Port!TxDeliver(Port!MemcpyOut(PortTx.buf, epIn.addr, epIn.len))
  BY <1>1, <1>5, SameCopies, SameHistory
<1>7. UNCHANGED <<PortTx, transmitDMAInProgress, current_tx_length,
                  Port!rxVars, Port!cbVars, Port!rxHist>>
  BY <1>1, <1>2 DEF rxVars, cbVars, rxHist, Port!rxVars, Port!cbVars, Port!rxHist
<1> QED BY <1>1, <1>6, <1>7 DEF Port!HostIn

\* DMA writes the same bytes into the ring a call has read from.
LEMMA HostOutIsPorts ==
  ASSUME PortOk, NEW n \in 0 .. N, HostOut(n), UNCHANGED callVars
  PROVE  Port!HostOut(n)
<1>1. /\ HostSends /\ epOut.state = "busy" /\ n <= epOut.len
      /\ epOut' = [epOut EXCEPT !.state = "done", !.len = n]
      /\ UNCHANGED rxBroken /\ RxAccept(n)
      /\ UNCHANGED <<receiveDMAInProgress, txVars, cbVars, txHist>>
  BY DEF HostOut
<1>2. PortTx' = PortTx
  BY <1>1 DEF callVars, txVars, PortTx, InRing
<1>3. rx \in Ring
  BY DEF PortOk, RxOk
<1>4. \/ epOut.bounce /\ rxbuf' = RxBytes(n) /\ PortRx' = PortRx
      \/ /\ ~epOut.bounce /\ rxbuf' = rxbuf
         /\ PortRx' = [PortRx EXCEPT !.buf = MemcpyIn(@, epOut.addr, RxBytes(n))]
  <2>1. CASE epOut.bounce
    <3>1. rx' = rx /\ rxbuf' = RxBytes(n)
      BY <2>1 DEF HostOut
    <3> QED BY <2>1, <3>1 DEF callVars, PortRx, InRing
  <2>2. CASE ~epOut.bounce
    <3> DEFINE new == MemcpyIn(rx.buf, epOut.addr, RxBytes(n))
    <3>1. rx' = [rx EXCEPT !.buf = new] /\ rxbuf' = rxbuf
      BY <2>2 DEF HostOut
    <3>2. PortRx.buf = rx.buf
      BY <1>3 DEF PortRx, Ring
    <3> HIDE DEF new
    <3>3. PortRx' = [PortRx EXCEPT !.buf = new]
      BY <1>3, <3>1 DEF callVars, PortRx, InRing, Ring
    <3> QED BY <2>2, <3>1, <3>2, <3>3 DEF new
  <2> QED BY <2>1, <2>2
<1>5. Port!RxAccept(n)
  BY <1>1, SameHistory
<1>6. UNCHANGED <<Port!txVars, Port!cbVars, Port!txHist>>
  BY <1>1, <1>2 DEF txVars, cbVars, txHist, Port!txVars, Port!cbVars, Port!txHist
<1> QED BY <1>1, <1>4, <1>5, <1>6, SameCopies, SameHistory DEF Port!HostOut

\* A bus reset touches no ring.
LEMMA EndpointsOffIsPorts ==
  ASSUME EndpointsOff, UNCHANGED callVars
  PROVE  Port!EndpointsOff
<1>1. UNCHANGED <<PortTx, PortRx>>
  BY DEF EndpointsOff, callVars, PortTx, PortRx, InRing
<1>2. UNCHANGED Port!cbVars
  BY DEF EndpointsOff, cbVars, Port!cbVars
<1> QED BY <1>1, <1>2, SameCallbacks
        DEF EndpointsOff, Port!EndpointsOff, TxVoidIf, RxVoidIf, Port!TxVoidIf, Port!RxVoidIf

\* Every step of the calls is a step of the port, or none.
LEMMA AtomicStep ==
  ASSUME MaskInv, PortOk, CallOk, [CallsNext]_allVars
  PROVE  [Port!Next]_(Port!vars)
<1>1. ASSUME UNCHANGED vars, UNCHANGED <<PortTx, PortRx>> PROVE UNCHANGED Port!vars
  <2>1. UNCHANGED <<transmitDMAInProgress, current_tx_length, epIn, rxbuf,
                    receiveDMAInProgress, epOut, cbVars, txHist, rxHist>>
    BY <1>1 DEF vars, txVars, rxVars
  <2> QED BY <1>1, <2>1, Stutter
<1>2. ASSUME UNCHANGED vars, ~InRing, ~InRing' PROVE UNCHANGED Port!vars
  <2>1. UNCHANGED <<PortTx, PortRx>>
    BY <1>2 DEF PortTx, PortRx, vars, txVars, rxVars
  <2> QED BY <1>1, <1>2, <2>1
<1>3. ASSUME NEW name \in Calls, Enter(name) PROVE UNCHANGED Port!vars
  BY <1>2, <1>3 DEF Enter, Go, InRing
<1>4. CASE RingPause
  BY <1>2, <1>4 DEF RingPause, Go, InRing
<1>5. CASE RingResume
  <2>1. UNCHANGED <<PortTx, PortRx>>
    BY <1>5 DEF RingResume, Go, InRing, PortTx, PortRx, vars, txVars, rxVars
  <2> QED BY <1>1, <1>5, <2>1 DEF RingResume
<1>6. CASE Return
  BY <1>2, <1>6 DEF Return, Go, InRing
<1>7. ASSUME NEW name \in Polls, NEW pointer \in {"head", "tail"}, PollFirst(name, pointer)
      PROVE  UNCHANGED Port!vars
  BY <1>2, <1>7 DEF PollFirst, Go, InRing
<1>8. CASE PollSecond
  BY <1>2, <1>8 DEF PollSecond, Go, InRing
<1>9. CASE MaskInterrupts
  BY <1>2, <1>9 DEF MaskInterrupts, InRing
<1>10. CASE RingCall
  BY <1>10, RingCallStutters
<1>11. CASE StartTransferIfIdle
  BY <1>11, StartIsWrite, StartIsRead DEF StartTransferIfIdle, Port!Next
<1>12. CASE UsbInterrupt /\ UNCHANGED callVars
  <2>1. pc \notin InCall /\ pc' = pc
    BY <1>12, InterruptOutside DEF callVars
  <2>2. PortTx = tx /\ PortRx = rx
    BY <2>1, Outside
  <2>3. PortTx' = tx' /\ PortRx' = rx'
    BY <2>1 DEF PortTx, PortRx, InRing, InCall
  <2> QED BY <1>12, <2>2, <2>3, InterruptIsPorts DEF UsbInterrupt, Port!Next
<1>13. CASE HostSteps /\ UNCHANGED callVars
  <2>1. ASSUME NEW n \in 0 .. N, HostOut(n) PROVE Port!Next
    BY <1>13, <2>1, HostOutIsPorts DEF Port!Next
  <2> QED BY <1>13, <2>1, HostInIsPorts, EndpointsOffIsPorts DEF HostSteps, Port!Next
<1>14. CASE UNCHANGED allVars
  <2>1. UNCHANGED vars /\ UNCHANGED callVars
    BY <1>14 DEF allVars
  <2>2. UNCHANGED <<PortTx, PortRx>>
    BY <2>1 DEF vars, txVars, rxVars, callVars, PortTx, PortRx, InRing
  <2> QED BY <1>1, <2>1, <2>2
<1> QED BY <1>3, <1>4, <1>5, <1>6, <1>7, <1>8, <1>9, <1>10, <1>11, <1>12, <1>13, <1>14
        DEF CallsNext

\* The nested critical sections implement the port of USBserial, in which write and
\* read_char are one step each: what is proved of it holds of the calls.
THEOREM CallsAreAtomic == CallsSpec => CallsAtomic
<1>1. CallsInv /\ [CallsNext]_allVars => [Port!Next]_(Port!vars)
  BY AtomicStep DEF CallsInv
<1>2. CallsInit => Port!Init
  BY AtomicInit
<1> QED BY <1>1, <1>2, CallsInvHolds, PTL DEF CallsSpec, CallsAtomic, Port!Spec
=============================================================================
