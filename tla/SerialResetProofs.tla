---------------------------- MODULE SerialResetProofs ----------------------------
(***************************************************************************)
(* Proofs about SerialReset for every countdown length, set of line rates  *)
(* and set of application addresses.                                       *)
(*                                                                         *)
(* The invariants are not inductive by themselves: what tickReset holds in *)
(* its register between its two steps has to be related to `ticks'.        *)
(***************************************************************************)
EXTENDS SerialReset, TLAPS

\* tickReset holds a positive count, which is still `ticks' unless a request
\* came in between; the count is 0 only on the way into banzai.
TickWindow ==
    /\ pc = "loaded" => reg > 0 /\ age + reg <= Ticks
    /\ pc = "loaded" /\ ~raced => reg = ticks
    /\ ticks = 0 => pc = "banzai"

\* No decrement has been counted since a cancel, and never more than Ticks.
AgeBounds ==
    /\ ticks = NoReset => age = 0
    /\ ticks # NoReset => age + ticks <= Ticks

IInv == /\ TypeOK /\ TickWindow /\ AgeBounds
        /\ RequestNotLost /\ ArmedMatchesPort /\ FullDelay /\ BootloaderSpared

\* The state in which the application starts satisfies the invariant.
LEMMA InitInv == Init => IInv
<1> SUFFICES ASSUME Init PROVE IInv
  OBVIOUS
<1>1. TypeOK
  <2>1. ticks \in NoReset .. Ticks /\ reg \in 0 .. Ticks /\ age \in 0 .. Ticks
    BY TicksAssumption DEF Init, NoReset
  <2> QED BY <2>1 DEF Init, TypeOK
<1>2. TickWindow /\ AgeBounds /\ FullDelay
  BY DEF Init, TickWindow, AgeBounds, FullDelay, NoReset
<1>3. ~ResetWanted(baud_rate, DTR)
  BY DEF Init, ResetWanted, TouchBaud, StartBaud
<1>4. RequestNotLost /\ ArmedMatchesPort /\ BootloaderSpared
  BY <1>3 DEF Init, RequestNotLost, ArmedMatchesPort, BootloaderSpared
<1> QED BY <1>1, <1>2, <1>4 DEF IInv

\* detectSerialReset re-establishes every relation, whatever tickReset was doing.
LEMMA DetectInv ==
  ASSUME IInv, device = "application", UNCHANGED <<pc, reg, APP_START, device, erased>>,
         DetectSerialReset(baud_rate', DTR'),
         baud_rate' \in Bauds \cup {StartBaud}, DTR' \in BOOLEAN,
         _usbPendingNewLineInfo' \in BOOLEAN, stage' \in {"none", "data", "status"}
  PROVE  IInv'
<1> USE DEF DetectSerialReset, initiateReset, cancelReset, NoReset
<1>1. TypeOK'
  BY TicksAssumption DEF IInv, TypeOK, ResetWanted
<1>2. TickWindow'
  <2>1. pc' = "loaded" => reg' > 0 /\ age' + reg' <= Ticks
    BY TicksAssumption DEF IInv, TypeOK, TickWindow
  <2>2. pc' = "loaded" => raced'
    OBVIOUS
  <2>3. ticks' # 0
    BY TicksAssumption
  <2> QED BY <2>1, <2>2, <2>3 DEF TickWindow
<1>3. AgeBounds'
  BY TicksAssumption DEF IInv, AgeBounds
<1>4. (RequestNotLost /\ ArmedMatchesPort)'
  BY TicksAssumption DEF RequestNotLost, ArmedMatchesPort
<1>5. (FullDelay /\ BootloaderSpared)'
  BY TicksAssumption
  DEF IInv, FullDelay, BootloaderSpared
<1> QED BY <1>1, <1>2, <1>3, <1>4, <1>5 DEF IInv

\* A request that does not evaluate the reset condition changes only what the
\* type invariant speaks of.
LEMMA NoDetectInv ==
  ASSUME IInv, NoDetect, UNCHANGED <<pc, reg, APP_START, device, erased, baud_rate, DTR>>,
         _usbPendingNewLineInfo' \in BOOLEAN, stage' \in {"none", "data", "status"}
  PROVE  IInv'
  BY DEF IInv, TypeOK, TickWindow, AgeBounds, RequestNotLost, ArmedMatchesPort,
         FullDelay, BootloaderSpared, NoDetect

\* Each control request of core/USB-CDC.c preserves the invariant.
LEMMA RequestInv == IInv /\ Request => IInv'
<1> SUFFICES ASSUME IInv, Request PROVE IInv'
  OBVIOUS
<1> USE DEF UsbRuns, tickVars, bootVars
<1>1. CASE GetLineEncoding
  BY <1>1, NoDetectInv DEF GetLineEncoding, IInv, TypeOK
<1>2. ASSUME NEW hasData \in BOOLEAN, SetLineEncoding(hasData) PROVE IInv'
  <2>1. _usbPendingNewLineInfo' \in BOOLEAN /\ stage' \in {"none", "data", "status"}
    BY <1>2 DEF SetLineEncoding, IInv, TypeOK
  <2> QED BY <1>2, <2>1, NoDetectInv DEF SetLineEncoding
<1>3. ASSUME NEW dtr \in BOOLEAN, SetControlLineState(dtr) PROVE IInv'
  <2>1. DetectSerialReset(baud_rate', DTR')
    BY <1>3 DEF SetControlLineState
  <2> QED BY <1>3, <2>1, DetectInv DEF SetControlLineState, IInv, TypeOK
<1>4. CASE OtherRequest
  BY <1>4, NoDetectInv DEF OtherRequest, IInv, TypeOK
<1>5. ASSUME NEW rate \in Bauds \cup {StartBaud}, ControlOutCompletion(rate) PROVE IInv'
  <2>1. CASE _usbPendingNewLineInfo
    <3>1. DetectSerialReset(baud_rate', DTR')
      BY <1>5, <2>1 DEF ControlOutCompletion
    <3> QED BY <1>5, <2>1, <3>1, DetectInv DEF ControlOutCompletion, IInv, TypeOK
  <2>2. CASE ~_usbPendingNewLineInfo
    BY <1>5, <2>2, NoDetectInv DEF ControlOutCompletion
  <2> QED BY <2>1, <2>2
<1> QED BY <1>1, <1>2, <1>3, <1>4, <1>5 DEF Request

\* So does each step of SysTick, banzai and the restart.
LEMMA TickInv == IInv /\ (TickLoad \/ TickStore \/ Banzai \/ Restart) => IInv'
<1> SUFFICES ASSUME IInv, TickLoad \/ TickStore \/ Banzai \/ Restart PROVE IInv'
  OBVIOUS
<1> USE TicksAssumption DEF IInv, TypeOK, TickWindow, AgeBounds, RequestNotLost,
    ArmedMatchesPort, FullDelay, BootloaderSpared, ResetWanted, NoReset, NoRow,
    lineVars, tickVars, bootVars
<1>1. CASE TickLoad
  BY <1>1 DEF TickLoad
<1>2. CASE TickStore
  <2>1. ticks' = reg - 1 /\ reg - 1 \in 0 .. Ticks /\ age' = age + 1
    BY <1>2 DEF TickStore
  <2>2. TypeOK' /\ AgeBounds' /\ RequestNotLost' /\ BootloaderSpared'
    BY <1>2, <2>1 DEF TickStore
  <2>3. TickWindow'
    BY <1>2, <2>1 DEF TickStore
  <2>4. ArmedMatchesPort' /\ FullDelay'
    BY <1>2, <2>1 DEF TickStore
  <2> QED BY <2>2, <2>3, <2>4
<1>3. CASE Banzai
  <2>1. erased' # NoRow => erased' * RowSize >= 512
    BY <1>3, StartAssumption DEF Banzai, MinAppStart, RowSize
  <2>2. erased' \in {NoRow} \cup Nat
    BY <1>3, StartAssumption DEF Banzai, MinAppStart, RowSize
  <2>3. UNCHANGED <<lineVars, ticks, tickVars, APP_START, raced, age, opened>>
    BY <1>3 DEF Banzai
  <2>4. device' \in {"application", "resetting"}
    BY <1>3 DEF Banzai
  <2> QED BY <2>1, <2>2, <2>3, <2>4
<1>4. CASE Restart
  <2>1. TypeOK'
    <3>1. ticks' \in NoReset .. Ticks /\ reg' \in 0 .. Ticks /\ age' \in 0 .. Ticks
      BY <1>4 DEF Restart, Started
    <3>2. /\ baud_rate' \in Bauds \cup {StartBaud} /\ DTR' \in BOOLEAN
          /\ _usbPendingNewLineInfo' \in BOOLEAN /\ raced' \in BOOLEAN
          /\ opened' \in BOOLEAN
      BY <1>4 DEF Restart, Started
    <3>3. /\ stage' \in {"none", "data", "status"}
          /\ pc' \in {"idle", "loaded", "banzai"}
          /\ device' \in {"application", "resetting"}
      BY <1>4 DEF Restart, Started
    <3> QED BY <1>4, <3>1, <3>2, <3>3 DEF Restart
  <2>2. ~ResetWanted(baud_rate, DTR)'
    BY <1>4 DEF Restart, Started, TouchBaud, StartBaud
  <2> QED BY <1>4, <2>1, <2>2 DEF Restart, Started
<1> QED BY <1>1, <1>2, <1>3, <1>4

\* The invariant holds in every reachable state.
THEOREM IInvHolds == Spec => []IInv
<1>1. IInv /\ [Next]_vars => IInv'
  <2> SUFFICES ASSUME IInv, [Next]_vars PROVE IInv'
    OBVIOUS
  <2>1. CASE UNCHANGED vars
    BY <2>1 DEF vars, lineVars, tickVars, bootVars, IInv, TypeOK, TickWindow, AgeBounds,
                RequestNotLost, ArmedMatchesPort, FullDelay, BootloaderSpared
  <2> QED BY <2>1, RequestInv, TickInv DEF Next
<1> QED BY <1>1, InitInv, PTL DEF Spec

\* The countdown of core/Reset.cpp stays in range whatever pre-empts tickReset.
THEOREM TypeCorrect == Spec => []TypeOK
  BY IInvHolds, PTL DEF IInv

\* detectSerialReset never loses a request: a port closed at 1200 bps always
\* has a countdown.
THEOREM RequestNeverLost == Spec => []RequestNotLost
  BY IInvHolds, PTL DEF IInv

\* A countdown outlives the request that cancels it only if that request
\* pre-empted tickReset between its read and its write of ticks.
THEOREM ArmedExactly == Spec => []ArmedMatchesPort
  BY IInvHolds, PTL DEF IInv

\* The delay is exactly the argument of initiateReset, outside that race.
THEOREM DelayIsFull == Spec => []FullDelay
  BY IInvHolds, PTL DEF IInv

\* banzai spares the bootloader and the vectors for every APP_START.
THEOREM BootloaderIsSpared == Spec => []BootloaderSpared
  BY IInvHolds, PTL DEF IInv
=============================================================================
