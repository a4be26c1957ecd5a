------------------------------- MODULE SerialReset -------------------------------
(***************************************************************************)
(* Reset into the bootloader over the serial port: the CDC control         *)
(* requests of core/USB-CDC.c, the countdown of core/Reset.cpp and the     *)
(* SysTick handler that drives it (core/delay.c).                          *)
(*                                                                         *)
(* core/startup.c leaves the USB interrupt at the reset priority and puts  *)
(* SysTick below it, so that the control requests run to the end but       *)
(* tickReset may be pre-empted by them anywhere: `ticks' is read, and      *)
(* written back, in separate steps.  banzai() starts by disabling          *)
(* interrupts and is one step.                                             *)
(*                                                                         *)
(* A definition Mut_... is a faulty version of the one after it.           *)
(***************************************************************************)
EXTENDS Integers

CONSTANTS
    Ticks,          \* argument of initiateReset: 250 ms in the code
    Bauds,          \* line rates the host may set
    AppStarts       \* values of APP_START over the linker scripts

TouchBaud  == 1200
StartBaud  == 115200
MinAppStart == 512 + 4      \* smallest bootloader, plus the word APP_START adds
RowSize    == 256           \* bytes the NVM controller erases at a time
NoReset    == -1
NoRow      == -1

ASSUME TicksAssumption == Ticks \in Nat \ {0}
ASSUME BaudAssumption  == Bauds \subseteq Nat
ASSUME StartAssumption == AppStarts \subseteq Nat

VARIABLES
    APP_START,                  \* address of the second word of the application
    baud_rate,                  \* _usbLineInfo.baud_rate
    DTR,                        \* the bit of _usbCtrlLineInfo that is tested
    _usbPendingNewLineInfo,
    stage,                      \* OUT packet the host may send next on endpoint 0
    ticks,                      \* countdown to the reset
    pc, reg,                    \* where tickReset is, and its copy of ticks
    device,                     \* what the processor is doing
    erased,                     \* row of flash erased by banzai
    raced,                      \* history: the last evaluation of the reset
                                \* condition came inside tickReset
    age,                        \* history: decrements since that evaluation
    opened                      \* history: the port has been open at 1200

lineVars == <<baud_rate, DTR, _usbPendingNewLineInfo, stage>>
tickVars == <<pc, reg>>
bootVars == <<APP_START, device, erased>>
vars == <<lineVars, ticks, tickVars, bootVars, raced, age, opened>>

\* "We check DTR state to determine if host port is open."
ResetWanted(baud, dtr) == baud = TouchBaud /\ ~dtr

initiateReset(_ticks) == ticks' = _ticks
cancelReset == ticks' = NoReset

\* The state the application starts with, after every reset.
Started ==
    /\ baud_rate' = StartBaud /\ DTR' = FALSE
    /\ _usbPendingNewLineInfo' = FALSE /\ stage' = "none"
    /\ ticks' = NoReset
    /\ pc' = "idle" /\ reg' = 0
    /\ raced' = FALSE /\ age' = 0 /\ opened' = FALSE

Init ==
    /\ APP_START \in AppStarts
    /\ baud_rate = StartBaud /\ DTR = FALSE
    /\ _usbPendingNewLineInfo = FALSE /\ stage = "none"
    /\ ticks = NoReset
    /\ pc = "idle" /\ reg = 0
    /\ device = "application" /\ erased = NoRow
    /\ raced = FALSE /\ age = 0 /\ opened = FALSE

-----------------------------------------------------------------------------
(* Control requests.  The USB interrupt pre-empts everything but itself     *)
(* and banzai.                                                              *)

Mut_History == raced' = (pc # "idle") /\ age' = 0 /\ UNCHANGED opened

\* The rate before the change is tested; a countdown is not cancelled; a second
\* request does not restart it.
Mut_DetectOldRate(dataRate, dtr) ==
    ticks' = (IF ResetWanted(baud_rate, dtr) THEN Ticks ELSE NoReset) /\ Mut_History
Mut_DetectNoCancel(dataRate, dtr) ==
    ticks' = (IF ResetWanted(dataRate, dtr) THEN Ticks ELSE ticks) /\ Mut_History
Mut_DetectNoRestart(dataRate, dtr) ==
    /\ ticks' = CASE ~ResetWanted(dataRate, dtr) -> NoReset
                  [] ResetWanted(dataRate, dtr) /\ ticks = NoReset -> Ticks
                  [] OTHER -> ticks
    /\ Mut_History

DetectSerialReset(dataRate, dtr) ==
    /\ \/ ResetWanted(dataRate, dtr) /\ initiateReset(Ticks)
       \/ ~ResetWanted(dataRate, dtr) /\ cancelReset
    /\ raced' = (pc # "idle")
    /\ age' = 0
    /\ opened' = (opened \/ (dataRate = TouchBaud /\ dtr))

UsbRuns == device = "application" /\ UNCHANGED <<tickVars, bootVars>>
NoDetect == UNCHANGED <<ticks, raced, age, opened>>

\* The answer is followed by an empty OUT packet, the status stage.
GetLineEncoding ==
    /\ UsbRuns
    /\ stage' = "status"
    /\ UNCHANGED <<baud_rate, DTR, _usbPendingNewLineInfo>> /\ NoDetect

\* A request that announces data is followed by an OUT packet with it.
SetLineEncoding(hasData) ==
    /\ UsbRuns
    /\ _usbPendingNewLineInfo' = (hasData \/ _usbPendingNewLineInfo)
    /\ stage' = IF hasData THEN "data" ELSE "none"
    /\ UNCHANGED <<baud_rate, DTR>> /\ NoDetect

SetControlLineState(dtr) ==
    /\ UsbRuns
    /\ DTR' = dtr
    /\ DetectSerialReset(baud_rate, dtr)
    /\ stage' = "none"
    /\ UNCHANGED <<baud_rate, _usbPendingNewLineInfo>>

\* CDC_SEND_BREAK, every request answered with a stall, and a bus reset, for
\* which usb_cb_reset does nothing.
OtherRequest ==
    /\ UsbRuns
    /\ stage' = "none"
    /\ UNCHANGED <<baud_rate, DTR, _usbPendingNewLineInfo>> /\ NoDetect

\* usb_cb_control_out_completion.  rate is baud_rate after the memcpy: a data
\* stage may hold a whole rate, its low bytes only, or nothing.
ControlOutCompletion(rate) ==
    /\ UsbRuns
    /\ stage # "none" /\ stage' = "none"
    /\ stage = "status" => rate = baud_rate
    /\ \/ /\ _usbPendingNewLineInfo
          /\ baud_rate' = rate
          /\ DetectSerialReset(rate, DTR)
       \/ /\ ~_usbPendingNewLineInfo
          /\ UNCHANGED baud_rate /\ NoDetect
    /\ _usbPendingNewLineInfo' = FALSE
    /\ UNCHANGED DTR

Request ==
    \/ GetLineEncoding
    \/ \E hasData \in BOOLEAN : SetLineEncoding(hasData)
    \/ \E dtr \in BOOLEAN : SetControlLineState(dtr)
    \/ OtherRequest
    \/ \E rate \in Bauds \cup {StartBaud} : ControlOutCompletion(rate)

-----------------------------------------------------------------------------
(* SysTick.                                                                 *)

\* The test for "no reset pending" is missing from tickReset.
Mut_TickLoad ==
    /\ device = "application" /\ pc = "idle"
    /\ pc' = "loaded" /\ reg' = ticks
    /\ UNCHANGED <<lineVars, ticks, bootVars, raced, age, opened>>

\* tickReset() reads ticks; nothing to do when no reset is pending.
TickLoad ==
    /\ device = "application" /\ pc = "idle" /\ ticks # NoReset
    /\ pc' = "loaded" /\ reg' = ticks
    /\ UNCHANGED <<lineVars, ticks, bootVars, raced, age, opened>>

\* The end of the countdown is missed.
Mut_TickStore ==
    /\ device = "application" /\ pc = "loaded"
    /\ ticks' = reg - 1 /\ pc' = "idle" /\ reg' = 0 /\ age' = age + 1
    /\ UNCHANGED <<lineVars, bootVars, raced, opened>>

\* It writes back the value read, less one.
TickStore ==
    /\ device = "application" /\ pc = "loaded"
    /\ ticks' = reg - 1
    /\ pc' = IF reg - 1 = 0 THEN "banzai" ELSE "idle"
    /\ reg' = 0
    /\ age' = age + 1
    /\ UNCHANGED <<lineVars, bootVars, raced, opened>>

\* APP_START is not tested.
Mut_Banzai ==
    /\ device = "application" /\ pc = "banzai"
    /\ device' = "resetting" /\ erased' = APP_START \div RowSize
    /\ UNCHANGED <<lineVars, ticks, tickVars, APP_START, raced, age, opened>>

\* banzai(): erase the row the application starts in, unless it belongs to a
\* bootloader, and reset.
Banzai ==
    /\ device = "application" /\ pc = "banzai"
    /\ device' = "resetting"
    /\ \/ APP_START < MinAppStart /\ UNCHANGED erased
       \/ APP_START >= MinAppStart /\ erased' = APP_START \div RowSize
    /\ UNCHANGED <<lineVars, ticks, tickVars, APP_START, raced, age, opened>>

\* With an application the reset starts it; without one the bootloader stays.
Restart ==
    /\ device = "resetting" /\ erased = NoRow
    /\ device' = "application"
    /\ Started
    /\ UNCHANGED <<APP_START, erased>>

Next == Request \/ TickLoad \/ TickStore \/ Banzai \/ Restart

Spec == Init /\ [][Next]_vars

\* SysTick fires every millisecond and its handler ends.
Fairness == WF_vars(TickLoad) /\ WF_vars(TickStore) /\ WF_vars(Banzai)
FairSpec == Spec /\ Fairness

-----------------------------------------------------------------------------
(* Properties.                                                              *)

\* Every field of the control handlers, tickReset and banzai has its type; the
\* countdown of core/Reset.cpp never leaves -1 .. Ticks (in particular, a race
\* never takes it below -1, from where it would run on for ever).
TypeOK ==
    /\ APP_START \in AppStarts
    /\ baud_rate \in Bauds \cup {StartBaud} /\ DTR \in BOOLEAN
    /\ _usbPendingNewLineInfo \in BOOLEAN /\ stage \in {"none", "data", "status"}
    /\ ticks \in NoReset .. Ticks
    /\ pc \in {"idle", "loaded", "banzai"} /\ reg \in 0 .. Ticks
    /\ device \in {"application", "resetting"}
    /\ erased \in {NoRow} \cup Nat
    /\ raced \in BOOLEAN /\ age \in 0 .. Ticks /\ opened \in BOOLEAN

\* A request to reset is never lost: while the port is closed at 1200 bps the
\* countdown of detectSerialReset runs, even if tickReset was pre-empted.
RequestNotLost == ResetWanted(baud_rate, DTR) => ticks # NoReset

\* A countdown runs only while the port is closed at 1200 bps, unless the
\* request that ended this state pre-empted tickReset, whose late write-back
\* then undoes cancelReset.  No other interleaving keeps a countdown alive.
ArmedMatchesPort == ~raced => (ticks # NoReset <=> ResetWanted(baud_rate, DTR))

\* The reset comes exactly Ticks SysTick interrupts after the last evaluation of
\* the condition: each request restarts the delay, and no decrement is lost or
\* counted twice unless a request pre-empted tickReset.
FullDelay == ~raced /\ ticks # NoReset => age + ticks = Ticks

\* banzai never erases a row of the smallest bootloader, nor the vectors of an
\* application linked without one.
BootloaderSpared == erased # NoRow => erased * RowSize >= 512

\* A reset that stays wanted happens: unless the host sends requests for ever,
\* tickReset counts down and banzai resets the device.
ResetHappens ==
    \/ []<><<Request>>_vars
    \/ ResetWanted(baud_rate, DTR) ~> \/ device = "resetting"
                                      \/ ~ResetWanted(baud_rate, DTR)

\* core/USB-CDC.c:284: the application is erased only when the port was closed
\* at 1200 bps, so never while it is open or set to another rate.
ErasedOnlyWhenClosed == [][erased' # erased => ResetWanted(baud_rate, DTR)]_vars

\* core/USB-CDC.c:284: "auto-reset into the bootloader is triggered when the port,
\* already open at 1200 bps, is closed": a countdown starts only after that.
ArmedOnlyAfterOpen == ticks # NoReset => opened
=============================================================================
