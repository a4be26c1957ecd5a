--------------------------------- MODULE Startup ---------------------------------
(***************************************************************************)
(* From reset to main(): Reset_Handler of core/cortex_handlers.c and       *)
(* SystemInit of core/startup.c, one step per register write or wait,      *)
(* against oscillators, DFLL and clock controller that take their time.    *)
(*                                                                         *)
(* The board is entered after a power-on, after a reset, which leaves the  *)
(* RAM and the 32 kHz oscillator as they were, or by a jump from a         *)
(* bootloader, which may leave its own clock tree behind.  A reset may     *)
(* come at any step.                                                       *)
(*                                                                         *)
(* A definition Mut_... is a faulty version of the one after it.           *)
(***************************************************************************)
EXTENDS Integers, Sequences

CONSTANTS
    Etext,          \* __etext, where the image of .data lies
    DataStart,      \* __data_start__
    DataWords       \* words between __data_start__ and __data_end__

\* The linker scripts put the image in flash and .data in RAM, and .data holds at
\* least SystemCoreClock.  Without either Reset_Handler would not clear .bss.
ASSUME LinkAssumption ==
    /\ Etext \in Nat /\ DataStart \in Nat \ {Etext}
    /\ DataWords \in Nat \ {0}

VARIABLES
    build,              \* "crystal" or "crystalless", the CRYSTALLESS macro
    fitted,             \* whether a working 32 kHz crystal is on the board
    pc,                 \* next step of Program
    data, bss,          \* whether .data and .bss hold their initial values
    constructed,        \* the port has installed its callbacks
    usb_isr,            \* handler called by USB_Handler
    SystemCoreClock,    \* in kHz
    systick,            \* reload value of SysTick, 0 while it is off
    usb,                \* state of the USB peripheral
    hw                  \* clock registers

ramVars  == <<data, bss, constructed, usb_isr, SystemCoreClock>>
coreVars == <<systick, usb>>
bootVars == <<build, fitted, pc, ramVars, coreVars, hw>>

-----------------------------------------------------------------------------
(* Clock registers.  gen[i] is the source of generic clock generator i,     *)
(* 4 standing for those the code does not use.                              *)

Generator == 0 .. 4
Source    == {"none", "OSC8M", "OSCULP32K", "OSC32K", "DFLL48M"}
AfterSwrst == [i \in Generator |-> CASE i = 0 -> "OSC8M" [] i = 2 -> "OSCULP32K"
                                     [] OTHER -> "none"]

DfllOff == [on |-> FALSE, mode |-> "open", ready |-> TRUE, locks |-> {}]
Locks   == {"coarse", "fine"}

Hardware == [rws : {0, 1}, osc32k : {"off", "starting", "ready"},
             gen : [Generator -> Source], mux0 : BOOLEAN,
             gclk : {"idle", "sync", "swrst"}, presc : {1, 8},
             dfll : [on : BOOLEAN, mode : {"open", "closed"}, ready : BOOLEAN,
                     locks : SUBSET Locks]]

AfterReset(osc) ==
    [rws |-> 0, osc32k |-> osc, gen |-> AfterSwrst, mux0 |-> FALSE,
     gclk |-> "idle", presc |-> 8, dfll |-> DfllOff]

\* Left by a bootloader that runs from the DFLL and uses a generator of its own.
FromBootloader(osc) ==
    [AfterReset(osc) EXCEPT
        !.rws = 1, !.mux0 = TRUE, !.presc = 1,
        !.gen = [i \in Generator |-> CASE i = 0 -> "DFLL48M" [] i = 1 -> "OSC32K"
                                       [] i = 2 -> "OSCULP32K" [] OTHER -> "OSC8M"],
        !.dfll = [on |-> TRUE, mode |-> "closed", ready |-> TRUE, locks |-> Locks]]

CpuKHz == IF hw.gen[0] = "DFLL48M" THEN 48000 ELSE 8000 \div hw.presc

-----------------------------------------------------------------------------
(* The program.                                                             *)

Mut_ClockReset == << >>                     \* the clock controller keeps its state
ClockReset == << "GclkReset", "WaitGclk" >>
Mut_ClosedLoop ==                           \* GCLK0 is switched before the lock
    << "DfllClosedLoop", "WaitDfll", "DfllEnable" >>
ClosedLoop == << "DfllClosedLoop", "WaitDfll", "DfllEnable", "WaitLocks" >>
UsbRecovery ==
    << "DfllTrim", "DfllDisable", "WaitDfll", "DfllUsbMode", "WaitDfll", "DfllEnable" >>

SystemInit ==
    << "FlashWait", "StartOsc32k", "WaitOsc32k" >> \o ClockReset \o
    << "Gen1Div", "WaitGclk", "Gen1Source", "WaitGclk", "DfllReference", "WaitGclk",
       "DfllOn", "WaitDfll", "DfllMul", "WaitDfll" >> \o
    (IF build = "crystalless" THEN UsbRecovery ELSE ClosedLoop) \o
    << "WaitDfll", "Gen0Div", "WaitGclk", "Gen0Source", "WaitGclk", "Osc8m", "Gen3",
       "WaitGclk", "BusClocks", "AdcCalibration", "SysTickConfig", "UsbInit", "UsbAttach" >>

Program == << "CopyData", "ClearBss", "LibcInitArray" >> \o SystemInit \o << "main" >>

At(step) == Program[pc] = step
Do(step) == At(step) /\ pc' = pc + 1 /\ UNCHANGED <<build, fitted>>

\* A step that touches clock registers only.  A write to the clock controller
\* stalls the bus while the last one is being synchronised.
Set(step, registers) == Do(step) /\ hw' = registers /\ UNCHANGED <<ramVars, coreVars>>
SetGclk(step, registers) == hw.gclk = "idle" /\ Set(step, registers)

-----------------------------------------------------------------------------
(* Reset_Handler.                                                           *)

\* "Initialize the initialized data section"
CopyData ==
    /\ Do("CopyData")
    /\ IF DataWords # 0 /\ Etext # DataStart
       THEN data' = "initial" /\ SystemCoreClock' = 1000
       ELSE UNCHANGED <<data, SystemCoreClock>>
    /\ UNCHANGED <<bss, constructed, usb_isr, coreVars, hw>>

\* The condition is the wrong way round: nothing is cleared.
Mut_ClearBss == Do("ClearBss") /\ UNCHANGED <<ramVars, coreVars, hw>>

\* "Clear the zero section", on the condition of the copy: pSrc and pDest have
\* both moved by DataWords.  The callback pointers and usb_isr are in .bss.
ClearBss ==
    /\ Do("ClearBss")
    /\ IF DataWords # 0 /\ Etext + DataWords # DataStart + DataWords
       THEN bss' = "zero" /\ constructed' = FALSE /\ usb_isr' = "NULL"
       ELSE UNCHANGED <<bss, constructed, usb_isr>>
    /\ UNCHANGED <<data, SystemCoreClock, coreVars, hw>>

\* __libc_init_array: the constructor of usbserial installs the callbacks.
LibcInitArray ==
    /\ Do("LibcInitArray")
    /\ constructed' = TRUE
    /\ UNCHANGED <<data, bss, usb_isr, SystemCoreClock, coreVars, hw>>

-----------------------------------------------------------------------------
(* SystemInit: clocks.                                                      *)

\* One flash wait state, needed above 24 MHz; the clock controller is clocked.
FlashWait == Set("FlashWait", [hw EXCEPT !.rws = 1])

\* OSC32K stays on if it is; XOSC32K is switched off and on.
StartOsc32k == Set("StartOsc32k",
    [hw EXCEPT !.osc32k = IF build = "crystalless" /\ @ = "ready" THEN "ready" ELSE "starting"])
WaitOsc32k == hw.osc32k = "ready" /\ Set("WaitOsc32k", hw)

GclkReset == SetGclk("GclkReset", [hw EXCEPT !.gclk = "swrst"])
WaitGclk  == hw.gclk = "idle" /\ Set("WaitGclk", hw)

Gen1Div       == SetGclk("Gen1Div", [hw EXCEPT !.gclk = "sync"])
Gen1Source    == SetGclk("Gen1Source", [hw EXCEPT !.gclk = "sync", !.gen[1] = "OSC32K"])
Mut_DfllReference == SetGclk("DfllReference", hw)       \* CLKEN is not set
DfllReference == SetGclk("DfllReference", [hw EXCEPT !.gclk = "sync", !.mux0 = TRUE])

\* A write to the DFLL takes effect; DFLLRDY is low until it is synchronised.
SetDfll(step, on, mode) == Set(step,
    [hw EXCEPT !.dfll = [on |-> on, mode |-> mode, ready |-> FALSE, locks |-> {}]])

DfllOn   == SetDfll("DfllOn", TRUE, "open")
DfllMul  == SetDfll("DfllMul", TRUE, "open")
WaitDfll == hw.dfll.ready /\ Set("WaitDfll", hw)

\* CRYSTALLESS: the DFLL starts from its factory value and follows the USB frames.
DfllTrim    == SetDfll("DfllTrim", TRUE, "open")
DfllDisable == SetDfll("DfllDisable", FALSE, "open")
DfllUsbMode == SetDfll("DfllUsbMode", FALSE, "closed")

\* With a crystal it locks to the reference.
DfllClosedLoop == SetDfll("DfllClosedLoop", TRUE, "closed")
DfllEnable     == SetDfll("DfllEnable", TRUE, "closed")
WaitLocks      == hw.dfll.locks = Locks /\ Set("WaitLocks", hw)

Gen0Div    == SetGclk("Gen0Div", [hw EXCEPT !.gclk = "sync"])
Gen0Source == SetGclk("Gen0Source", [hw EXCEPT !.gclk = "sync", !.gen[0] = "DFLL48M"])
Osc8m      == Set("Osc8m", [hw EXCEPT !.presc = 1])
Gen3       == SetGclk("Gen3", [hw EXCEPT !.gclk = "sync", !.gen[3] = "OSC8M"])

-----------------------------------------------------------------------------
(* SystemInit: what runs from the clocks.                                   *)

\* SystemCoreClock is not updated.
Mut_BusClocks == Set("BusClocks", hw)

\* The dividers already have these values; SystemCoreClock follows.
BusClocks ==
    /\ Do("BusClocks")
    /\ SystemCoreClock' = 48000
    /\ UNCHANGED <<data, bss, constructed, usb_isr, coreVars, hw>>

AdcCalibration == Set("AdcCalibration", hw)

\* SysTick_Config rejects 0 and what 24 bits do not hold; the code then stops.
SysTickConfig ==
    /\ Do("SysTickConfig")
    /\ SystemCoreClock \in 1 .. 2^24
    /\ systick' = SystemCoreClock
    /\ UNCHANGED <<usb, ramVars, hw>>

\* usb_init and usb_attach are the library's.  Nothing in the core calls
\* USB_SetHandler, so usb_init is assumed to.
UsbInit ==
    /\ Do("UsbInit")
    /\ usb' = "initialised" /\ usb_isr' = "usb_isr"
    /\ UNCHANGED <<systick, data, bss, constructed, SystemCoreClock, hw>>

UsbAttach ==
    /\ Do("UsbAttach")
    /\ usb' = "attached"
    /\ UNCHANGED <<systick, ramVars, hw>>

Step ==
    \/ CopyData \/ ClearBss \/ LibcInitArray
    \/ FlashWait \/ StartOsc32k \/ WaitOsc32k \/ GclkReset \/ WaitGclk
    \/ Gen1Div \/ Gen1Source \/ DfllReference
    \/ DfllOn \/ DfllMul \/ WaitDfll \/ DfllTrim \/ DfllDisable \/ DfllUsbMode
    \/ DfllClosedLoop \/ DfllEnable \/ WaitLocks
    \/ Gen0Div \/ Gen0Source \/ Osc8m \/ Gen3
    \/ BusClocks \/ AdcCalibration \/ SysTickConfig \/ UsbInit \/ UsbAttach

-----------------------------------------------------------------------------
(* The hardware.                                                            *)

Becomes(registers) == hw' = registers /\ UNCHANGED <<build, fitted, pc, ramVars, coreVars>>

\* "CTRL.SWRST and STATUS.SYNCBUSY will both be cleared when the reset is complete"
GclkDone ==
    \/ hw.gclk = "sync"  /\ Becomes([hw EXCEPT !.gclk = "idle"])
    \/ hw.gclk = "swrst" /\ Becomes([hw EXCEPT !.gclk = "idle", !.gen = AfterSwrst,
                                               !.mux0 = FALSE])
OscReady ==
    /\ hw.osc32k = "starting" /\ (build = "crystalless" \/ fitted)
    /\ Becomes([hw EXCEPT !.osc32k = "ready"])
DfllSynced == ~hw.dfll.ready /\ Becomes([hw EXCEPT !.dfll.ready = TRUE])

\* With a reference the DFLL locks, coarse before fine.
DfllLocks ==
    /\ hw.dfll.on /\ hw.dfll.ready /\ hw.dfll.mode = "closed" /\ build = "crystal"
    /\ hw.osc32k = "ready" /\ hw.gen[1] = "OSC32K" /\ hw.mux0
    /\ hw.dfll.locks # Locks
    /\ Becomes([hw EXCEPT !.dfll.locks = IF @ = {} THEN {"coarse"} ELSE Locks])

HardwareStep == GclkDone \/ OscReady \/ DfllSynced \/ DfllLocks

\* What Reset_Handler may find.
OscLeft  == {"off"} \cup (IF build = "crystalless" \/ fitted THEN {"ready"} ELSE {})
Leftover == {AfterReset(osc) : osc \in OscLeft} \cup {FromBootloader(osc) : osc \in OscLeft}

BootInit ==
    /\ build \in {"crystal", "crystalless"} /\ fitted \in BOOLEAN
    /\ pc = 1
    /\ data = "stale" /\ bss = "stale" /\ constructed = FALSE /\ usb_isr = "stale"
    /\ SystemCoreClock \in {0, 48000}
    /\ systick = 0 /\ usb = "off"
    /\ hw \in Leftover

Reset ==
    /\ pc' = 1
    /\ data' = "stale" /\ bss' = "stale" /\ constructed' = FALSE /\ usb_isr' = "stale"
    /\ systick' = 0 /\ usb' = "off"
    /\ hw' \in Leftover
    /\ UNCHANGED <<build, fitted, SystemCoreClock>>

BootFairness == /\ WF_bootVars(Step)
                /\ WF_bootVars(GclkDone) /\ WF_bootVars(OscReady)
                /\ WF_bootVars(DfllSynced) /\ WF_bootVars(DfllLocks)

-----------------------------------------------------------------------------
(* Properties.                                                              *)

\* Every register and variable that Reset_Handler and SystemInit write has its
\* type, and the step counter stays inside the program.
BootTypeOK ==
    /\ build \in {"crystal", "crystalless"} /\ fitted \in BOOLEAN
    /\ pc \in 1 .. Len(Program)
    /\ data \in {"stale", "initial"} /\ bss \in {"stale", "zero"}
    /\ constructed \in BOOLEAN /\ usb_isr \in {"stale", "NULL", "usb_isr"}
    /\ SystemCoreClock \in {0, 1000, 48000}
    /\ systick \in {0, 1000, 48000} /\ usb \in {"off", "initialised", "attached"}
    /\ hw \in Hardware

\* The processor never runs from a DFLL that is off, being rewritten or, with a
\* crystal, not locked yet; at 48 MHz the flash has its wait state.  Whatever
\* clock tree a bootloader left, SystemInit takes it down before it touches the
\* DFLL.
CpuClockSteady ==
    /\ hw.gen[0] = "DFLL48M" => /\ hw.dfll.on /\ hw.dfll.ready
                                /\ build = "crystal" => hw.dfll.locks = Locks
    /\ CpuKHz > 24000 => hw.rws = 1

\* Before SysTick or USB can interrupt, .data and .bss hold their initial values
\* and the constructors have installed the callbacks and not lost them again;
\* USB_Handler never calls a pointer left in RAM by the last run.
MemoryBeforeInterrupts ==
    systick # 0 \/ usb # "off" =>
        /\ data = "initial" /\ bss = "zero" /\ constructed
        /\ usb # "off" => usb_isr = "usb_isr"

\* SysTick interrupts once per millisecond of the clock the processor really has,
\* which is what delay() and tickReset() count in.
TickIsMillisecond == systick # 0 => systick = CpuKHz

\* main() finds the same clock tree however the board was entered.
SameClocksInMain ==
    At("main") =>
        /\ hw.gen = [AfterSwrst EXCEPT ![0] = "DFLL48M", ![1] = "OSC32K", ![3] = "OSC8M"]
        /\ hw.mux0 /\ hw.rws = 1 /\ hw.presc = 1 /\ hw.gclk = "idle"

\* Every wait of SystemInit ends: unless it is reset for ever, or built for a
\* crystal that does not work, the board reaches main().
ReachesMain ==
    \/ []<><<Reset>>_bootVars
    \/ build = "crystal" /\ ~fitted
    \/ <>At("main")
=============================================================================
