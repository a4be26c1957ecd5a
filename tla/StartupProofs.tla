------------------------------ MODULE StartupProofs ------------------------------
(***************************************************************************)
(* What main() and the interrupts may rely on after Reset_Handler and      *)
(* SystemInit, and what a host may rely on after the enumeration: the      *)
(* invariants of Startup and Enumeration, however the board was entered    *)
(* and whenever it is reset.                                               *)
(*                                                                         *)
(* Each part of the invariant says what holds from a step of the program   *)
(* on, so the steps are numbered first.                                    *)
(***************************************************************************)
EXTENDS Enumeration, TLAPS

-----------------------------------------------------------------------------
(* The steps of the program, by number.                                     *)

\* The last step that writes or waits for the DFLL of its own build.
DfllSteps == IF build = "crystal" THEN 22 ELSE 24

\* SystemInit as built for a crystal.
LEMMA CrystalProgram ==
    ASSUME build = "crystal"
    PROVE
     /\ Len(Program) = 36 /\ Program[1] = "CopyData"
     /\ Program[2] = "ClearBss" /\ Program[3] = "LibcInitArray"
     /\ Program[4] = "FlashWait" /\ Program[5] = "StartOsc32k"
     /\ Program[6] = "WaitOsc32k" /\ Program[7] = "GclkReset"
     /\ Program[8] = "WaitGclk" /\ Program[9] = "Gen1Div"
     /\ Program[10] = "WaitGclk" /\ Program[11] = "Gen1Source"
     /\ Program[12] = "WaitGclk" /\ Program[13] = "DfllReference"
     /\ Program[14] = "WaitGclk" /\ Program[15] = "DfllOn"
     /\ Program[16] = "WaitDfll" /\ Program[17] = "DfllMul"
     /\ Program[18] = "WaitDfll" /\ Program[19] = "DfllClosedLoop"
     /\ Program[20] = "WaitDfll" /\ Program[21] = "DfllEnable"
     /\ Program[22] = "WaitLocks" /\ Program[23] = "WaitDfll"
     /\ Program[24] = "Gen0Div" /\ Program[25] = "WaitGclk"
     /\ Program[26] = "Gen0Source" /\ Program[27] = "WaitGclk"
     /\ Program[28] = "Osc8m" /\ Program[29] = "Gen3"
     /\ Program[30] = "WaitGclk" /\ Program[31] = "BusClocks"
     /\ Program[32] = "AdcCalibration" /\ Program[33] = "SysTickConfig"
     /\ Program[34] = "UsbInit" /\ Program[35] = "UsbAttach"
     /\ Program[36] = "main"
  BY SMTT(60) DEF Program, SystemInit, ClockReset, ClosedLoop, UsbRecovery

\* SystemInit as built with CRYSTALLESS.
LEMMA CrystallessProgram ==
    ASSUME build = "crystalless"
    PROVE
     /\ Len(Program) = 38 /\ Program[1] = "CopyData"
     /\ Program[2] = "ClearBss" /\ Program[3] = "LibcInitArray"
     /\ Program[4] = "FlashWait" /\ Program[5] = "StartOsc32k"
     /\ Program[6] = "WaitOsc32k" /\ Program[7] = "GclkReset"
     /\ Program[8] = "WaitGclk" /\ Program[9] = "Gen1Div"
     /\ Program[10] = "WaitGclk" /\ Program[11] = "Gen1Source"
     /\ Program[12] = "WaitGclk" /\ Program[13] = "DfllReference"
     /\ Program[14] = "WaitGclk" /\ Program[15] = "DfllOn"
     /\ Program[16] = "WaitDfll" /\ Program[17] = "DfllMul"
     /\ Program[18] = "WaitDfll" /\ Program[19] = "DfllTrim"
     /\ Program[20] = "DfllDisable" /\ Program[21] = "WaitDfll"
     /\ Program[22] = "DfllUsbMode" /\ Program[23] = "WaitDfll"
     /\ Program[24] = "DfllEnable" /\ Program[25] = "WaitDfll"
     /\ Program[26] = "Gen0Div" /\ Program[27] = "WaitGclk"
     /\ Program[28] = "Gen0Source" /\ Program[29] = "WaitGclk"
     /\ Program[30] = "Osc8m" /\ Program[31] = "Gen3"
     /\ Program[32] = "WaitGclk" /\ Program[33] = "BusClocks"
     /\ Program[34] = "AdcCalibration" /\ Program[35] = "SysTickConfig"
     /\ Program[36] = "UsbInit" /\ Program[37] = "UsbAttach"
     /\ Program[38] = "main"
  BY SMTT(60) DEF Program, SystemInit, ClockReset, ClosedLoop, UsbRecovery

-----------------------------------------------------------------------------
(* The invariant.                                                           *)

\* What the C start-up and SystemInit have done to memory, SysTick and USB.
MemoryInv ==
    /\ pc > 1 => data = "initial"
    /\ pc > 2 => bss = "zero"
    /\ pc > 3 => constructed
    /\ pc > DfllSteps + 9 => SystemCoreClock = 48000
    /\ systick # 0 => pc > DfllSteps + 11 /\ systick = 48000
    /\ usb # "off" => pc > DfllSteps + 12
    /\ pc > DfllSteps + 12 => usb_isr = "usb_isr"

\* The generators, once the reset of the clock controller is done: the processor has
\* the internal oscillator until the DFLL is ready.
Tree == [AfterSwrst EXCEPT ![0] = IF pc > DfllSteps + 4 THEN "DFLL48M" ELSE "OSC8M",
                           ![1] = IF pc > 11 THEN "OSC32K" ELSE "none",
                           ![3] = IF pc > DfllSteps + 7 THEN "OSC8M" ELSE "none"]
GclkInv ==
    /\ hw.gclk = "swrst" => pc = 8
    /\ pc > 8 \/ (pc = 8 /\ hw.gclk # "swrst") => hw.gen = Tree
    /\ pc > 13 => hw.mux0
    /\ pc > DfllSteps + 8 => hw.gclk = "idle"
    /\ pc > DfllSteps + 6 => hw.presc = 1

\* The DFLL, from its last write on; before, a bootloader may run from it, and then
\* it is steady until the processor has left it.
DfllInv ==
    /\ pc <= 8 /\ hw.gen[0] = "DFLL48M" =>
         hw.rws = 1 /\ hw.dfll.on /\ hw.dfll.ready /\ hw.dfll.locks = Locks
    /\ pc > 4 => hw.rws = 1
    /\ pc > DfllSteps \/ (pc = DfllSteps /\ build = "crystal") => hw.dfll.on
    /\ pc > DfllSteps /\ build = "crystal" => hw.dfll.locks = Locks
    /\ pc > DfllSteps + 1 => hw.dfll.ready

BootInv == BootTypeOK /\ MemoryInv /\ GclkInv /\ DfllInv

\* What the host has read, and what the device has enabled for it.
HostInv ==
    /\ endpoints \in SUBSET EnabledEndpoints /\ faulted \in BOOLEAN
    /\ phase \in {"away", "device", "strings", "choose", "configured"}
    /\ ask \subseteq 0 .. 3 /\ strayed \in BOOLEAN
    /\ phase \in {"choose", "configured"} => pipes = PipesOf(ConfigurationDescriptor)
    /\ phase = "configured" => endpoints = EnabledEndpoints

-----------------------------------------------------------------------------
(* Where each step stands.                                                  *)

\* A name stands for one step, or for the waits of one register, in the program of
\* a build with a crystal ...
LEMMA CrystalPlaces ==
    ASSUME build = "crystal", pc \in 1 .. 36
    PROVE  /\ At("CopyData") => pc = 1
           /\ At("ClearBss") => pc = 2
           /\ At("LibcInitArray") => pc = 3
           /\ At("FlashWait") => pc = 4
           /\ At("StartOsc32k") => pc = 5
           /\ At("WaitOsc32k") => pc = 6
           /\ At("GclkReset") => pc = 7
           /\ At("WaitGclk") => pc \in {8, 10, 12, 14} \/ pc \in {25, 27, 30}
           /\ At("Gen1Div") => pc = 9
           /\ At("Gen1Source") => pc = 11
           /\ At("DfllReference") => pc = 13
           /\ At("DfllOn") => pc = 15
           /\ At("WaitDfll") => pc \in {16, 18, 20, 23}
           /\ At("DfllMul") => pc = 17
           /\ ~At("DfllTrim")
           /\ ~At("DfllDisable")
           /\ ~At("DfllUsbMode")
           /\ At("DfllClosedLoop") => pc = 19
           /\ At("DfllEnable") => pc = 21
           /\ At("WaitLocks") => pc = 22
           /\ At("Gen0Div") => pc = 24
           /\ At("Gen0Source") => pc = 26
           /\ At("Osc8m") => pc = 28
           /\ At("Gen3") => pc = 29
           /\ At("BusClocks") => pc = 31
           /\ At("AdcCalibration") => pc = 32
           /\ At("SysTickConfig") => pc = 33
           /\ At("UsbInit") => pc = 34
           /\ At("UsbAttach") => pc = 35
           /\ At("main") => pc = 36
  <1>1. pc \in
             {1, 2, 3, 4, 5, 6, 7, 8, 9, 10, 11, 12, 13,
              14, 15, 16, 17, 18, 19, 20, 21, 22, 23, 24, 25, 26,
              27, 28, 29, 30, 31, 32, 33, 34, 35, 36}
    OBVIOUS
  <1> QED
    BY <1>1, CrystalProgram DEF At

\* ... and in that of a build without.
LEMMA CrystallessPlaces ==
    ASSUME build = "crystalless", pc \in 1 .. 38
    PROVE  /\ At("CopyData") => pc = 1
           /\ At("ClearBss") => pc = 2
           /\ At("LibcInitArray") => pc = 3
           /\ At("FlashWait") => pc = 4
           /\ At("StartOsc32k") => pc = 5
           /\ At("WaitOsc32k") => pc = 6
           /\ At("GclkReset") => pc = 7
           /\ At("WaitGclk") => pc \in {8, 10, 12, 14} \/ pc \in {27, 29, 32}
           /\ At("Gen1Div") => pc = 9
           /\ At("Gen1Source") => pc = 11
           /\ At("DfllReference") => pc = 13
           /\ At("DfllOn") => pc = 15
           /\ At("WaitDfll") => pc \in {16, 18, 21, 23, 25}
           /\ At("DfllMul") => pc = 17
           /\ At("DfllTrim") => pc = 19
           /\ At("DfllDisable") => pc = 20
           /\ At("DfllUsbMode") => pc = 22
           /\ ~At("DfllClosedLoop")
           /\ At("DfllEnable") => pc = 24
           /\ ~At("WaitLocks")
           /\ At("Gen0Div") => pc = 26
           /\ At("Gen0Source") => pc = 28
           /\ At("Osc8m") => pc = 30
           /\ At("Gen3") => pc = 31
           /\ At("BusClocks") => pc = 33
           /\ At("AdcCalibration") => pc = 34
           /\ At("SysTickConfig") => pc = 35
           /\ At("UsbInit") => pc = 36
           /\ At("UsbAttach") => pc = 37
           /\ At("main") => pc = 38
  <1>1. pc \in
             {1, 2, 3, 4, 5, 6, 7, 8, 9, 10, 11, 12, 13,
              14, 15, 16, 17, 18, 19, 20, 21, 22, 23, 24, 25, 26,
              27, 28, 29, 30, 31, 32, 33, 34, 35, 36, 37, 38}
    OBVIOUS
  <1> QED
    BY <1>1, CrystallessProgram DEF At

\* The same for both builds, counted from the end of the DFLL's own steps.
LEMMA Places ==
    ASSUME build \in {"crystal", "crystalless"}, pc \in 1 .. Len(Program)
    PROVE  /\ At("CopyData") => pc = 1
           /\ At("ClearBss") => pc = 2
           /\ At("LibcInitArray") => pc = 3
           /\ At("FlashWait") => pc = 4
           /\ At("StartOsc32k") => pc = 5
           /\ At("WaitOsc32k") => pc = 6
           /\ At("GclkReset") => pc = 7
           /\ At("WaitGclk") => \/ pc \in {8, 10, 12, 14}
                                \/ pc \in {DfllSteps + 3, DfllSteps + 5, DfllSteps + 8}
           /\ At("Gen1Div") => pc = 9
           /\ At("Gen1Source") => pc = 11
           /\ At("DfllReference") => pc = 13
           /\ At("DfllOn") => pc = 15
           /\ At("WaitDfll") => /\ 15 < pc /\ pc < DfllSteps + 2 /\ pc # DfllSteps
                                /\ build = "crystal" => pc # DfllSteps - 1
           /\ At("DfllMul") => pc = 17
           /\ At("DfllTrim") => pc = 19
           /\ At("DfllDisable") => pc = 20 /\ build = "crystalless"
           /\ At("DfllUsbMode") => pc = 22 /\ build = "crystalless"
           /\ At("DfllClosedLoop") => pc = 19
           /\ At("DfllEnable") => pc = IF build = "crystal" THEN 21 ELSE 24
           /\ At("WaitLocks") => pc = DfllSteps /\ build = "crystal"
           /\ At("Gen0Div") => pc = DfllSteps + 2
           /\ At("Gen0Source") => pc = DfllSteps + 4
           /\ At("Osc8m") => pc = DfllSteps + 6
           /\ At("Gen3") => pc = DfllSteps + 7
           /\ At("BusClocks") => pc = DfllSteps + 9
           /\ At("AdcCalibration") => pc = DfllSteps + 10
           /\ At("SysTickConfig") => pc = DfllSteps + 11
           /\ At("UsbInit") => pc = DfllSteps + 12
           /\ At("UsbAttach") => pc = DfllSteps + 13
           /\ At("main") => pc = DfllSteps + 14
  <1>1. CASE build = "crystal"
    <2>1. DfllSteps = 22 /\ pc \in 1 .. 36
      BY <1>1, CrystalProgram DEF DfllSteps
    <2> QED
      BY <1>1, <2>1, CrystalPlaces
  <1>2. CASE build = "crystalless"
    <2>1. DfllSteps = 24 /\ pc \in 1 .. 38
      BY <1>2, CrystallessProgram DEF DfllSteps
    <2> QED
      BY <1>2, <2>1, CrystallessPlaces
  <1> QED
    BY <1>1, <1>2

\* The program is as long as its last step says ...
LEMMA ProgramLength ==
    ASSUME build \in {"crystal", "crystalless"}
    PROVE  DfllSteps \in {22, 24} /\ Len(Program) = DfllSteps + 14
  BY CrystalProgram, CrystallessProgram DEF DfllSteps

\* ... and depends on the build only.
LEMMA ProgramKept ==
    ASSUME build' = build
    PROVE  DfllSteps' = DfllSteps /\ Len(Program)' = Len(Program)
  BY DEF DfllSteps, Program, SystemInit, UsbRecovery, ClosedLoop, ClockReset

-----------------------------------------------------------------------------
(* Facts that many steps share.                                             *)

\* The sources of the generators have their types, and the processor's is the one
\* Tree says.
LEMMA TreeType ==
    /\ AfterSwrst \in [Generator -> Source]
    /\ Tree \in [Generator -> Source]
    /\ Tree[0] = IF pc > DfllSteps + 4 THEN "DFLL48M" ELSE "OSC8M"
  <1>1. AfterSwrst \in [Generator -> Source] /\ 0 \in Generator /\ 1 \in Generator /\ 3 \in Generator
    BY DEF AfterSwrst, Generator, Source
  <1>2. "DFLL48M" \in Source /\ "OSC8M" \in Source /\ "OSC32K" \in Source /\ "none" \in Source
    BY DEF Source
  <1> QED
    BY <1>1, <1>2 DEF Tree

\* A step counts on, and no step but main() is the last.
LEMMA Advance ==
    ASSUME BootTypeOK, pc < DfllSteps + 14, pc' = pc + 1, UNCHANGED <<build, fitted>>
    PROVE  /\ pc \in Nat /\ DfllSteps \in {22, 24}
           /\ DfllSteps' = DfllSteps /\ pc' \in 1 .. Len(Program)'
           /\ build \in {"crystal", "crystalless"}
           /\ build' \in {"crystal", "crystalless"} /\ fitted' \in BOOLEAN
  <1>1. build \in {"crystal", "crystalless"} /\ pc \in 1 .. Len(Program) /\ fitted \in BOOLEAN
    BY DEF BootTypeOK
  <1>2. DfllSteps \in {22, 24} /\ Len(Program) = DfllSteps + 14
    BY <1>1, ProgramLength
  <1>3. DfllSteps' = DfllSteps /\ Len(Program)' = Len(Program)
    BY ProgramKept
  <1>4. pc \in Nat /\ pc + 1 \in 1 .. DfllSteps + 14
    BY <1>1, <1>2
  <1> QED
    BY <1>1, <1>2, <1>3, <1>4

\* The generators stay as they are but in the steps that write them.
LEMMA TreeKept ==
    ASSUME pc \in Nat, DfllSteps \in {22, 24}, DfllSteps' = DfllSteps, pc' = pc + 1,
           pc # 11, pc # DfllSteps + 4, pc # DfllSteps + 7
    PROVE  Tree' = Tree
  <1>1. /\ pc' > 11 <=> pc > 11
        /\ pc' > DfllSteps + 4 <=> pc > DfllSteps + 4
        /\ pc' > DfllSteps + 7 <=> pc > DfllSteps + 7
    OBVIOUS
  <1> QED
    BY <1>1 DEF Tree

\* A step that only touches clock registers keeps what is said of memory, SysTick
\* and USB.
LEMMA MemoryKept ==
    ASSUME BootInv, NEW step, NEW registers, Set(step, registers),
           registers \in Hardware, 3 < pc, pc < DfllSteps + 14,
           pc \notin {DfllSteps + 9, DfllSteps + 12}
    PROVE  BootTypeOK' /\ MemoryInv'
  <1>1. BootTypeOK /\ MemoryInv
    BY DEF BootInv
  <1>2. pc' = pc + 1 /\ UNCHANGED <<build, fitted>> /\ hw' = registers
        /\ UNCHANGED <<data, bss, constructed, usb_isr, SystemCoreClock, systick, usb>>
    BY DEF Set, Do, ramVars, coreVars
  <1>3. pc \in Nat /\ DfllSteps \in {22, 24} /\ DfllSteps' = DfllSteps
    BY <1>1, <1>2, Advance
  <1>4. BootTypeOK'
    BY <1>1, <1>2, Advance DEF BootTypeOK
  <1>5. MemoryInv'
    BY <1>1, <1>2, <1>3 DEF MemoryInv
  <1> QED
    BY <1>4, <1>5

\* A step that leaves the clock registers alone keeps what is said of them, if it has
\* waited for what the next step relies on.
LEMMA ClocksKept ==
    ASSUME BootInv, NEW step, Do(step), hw' = hw, pc < DfllSteps + 14,
           pc \notin {4, 7, 11, 13}, pc \notin {DfllSteps + 4, DfllSteps + 6, DfllSteps + 7},
           pc \in {8, DfllSteps + 8} => hw.gclk = "idle",
           build = "crystal" => pc # DfllSteps - 1,
           pc = DfllSteps => build = "crystal" /\ hw.dfll.locks = Locks,
           pc = DfllSteps + 1 => hw.dfll.ready
    PROVE  GclkInv' /\ DfllInv'
  <1>1. BootTypeOK /\ GclkInv /\ DfllInv
    BY DEF BootInv
  <1>2. pc' = pc + 1 /\ build' = build /\ UNCHANGED <<build, fitted>>
    BY DEF Do
  <1>3. /\ pc \in Nat /\ DfllSteps \in {22, 24} /\ DfllSteps' = DfllSteps
        /\ build \in {"crystal", "crystalless"}
    BY <1>1, <1>2, Advance
  <1>4. Tree' = Tree
    BY <1>2, <1>3, TreeKept
  <1>5. GclkInv'
    BY <1>1, <1>2, <1>3, <1>4 DEF GclkInv
  <1>6. DfllInv'
    BY <1>1, <1>2, <1>3 DEF DfllInv
  <1> QED
    BY <1>5, <1>6

-----------------------------------------------------------------------------
(* Reset_Handler and the steps that leave the clock registers alone.        *)

\* Reset_Handler: .data is copied, .bss cleared, the constructors run.
LEMMA ResetHandlerInv ==
    ASSUME BootInv, CopyData \/ ClearBss \/ LibcInitArray
    PROVE  BootInv'
  <1>1. BootTypeOK /\ MemoryInv /\ GclkInv /\ build \in {"crystal", "crystalless"}
        /\ pc \in 1 .. Len(Program)
    BY DEF BootInv, BootTypeOK
  <1>2. DfllSteps \in {22, 24}
    BY <1>1, ProgramLength
  <1>3. CASE CopyData
    <2>1. pc = 1
      BY <1>1, <1>3, Places DEF CopyData, Do
    <2>2. Do("CopyData") /\ pc' = pc + 1 /\ UNCHANGED <<build, fitted, hw>>
      BY <1>3 DEF CopyData, Do
    <2>3. pc \in Nat /\ pc < DfllSteps + 14 /\ DfllSteps' = DfllSteps
      BY <1>1, <1>2, <2>1, <2>2, Advance
    <2>4. BootTypeOK'
      BY <1>1, <1>3, <2>2, <2>3, Advance DEF CopyData, BootTypeOK, ramVars, coreVars
    <2>5. MemoryInv'
      BY <1>1, <1>2, <1>3, <2>1, <2>2, <2>3, LinkAssumption
        DEF CopyData, MemoryInv, ramVars, coreVars
    <2>6. GclkInv' /\ DfllInv'
      BY <1>1, <1>2, <2>1, <2>2, <2>3, ClocksKept
    <2> QED
      BY <2>4, <2>5, <2>6 DEF BootInv
  <1>4. CASE ClearBss
    <2>1. pc = 2
      BY <1>1, <1>4, Places DEF ClearBss, Do
    <2>2. Do("ClearBss") /\ pc' = pc + 1 /\ UNCHANGED <<build, fitted, hw>>
      BY <1>4 DEF ClearBss, Do
    <2>3. pc \in Nat /\ pc < DfllSteps + 14 /\ DfllSteps' = DfllSteps
      BY <1>1, <1>2, <2>1, <2>2, Advance
    <2>4. BootTypeOK'
      <3>1. bss' \in {"stale", "zero"} /\ usb_isr' \in {"stale", "NULL", "usb_isr"}
            /\ UNCHANGED <<data, SystemCoreClock, systick, usb, hw>>
        BY <1>1, <1>4 DEF ClearBss, BootTypeOK, coreVars
      <3>2. constructed' = FALSE \/ constructed' = constructed
        BY <1>4 DEF ClearBss
      <3>3. constructed \in BOOLEAN
        BY <1>1 DEF BootTypeOK
      <3>4. constructed' \in BOOLEAN
        BY <3>2, <3>3
      <3> QED
        BY <1>1, <2>2, <2>3, <3>1, <3>4, Advance DEF BootTypeOK
    <2>5. MemoryInv'
      BY <1>1, <1>2, <1>4, <2>1, <2>2, <2>3, LinkAssumption
        DEF ClearBss, MemoryInv, ramVars, coreVars
    <2>6. GclkInv' /\ DfllInv'
      BY <1>1, <1>2, <2>1, <2>2, <2>3, ClocksKept
    <2> QED
      BY <2>4, <2>5, <2>6 DEF BootInv
  <1>5. CASE LibcInitArray
    <2>1. pc = 3
      BY <1>1, <1>5, Places DEF LibcInitArray, Do
    <2>2. Do("LibcInitArray") /\ pc' = pc + 1 /\ UNCHANGED <<build, fitted, hw>>
      BY <1>5 DEF LibcInitArray, Do
    <2>3. pc \in Nat /\ pc < DfllSteps + 14 /\ DfllSteps' = DfllSteps
      BY <1>1, <1>2, <2>1, <2>2, Advance
    <2>4. BootTypeOK'
      BY <1>1, <1>5, <2>2, <2>3, Advance
        DEF LibcInitArray, BootTypeOK, ramVars, coreVars
    <2>5. MemoryInv'
      BY <1>1, <1>2, <1>5, <2>1, <2>2, <2>3, LinkAssumption
        DEF LibcInitArray, MemoryInv, ramVars, coreVars
    <2>6. GclkInv' /\ DfllInv'
      BY <1>1, <1>2, <2>1, <2>2, <2>3, ClocksKept
    <2> QED
      BY <2>4, <2>5, <2>6 DEF BootInv
  <1> QED
    BY <1>3, <1>4, <1>5

\* SystemInit, once the clocks run: SystemCoreClock follows them, SysTick counts in
\* it, USB comes up.
LEMMA PeripheralsInv ==
    ASSUME BootInv, BusClocks \/ SysTickConfig \/ UsbInit \/ UsbAttach
    PROVE  BootInv'
  <1>1. BootTypeOK /\ MemoryInv /\ GclkInv /\ build \in {"crystal", "crystalless"}
        /\ pc \in 1 .. Len(Program)
    BY DEF BootInv, BootTypeOK
  <1>2. DfllSteps \in {22, 24}
    BY <1>1, ProgramLength
  <1>3. CASE BusClocks
    <2>1. pc = DfllSteps + 9
      BY <1>1, <1>3, Places DEF BusClocks, Do
    <2>2. Do("BusClocks") /\ pc' = pc + 1 /\ UNCHANGED <<build, fitted, hw>>
      BY <1>3 DEF BusClocks, Do
    <2>3. pc \in Nat /\ pc < DfllSteps + 14 /\ DfllSteps' = DfllSteps
      BY <1>1, <1>2, <2>1, <2>2, Advance
    <2>4. BootTypeOK'
      BY <1>1, <1>3, <2>2, <2>3, Advance DEF BusClocks, BootTypeOK, ramVars, coreVars
    <2>5. MemoryInv'
      BY <1>1, <1>2, <1>3, <2>1, <2>2, <2>3 DEF BusClocks, MemoryInv, ramVars, coreVars
    <2>6. GclkInv' /\ DfllInv'
      BY <1>1, <1>2, <2>1, <2>2, <2>3, ClocksKept
    <2> QED
      BY <2>4, <2>5, <2>6 DEF BootInv
  <1>4. CASE SysTickConfig
    <2>1. pc = DfllSteps + 11
      BY <1>1, <1>4, Places DEF SysTickConfig, Do
    <2>2. Do("SysTickConfig") /\ pc' = pc + 1 /\ UNCHANGED <<build, fitted, hw>>
      BY <1>4 DEF SysTickConfig, Do
    <2>3. pc \in Nat /\ pc < DfllSteps + 14 /\ DfllSteps' = DfllSteps
      BY <1>1, <1>2, <2>1, <2>2, Advance
    <2>4. BootTypeOK'
      BY <1>1, <1>4, <2>2, <2>3, Advance
        DEF SysTickConfig, BootTypeOK, ramVars, coreVars
    <2>5. MemoryInv'
      BY <1>1, <1>2, <1>4, <2>1, <2>2, <2>3
        DEF SysTickConfig, MemoryInv, ramVars, coreVars
    <2>6. GclkInv' /\ DfllInv'
      BY <1>1, <1>2, <2>1, <2>2, <2>3, ClocksKept
    <2> QED
      BY <2>4, <2>5, <2>6 DEF BootInv
  <1>5. CASE UsbInit
    <2>1. pc = DfllSteps + 12
      BY <1>1, <1>5, Places DEF UsbInit, Do
    <2>2. Do("UsbInit") /\ pc' = pc + 1 /\ UNCHANGED <<build, fitted, hw>>
      BY <1>5 DEF UsbInit, Do
    <2>3. pc \in Nat /\ pc < DfllSteps + 14 /\ DfllSteps' = DfllSteps
      BY <1>1, <1>2, <2>1, <2>2, Advance
    <2>4. BootTypeOK'
      BY <1>1, <1>5, <2>2, <2>3, Advance DEF UsbInit, BootTypeOK, ramVars, coreVars
    <2>5. MemoryInv'
      BY <1>1, <1>2, <1>5, <2>1, <2>2, <2>3 DEF UsbInit, MemoryInv, ramVars, coreVars
    <2>6. GclkInv' /\ DfllInv'
      BY <1>1, <1>2, <2>1, <2>2, <2>3, ClocksKept
    <2> QED
      BY <2>4, <2>5, <2>6 DEF BootInv
  <1>6. CASE UsbAttach
    <2>1. pc = DfllSteps + 13
      BY <1>1, <1>6, Places DEF UsbAttach, Do
    <2>2. Do("UsbAttach") /\ pc' = pc + 1 /\ UNCHANGED <<build, fitted, hw>>
      BY <1>6 DEF UsbAttach, Do
    <2>3. pc \in Nat /\ pc < DfllSteps + 14 /\ DfllSteps' = DfllSteps
      BY <1>1, <1>2, <2>1, <2>2, Advance
    <2>4. BootTypeOK'
      BY <1>1, <1>6, <2>2, <2>3, Advance DEF UsbAttach, BootTypeOK, ramVars, coreVars
    <2>5. MemoryInv'
      BY <1>1, <1>2, <1>6, <2>1, <2>2, <2>3 DEF UsbAttach, MemoryInv, ramVars, coreVars
    <2>6. GclkInv' /\ DfllInv'
      BY <1>1, <1>2, <2>1, <2>2, <2>3, ClocksKept
    <2> QED
      BY <2>4, <2>5, <2>6 DEF BootInv
  <1> QED
    BY <1>3, <1>4, <1>5, <1>6

-----------------------------------------------------------------------------
(* The clocks.                                                              *)

\* A wait relies on nothing but what it has waited for.
LEMMA WaitsInv ==
    ASSUME BootInv, WaitOsc32k \/ WaitGclk \/ WaitDfll \/ WaitLocks \/ AdcCalibration
    PROVE  BootInv'
  <1>1. BootTypeOK /\ MemoryInv /\ GclkInv /\ DfllInv /\ build \in {"crystal", "crystalless"}
        /\ pc \in 1 .. Len(Program) /\ hw \in Hardware
    BY DEF BootInv, BootTypeOK
  <1>2. DfllSteps \in {22, 24} /\ pc \in Nat
    BY <1>1, ProgramLength
  <1>3. CASE WaitOsc32k
    <2>1. At("WaitOsc32k")
      BY <1>3 DEF WaitOsc32k, Set, Do
    <2>2. pc = 6
      BY <1>1, <2>1, Places
    <2>3. Set("WaitOsc32k", hw) /\ Do("WaitOsc32k") /\ hw' = hw
      BY <1>3 DEF WaitOsc32k, Set
    <2>4. 3 < pc /\ pc < DfllSteps + 14 /\ pc \notin {DfllSteps + 9, DfllSteps + 12}
      BY <1>2, <2>2
    <2>5. BootTypeOK' /\ MemoryInv'
      BY <1>1, <2>3, <2>4, MemoryKept
    <2>6. GclkInv' /\ DfllInv'
      BY <1>1, <1>2, <2>2, <2>3, ClocksKept
    <2> QED
      BY <2>5, <2>6 DEF BootInv
  <1>4. CASE WaitGclk
    <2>1. At("WaitGclk")
      BY <1>4 DEF WaitGclk, Set, Do
    <2>2. (pc \in {8, 10, 12, 14}
             \/ pc \in {DfllSteps + 3, DfllSteps + 5, DfllSteps + 8}) /\ hw.gclk = "idle"
      BY <1>1, <2>1, <1>4, Places DEF WaitGclk
    <2>3. Set("WaitGclk", hw) /\ Do("WaitGclk") /\ hw' = hw
      BY <1>4 DEF WaitGclk, Set
    <2>4. 3 < pc /\ pc < DfllSteps + 14 /\ pc \notin {DfllSteps + 9, DfllSteps + 12}
      BY <1>2, <2>2
    <2>5. BootTypeOK' /\ MemoryInv'
      BY <1>1, <2>3, <2>4, MemoryKept
    <2>6. GclkInv' /\ DfllInv'
      BY <1>1, <1>2, <2>2, <2>3, ClocksKept
    <2> QED
      BY <2>5, <2>6 DEF BootInv
  <1>5. CASE WaitDfll
    <2>1. At("WaitDfll")
      BY <1>5 DEF WaitDfll, Set, Do
    <2>2. /\ 15 < pc /\ pc < DfllSteps + 2 /\ pc # DfllSteps
          /\ build = "crystal" => pc # DfllSteps - 1
      BY <1>1, <2>1, Places
    <2>3. Set("WaitDfll", hw) /\ Do("WaitDfll") /\ hw' = hw
      BY <1>5 DEF WaitDfll, Set
    <2>4. hw.dfll.ready
      BY <1>5 DEF WaitDfll
    <2>5. 3 < pc /\ pc < DfllSteps + 14 /\ pc \notin {DfllSteps + 9, DfllSteps + 12}
      BY <1>2, <2>2
    <2>6. BootTypeOK' /\ MemoryInv'
      BY <1>1, <2>3, <2>5, MemoryKept
    <2>7. GclkInv' /\ DfllInv'
      BY <1>1, <1>2, <2>2, <2>3, <2>4, ClocksKept
    <2> QED
      BY <2>6, <2>7 DEF BootInv
  <1>6. CASE WaitLocks
    <2>1. At("WaitLocks")
      BY <1>6 DEF WaitLocks, Set, Do
    <2>2. pc = DfllSteps /\ build = "crystal" /\ hw.dfll.locks = Locks
      BY <1>1, <2>1, <1>6, Places DEF WaitLocks
    <2>3. Set("WaitLocks", hw) /\ Do("WaitLocks") /\ hw' = hw
      BY <1>6 DEF WaitLocks, Set
    <2>4. 3 < pc /\ pc < DfllSteps + 14 /\ pc \notin {DfllSteps + 9, DfllSteps + 12}
      BY <1>2, <2>2
    <2>5. BootTypeOK' /\ MemoryInv'
      BY <1>1, <2>3, <2>4, MemoryKept
    <2>6. GclkInv' /\ DfllInv'
      BY <1>1, <1>2, <2>2, <2>3, ClocksKept
    <2> QED
      BY <2>5, <2>6 DEF BootInv
  <1>7. CASE AdcCalibration
    <2>1. At("AdcCalibration")
      BY <1>7 DEF AdcCalibration, Set, Do
    <2>2. pc = DfllSteps + 10
      BY <1>1, <2>1, Places
    <2>3. Set("AdcCalibration", hw) /\ Do("AdcCalibration") /\ hw' = hw
      BY <1>7 DEF AdcCalibration, Set
    <2>4. 3 < pc /\ pc < DfllSteps + 14 /\ pc \notin {DfllSteps + 9, DfllSteps + 12}
      BY <1>2, <2>2
    <2>5. BootTypeOK' /\ MemoryInv'
      BY <1>1, <2>3, <2>4, MemoryKept
    <2>6. GclkInv' /\ DfllInv'
      BY <1>1, <1>2, <2>2, <2>3, ClocksKept
    <2> QED
      BY <2>5, <2>6 DEF BootInv
  <1> QED
    BY <1>3, <1>4, <1>5, <1>6, <1>7

\* The flash gets its wait state, the oscillators their settings.
LEMMA OscillatorsInv ==
    ASSUME BootInv, FlashWait \/ StartOsc32k \/ Osc8m
    PROVE  BootInv'
  <1>1. BootTypeOK /\ MemoryInv /\ GclkInv /\ DfllInv /\ build \in {"crystal", "crystalless"}
        /\ pc \in 1 .. Len(Program) /\ hw \in Hardware
    BY DEF BootInv, BootTypeOK
  <1>2. DfllSteps \in {22, 24} /\ pc \in Nat
    BY <1>1, ProgramLength
  <1>3. CASE FlashWait
    <2> DEFINE registers == [hw EXCEPT !.rws = 1]
    <2>1. Set("FlashWait", registers)
      BY <1>3 DEF FlashWait
    <2>2. At("FlashWait") /\ Do("FlashWait") /\ hw' = registers
      BY <2>1 DEF Set, Do
    <2>3. pc = 4
      BY <1>1, <2>2, Places
    <2>4. registers \in Hardware
      BY <1>1 DEF Hardware
    <2>5. /\ hw'.rws = 1
          /\ hw'.gen = hw.gen /\ hw'.mux0 = hw.mux0 /\ hw'.gclk = hw.gclk
          /\ hw'.presc = hw.presc /\ hw'.dfll = hw.dfll
      BY <1>1, <2>2 DEF Hardware
    <2> HIDE DEF registers
    <2>6. 3 < pc /\ pc < DfllSteps + 14 /\ pc \notin {DfllSteps + 9, DfllSteps + 12}
      BY <1>2, <2>3
    <2>7. BootTypeOK' /\ MemoryInv'
      BY <1>1, <2>1, <2>4, <2>6, MemoryKept
    <2>8. pc' = pc + 1 /\ build' = build /\ DfllSteps' = DfllSteps
      BY <2>2, ProgramKept DEF Do
    <2>9. Tree' = Tree
      BY <1>2, <2>3, <2>8, TreeKept
    <2>10. GclkInv'
      BY <1>1, <1>2, <2>3, <2>5, <2>8, <2>9 DEF GclkInv
    <2>11. DfllInv'
      BY <1>1, <1>2, <2>3, <2>5, <2>8 DEF DfllInv
    <2> QED
      BY <2>7, <2>10, <2>11 DEF BootInv
  <1>4. CASE StartOsc32k
    <2> DEFINE registers ==
          [hw EXCEPT !.osc32k = IF build = "crystalless" /\ @ = "ready" THEN "ready" ELSE "starting"]
    <2>1. Set("StartOsc32k", registers)
      BY <1>4 DEF StartOsc32k
    <2>2. At("StartOsc32k") /\ Do("StartOsc32k") /\ hw' = registers
      BY <2>1 DEF Set, Do
    <2>3. pc = 5
      BY <1>1, <2>2, Places
    <2>4. registers \in Hardware
      BY <1>1 DEF Hardware
    <2>5. /\ hw'.rws = hw.rws /\ hw'.gen = hw.gen /\ hw'.mux0 = hw.mux0
          /\ hw'.gclk = hw.gclk /\ hw'.presc = hw.presc /\ hw'.dfll = hw.dfll
      BY <1>1, <2>2 DEF Hardware
    <2> HIDE DEF registers
    <2>6. 3 < pc /\ pc < DfllSteps + 14 /\ pc \notin {DfllSteps + 9, DfllSteps + 12}
      BY <1>2, <2>3
    <2>7. BootTypeOK' /\ MemoryInv'
      BY <1>1, <2>1, <2>4, <2>6, MemoryKept
    <2>8. pc' = pc + 1 /\ build' = build /\ DfllSteps' = DfllSteps
      BY <2>2, ProgramKept DEF Do
    <2>9. Tree' = Tree
      BY <1>2, <2>3, <2>8, TreeKept
    <2>10. GclkInv'
      BY <1>1, <1>2, <2>3, <2>5, <2>8, <2>9 DEF GclkInv
    <2>11. DfllInv'
      BY <1>1, <1>2, <2>3, <2>5, <2>8 DEF DfllInv
    <2> QED
      BY <2>7, <2>10, <2>11 DEF BootInv
  <1>5. CASE Osc8m
    <2> DEFINE registers == [hw EXCEPT !.presc = 1]
    <2>1. Set("Osc8m", registers)
      BY <1>5 DEF Osc8m
    <2>2. At("Osc8m") /\ Do("Osc8m") /\ hw' = registers
      BY <2>1 DEF Set, Do
    <2>3. pc = DfllSteps + 6
      BY <1>1, <2>2, Places
    <2>4. registers \in Hardware
      BY <1>1 DEF Hardware
    <2>5. /\ hw'.presc = 1
          /\ hw'.rws = hw.rws /\ hw'.gen = hw.gen /\ hw'.mux0 = hw.mux0
          /\ hw'.gclk = hw.gclk /\ hw'.dfll = hw.dfll
      BY <1>1, <2>2 DEF Hardware
    <2> HIDE DEF registers
    <2>6. 3 < pc /\ pc < DfllSteps + 14 /\ pc \notin {DfllSteps + 9, DfllSteps + 12}
      BY <1>2, <2>3
    <2>7. BootTypeOK' /\ MemoryInv'
      BY <1>1, <2>1, <2>4, <2>6, MemoryKept
    <2>8. pc' = pc + 1 /\ build' = build /\ DfllSteps' = DfllSteps
      BY <2>2, ProgramKept DEF Do
    <2>9. Tree' = Tree
      BY <1>2, <2>3, <2>8, TreeKept
    <2>10. GclkInv'
      BY <1>1, <1>2, <2>3, <2>5, <2>8, <2>9 DEF GclkInv
    <2>11. DfllInv'
      BY <1>1, <1>2, <2>3, <2>5, <2>8 DEF DfllInv
    <2> QED
      BY <2>7, <2>10, <2>11 DEF BootInv
  <1> QED
    BY <1>3, <1>4, <1>5

\* The clock controller: a write starts a synchronisation.
LEMMA GeneratorsInv ==
    ASSUME BootInv,
           \/ GclkReset \/ Gen1Div \/ Gen1Source \/ DfllReference
           \/ Gen0Div \/ Gen0Source \/ Gen3
    PROVE  BootInv'
  <1>1. BootTypeOK /\ MemoryInv /\ GclkInv /\ DfllInv /\ build \in {"crystal", "crystalless"}
        /\ pc \in 1 .. Len(Program) /\ hw \in Hardware
    BY DEF BootInv, BootTypeOK
  <1>2. DfllSteps \in {22, 24} /\ pc \in Nat
    BY <1>1, ProgramLength
  <1>3. CASE GclkReset
    <2> DEFINE registers == [hw EXCEPT !.gclk = "swrst"]
    <2>1. Set("GclkReset", registers)
      BY <1>3 DEF GclkReset, SetGclk
    <2>2. At("GclkReset") /\ Do("GclkReset") /\ hw' = registers
      BY <2>1 DEF Set, Do
    <2>3. pc = 7
      BY <1>1, <2>2, Places
    <2>4. registers \in Hardware
      BY <1>1 DEF Hardware
    <2>5. /\ hw'.gclk = "swrst"
          /\ hw'.rws = hw.rws /\ hw'.gen = hw.gen /\ hw'.mux0 = hw.mux0
          /\ hw'.presc = hw.presc /\ hw'.dfll = hw.dfll
      BY <1>1, <2>2 DEF Hardware
    <2> HIDE DEF registers
    <2>6. 3 < pc /\ pc < DfllSteps + 14 /\ pc \notin {DfllSteps + 9, DfllSteps + 12}
      BY <1>2, <2>3
    <2>7. BootTypeOK' /\ MemoryInv'
      BY <1>1, <2>1, <2>4, <2>6, MemoryKept
    <2>8. pc' = pc + 1 /\ build' = build /\ DfllSteps' = DfllSteps
      BY <2>2, ProgramKept DEF Do
    <2>9. Tree' = Tree
      BY <1>2, <2>3, <2>8, TreeKept
    <2>10. GclkInv'
      BY <1>1, <1>2, <2>3, <2>5, <2>8, <2>9 DEF GclkInv
    <2>11. DfllInv'
      BY <1>1, <1>2, <2>3, <2>5, <2>8 DEF DfllInv
    <2> QED
      BY <2>7, <2>10, <2>11 DEF BootInv
  <1>4. CASE Gen1Div
    <2> DEFINE registers == [hw EXCEPT !.gclk = "sync"]
    <2>1. Set("Gen1Div", registers)
      BY <1>4 DEF Gen1Div, SetGclk
    <2>2. At("Gen1Div") /\ Do("Gen1Div") /\ hw' = registers
      BY <2>1 DEF Set, Do
    <2>3. pc = 9
      BY <1>1, <2>2, Places
    <2>4. registers \in Hardware
      BY <1>1 DEF Hardware
    <2>5. /\ hw'.gclk = "sync"
          /\ hw'.rws = hw.rws /\ hw'.gen = hw.gen /\ hw'.mux0 = hw.mux0
          /\ hw'.presc = hw.presc /\ hw'.dfll = hw.dfll
      BY <1>1, <2>2 DEF Hardware
    <2> HIDE DEF registers
    <2>6. 3 < pc /\ pc < DfllSteps + 14 /\ pc \notin {DfllSteps + 9, DfllSteps + 12}
      BY <1>2, <2>3
    <2>7. BootTypeOK' /\ MemoryInv'
      BY <1>1, <2>1, <2>4, <2>6, MemoryKept
    <2>8. pc' = pc + 1 /\ build' = build /\ DfllSteps' = DfllSteps
      BY <2>2, ProgramKept DEF Do
    <2>9. Tree' = Tree
      BY <1>2, <2>3, <2>8, TreeKept
    <2>10. GclkInv'
      BY <1>1, <1>2, <2>3, <2>5, <2>8, <2>9 DEF GclkInv
    <2>11. DfllInv'
      BY <1>1, <1>2, <2>3, <2>5, <2>8 DEF DfllInv
    <2> QED
      BY <2>7, <2>10, <2>11 DEF BootInv
  <1>5. CASE Gen1Source
    <2> DEFINE registers == [hw EXCEPT !.gclk = "sync", !.gen[1] = "OSC32K"]
    <2>1. Set("Gen1Source", registers)
      BY <1>5 DEF Gen1Source, SetGclk
    <2>2. At("Gen1Source") /\ Do("Gen1Source") /\ hw' = registers
      BY <2>1 DEF Set, Do
    <2>3. pc = 11
      BY <1>1, <2>2, Places
    <2>4. registers \in Hardware
      BY <1>1 DEF Hardware, Generator, Source
    <2>5. /\ hw'.gen = [hw.gen EXCEPT ![1] = "OSC32K"] /\ hw'.gclk = "sync"
          /\ hw'.rws = hw.rws /\ hw'.mux0 = hw.mux0 /\ hw'.presc = hw.presc
          /\ hw'.dfll = hw.dfll
      BY <1>1, <2>2 DEF Hardware
    <2> HIDE DEF registers
    <2>6. 3 < pc /\ pc < DfllSteps + 14 /\ pc \notin {DfllSteps + 9, DfllSteps + 12}
      BY <1>2, <2>3
    <2>7. BootTypeOK' /\ MemoryInv'
      BY <1>1, <2>1, <2>4, <2>6, MemoryKept
    <2>8. pc' = pc + 1 /\ build' = build /\ DfllSteps' = DfllSteps
      BY <2>2, ProgramKept DEF Do
    <2>9. Tree' = [Tree EXCEPT ![1] = "OSC32K"]
      BY <1>2, <2>3, <2>8, TreeType DEF Tree, Generator
    <2>10. hw.gen = Tree /\ hw.gclk # "swrst"
      BY <1>1, <1>2, <2>3 DEF GclkInv
    <2>11. hw'.gen = Tree'
      BY <2>5, <2>9, <2>10
    <2>12. GclkInv'
      <3>1. hw'.gclk = "sync" /\ hw'.mux0 = hw.mux0 /\ hw'.presc = hw.presc
        BY <2>5
      <3> QED
        BY <1>1, <1>2, <2>3, <2>8, <2>11, <3>1 DEF GclkInv
    <2>13. DfllInv'
      BY <1>1, <1>2, <2>3, <2>5, <2>8 DEF DfllInv
    <2> QED
      BY <2>7, <2>12, <2>13 DEF BootInv
  <1>6. CASE DfllReference
    <2> DEFINE registers == [hw EXCEPT !.gclk = "sync", !.mux0 = TRUE]
    <2>1. Set("DfllReference", registers)
      BY <1>6 DEF DfllReference, SetGclk
    <2>2. At("DfllReference") /\ Do("DfllReference") /\ hw' = registers
      BY <2>1 DEF Set, Do
    <2>3. pc = 13
      BY <1>1, <2>2, Places
    <2>4. registers \in Hardware
      BY <1>1 DEF Hardware
    <2>5. /\ hw'.mux0 = TRUE /\ hw'.gclk = "sync"
          /\ hw'.rws = hw.rws /\ hw'.gen = hw.gen /\ hw'.presc = hw.presc
          /\ hw'.dfll = hw.dfll
      BY <1>1, <2>2 DEF Hardware
    <2> HIDE DEF registers
    <2>6. 3 < pc /\ pc < DfllSteps + 14 /\ pc \notin {DfllSteps + 9, DfllSteps + 12}
      BY <1>2, <2>3
    <2>7. BootTypeOK' /\ MemoryInv'
      BY <1>1, <2>1, <2>4, <2>6, MemoryKept
    <2>8. pc' = pc + 1 /\ build' = build /\ DfllSteps' = DfllSteps
      BY <2>2, ProgramKept DEF Do
    <2>9. Tree' = Tree
      BY <1>2, <2>3, <2>8, TreeKept
    <2>10. GclkInv'
      BY <1>1, <1>2, <2>3, <2>5, <2>8, <2>9 DEF GclkInv
    <2>11. DfllInv'
      BY <1>1, <1>2, <2>3, <2>5, <2>8 DEF DfllInv
    <2> QED
      BY <2>7, <2>10, <2>11 DEF BootInv
  <1>7. CASE Gen0Div
    <2> DEFINE registers == [hw EXCEPT !.gclk = "sync"]
    <2>1. Set("Gen0Div", registers)
      BY <1>7 DEF Gen0Div, SetGclk
    <2>2. At("Gen0Div") /\ Do("Gen0Div") /\ hw' = registers
      BY <2>1 DEF Set, Do
    <2>3. pc = DfllSteps + 2
      BY <1>1, <2>2, Places
    <2>4. registers \in Hardware
      BY <1>1 DEF Hardware
    <2>5. /\ hw'.gclk = "sync"
          /\ hw'.rws = hw.rws /\ hw'.gen = hw.gen /\ hw'.mux0 = hw.mux0
          /\ hw'.presc = hw.presc /\ hw'.dfll = hw.dfll
      BY <1>1, <2>2 DEF Hardware
    <2> HIDE DEF registers
    <2>6. 3 < pc /\ pc < DfllSteps + 14 /\ pc \notin {DfllSteps + 9, DfllSteps + 12}
      BY <1>2, <2>3
    <2>7. BootTypeOK' /\ MemoryInv'
      BY <1>1, <2>1, <2>4, <2>6, MemoryKept
    <2>8. pc' = pc + 1 /\ build' = build /\ DfllSteps' = DfllSteps
      BY <2>2, ProgramKept DEF Do
    <2>9. Tree' = Tree
      BY <1>2, <2>3, <2>8, TreeKept
    <2>10. GclkInv'
      BY <1>1, <1>2, <2>3, <2>5, <2>8, <2>9 DEF GclkInv
    <2>11. DfllInv'
      BY <1>1, <1>2, <2>3, <2>5, <2>8 DEF DfllInv
    <2> QED
      BY <2>7, <2>10, <2>11 DEF BootInv
  <1>8. CASE Gen0Source
    <2> DEFINE registers == [hw EXCEPT !.gclk = "sync", !.gen[0] = "DFLL48M"]
    <2>1. Set("Gen0Source", registers)
      BY <1>8 DEF Gen0Source, SetGclk
    <2>2. At("Gen0Source") /\ Do("Gen0Source") /\ hw' = registers
      BY <2>1 DEF Set, Do
    <2>3. pc = DfllSteps + 4
      BY <1>1, <2>2, Places
    <2>4. registers \in Hardware
      BY <1>1 DEF Hardware, Generator, Source
    <2>5. /\ hw'.gen = [hw.gen EXCEPT ![0] = "DFLL48M"] /\ hw'.gclk = "sync"
          /\ hw'.rws = hw.rws /\ hw'.mux0 = hw.mux0 /\ hw'.presc = hw.presc
          /\ hw'.dfll = hw.dfll
      BY <1>1, <2>2 DEF Hardware
    <2> HIDE DEF registers
    <2>6. 3 < pc /\ pc < DfllSteps + 14 /\ pc \notin {DfllSteps + 9, DfllSteps + 12}
      BY <1>2, <2>3
    <2>7. BootTypeOK' /\ MemoryInv'
      BY <1>1, <2>1, <2>4, <2>6, MemoryKept
    <2>8. pc' = pc + 1 /\ build' = build /\ DfllSteps' = DfllSteps
      BY <2>2, ProgramKept DEF Do
    <2>9. Tree' = [Tree EXCEPT ![0] = "DFLL48M"]
      BY <1>2, <2>3, <2>8, TreeType DEF Tree, Generator
    <2>10. hw.gen = Tree /\ hw.gclk # "swrst"
      BY <1>1, <1>2, <2>3 DEF GclkInv
    <2>11. hw'.gen = Tree'
      BY <2>5, <2>9, <2>10
    <2>12. GclkInv'
      <3>1. hw'.gclk = "sync" /\ hw'.mux0 = hw.mux0 /\ hw'.presc = hw.presc
        BY <2>5
      <3> QED
        BY <1>1, <1>2, <2>3, <2>8, <2>11, <3>1 DEF GclkInv
    <2>13. DfllInv'
      BY <1>1, <1>2, <2>3, <2>5, <2>8 DEF DfllInv
    <2> QED
      BY <2>7, <2>12, <2>13 DEF BootInv
  <1>9. CASE Gen3
    <2> DEFINE registers == [hw EXCEPT !.gclk = "sync", !.gen[3] = "OSC8M"]
    <2>1. Set("Gen3", registers)
      BY <1>9 DEF Gen3, SetGclk
    <2>2. At("Gen3") /\ Do("Gen3") /\ hw' = registers
      BY <2>1 DEF Set, Do
    <2>3. pc = DfllSteps + 7
      BY <1>1, <2>2, Places
    <2>4. registers \in Hardware
      BY <1>1 DEF Hardware, Generator, Source
    <2>5. /\ hw'.gen = [hw.gen EXCEPT ![3] = "OSC8M"] /\ hw'.gclk = "sync"
          /\ hw'.rws = hw.rws /\ hw'.mux0 = hw.mux0 /\ hw'.presc = hw.presc
          /\ hw'.dfll = hw.dfll
      BY <1>1, <2>2 DEF Hardware
    <2> HIDE DEF registers
    <2>6. 3 < pc /\ pc < DfllSteps + 14 /\ pc \notin {DfllSteps + 9, DfllSteps + 12}
      BY <1>2, <2>3
    <2>7. BootTypeOK' /\ MemoryInv'
      BY <1>1, <2>1, <2>4, <2>6, MemoryKept
    <2>8. pc' = pc + 1 /\ build' = build /\ DfllSteps' = DfllSteps
      BY <2>2, ProgramKept DEF Do
    <2>9. Tree' = [Tree EXCEPT ![3] = "OSC8M"]
      BY <1>2, <2>3, <2>8, TreeType DEF Tree, Generator
    <2>10. hw.gen = Tree /\ hw.gclk # "swrst"
      BY <1>1, <1>2, <2>3 DEF GclkInv
    <2>11. hw'.gen = Tree'
      BY <2>5, <2>9, <2>10
    <2>12. GclkInv'
      <3>1. hw'.gclk = "sync" /\ hw'.mux0 = hw.mux0 /\ hw'.presc = hw.presc
        BY <2>5
      <3> QED
        BY <1>1, <1>2, <2>3, <2>8, <2>11, <3>1 DEF GclkInv
    <2>13. DfllInv'
      BY <1>1, <1>2, <2>3, <2>5, <2>8 DEF DfllInv
    <2> QED
      BY <2>7, <2>12, <2>13 DEF BootInv
  <1> QED
    BY <1>3, <1>4, <1>5, <1>6, <1>7, <1>8, <1>9

\* A write to the DFLL leaves it to be synchronised; it is made while the processor
\* runs from the internal oscillator, and the last one leaves the DFLL on.
LEMMA DfllWrite ==
    ASSUME BootInv, NEW step, NEW on \in BOOLEAN, NEW mode \in {"open", "closed"},
           SetDfll(step, on, mode), 14 < pc,
           pc < DfllSteps \/ (pc = DfllSteps /\ build = "crystalless"),
           on \/ (pc < DfllSteps /\ build = "crystalless")
    PROVE  BootInv'
  <1> DEFINE dfll == [on |-> on, mode |-> mode, ready |-> FALSE, locks |-> {}]
             registers == [hw EXCEPT !.dfll = dfll]
  <1>1. BootTypeOK /\ MemoryInv /\ GclkInv /\ DfllInv /\ build \in {"crystal", "crystalless"}
        /\ pc \in 1 .. Len(Program) /\ hw \in Hardware
    BY DEF BootInv, BootTypeOK
  <1>2. DfllSteps \in {22, 24} /\ pc \in Nat
        /\ (build = "crystal" => DfllSteps = 22) /\ (build = "crystalless" => DfllSteps = 24)
    BY <1>1, ProgramLength DEF DfllSteps
  <1>3. Set(step, registers) /\ Do(step) /\ hw' = registers
    BY DEF SetDfll, Set
  <1>4. registers \in Hardware
    <2>1. dfll \in [on : BOOLEAN, mode : {"open", "closed"}, ready : BOOLEAN,
                    locks : SUBSET Locks]
      OBVIOUS
    <2> QED
      BY <1>1, <2>1 DEF Hardware
  <1>5. /\ hw'.rws = hw.rws /\ hw'.gen = hw.gen /\ hw'.mux0 = hw.mux0
        /\ hw'.gclk = hw.gclk /\ hw'.presc = hw.presc /\ hw'.dfll = dfll
    BY <1>1, <1>3 DEF Hardware
  <1>6. 14 < pc /\ pc <= DfllSteps
    BY <1>2
  <1> HIDE DEF registers
  <1>7. BootTypeOK' /\ MemoryInv'
    BY <1>1, <1>2, <1>3, <1>4, <1>6, MemoryKept
  <1>8. pc' = pc + 1 /\ build' = build /\ DfllSteps' = DfllSteps
    BY <1>3, ProgramKept DEF Do
  <1>9. Tree' = Tree
    BY <1>2, <1>6, <1>8, TreeKept
  <1>10. GclkInv'
    BY <1>1, <1>2, <1>5, <1>6, <1>8, <1>9 DEF GclkInv
  <1>11. DfllInv'
    <2>1. hw'.rws = 1
      BY <1>1, <1>5, <1>6 DEF DfllInv
    <2>2. ~on => pc' <= DfllSteps' /\ build' = "crystalless"
      BY <1>2, <1>8
    <2>3. hw'.dfll.on = on
      BY <1>5
    <2>4. pc' > DfllSteps' \/ (pc' = DfllSteps' /\ build' = "crystal") => hw'.dfll.on
      <3>1. CASE on
        BY <2>3, <3>1
      <3>2. CASE ~on
        BY <2>2, <3>2, <1>2, <1>8
      <3> QED
        BY <3>1, <3>2
    <2>5. pc' > 8 /\ ~(pc' > DfllSteps' + 1) /\ ~(pc' > DfllSteps' /\ build' = "crystal")
      BY <1>2, <1>6, <1>8
    <2> QED
      BY <1>2, <1>8, <2>1, <2>4, <2>5 DEF DfllInv
  <1> QED
    BY <1>7, <1>10, <1>11 DEF BootInv

\* The DFLL: every write to it is such a write.
LEMMA DfllInvKept ==
    ASSUME BootInv,
           \/ DfllOn \/ DfllMul \/ DfllTrim \/ DfllDisable \/ DfllUsbMode
           \/ DfllClosedLoop \/ DfllEnable
    PROVE  BootInv'
  <1>1. BootTypeOK /\ build \in {"crystal", "crystalless"} /\ pc \in 1 .. Len(Program)
    BY DEF BootInv, BootTypeOK
  <1>2. DfllSteps = (IF build = "crystal" THEN 22 ELSE 24) /\ pc \in Nat
    BY <1>1, ProgramLength DEF DfllSteps
  <1>3. CASE DfllOn
    <2>1. At("DfllOn") /\ SetDfll("DfllOn", TRUE, "open")
      BY <1>3 DEF DfllOn, SetDfll, Set, Do
    <2>2. pc = 15
      BY <1>1, <2>1, Places
    <2>3. 14 < pc /\ (pc < DfllSteps \/ (pc = DfllSteps /\ build = "crystalless"))
      BY <1>1, <1>2, <2>2
    <2> QED
      BY <2>1, <2>3, DfllWrite, Zenon
  <1>4. CASE DfllMul
    <2>1. At("DfllMul") /\ SetDfll("DfllMul", TRUE, "open")
      BY <1>4 DEF DfllMul, SetDfll, Set, Do
    <2>2. pc = 17
      BY <1>1, <2>1, Places
    <2>3. 14 < pc /\ (pc < DfllSteps \/ (pc = DfllSteps /\ build = "crystalless"))
      BY <1>1, <1>2, <2>2
    <2> QED
      BY <2>1, <2>3, DfllWrite, Zenon
  <1>5. CASE DfllTrim
    <2>1. At("DfllTrim") /\ SetDfll("DfllTrim", TRUE, "open")
      BY <1>5 DEF DfllTrim, SetDfll, Set, Do
    <2>2. pc = 19
      BY <1>1, <2>1, Places
    <2>3. 14 < pc /\ (pc < DfllSteps \/ (pc = DfllSteps /\ build = "crystalless"))
      BY <1>1, <1>2, <2>2
    <2> QED
      BY <2>1, <2>3, DfllWrite, Zenon
  <1>6. CASE DfllDisable
    <2>1. At("DfllDisable") /\ SetDfll("DfllDisable", FALSE, "open")
      BY <1>6 DEF DfllDisable, SetDfll, Set, Do
    <2>2. pc = 20 /\ build = "crystalless"
      BY <1>1, <2>1, Places
    <2>3. 14 < pc /\ pc < DfllSteps /\ build = "crystalless"
      BY <1>1, <1>2, <2>2
    <2> QED
      BY <2>1, <2>3, DfllWrite, Zenon
  <1>7. CASE DfllUsbMode
    <2>1. At("DfllUsbMode") /\ SetDfll("DfllUsbMode", FALSE, "closed")
      BY <1>7 DEF DfllUsbMode, SetDfll, Set, Do
    <2>2. pc = 22 /\ build = "crystalless"
      BY <1>1, <2>1, Places
    <2>3. 14 < pc /\ pc < DfllSteps /\ build = "crystalless"
      BY <1>1, <1>2, <2>2
    <2> QED
      BY <2>1, <2>3, DfllWrite, Zenon
  <1>8. CASE DfllClosedLoop
    <2>1. At("DfllClosedLoop") /\ SetDfll("DfllClosedLoop", TRUE, "closed")
      BY <1>8 DEF DfllClosedLoop, SetDfll, Set, Do
    <2>2. pc = 19
      BY <1>1, <2>1, Places
    <2>3. 14 < pc /\ (pc < DfllSteps \/ (pc = DfllSteps /\ build = "crystalless"))
      BY <1>1, <1>2, <2>2
    <2> QED
      BY <2>1, <2>3, DfllWrite, Zenon
  <1>9. CASE DfllEnable
    <2>1. At("DfllEnable") /\ SetDfll("DfllEnable", TRUE, "closed")
      BY <1>9 DEF DfllEnable, SetDfll, Set, Do
    <2>2. pc = IF build = "crystal" THEN 21 ELSE 24
      BY <1>1, <2>1, Places
    <2>3. 14 < pc /\ (pc < DfllSteps \/ (pc = DfllSteps /\ build = "crystalless"))
      BY <1>1, <1>2, <2>2
    <2> QED
      BY <2>1, <2>3, DfllWrite, Zenon
  <1> QED
    BY <1>3, <1>4, <1>5, <1>6, <1>7, <1>8, <1>9

\* Every step of Reset_Handler and SystemInit keeps the invariant.
LEMMA StepInv == ASSUME BootInv, Step PROVE BootInv'
  BY ResetHandlerInv, PeripheralsInv, WaitsInv, OscillatorsInv, GeneratorsInv,
     DfllInvKept DEF Step

-----------------------------------------------------------------------------
(* The hardware, and the ways into Reset_Handler.                           *)

\* What the hardware does on its own keeps what is said of memory.
LEMMA HardwareKeeps ==
    ASSUME BootInv, NEW registers, Becomes(registers), registers \in Hardware
    PROVE  /\ BootTypeOK' /\ MemoryInv' /\ hw' = registers
           /\ pc' = pc /\ build' = build /\ DfllSteps' = DfllSteps /\ Tree' = Tree
  <1>1. BootTypeOK /\ MemoryInv
    BY DEF BootInv
  <1>2. UNCHANGED <<build, fitted, pc, data, bss, constructed, usb_isr, SystemCoreClock,
                    systick, usb>> /\ hw' = registers
    BY DEF Becomes, ramVars, coreVars
  <1>3. DfllSteps' = DfllSteps /\ Len(Program)' = Len(Program)
    BY <1>2, ProgramKept
  <1>4. BootTypeOK'
    BY <1>1, <1>2, <1>3 DEF BootTypeOK
  <1>5. MemoryInv'
    BY <1>1, <1>2, <1>3 DEF MemoryInv
  <1>6. Tree' = Tree
    BY <1>2, <1>3 DEF Tree
  <1> QED
    BY <1>2, <1>3, <1>4, <1>5, <1>6

\* A synchronisation or a reset of the clock controller ends, the 32 kHz oscillator
\* starts, the DFLL is synchronised or locks.
LEMMA HardwareInv ==
    ASSUME BootInv, HardwareStep
    PROVE  BootInv'
  <1>1. GclkInv /\ DfllInv /\ hw \in Hardware
    BY DEF BootInv, BootTypeOK
  <1>2. DfllSteps \in {22, 24} /\ pc \in Nat
    BY ProgramLength DEF BootInv, BootTypeOK
  <1>3. CASE hw.gclk = "sync" /\ Becomes([hw EXCEPT !.gclk = "idle"])
    <2> DEFINE registers == [hw EXCEPT !.gclk = "idle"]
    <2>1. registers \in Hardware /\ Becomes(registers)
      BY <1>1, <1>3 DEF Hardware
    <2>2. /\ BootTypeOK' /\ MemoryInv' /\ hw' = registers
          /\ pc' = pc /\ build' = build /\ DfllSteps' = DfllSteps /\ Tree' = Tree
      BY <2>1, HardwareKeeps
    <2>3. /\ hw'.gclk = "idle" /\ hw'.rws = hw.rws /\ hw'.gen = hw.gen
          /\ hw'.mux0 = hw.mux0 /\ hw'.presc = hw.presc /\ hw'.dfll = hw.dfll
      BY <1>1, <2>2 DEF Hardware
    <2> HIDE DEF registers
    <2>4. GclkInv'
      BY <1>1, <1>2, <1>3, <2>2, <2>3 DEF GclkInv
    <2>5. DfllInv'
      BY <1>1, <1>2, <2>2, <2>3 DEF DfllInv
    <2> QED
      BY <2>2, <2>4, <2>5 DEF BootInv
  <1>4. CASE /\ hw.gclk = "swrst"
             /\ Becomes([hw EXCEPT !.gclk = "idle", !.gen = AfterSwrst, !.mux0 = FALSE])
    <2> DEFINE registers == [hw EXCEPT !.gclk = "idle", !.gen = AfterSwrst, !.mux0 = FALSE]
    <2>1. registers \in Hardware /\ Becomes(registers)
      BY <1>1, <1>4, TreeType DEF Hardware
    <2>2. /\ BootTypeOK' /\ MemoryInv' /\ hw' = registers
          /\ pc' = pc /\ build' = build /\ DfllSteps' = DfllSteps /\ Tree' = Tree
      BY <2>1, HardwareKeeps
    <2>3. /\ hw'.gclk = "idle" /\ hw'.rws = hw.rws /\ hw'.gen = AfterSwrst
          /\ hw'.presc = hw.presc /\ hw'.dfll = hw.dfll
      BY <1>1, <2>2 DEF Hardware
    <2> HIDE DEF registers
    <2>4. pc = 8
      BY <1>1, <1>4 DEF GclkInv
    <2>5. Tree = AfterSwrst
      <3>1. ~(pc > DfllSteps + 4) /\ ~(pc > 11) /\ ~(pc > DfllSteps + 7)
        BY <1>2, <2>4
      <3>2. Tree = [AfterSwrst EXCEPT ![0] = "OSC8M", ![1] = "none", ![3] = "none"]
        BY <3>1, Zenon DEF Tree
      <3>3. AfterSwrst[0] = "OSC8M" /\ AfterSwrst[1] = "none" /\ AfterSwrst[3] = "none"
        BY DEF AfterSwrst, Generator
      <3> QED
        BY <3>2, <3>3, TreeType
    <2>6. GclkInv'
      BY <1>1, <1>2, <2>2, <2>3, <2>4, <2>5 DEF GclkInv
    <2>7. hw'.gen[0] = "OSC8M"
      BY <1>2, <2>3, <2>4, <2>5, TreeType
    <2>8. DfllInv'
      BY <1>1, <1>2, <2>2, <2>3, <2>4, <2>7 DEF DfllInv
    <2> QED
      BY <2>2, <2>6, <2>8 DEF BootInv
  <1>5. CASE OscReady
    <2> DEFINE registers == [hw EXCEPT !.osc32k = "ready"]
    <2>1. registers \in Hardware /\ Becomes(registers)
      BY <1>1, <1>5 DEF OscReady, Hardware
    <2>2. /\ BootTypeOK' /\ MemoryInv' /\ hw' = registers
          /\ pc' = pc /\ build' = build /\ DfllSteps' = DfllSteps /\ Tree' = Tree
      BY <2>1, HardwareKeeps
    <2>3. /\ hw'.gclk = hw.gclk /\ hw'.rws = hw.rws /\ hw'.gen = hw.gen
          /\ hw'.mux0 = hw.mux0 /\ hw'.presc = hw.presc /\ hw'.dfll = hw.dfll
      BY <1>1, <2>2 DEF Hardware
    <2> HIDE DEF registers
    <2>4. GclkInv'
      BY <1>1, <2>2, <2>3 DEF GclkInv
    <2>5. DfllInv'
      BY <1>1, <2>2, <2>3 DEF DfllInv
    <2> QED
      BY <2>2, <2>4, <2>5 DEF BootInv
  <1>6. CASE DfllSynced
    <2> DEFINE registers == [hw EXCEPT !.dfll.ready = TRUE]
    <2>1. registers \in Hardware /\ Becomes(registers)
      BY <1>1, <1>6 DEF DfllSynced, Hardware
    <2>2. /\ BootTypeOK' /\ MemoryInv' /\ hw' = registers
          /\ pc' = pc /\ build' = build /\ DfllSteps' = DfllSteps /\ Tree' = Tree
      BY <2>1, HardwareKeeps
    <2>3. /\ hw'.gclk = hw.gclk /\ hw'.rws = hw.rws /\ hw'.gen = hw.gen
          /\ hw'.mux0 = hw.mux0 /\ hw'.presc = hw.presc
      BY <1>1, <2>2 DEF Hardware
    <2>4. hw'.dfll.on = hw.dfll.on /\ hw'.dfll.locks = hw.dfll.locks
      BY <1>1, <2>2 DEF Hardware
    <2>5. hw'.dfll.ready
      BY <1>1, <2>2 DEF Hardware
    <2> HIDE DEF registers
    <2>6. GclkInv'
      BY <1>1, <2>2, <2>3 DEF GclkInv
    <2>7. DfllInv'
      BY <1>1, <2>2, <2>3, <2>4, <2>5 DEF DfllInv
    <2> QED
      BY <2>2, <2>6, <2>7 DEF BootInv
  <1>7. CASE DfllLocks
    <2> DEFINE registers == [hw EXCEPT !.dfll.locks = IF @ = {} THEN {"coarse"} ELSE Locks]
    <2>1. registers \in Hardware
      BY <1>1 DEF Hardware, Locks
    <2>2. Becomes(registers) /\ hw.dfll.locks # Locks
      BY <1>7 DEF DfllLocks
    <2>3. /\ BootTypeOK' /\ MemoryInv' /\ hw' = registers
          /\ pc' = pc /\ build' = build /\ DfllSteps' = DfllSteps /\ Tree' = Tree
      BY <2>1, <2>2, HardwareKeeps
    <2>4. /\ hw'.gclk = hw.gclk /\ hw'.rws = hw.rws /\ hw'.gen = hw.gen
          /\ hw'.mux0 = hw.mux0 /\ hw'.presc = hw.presc
      BY <1>1, <2>3 DEF Hardware
    <2>5. hw'.dfll.on = hw.dfll.on
      BY <1>1, <2>3 DEF Hardware
    <2>6. hw'.dfll.ready = hw.dfll.ready
      BY <1>1, <2>3 DEF Hardware
    <2> HIDE DEF registers
    <2>7. GclkInv'
      BY <1>1, <2>3, <2>4 DEF GclkInv
    <2>8. ~(pc <= 8 /\ hw.gen[0] = "DFLL48M") /\ ~(pc > DfllSteps /\ build = "crystal")
      BY <1>1, <2>2 DEF DfllInv
    <2>9. DfllInv'
      BY <1>1, <2>3, <2>4, <2>5, <2>6, <2>8 DEF DfllInv
    <2> QED
      BY <2>3, <2>7, <2>9 DEF BootInv
  <1> QED
    BY <1>3, <1>4, <1>5, <1>6, <1>7 DEF HardwareStep, GclkDone

\* However the board is entered, a processor on the DFLL has a steady one.
LEMMA LeftoverSteady ==
    ASSUME NEW registers \in Leftover
    PROVE  /\ registers \in Hardware /\ registers.gclk = "idle"
           /\ registers.gen[0] = "DFLL48M" =>
                /\ registers.rws = 1 /\ registers.dfll.on /\ registers.dfll.ready
                /\ registers.dfll.locks = Locks
  <1>1. PICK osc \in {"off", "ready"} :
            registers = AfterReset(osc) \/ registers = FromBootloader(osc)
    BY DEF Leftover, OscLeft
  <1>2. DfllOff \in [on : BOOLEAN, mode : {"open", "closed"}, ready : BOOLEAN,
                     locks : SUBSET Locks]
    BY DEF DfllOff
  <1>3. AfterReset(osc) \in Hardware /\ AfterReset(osc).gclk = "idle"
        /\ AfterReset(osc).gen[0] = "OSC8M"
    BY <1>2, TreeType DEF AfterReset, Hardware, AfterSwrst, Generator
  <1>4. CASE registers = AfterReset(osc)
    BY <1>3, <1>4
  <1>5. CASE registers = FromBootloader(osc)
    <2> DEFINE gen  == [i \in Generator |-> CASE i = 0 -> "DFLL48M" [] i = 1 -> "OSC32K"
                                             [] i = 2 -> "OSCULP32K" [] OTHER -> "OSC8M"]
               dfll == [on |-> TRUE, mode |-> "closed", ready |-> TRUE, locks |-> Locks]
    <2>1. gen \in [Generator -> Source]
      BY DEF Generator, Source
    <2>2. dfll \in [on : BOOLEAN, mode : {"open", "closed"}, ready : BOOLEAN,
                    locks : SUBSET Locks]
      OBVIOUS
    <2>3. registers = [AfterReset(osc) EXCEPT !.rws = 1, !.mux0 = TRUE, !.presc = 1,
                                              !.gen = gen, !.dfll = dfll]
      BY <1>5 DEF FromBootloader
    <2>4. dfll.on /\ dfll.ready /\ dfll.locks = Locks
      OBVIOUS
    <2> HIDE DEF gen, dfll
    <2>5. registers \in Hardware /\ registers.gclk = "idle" /\ registers.rws = 1
          /\ registers.dfll = dfll
      BY <1>3, <2>1, <2>2, <2>3 DEF Hardware
    <2> QED
      BY <2>4, <2>5
  <1> QED
    BY <1>1, <1>4, <1>5

\* The first step finds the board as one of the ways into Reset_Handler leaves it.
Entry ==
    /\ build \in {"crystal", "crystalless"} /\ fitted \in BOOLEAN
    /\ pc = 1
    /\ data = "stale" /\ bss = "stale" /\ constructed = FALSE /\ usb_isr = "stale"
    /\ SystemCoreClock \in {0, 1000, 48000}
    /\ systick = 0 /\ usb = "off"
    /\ hw \in Leftover

\* The invariant holds there.
LEMMA EntryInv == Entry => BootInv
  <1> SUFFICES ASSUME Entry PROVE BootInv
    OBVIOUS
  <1>1. /\ build \in {"crystal", "crystalless"} /\ fitted \in BOOLEAN /\ pc = 1
        /\ data = "stale" /\ bss = "stale" /\ usb_isr = "stale"
        /\ SystemCoreClock \in {0, 1000, 48000} /\ systick = 0 /\ usb = "off"
    BY DEF Entry
  <1>2. DfllSteps \in {22, 24} /\ pc \in 1 .. Len(Program)
    BY <1>1, ProgramLength
  <1>3. /\ hw \in Hardware /\ hw.gclk = "idle"
        /\ hw.gen[0] = "DFLL48M" =>
             hw.rws = 1 /\ hw.dfll.on /\ hw.dfll.ready /\ hw.dfll.locks = Locks
    BY LeftoverSteady DEF Entry
  <1>4. constructed = FALSE
    BY SMT DEF Entry
  <1>5. constructed \in BOOLEAN
    BY <1>4
  <1>6. BootTypeOK
    BY <1>1, <1>2, <1>3, <1>5 DEF BootTypeOK
  <1>7. MemoryInv
    BY <1>1, <1>2 DEF MemoryInv
  <1>8. GclkInv
    BY <1>1, <1>2, <1>3 DEF GclkInv
  <1>9. DfllInv
    BY <1>1, <1>2, <1>3 DEF DfllInv
  <1> QED
    BY <1>6, <1>7, <1>8, <1>9 DEF BootInv

\* A reset may come at any step.
LEMMA ResetInv ==
    ASSUME BootTypeOK, Reset
    PROVE  BootInv'
  <1>1. (hw \in Leftover)'
    BY DEF Reset, Leftover, OscLeft
  <1>2. build' \in {"crystal", "crystalless"} /\ fitted' \in BOOLEAN
        /\ SystemCoreClock' \in {0, 1000, 48000}
    BY DEF BootTypeOK, Reset
  <1>3. pc' = 1 /\ data' = "stale" /\ bss' = "stale" /\ usb_isr' = "stale"
        /\ systick' = 0 /\ usb' = "off" /\ constructed' = FALSE
    BY DEF Reset
  <1>4. Entry'
    BY <1>1, <1>2, <1>3 DEF Entry
  <1> QED
    BY <1>4, EntryInv, PTL

-----------------------------------------------------------------------------
(* The host.                                                                *)

\* The board's variables change with the board only.
LEMMA BootKept ==
    ASSUME BootInv, UNCHANGED bootVars
    PROVE  BootInv'
  <1>1. UNCHANGED <<build, fitted, pc, data, bss, constructed, usb_isr, SystemCoreClock,
                    systick, usb, hw>>
    BY DEF bootVars, ramVars, coreVars
  <1>2. DfllSteps' = DfllSteps /\ Len(Program)' = Len(Program)
    BY <1>1, ProgramKept
  <1>3. BootTypeOK'
    BY <1>1, <1>2 DEF BootInv, BootTypeOK
  <1>4. MemoryInv'
    BY <1>1, <1>2 DEF BootInv, MemoryInv
  <1>5. GclkInv'
    <2>1. Tree' = Tree
      BY <1>1, <1>2 DEF Tree
    <2> QED
      BY <1>1, <1>2, <2>1 DEF BootInv, GclkInv
  <1>6. DfllInv'
    BY <1>1, <1>2 DEF BootInv, DfllInv
  <1> QED
    BY <1>3, <1>4, <1>5, <1>6 DEF BootInv

\* The pipes a host reads out of the configuration are what usbserial_init enables.
LEMMA PipesMatch == PipesOf(ConfigurationDescriptor) = EnabledEndpoints
  <1> DEFINE c == ConfigurationDescriptor
  <1>1. /\ Len(c) = 9 /\ c[1].kind = "configuration" /\ c[2].kind = "interface"
        /\ c[3].kind = "header" /\ c[4].kind = "ACM" /\ c[5].kind = "union"
        /\ c[7].kind = "interface"
    BY DEF ConfigurationDescriptor
  <1>2. /\ c[6] = EndpointDesc(EpNotification, "interrupt", 8)
        /\ c[8] = EndpointDesc(EpOut, "bulk", 64) /\ c[9] = EndpointDesc(EpIn, "bulk", 64)
    BY DEF ConfigurationDescriptor
  <1> HIDE DEF c
  <1>3. Positions(c, "endpoint") = {6, 8, 9}
    <2>1. c[6].kind = "endpoint" /\ c[8].kind = "endpoint" /\ c[9].kind = "endpoint"
      BY <1>2 DEF EndpointDesc
    <2>2. \A k \in 1 .. 9 : k \in {1, 2, 3, 4, 5, 6, 7, 8, 9}
      OBVIOUS
    <2> QED
      BY <1>1, <2>1, <2>2 DEF Positions
  <1>4. PipesOf(c) = {<<c[k].address, c[k].type, c[k].size>> : k \in {6, 8, 9}}
    BY <1>3 DEF PipesOf
  <1>5. /\ <<c[6].address, c[6].type, c[6].size>> = <<EpNotification, "interrupt", 8>>
        /\ <<c[8].address, c[8].type, c[8].size>> = <<EpOut, "bulk", 64>>
        /\ <<c[9].address, c[9].type, c[9].size>> = <<EpIn, "bulk", 64>>
    BY <1>2 DEF EndpointDesc
  <1>6. PipesOf(c) = EnabledEndpoints
    BY <1>4, <1>5 DEF EnabledEndpoints
  <1> QED
    BY <1>6 DEF c

\* The host asks for strings that exist only, and a configured device has the
\* endpoints enabled that it read of.
LEMMA HostStep ==
    ASSUME HostInv, Next
    PROVE  HostInv'
  <1> USE DEF HostInv
  <1>1. CASE UNCHANGED <<endpoints, faulted, hostVars>>
    BY <1>1 DEF hostVars
  <1>2. CASE BusReset
    BY <1>2 DEF BusReset
  <1>3. CASE GetDeviceDescriptor
    <2>1. {0} \cup {DeviceDescriptor[field] : field \in DOMAIN DeviceDescriptor} \subseteq 0 .. 3
      BY DEF DeviceDescriptor
    <2> QED
      BY <1>3, <2>1 DEF GetDeviceDescriptor
  <1>4. ASSUME NEW index, GetString(index) PROVE HostInv'
    BY <1>4 DEF GetString
  <1>5. CASE GetConfigurationDescriptor
    BY <1>5 DEF GetConfigurationDescriptor
  <1>6. ASSUME NEW config, SetConfiguration(config) PROVE HostInv'
    BY <1>6 DEF SetConfiguration
  <1>7. ASSUME NEW index, GetNoString(index) PROVE HostInv'
    BY <1>7 DEF GetNoString
  <1>8. CASE BoardReset
    BY <1>8 DEF BoardReset
  <1> QED
    BY <1>1, <1>2, <1>3, <1>4, <1>5, <1>6, <1>7, <1>8 DEF Next, Enumerate

-----------------------------------------------------------------------------
(* The theorems.                                                            *)

\* Whatever the host does, and however often the board is reset.
THEOREM BootHolds == Spec => []BootInv
  <1>1. Init => BootInv
    <2>1. Init => Entry
      BY DEF Init, BootInit, Entry
    <2> QED
      BY <2>1, EntryInv
  <1>2. BootInv /\ [Next]_vars => BootInv'
    <2> SUFFICES ASSUME BootInv, [Next]_vars PROVE BootInv'
      OBVIOUS
    <2>1. CASE Step
      BY <2>1, StepInv
    <2>2. CASE HardwareStep
      BY <2>2, HardwareInv
    <2>3. CASE Reset
      BY <2>3, ResetInv DEF BootInv
    <2>4. CASE UNCHANGED bootVars
      BY <2>4, BootKept
    <2> QED
      BY <2>1, <2>2, <2>3, <2>4 DEF Next, Enumerate, BusReset, GetDeviceDescriptor,
         GetString, GetNoString, GetConfigurationDescriptor, SetConfiguration,
         BoardReset, Answers, vars
  <1> QED
    BY <1>1, <1>2, PTL DEF Spec

\* What the host knows of the device is true of it.
THEOREM HostHolds == Spec => []HostInv
  <1>1. Init => HostInv
    BY DEF Init, HostInv
  <1>2. HostInv /\ [Next]_vars => HostInv'
    <2>1. HostInv /\ UNCHANGED vars => HostInv'
      BY DEF HostInv, vars, hostVars
    <2> QED
      BY <2>1, HostStep
  <1> QED
    BY <1>1, <1>2, PTL DEF Spec

\* The processor's clock is steady at every step, and slow enough for the flash: a
\* bootloader's DFLL until SystemInit has left it, the board's own once it is locked.
THEOREM ClockSteady == Spec => []CpuClockSteady
  <1>1. BootInv => CpuClockSteady
    <2> SUFFICES ASSUME BootInv PROVE CpuClockSteady
      OBVIOUS
    <2>1. GclkInv /\ DfllInv /\ hw \in Hardware /\ DfllSteps \in {22, 24} /\ pc \in Nat
          /\ build \in {"crystal", "crystalless"}
      BY ProgramLength DEF BootInv, BootTypeOK
    <2>2. CASE hw.gen[0] = "DFLL48M"
      <3>1. pc > DfllSteps + 4 \/ (pc <= 8 /\ hw.gen[0] = "DFLL48M")
        BY <2>1, <2>2, TreeType DEF GclkInv
      <3>2. hw.rws = 1
        BY <2>1, <3>1 DEF DfllInv
      <3>3. hw.dfll.on
        BY <2>1, <3>1 DEF DfllInv
      <3>4. hw.dfll.ready
        BY <2>1, <3>1 DEF DfllInv
      <3>5. build = "crystal" => hw.dfll.locks = Locks
        BY <2>1, <3>1 DEF DfllInv
      <3> QED
        BY <3>2, <3>3, <3>4, <3>5 DEF CpuClockSteady
    <2>3. CASE hw.gen[0] # "DFLL48M"
      <3>1. hw.presc \in {1, 8}
        BY <2>1 DEF Hardware
      <3>2. CpuKHz = 8000 \div hw.presc
        BY <2>3 DEF CpuKHz
      <3>3. ~(CpuKHz > 24000)
        BY <3>1, <3>2
      <3> QED
        BY <2>3, <3>3 DEF CpuClockSteady
    <2> QED
      BY <2>2, <2>3
  <1> QED
    BY <1>1, BootHolds, PTL

\* No interrupt finds .data, .bss, the callbacks or USB_Handler's pointer unset.
THEOREM MemoryReady == Spec => []MemoryBeforeInterrupts
  <1>1. BootInv => MemoryBeforeInterrupts
    <2> SUFFICES ASSUME BootInv, systick # 0 \/ usb # "off" PROVE MemoryBeforeInterrupts
      BY DEF MemoryBeforeInterrupts
    <2>1. MemoryInv /\ DfllSteps \in {22, 24} /\ pc \in Nat
      BY ProgramLength DEF BootInv, BootTypeOK
    <2>2. pc > DfllSteps + 11
      BY <2>1 DEF MemoryInv
    <2>3. data = "initial" /\ bss = "zero"
      BY <2>1, <2>2 DEF MemoryInv
    <2>4. constructed
      BY <2>1, <2>2 DEF MemoryInv
    <2>5. usb # "off" => usb_isr = "usb_isr"
      BY <2>1 DEF MemoryInv
    <2> QED
      BY <2>3, <2>4, <2>5 DEF MemoryBeforeInterrupts
  <1> QED
    BY <1>1, BootHolds, PTL

\* A tick is a millisecond whenever SysTick runs.
THEOREM TickRight == Spec => []TickIsMillisecond
  <1>1. BootInv => TickIsMillisecond
    <2> SUFFICES ASSUME BootInv, systick # 0 PROVE systick = CpuKHz
      BY DEF TickIsMillisecond
    <2>1. MemoryInv /\ GclkInv /\ DfllSteps \in {22, 24} /\ pc \in Nat
      BY ProgramLength DEF BootInv, BootTypeOK
    <2>2. pc > DfllSteps + 11 /\ systick = 48000
      BY <2>1 DEF MemoryInv
    <2>3. hw.gen[0] = "DFLL48M"
      BY <2>1, <2>2, TreeType DEF GclkInv
    <2> QED
      BY <2>2, <2>3 DEF CpuKHz
  <1> QED
    BY <1>1, BootHolds, PTL

\* main() finds one clock tree, whatever was there before.
THEOREM SameClocks == Spec => []SameClocksInMain
  <1>1. BootInv => SameClocksInMain
    <2> SUFFICES ASSUME BootInv, At("main") PROVE SameClocksInMain
      BY DEF SameClocksInMain
    <2>1. GclkInv /\ DfllInv /\ DfllSteps \in {22, 24} /\ pc \in Nat
          /\ build \in {"crystal", "crystalless"} /\ pc \in 1 .. Len(Program)
      BY ProgramLength DEF BootInv, BootTypeOK
    <2>2. pc = DfllSteps + 14
      BY <2>1, Places
    <2>3. pc > DfllSteps + 8 /\ pc > 13 /\ pc > DfllSteps + 4 /\ pc > DfllSteps + 7
      BY <2>1, <2>2
    <2>4. hw.gen = Tree /\ hw.gclk = "idle" /\ hw.presc = 1
      BY <2>1, <2>3 DEF GclkInv
    <2>5. hw.mux0
      BY <2>1, <2>3 DEF GclkInv
    <2>6. hw.rws = 1
      BY <2>1, <2>3 DEF DfllInv
    <2>7. Tree = [AfterSwrst EXCEPT ![0] = "DFLL48M", ![1] = "OSC32K", ![3] = "OSC8M"]
      <3>1. pc > 11
        BY <2>1, <2>3
      <3> QED
        BY <2>3, <3>1, Zenon DEF Tree
    <2> QED
      BY <2>4, <2>5, <2>6, <2>7 DEF SameClocksInMain
  <1> QED
    BY <1>1, BootHolds, PTL

\* Every variable has its type.
THEOREM TypeCorrect == Spec => []TypeOK
  <1>1. BootInv /\ HostInv => TypeOK
    BY DEF BootInv, HostInv, TypeOK
  <1> QED
    BY <1>1, BootHolds, HostHolds, PTL

\* A configured device has the endpoints enabled that its descriptors promise.
THEOREM PipesAreEndpoints == Spec => []HostPipesMatch
  <1>1. HostInv => HostPipesMatch
    BY PipesMatch DEF HostInv, HostPipesMatch
  <1> QED
    BY <1>1, HostHolds, PTL
=============================================================================
