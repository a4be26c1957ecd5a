---------------------------------- MODULE Delay ----------------------------------
(***************************************************************************)
(* delay() and millis() of core/delay.c against the SysTick handler that   *)
(* counts the milliseconds.  The counter has Width bits and wraps.         *)
(*                                                                         *)
(* The busy loop reads the counter once per round.  Interrupt handlers may *)
(* hold a round up: at most MaxLag ticks go by between two reads.          *)
(*                                                                         *)
(* A definition Mut_... is a faulty version of the one after it.           *)
(***************************************************************************)
EXTENDS Integers

CONSTANTS
    Modulus,        \* 2^32 in the code: uint32_t, unsigned long
    MaxLag          \* most ticks between two rounds of the loop

ASSUME ModulusAssumption == Modulus \in Nat \ {0, 1}
ASSUME LagAssumption     == MaxLag \in 1 .. Modulus - 1

VARIABLES
    _ulTickCount,
    pc,             \* "idle", "wrap" (first loop), "wait" (second loop)
    start, end,     \* locals of delay, start + ms and its wrapped value
    lag,            \* ticks since the loop last read the counter
    elapsed, asked  \* history: ticks since the call, up to ElapsedCap, and its
                    \* argument

vars == <<_ulTickCount, pc, start, end, lag, elapsed, asked>>

Word == 0 .. Modulus - 1

\* Beyond every argument and lag; a later tick is not counted.
ElapsedCap == 2 * Modulus
Later(ticks) == IF ticks < ElapsedCap THEN ticks + 1 ELSE ticks

millis == _ulTickCount

Init ==
    /\ _ulTickCount = 0 /\ pc = "idle"
    /\ start = 0 /\ end = 0 /\ lag = 0 /\ elapsed = 0 /\ asked = 0

\* The wrap is not noticed.
Mut_Call(ms) ==
    /\ pc = "idle" /\ ms # 0
    /\ start' = millis /\ end' = (millis + ms) % Modulus /\ pc' = "wait"
    /\ lag' = 0 /\ elapsed' = 0 /\ asked' = ms
    /\ UNCHANGED _ulTickCount

\* delay(ms) up to its first loop.  A call with 0 returns at once.
Call(ms) ==
    /\ pc = "idle" /\ ms # 0
    /\ start' = millis
    /\ end' = (millis + ms) % Modulus
    /\ pc' = IF end' < start' THEN "wrap" ELSE "wait"
    /\ lag' = 0 /\ elapsed' = 0 /\ asked' = ms
    /\ UNCHANGED _ulTickCount

\* The loop ends one value too late.
Mut_PollWrap ==
    /\ pc = "wrap"
    /\ pc' = IF end <= millis THEN "wrap" ELSE "wait"
    /\ lag' = 0
    /\ UNCHANGED <<_ulTickCount, start, end, elapsed, asked>>

\* while (end < millis()): wait for the counter to wrap.
PollWrap ==
    /\ pc = "wrap"
    /\ pc' = IF end < millis THEN "wrap" ELSE "wait"
    /\ lag' = 0
    /\ UNCHANGED <<_ulTickCount, start, end, elapsed, asked>>

\* The same in the second loop.
Mut_PollWait ==
    /\ pc = "wait"
    /\ pc' = IF end >= millis THEN "wait" ELSE "idle"
    /\ lag' = 0
    /\ UNCHANGED <<_ulTickCount, start, end, elapsed, asked>>

\* while (end > millis()), and the return.
PollWait ==
    /\ pc = "wait"
    /\ pc' = IF end > millis THEN "wait" ELSE "idle"
    /\ lag' = 0
    /\ UNCHANGED <<_ulTickCount, start, end, elapsed, asked>>

\* The counter does not wrap.
Mut_SysTick_Handler ==
    /\ pc # "idle" => lag < MaxLag
    /\ _ulTickCount < 2 * Modulus /\ _ulTickCount' = _ulTickCount + 1
    /\ lag' = IF pc = "idle" THEN 0 ELSE lag + 1
    /\ elapsed' = IF pc = "idle" THEN elapsed ELSE Later(elapsed)
    /\ UNCHANGED <<pc, start, end, asked>>

\* SysTick_Handler; its call of tickReset is in SerialReset.
SysTick_Handler ==
    /\ pc # "idle" => lag < MaxLag
    /\ _ulTickCount' = (_ulTickCount + 1) % Modulus
    /\ lag' = IF pc = "idle" THEN 0 ELSE lag + 1
    /\ elapsed' = IF pc = "idle" THEN elapsed ELSE Later(elapsed)
    /\ UNCHANGED <<pc, start, end, asked>>

Poll == PollWrap \/ PollWait

Next == (\E ms \in Word : Call(ms)) \/ Poll \/ SysTick_Handler

Spec == Init /\ [][Next]_vars

\* The clock runs and so does the loop.
FairSpec == Spec /\ WF_vars(SysTick_Handler) /\ WF_vars(Poll)

-----------------------------------------------------------------------------
(* Properties.                                                              *)

\* The tick counter and the locals of delay are words of the machine.
TypeOK ==
    /\ _ulTickCount \in Word /\ start \in Word /\ end \in Word
    /\ pc \in {"idle", "wrap", "wait"}
    /\ lag \in 0 .. MaxLag /\ elapsed \in 0 .. ElapsedCap /\ asked \in Word

\* delay never returns before the asked number of ticks, wherever the counter
\* stood at the call and however the wrap falls between two reads of it.
NeverEarly == [][PollWait /\ pc' = "idle" => elapsed >= asked]_vars

\* delay overshoots by less than the time between two of its reads.
NeverLate == pc # "idle" => elapsed < asked + MaxLag + 1

\* Every call of delay returns.
Returns == pc # "idle" ~> pc = "idle"
=============================================================================
