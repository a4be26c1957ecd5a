------------------------------- MODULE DelayProofs -------------------------------
(***************************************************************************)
(* delay() of core/delay.c is on time for every width of the counter,      *)
(* provided that its loops read the counter at least once per tick.        *)
(*                                                                         *)
(* The invariant follows `elapsed' through both loops.  The loop that      *)
(* waits for the wrap ends at the wrap itself, because no tick is missed;  *)
(* the second loop then never sees the counter go past `end' and wrap      *)
(* again.  elapsed - lag is the age of the value last read.                *)
(***************************************************************************)
EXTENDS Delay, TLAPS

\* The counter does not wrap in the rest of this call.
Unwrapped == start + elapsed < Modulus

InWrap ==
    /\ end < start /\ asked = Modulus + end - start
    /\ start + elapsed - lag < Modulus
    /\ _ulTickCount = IF Unwrapped THEN start + elapsed ELSE 0

InWait ==
    /\ \/ /\ end = start + asked
          /\ _ulTickCount = start + elapsed
       \/ /\ end = start + asked - Modulus
          /\ _ulTickCount = start + elapsed - Modulus
    /\ elapsed - lag <= asked
    /\ elapsed - lag = asked => end = 0

DelayInv ==
    /\ TypeOK
    /\ pc # "idle" => asked > 0 /\ lag <= elapsed
    /\ pc = "wrap" => InWrap
    /\ pc = "wait" => InWait

-----------------------------------------------------------------------------
\* Wrapping arithmetic of the counter and of start + ms: at most one wrap.
LEMMA WrapOnce ==
  ASSUME NEW a \in 0 .. 2 * Modulus - 1
  PROVE  \/ a < Modulus /\ a % Modulus = a
         \/ ~(a < Modulus) /\ a % Modulus = a - Modulus
<1>1. CASE a < Modulus
  <2>1. a \in 0 .. Modulus - 1 /\ Modulus \in Nat \ {0}
    BY <1>1, ModulusAssumption
  <2> QED BY <1>1, <2>1
<1>2. CASE ~(a < Modulus)
  <2>1. Modulus \in Nat \ {0}
    BY ModulusAssumption
  <2>2. a \in Modulus .. 2 * Modulus - 1
    BY <1>2, <2>1
  <2>3. a % Modulus = a - Modulus
    BY <2>1, <2>2
  <2> QED BY <1>2, <2>3
<1> QED BY <1>1, <1>2

\* delay is called: the wrapped end tells which loop comes first.
LEMMA CallKeeps ==
  ASSUME MaxLag = 1, DelayInv, NEW ms \in Word, Call(ms)
  PROVE  DelayInv'
<1> USE ModulusAssumption DEF Word, ElapsedCap
<1>1. _ulTickCount \in Word /\ _ulTickCount' = _ulTickCount /\ ms > 0
  BY DEF DelayInv, TypeOK, Call
<1>2. _ulTickCount + ms \in 0 .. 2 * Modulus - 1
  BY <1>1
<1>3. /\ start' = _ulTickCount /\ asked' = ms /\ elapsed' = 0 /\ lag' = 0
      /\ end' = IF start' + ms < Modulus THEN start' + ms ELSE start' + ms - Modulus
      /\ pc' = IF end' < start' THEN "wrap" ELSE "wait"
  <2> DEFINE sum == _ulTickCount + ms
  <2>1. /\ start' = _ulTickCount /\ asked' = ms /\ elapsed' = 0 /\ lag' = 0
        /\ pc' = IF end' < start' THEN "wrap" ELSE "wait"
    BY DEF Call, millis
  <2>2. sum \in 0 .. 2 * Modulus - 1 /\ sum = start' + ms
    BY <1>2, <2>1
  <2>3. end' = sum % Modulus
    BY DEF Call, millis
  <2> HIDE DEF sum
  <2>4. \/ sum < Modulus /\ end' = sum
        \/ ~(sum < Modulus) /\ end' = sum - Modulus
    BY <2>2, <2>3, WrapOnce, Zenon
  <2> QED BY <1>1, <2>1, <2>2, <2>4
<1>4. TypeOK'
  BY <1>1, <1>3, LagAssumption DEF TypeOK
<1>5. CASE start' + ms < Modulus
  <2>1. pc' = "wait" /\ InWait'
    BY <1>1, <1>3, <1>5 DEF InWait
  <2> QED BY <1>1, <1>3, <1>4, <2>1 DEF DelayInv
<1>6. CASE ~(start' + ms < Modulus)
  <2>1. pc' = "wrap" /\ InWrap'
    BY <1>1, <1>3, <1>6 DEF InWrap, Unwrapped
  <2> QED BY <1>1, <1>3, <1>4, <2>1 DEF DelayInv
<1> QED BY <1>5, <1>6

\* The first loop reads the counter: only the wrap, or end = 0 at it, ends it.
LEMMA PollWrapKeeps ==
  ASSUME MaxLag = 1, DelayInv, PollWrap
  PROVE  DelayInv'
<1> USE ModulusAssumption DEF Word, ElapsedCap
<1>1. /\ pc = "wrap" /\ InWrap /\ asked > 0 /\ lag <= elapsed
      /\ start \in Word /\ end \in Word /\ lag \in 0 .. 1
      /\ elapsed \in 0 .. ElapsedCap /\ asked \in Word
  BY DEF DelayInv, TypeOK, PollWrap
<1>2. /\ lag' = 0 /\ start' = start /\ end' = end /\ elapsed' = elapsed
      /\ asked' = asked /\ _ulTickCount' = _ulTickCount
      /\ pc' = IF end < _ulTickCount THEN "wrap" ELSE "wait"
  BY DEF PollWrap, millis
<1>3. TypeOK'
  BY <1>2, LagAssumption DEF DelayInv, TypeOK
<1>4. CASE end < _ulTickCount
  <2>1. pc' = "wrap" /\ InWrap'
    BY <1>1, <1>2, <1>4 DEF InWrap, Unwrapped
  <2> QED BY <1>1, <1>2, <1>3, <2>1 DEF DelayInv
<1>5. CASE ~(end < _ulTickCount)
  <2>1. start + elapsed = Modulus /\ _ulTickCount = 0
    BY <1>1, <1>5 DEF InWrap, Unwrapped
  <2>2. pc' = "wait" /\ InWait'
    BY <1>1, <1>2, <1>5, <2>1 DEF InWrap, InWait
  <2> QED BY <1>1, <1>2, <1>3, <2>2 DEF DelayInv
<1> QED BY <1>4, <1>5

\* The second loop reads the counter: it goes on only while time is left.
LEMMA PollWaitKeeps ==
  ASSUME MaxLag = 1, DelayInv, PollWait
  PROVE  DelayInv'
<1> USE ModulusAssumption DEF Word, ElapsedCap
<1>1. /\ pc = "wait" /\ InWait /\ asked > 0 /\ lag <= elapsed
      /\ start \in Word /\ end \in Word /\ lag \in 0 .. 1
      /\ elapsed \in 0 .. ElapsedCap /\ asked \in Word
  BY DEF DelayInv, TypeOK, PollWait
<1>2. /\ lag' = 0 /\ start' = start /\ end' = end /\ elapsed' = elapsed
      /\ asked' = asked /\ _ulTickCount' = _ulTickCount
      /\ pc' = IF end > _ulTickCount THEN "wait" ELSE "idle"
  BY DEF PollWait, millis
<1>3. TypeOK'
  BY <1>2, LagAssumption DEF DelayInv, TypeOK
<1>4. pc' = "wait" => InWait'
  BY <1>1, <1>2 DEF InWait
<1> QED BY <1>1, <1>2, <1>3, <1>4 DEF DelayInv

\* A tick: the counter wraps at most once in a call.
LEMMA TickKeeps ==
  ASSUME MaxLag = 1, DelayInv, SysTick_Handler
  PROVE  DelayInv'
<1> USE ModulusAssumption DEF Word, ElapsedCap
<1>1. /\ _ulTickCount \in Word /\ start \in Word /\ end \in Word /\ lag \in 0 .. 1
      /\ elapsed \in 0 .. ElapsedCap /\ asked \in Word
      /\ pc # "idle" => asked > 0 /\ lag = 0
      /\ pc = "wrap" => InWrap
      /\ pc = "wait" => InWait
  BY DEF DelayInv, TypeOK, SysTick_Handler
<1>2. _ulTickCount + 1 \in 0 .. 2 * Modulus - 1
  BY <1>1
<1>3. /\ pc' = pc /\ start' = start /\ end' = end /\ asked' = asked
      /\ _ulTickCount' = IF _ulTickCount + 1 < Modulus THEN _ulTickCount + 1
                         ELSE _ulTickCount + 1 - Modulus
  <2> DEFINE sum == _ulTickCount + 1
  <2>1. pc' = pc /\ start' = start /\ end' = end /\ asked' = asked
    BY DEF SysTick_Handler
  <2>2. sum \in 0 .. 2 * Modulus - 1
    BY <1>2
  <2>3. _ulTickCount' = sum % Modulus
    BY DEF SysTick_Handler
  <2> HIDE DEF sum
  <2>4. \/ sum < Modulus /\ _ulTickCount' = sum
        \/ ~(sum < Modulus) /\ _ulTickCount' = sum - Modulus
    BY <2>2, <2>3, WrapOnce, Zenon
  <2> QED BY <1>1, <2>1, <2>4 DEF sum
<1>4. CASE pc = "idle"
  <2>1. lag' = 0 /\ elapsed' = elapsed
    BY <1>4 DEF SysTick_Handler
  <2> QED BY <1>1, <1>3, <1>4, <2>1, LagAssumption DEF DelayInv, TypeOK
<1>5. CASE pc # "idle"
  <2>1. elapsed <= asked
    BY <1>1, <1>5 DEF DelayInv, TypeOK, InWrap, InWait
  <2>2. lag = 0 /\ lag' = 1 /\ elapsed' = elapsed + 1
    BY <1>1, <1>5, <2>1 DEF SysTick_Handler, Later
  <2>3. TypeOK'
    BY <1>1, <1>3, <2>1, <2>2 DEF DelayInv, TypeOK
  <2>4. pc = "wrap" => InWrap'
    BY <1>1, <1>3, <2>2 DEF InWrap, Unwrapped
  <2>5. pc = "wait" => InWait'
    BY <1>1, <1>3, <2>2 DEF InWait
  <2> QED BY <1>1, <1>3, <2>2, <2>3, <2>4, <2>5 DEF DelayInv
<1> QED BY <1>4, <1>5

-----------------------------------------------------------------------------
\* The invariant of delay and SysTick_Handler.
THEOREM DelayInvHolds ==
  ASSUME MaxLag = 1
  PROVE  Spec => []DelayInv
<1>1. Init => DelayInv
  BY ModulusAssumption, LagAssumption
     DEF Init, DelayInv, TypeOK, Word, ElapsedCap
<1>2. DelayInv /\ [Next]_vars => DelayInv'
  <2> SUFFICES ASSUME DelayInv, [Next]_vars PROVE DelayInv'
    OBVIOUS
  <2>1. CASE \E ms \in Word : Call(ms)
    BY <2>1, CallKeeps
  <2>2. CASE PollWrap
    BY <2>2, PollWrapKeeps
  <2>3. CASE PollWait
    BY <2>3, PollWaitKeeps
  <2>4. CASE SysTick_Handler
    BY <2>4, TickKeeps
  <2>5. CASE UNCHANGED vars
    BY <2>5 DEF vars, DelayInv, TypeOK, InWrap, InWait, Unwrapped
  <2> QED BY <2>1, <2>2, <2>3, <2>4, <2>5 DEF Next, Poll
<1> QED BY <1>1, <1>2, PTL DEF Spec

\* The tick counter and the locals of delay are words of the machine.
THEOREM TypeCorrect ==
  ASSUME MaxLag = 1
  PROVE  Spec => []TypeOK
<1>1. DelayInv => TypeOK
  BY DEF DelayInv
<1> QED BY <1>1, DelayInvHolds, PTL

\* delay overshoots by less than the time between two of its reads.
THEOREM DelayNotLate ==
  ASSUME MaxLag = 1
  PROVE  Spec => []NeverLate
<1>1. DelayInv => NeverLate
  <2> SUFFICES ASSUME DelayInv, pc # "idle" PROVE elapsed < asked + MaxLag + 1
    BY DEF NeverLate
  <2>1. /\ pc \in {"wrap", "wait"} /\ lag \in 0 .. 1 /\ elapsed \in Int
        /\ asked \in Int /\ start \in Int /\ end \in 0 .. Modulus - 1
    BY DEF DelayInv, TypeOK, Word, ElapsedCap
  <2> QED BY <2>1, ModulusAssumption DEF DelayInv, InWrap, InWait
<1> QED BY <1>1, DelayInvHolds, PTL

\* delay never returns before the asked number of ticks.
THEOREM DelayNotEarly ==
  ASSUME MaxLag = 1
  PROVE  Spec => NeverEarly
<1>1. DelayInv => (PollWait /\ pc' = "idle" => elapsed >= asked)
  <2> SUFFICES ASSUME DelayInv, PollWait, pc' = "idle" PROVE elapsed >= asked
    OBVIOUS
  <2>1. InWait /\ end <= _ulTickCount
    BY ModulusAssumption DEF DelayInv, TypeOK, Word, PollWait, millis
  <2>2. /\ _ulTickCount \in Int /\ start \in Int /\ end \in Int
        /\ elapsed \in Int /\ asked \in Int /\ Modulus \in Int
    BY ModulusAssumption DEF DelayInv, TypeOK, Word, ElapsedCap
  <2> QED BY <2>1, <2>2 DEF InWait
<1> QED BY <1>1, DelayInvHolds, PTL DEF NeverEarly
=============================================================================
