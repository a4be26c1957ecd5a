# samd21j17a-core in TLA+

Modules that model the parts of this core where concurrency, buffer arithmetic
and ordering matter, TLC configurations that check them on small instances, and
TLAPS proofs of every invariant and refinement for every value of the constants.
Paths below are relative to `src/`; `PROJECT.json` maps each definition to its lines.

## The system

The core runs an application on a SAMD21 (Cortex-M0+) with a USB CDC serial
port and an Arduino-style bootloader in the first 8 KiB of flash.  Three
activities share its memory:

* the **application** (`main`), which calls `usbserial::write`/`read` and `delay`;
* the **USB interrupt**, at the reset priority 0 (`core/startup.c:317`), which
  runs the library and its callbacks in `core/USB-CDC.c`;
* **SysTick**, every millisecond at a lower priority, which counts `_ulTickCount`
  and runs `tickReset`.

USB pre-empts everything that does not disable interrupts; SysTick pre-empts
the application; DMA of the USB peripheral reads and writes the ring buffers at
any time.  The USB library (`thirdparty/usb`) is a submodule and is not here; it
is modelled from the calls `core/USB-CDC.c` makes to it and from the callbacks
it is given.

### Inventory

| Component | State | Operations | Interacts with | Hard because | Correct when |
|---|---|---|---|---|---|
| Ring buffer `core/RingBuffer.h` | `_buffer`, `headPtr`, `tailPtr`, `_rx_buffer` | `store`, `read`, single and bulk; `clear`; `prepare`/`completeDirectRead`/`Write`; queries | the port owns two; the USB DMA uses their storage | wrap at `endPtr`, one slot kept free, word alignment, a region reserved between prepare and complete | bytes come out once, in order; an armed region is not reused and stays in the storage |
| Serial port `core/USBserial.cpp` | `tx_buffer`, `rx_buffer`, two DMA flags | `write`, `read`, `available`, polls, `_send_data_cb`, `_receive_data_cb`, `_del` | application above, endpoint glue below | the application and the interrupt both start transfers | no wake-up is lost; flags, rings and endpoints agree |
| Endpoint glue `core/USB-CDC.c` | callbacks, `usbserial_current_tx_length` | `usb_cb_completion`, `usbserial_start_*`, `run_*_callback`, `usbserial_init` and `disable` | USB library, port | a reset or configuration in the middle of a transfer | the transfer accounted for is the one that took place |
| CDC control `core/USB-CDC.c` | `_usbLineInfo`, `_usbCtrlLineInfo`, `_usbPendingNewLineInfo` | `usb_cb_control_setup`, `usb_cb_control_out_completion`, `detectSerialReset` | `initiateReset`, `cancelReset` | requests abort one another | the countdown runs exactly while the port is closed at 1200 bps |
| Bootloader reset `core/Reset.cpp` | `ticks`, one row of flash | `initiateReset`, `cancelReset`, `tickReset`, `banzai` | SysTick, CDC control | `ticks--` is not atomic | a request is not lost; the delay is full; the bootloader is never erased |
| Delay `core/delay.c` | `_ulTickCount` | `millis`, `delay`, `SysTick_Handler` | SysTick | the counter wraps between two reads | never early, late by less than one round, always returns |
| Descriptors `core/USB-CDC.c:20` | constants, serial string | `usb_cb_get_descriptor`, `usb_cb_set_configuration` | host | index out of range; tables and enabling calls must agree | a host that asks what it is told to ask gets configured, with the pipes it was promised |
| Echo mode `core/USB-CDC.c:374` | four packet buffers, the active one | `usbserial_out_completion` | host | an echo starts whether or not the last is done | packets return in order and once, buffers do not overlap, neither side stalls |
| Start-up `core/startup.c`, `cortex_handlers.c` | clocks, `.data`, `.bss`, vectors | `Reset_Handler`, `SystemInit` | hardware, bootloader | waits on hardware flags; what a bootloader or the last run left | the clock is never lost, memory is ready before interrupts, a tick is a millisecond, `main` is reached |
| Peripheral clocks `core/init_clocks.c` | GCLK, PM registers | `initADC`, `initDAC`, ... | hardware | nothing concurrent; called by nothing in the core | not modelled |
| Examples, build, flashing | — | `Blink`, `SerialTest`, `reset.py` | — | — | not modelled; `SerialTest` and `reset.py` suggested the calls enumerated |

## Modules

```
ByteStream                      what a byte stream promises
RingBuffer                      operators: one per member function
  RingBufferApi                 one ring and every call   ==> ByteStream
    MCRingBuffer
  USBserial                     two rings, the port, the glue, DMA and host
    MCUSBserial                                           ==> ByteStream, twice
    SerialCalls                 the calls step by step    ==> USBserial
      MCSerialCalls
RingBufferProofs                lemmas about the operators
  RingBufferApiProofs           theorems about one ring
  USBserialProofs               theorems about the port
    SerialCallsProofs           theorems about the calls
SerialReset                     control requests, tickReset, banzai
  MCSerialReset
  SerialResetProofs             theorems about the reset
Delay                           delay() against SysTick
  DelayProofs                   theorems about the delay
PacketStream                    what an echo promises
UsbEcho                         the echo build            ==> PacketStream
  UsbEchoProofs                 theorems about the echo
Startup                         Reset_Handler and SystemInit
  Enumeration                   descriptors and a host that configures the board
    StartupProofs               theorems about start-up and enumeration
```

`==>` reads "implements" and is both checked as a property and proved
(`StreamSpec`, `TxStreamSpec`, `RxStreamSpec`, `CallsAtomic`, `EchoStream`).

**RingBuffer.**  A ring is the record `[buf, head, tail]`; pointers are offsets
from `_buffer`.  Member functions are operators from a ring to a ring and a
result, because the callers run several of them in one critical section.
`Splits`, `PrewrapLen` and `CopyFrom` are the wrap computation exactly as the
code makes it, including the `endPtr - 1`.

**RingBufferApi.**  Each call is an action, in any order; each side is used
either by the processor or by DMA, as `core/RingBuffer.h:45` demands.  Which, and
with which template argument, is `owner`, chosen in `Init` and never changed.  A DMA
transfer is armed by `Start...` and completed later by `Finish...`, and all calls
of the other side may fall between.  `pending`, `out` and `broken` are history.

**USBserial.**  `Write`, `WriteChar`, `ReadBulk`, `ReadOne` are the public calls;
their bodies run with interrupts disabled, so each is one action and contains the
store or read *and* the conditional start of a transfer with everything it calls.
`UsbCompletion` is the whole interrupt, OUT before IN.  `SetConfiguration` is
`usb_cb_set_configuration` with `usbserial_init`.  `EndpointsOff` is a bus reset or
disconnect (for which the code does nothing) and `usbserial_disable`.  `HostIn` and
`HostOut` are the peripheral and the host.  An endpoint is a record of its state
and the armed transfer; `done` means that the interrupt is pending.

Assumed of the peripheral: a start on an endpoint that is off has no effect, a
completion is never lost while the endpoint is on, and DMA writes no more than
the length given to `usb_ep_start_out`, although the endpoint is enabled for
packets of 64 bytes.  Assumed of the library: `usb_ep_ready` is true of an endpoint
that is enabled and holds no transfer (for `_del`), and may be either before the
endpoints are set up (for the constructor).

**SerialCalls.**  `USBserial` takes `write(c)` and `read_char()` for one step each.
Here a call is six: the port saves `PRIMASK` and disables interrupts, the ring
inside it does the same with its own `__irq_status`, the ring changes, each
restores what it saved, and the transfer is started in between.  The USB
interrupt acts only while `PRIMASK` is clear, DMA and the host at any time, and the
application may itself run with interrupts disabled.  `CallsAtomic` is the
refinement: with the ring as it was before the call until the transfer is started
(`PortTx`, `PortRx`), this is `USBserial`.  It compares control, so the bytes bear no
numbers (`CallsAssumption`: `Tags = 1`): when a bus reset between the store and the
start voids the promise, `USBserial`, which takes the whole `write` after the reset,
no longer numbers its byte, and the two would differ in that number alone.
The polls read one pointer of the ring, then the other, with anything in
between, in both orders; `promised` remembers answers the application may act upon.
`writeBufFull` may say "full" of a ring that has just been emptied by
two completions; only its "not full" is a promise, and likewise `available`'s
"yes" and `readBufFull`'s "yes", since the application alone undoes those.

**UsbEcho.**  `UsbCompletion` is the whole interrupt; `Echo` and `Rearm` are the two
ways through `usbserial_out_completion`.  The application does not use the port in
this build; its tx callback, run over an empty `tx_buffer`, does nothing.  Its
constructor runs in this build too: if `usb_ep_ready` is true that early, its rx
callback leaves `usbserial_current_rx_buffer` at the start of `rx_buffer`
(`Constructed`), and the first packet is received there (`RX_RING`).  The storage has
the 64 bytes of a packet, and is left for good with the first echo.  Packets are
numbers, and `epoch` changes when the link goes up or down.
**PacketStream** says what is promised: order, no duplicates, and that the newest
packet is safe; older ones are lost when a newer echo is started over them, which
happens whenever the host sends faster than it polls.

**Startup.**  `Program` is the sequence of register writes and waits, in the build
with a crystal and in the `CRYSTALLESS` one; every step is an action of its own, the
waits are enabled when the hardware flag they poll is set, and the hardware sets
it in actions of its own.  `usb_init` is the library's; nothing in the core calls
`USB_SetHandler`, so `usb_init` is assumed to, and `MemoryBeforeInterrupts` says that
the pointer it sets is not lost again.  A write to the clock controller waits for the bus while
the last one is synchronised, as the datasheet says it does.  The clock registers
keep what the properties need: generator sources, the reference of the DFLL, its
mode, locks and readiness, the 32 kHz oscillator, the prescaler and the flash wait
state.  `Reset` may come at any step; RAM and oscillator then keep what they held, or
a bootloader has run and left a tree of its own, running from the DFLL.
`LinkAssumption` is what the linker scripts guarantee: `.data` is not empty and is
not at its load address.  `ClearBss` depends on it, because the code tests the
bounds of `.data` before it clears `.bss` (`core/cortex_handlers.c:152`).

**Enumeration.**  `Startup` on a bus.  The configuration descriptor is the sequence
of its parts with counts, numbers and endpoints; the host reads it the way hosts
do, checks that it is consistent, and takes its pipes from it.  A string index
above 3 leaves a NULL pointer that is read (`core/USB-CDC.c:174`): the outcome is a
stalled request or a fault, either.  Hosts that ask for an index nobody named are
among the behaviours.

**SerialReset.**  Control requests are atomic (nothing pre-empts the USB
interrupt).  `tickReset` is three steps, `TickLoad`, `TickStore`, `Banzai`, with
requests allowed between them: the compiler must load, decrement and store
`ticks`, and the USB interrupt has the higher priority.  `stage` is which OUT
packet may follow on endpoint 0; a data stage carries a whole rate, part of one
or nothing, since the handler copies without looking at the length.

**Delay.**  Each round of the two busy loops is an action; ticks fall between.

**ByteStream.**  A sender appends, a receiver takes a prefix, at most `Capacity`
bytes wait.  `Break` voids the promise; which events do so is stated by the
implementing module, and is part of what the project says about the code:

* a bulk `store` or `read` that reaches `endPtr` (the wrap is one short);
* `SET_CONFIGURATION` over a transfer shorter than a word (its filler is in the
  ring already) or over a completed transfer whose interrupt has not run;
* for OUT data, a reset over such a completed transfer, or data that arrives
  after `_del` removed the callback.

Nothing else does.  `DmaRegionReserved` and `DmaRegionsReserved` are void with the
stream: a pointer that went too far may take an armed region with it.  So none of
these properties shows the faults of findings 1 and 2; their own runs do.

A definition named `Mut_...` is a faulty version of the
definition after it; it is used by no specification and serves to show that
the properties notice the fault.

## Runs

| Run | Checks | Instance |
|---|---|---|
| `ring` | `TypeOK`, `RingHoldsStream`, `DmaRegionReserved`, `StreamSpec` | N=10, four owners (processor or DMA on each side, with and without `BUFFER_USB_RX_ALIGN`), bulk lengths 4 and 10, single calls, short completions, `clear` |
| `port_tx` | `TypeOK`, `InTransferMatchesRing`, `DmaRegionsReserved`, `NoTxStall`, `TxStreamSpec` | N=12, bulk writes of 0 and 7, single writes |
| `port_rx` | `OutTransferMatchesRing`, `DmaRegionsReserved`, `NoRxStall`, `RxStreamSpec`, `RxReopens` | N=12, packets of 0..12, bulk reads of 0, 5, 12, with fairness |
| `port_calls` | `MaskRestored`, `PollsHold`, `CallsAtomic`, `TxProgress` | N=8, one direction per behaviour, with fairness |
| `reset` | `TypeOK`, `RequestNotLost`, `ArmedMatchesPort`, `FullDelay`, `BootloaderSpared`, `ResetHappens` | Ticks=3, with fairness |
| `delay_wrap` | `TypeOK`, `NeverEarly`, `NeverLate`, `Returns` | Modulus=16, MaxLag=1, with fairness |
| `echo` | `TypeOK`, `BuffersApart`, `EchoStream`, `EchoProgress` | the four buffers of the code, with and without one left by the constructor, packets modulo 3, with fairness |
| `power_up` | `CpuClockSteady`, `MemoryBeforeInterrupts`, `TickIsMillisecond`, `SameClocksInMain`, `TypeOK`, `HostPipesMatch`, `ReachesMain`, `GetsConfigured` | both builds, with and without a crystal, every leftover, resets at any step, with fairness |
| `ring_wrap`, `port_filler`, `reset_late_cancel`, `reset_not_opened` | findings, below | |

A ring with `BUFFER_USB_TX_ALIGN` is checked in its place, as `tx_buffer` of the port
(`port_tx`).  The port is checked one direction at a time; that the directions do
not disturb each other is proved (`PortInvHolds` is about both at once).

### Bounds

* **N.**  The code uses 64.  N=8 is the smallest buffer `LengthAssumption`
  allows: all alignments of both pointers, a full ring, padded transfers,
  transfers of one whole word and, cut to it, of up to three bytes more.  N=12
  adds transfers of two words and a region that the 8 bytes of `_rx_buffer` cut.
  The ring alone has N=10, the smallest where a bounced write is cut by
  `_rx_buffer` and not by `endPtr`; with bulk lengths 4 and 10 every pair of
  pointers, and bulk calls on both sides of the wrap, are reachable.
* **Tags.**  Bytes are numbered modulo `Tags`.  The value need not exceed the
  capacity: `pending` is compared as a whole sequence, so that a lost or repeated
  byte shifts the numbers unless exactly a multiple of `Tags` bytes is lost; the
  values differ between runs and the states that lose one or two bytes are
  always among those explored.  The proofs are for every value.  `Tags = 1`
  removes the data where only control is at stake, in `port_calls`.
* **direction.**  In `port_calls` a behaviour writes or reads, not both: a call of
  one direction touches the other only through `PRIMASK`, which is kept.
* **Packets** of `echo` are numbered modulo 3: at most two are inside, so that a
  newer one is never taken for an older.
* `power_up` has no bound of its own; it is the whole sequence.
* **Lengths.**  0 (a `flush`, a read of nothing), a part of the buffer, all of it.
* **Ticks** is 250 in the code; the countdown is uniform, 3 has a first, a
  middle and a last tick.  **Bauds** are the one that counts and another.
  **APP_START** takes the values of the two linker scripts.
* **Modulus** is 2^32; with 16 every start, argument and phase of the wrap is
  covered.  **MaxLag** is the number of ticks that may pass between two reads of
  the counter.  It is 1: no handler loops, so none holds the loop for a
  whole millisecond.  More than 1 would not do: a wrapped `end` of 0 satisfies the
  first loop's exit during one tick only.

### Fairness

* `WF(UsbCompletion)`: a pending interrupt is taken, as critical sections end.
* `WF(HostIn)`: a USB host polls a bulk IN endpoint.
* `WF(ReadOne)`: the application keeps reading, as `examples/SerialTest.cpp` does.
  Assumed because an OUT endpoint closed on a full ring is opened by reads only.
* `WF(TickLoad)`, `WF(TickStore)`, `WF(Banzai)`, `WF(SysTick_Handler)`: SysTick is
  never disabled for good, and its handler ends.
* In `port_calls`, `SF` of the interrupt: `PRIMASK` is set and cleared again and again,
  and a pending interrupt is taken as soon as it is clear.  `SF` of unmasking: an
  application that disables interrupts enables them again.  A call goes on to its
  end.
* In `power_up`, the processor runs, the clock controller and the DFLL finish what
  they were told, an oscillator that works starts, the host goes on enumerating.
  Nothing locks a DFLL without a reference.  `ReachesMain` and `GetsConfigured` except
  a board that is reset for ever and a build for a crystal that is not there, which
  waits in `core/startup.c:98` for ever.
* `WF(Poll)`: the application is not starved by its interrupts.

Nothing is assumed of the requests, configurations or resets by the host, nor
of the writes.  `ResetHappens` therefore says "unless requests come for ever":
every request that finds the condition true restarts the countdown.

`CHECK_DEADLOCK FALSE` stands in the reset runs only: an erased device stays in
the bootloader, which is the end of the story.

## What the checks show

Apart from the findings, the design holds.  A transfer under way is never
overwritten or cut by the other side, the flags never get stuck, a reset or
reconfiguration at any moment leaves both directions able to go on, padding is
invisible to the stream, `delay` is right at the wrap.  The nested critical sections
do make the calls atomic, because each level restores what it found; the polls
may be stale but never in the direction that matters.  The four echo buffers are
enough: the IN endpoint holds the buffer before the active one at most, although
echoes are started over one another.  Start-up takes any clock tree down before
it touches the DFLL, since the reset of the clock controller returns the processor
to the internal oscillator first.

Four runs end in a violation, each of a sentence of the source:

1. **`ring_wrap`** (`core/RingBuffer.h:86`, `:145`).  A bulk store that reaches
   `endPtr` takes `(endPtr - 1) - headPtr` bytes for the first part: the last slot
   is skipped, the rest lies one slot late, and the pointer ends one slot too
   far.  A store that fills the free space ends with `headPtr = tailPtr`, an empty
   ring.  The bulk read does the same and moves `tailPtr` past `headPtr` when it
   empties the ring.  `examples/SerialTest.cpp` uses both.
2. **`port_filler`** (`core/RingBuffer.h:218`).  `prepareDirectRead` pads the ring each
   time it names a short transfer.  A byte written before the port is
   configured is named once by `write`, whose start has no effect on an endpoint
   that is off, and again by `usbserial_init`, which sends four bytes.
3. **`reset_late_cancel`** (`core/Reset.cpp:78`).  A request inside `ticks--` that
   cancels the countdown is undone by the store; the application is erased with
   the port open.
4. **`reset_not_opened`** (`core/USB-CDC.c:286`).  1200 bps with DTR low arms the
   reset of a port that was never open, contrary to the comment above it.

## What is proved

Every invariant the runs check, every refinement and every action property is a
theorem.  The proofs are for every value of the constants that satisfies the named
assumptions, and every leaf is checked by TLAPS.

**One ring** (`RingBufferProofs`, `RingBufferApiProofs`), from `NAssumption` and
`ApiAssumption`.  `RingBufferProofs` says of each operator that it yields a ring,
what it bounds, and what it does to `Contents`, the bytes from `tailPtr` to `headPtr`
around the wrap: a store appends, a read takes a prefix, the filler of
`prepareDirectRead` is appended, a completed write appends what DMA left in the
storage or in `_rx_buffer`.

`ApiInv` has the types, `InStorage` (an armed region ends before `endPtr`, or inside
`_rx_buffer` when it bounces) and `Reserved` (it is no longer than the space the ring
counts for its side, unless `broken`).  A call of the other side keeps both: a side
armed by DMA makes no bulk call, so its pointer stays where the region starts, and the
other side's calls only grow the space.  Hence `TypeOK` and `DmaRegionReserved`.
With `RingHoldsStream` this is inductive again (`RingContents`): until the promise is
void, `Contents(ring)` is `pending`, so each call is a step of `ByteStream` or a
stutter (`RingIsStream`), and a bulk call that reaches `endPtr` is its `Break`.

**The port** (`USBserialProofs`), from `NAssumption`, `PortAssumption` and
`LengthAssumption`.  `PortInv` is inductive (`PortInvHolds`) and gives `TypeOK`,
`InTransferMatchesRing`, `OutTransferMatchesRing`, `NoTxStall`, `NoRxStall`.  It is
their conjunction with the types and one fact the runs do not state: an armed IN
endpoint has `transmitDMAInProgress` set, so that no `write` runs the callback over
a transfer.  The properties need each other: `NoTxStall` rests on
`_send_data_cb` always finding something to send in a ring that is not empty, hence
on `tailPtr` being word aligned with at least a word before `endPtr`, which the next
completion keeps because `InTransferMatchesRing` bounds the rounded length; and no
`read` rearms an OUT endpoint over a transfer because `NoRxStall` ties the flag to
the endpoint both ways.

The argument is one lemma per callback (`_send_data_cb`, `_receive_data_cb`, each
with the ring and endpoint as parameters), then one step per action that applies
them.  Nothing is assumed about the contents of the stream, so the proof covers the
states after a broken wrap too: even there the pointers stay in range and no
direction stalls.

*The regions DMA owns.*  `DmaRegionsReserved` is inductive given `PortInv`:
`prepareDirectRead` and `prepareDirectWrite` name a region the ring counts as used or
as available, the filler of a short transfer included; a store that does not reach
`endPtr` only grows the used space, a read that does not only grows the available
space, and the completion takes its region before it arms the next.

*The streams.*  `TxIsStream` and `RxIsStream` are step simulations of `ByteStream`.
They need to know where the waiting bytes are, which no run states:

* `TxHolds`: what waits is the contents of `tx_buffer`, without the filler behind the
  transfer that was asked for, and without the transfer once the host has it
  (`Layout`).  The filler goes exactly when the completion advances by
  `RoundUp(current_tx_length)`; that a configuration over a transfer keeps the two in
  step, except over one shorter than a word or one already taken, is why those
  and no others are listed as `Break` above.
* `RxHolds`: what waits is the contents of `rx_buffer` and then `Landed`, what DMA has
  left at `headPtr` or in `_rx_buffer` and the interrupt has not accounted for.  A
  `read` in between takes from the front and leaves `Landed` where it is, because
  `DmaRegionsReserved` keeps the two apart.

**The calls** (`SerialCallsProofs`), from the assumptions of the port.  `MaskInv` says
that inside a call interrupts are disabled, that the port remembers what the
application had, and that the ring remembers "disabled" from its own pause to its own
resume; the inner resume therefore enables nothing.  It gives `MaskRestored`, and
`NoInterruptInCall`, the action property that lets `USBserial` take a call for one
step.

`CallsInv` adds the port (the parts of `PortInv` that hold in the middle of a call,
where a wake-up may still be owed), `CallOk` (the ring is one byte away from what it
was `before`) and `PollOk`.  The last is the case for the polls: between the two reads
of one, an interrupt moves `headPtr` of `rx_buffer` forward only, and leaves
`tx_buffer` either untouched or not full.  The second half is not obvious, since
`prepareDirectRead` may fill up a ring with filler; but it does so only for a
transfer of the last word (`PrepareMoves`), and there is room beyond it (`HasRoom`).
Hence `PollsHold` (`PollsAreHeld`).

`CallsAreAtomic`, under `CallsAssumption` besides, simulates `USBserial` step by step:
the pauses, the resumes and the ring call stutter, `StartTransferIfIdle` is the whole
`Write`, `WriteChar` or `ReadOne`, and the interrupt acts outside of calls only, where
`PortTx` and `PortRx` are the rings themselves.  The peripheral and the host do act
inside, upon the ring as it was `before`; that makes no difference to them, since a
store leaves the bytes of an IN transfer alone and a read leaves `headPtr` alone.

**Start-up and enumeration** (`StartupProofs`), from `LinkAssumption` alone.  The
steps of `Program` are numbered once for each build (`CrystalProgram`,
`CrystallessProgram`, `Places`), and each part of `BootInv` says what holds from a
step on: `MemoryInv` for RAM, SysTick and USB, `GclkInv` for the tree, which from the
reset of the clock controller on is a function of the step (`Tree`), `DfllInv` for
the DFLL.  `CpuClockSteady` needs what is true *before* the reset of the controller too:
the processor may come from a bootloader that runs from the DFLL, and no step up to
there touches it.  `MemoryBeforeInterrupts` needs the steps as well: memory is ready from a
step on, SysTick and USB are off up to a later one, and `usb_isr`, once written, is
not cleared again, which no step before `UsbInit` could tell.  `TickIsMillisecond` and
`SameClocksInMain` follow from the tree and `SystemCoreClock` at the step that
configures SysTick; in `main` nothing of what a bootloader left remains in the tree.
`HostInv` relates what the host has read to the tables: it expects the pipes of
the configuration descriptor, which are the endpoints
`usb_cb_set_configuration` enables (`PipesMatch`).  It gives `TypeOK` and
`HostPipesMatch`, whatever is asked and whenever the board is reset.

**The echo** (`UsbEchoProofs`), from `TagsAssumption`.  `EchoInv` says that two buffers
are in play at most: the OUT endpoint has the active one or, until the first echo,
the storage of `rx_buffer`; from then on the IN endpoint may have another.
Hence `TypeOK` and `BuffersApart`.  `EchoStream` follows by simulation: `HostOut` is a
send (it cannot overwrite what the IN endpoint holds), `HostIn` a return, an echo the
loss of what it overtakes, a reset or configuration a new link; every other step
leaves the packets inside as they are.

**The reset** (`SerialResetProofs`), from `TicksAssumption`, `BaudAssumption`,
`StartAssumption`.  `IInv` relates the copy of `ticks` inside `tickReset` to `ticks`
itself: equal unless a request came in between, in which case `raced` holds and
`ticks` is either full or cancelled.  It gives `TypeOK` (the countdown never runs
past -1), `RequestNotLost`, `ArmedMatchesPort`, `FullDelay`, `BootloaderSpared`.

**The delay** (`DelayProofs`), from `ModulusAssumption`, `LagAssumption` and, in each
theorem, `MaxLag = 1`.  `DelayInv` says, in the first loop, that the value last read
came before the wrap; in the second, that the counter is exactly `start + elapsed`
less one `Modulus` if `end` wrapped, and that the value last read was still short
of `end`, or was `end` = 0 at the wrap itself.  It follows that the counter wraps at
most once in a call, hence `NeverEarly` and `NeverLate`.

## Only model-checked

Liveness: `TxProgress`, `RxReopens`, `ResetHappens`, `Returns`, `EchoProgress`,
`ReachesMain`, `GetsConfigured`.  It rests on fairness, hence on `ENABLED`, and on
well-founded induction over the countdown or the contents, which the installed
provers do not do.  The safety each rests on is proved (a flag is never left set
without a transfer, `RequestNotLost`, `DelayInv`, `DfllInv`).

The four findings are counterexamples and stay with TLC.

The theorems about the port are theorems of `USBserial`.  A theorem cannot be cited
through an instance with substituted variables, so `CallsAreAtomic` does not carry
them over to `SerialCalls` by itself; `CallsInv` proves there what is used there.

## Not modelled

* `core/init_clocks.c`: initialisers of peripherals the core does not use, which
  nothing here calls; `core/IO.h`: prototypes without definitions.
* Calibration values, interrupt vectors, pin multiplexing, ADC set-up: written
  once, read by nothing modelled.
* Texts of the strings, class codes and lengths of descriptors.
* `usbserial_set_*_callback` on a running port with a new callback, which no code
  here does, and the interrupt between the two halves of `_del`; `isOpen`, `DTR` and
  `baudrate`, which return one variable.
* An application that writes to the port in the echo build.
* Examples, flashing scripts, linker scripts but for the values they define.
* The USB library, the flash controller and the bootloader, except through the
  calls made to them.

## Plan

Done: the modules above, in the order ring, port, reset, delay, the proofs of
reset, port and delay, echo, calls, start-up, enumeration, the proofs of ring,
critical sections and echo, the contents of a ring and the streams, start-up and
enumeration, the polls and the atomicity of calls.

Left: an action property or two that liveness rests on could be proved as lemmas
(the countdown only falls between requests, a round of `delay` only advances); the
`IN` and `OUT` halves of the port could be given the symmetric statement that
neither step touches the other's variables, used already inside `PortInvHolds`.
