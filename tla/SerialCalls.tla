------------------------------- MODULE SerialCalls -------------------------------
(***************************************************************************)
(* The calls of the serial port one instruction group at a time.           *)
(* USBserial takes write and read for one step each, because they run with *)
(* interrupts disabled; here that is what has to come out.  A call saves   *)
(* PRIMASK and disables interrupts, and the ring buffer inside it does the *)
(* same again; each restores what it saved.  The polls disable nothing:    *)
(* they read the two pointers of a ring one after the other.               *)
(*                                                                         *)
(* The host and DMA act at any time, the USB interrupt while PRIMASK is 0. *)
(* The application may itself call with interrupts disabled.               *)
(*                                                                         *)
(* Bounds: in one behaviour the application and the host use one           *)
(* direction only, `direction'; the calls are those of one byte.  The      *)
(* bytes are not numbered (Tags = 1): USBserial is checked with numbers.   *)
(*                                                                         *)
(* A definition Mut_... is a faulty version of the one after it.           *)
(***************************************************************************)
EXTENDS USBserial

\* A byte stored before a bus reset voids the stream would still bear its number.
ASSUME CallsAssumption == Tags = 1

VARIABLES
    direction,      \* "out": the application writes; "in": it reads
    pc,             \* where the call is, "out" between calls
    call,           \* the function called last
    primask,        \* TRUE while interrupts are disabled
    irq_status,     \* the __irq_status member of the port and of both rings
    first,          \* the pointer a poll has read, and which one it is
    before,         \* history: the ring before the call in progress changed it
    masked,         \* history: how the application itself left PRIMASK
    promised        \* history: answers of polls that still have to hold

callVars == <<direction, pc, call, primask, irq_status, first, before, masked, promised>>
allVars  == <<vars, callVars>>

Calls == CASE direction = "in" -> {"read_char"}
           [] direction = "out" -> IF AppWrites THEN {"write"} ELSE {}
Polls == IF direction = "out" THEN {"writeBufFull"} ELSE {"readBufFull", "available"}

RingOf(name) == IF name = "write" THEN "tx" ELSE "rx"
NoRead == [pointer |-> "head", offset |-> 0]

CallsInit ==
    /\ Init
    /\ direction \in {"out", "in"}
    /\ pc = "out" /\ call = "write" /\ primask = FALSE /\ masked = FALSE
    /\ irq_status = [owner \in {"port", "tx", "rx"} |-> FALSE]
    /\ first = NoRead /\ before = EmptyRing /\ promised = {}

Go(from, to) == pc = from /\ pc' = to /\ UNCHANGED direction

-----------------------------------------------------------------------------
(* write(c) and read_char().                                                *)

\* The ring keeps the state it found where the port keeps its own.
Mut_pauseInterrupts(owner) ==
    irq_status' = [irq_status EXCEPT !["port"] = primask] /\ primask' = TRUE
\* The two instructions are one step: an interrupt between them leaves PRIMASK as
\* it was.
pauseInterrupts(owner) ==
    irq_status' = [irq_status EXCEPT ![owner] = primask] /\ primask' = TRUE

Mut_resumeInterrupts(owner) == primask' = FALSE       \* whatever was saved
resumeInterrupts(owner) == primask' = (primask /\ irq_status[owner])

Enter(name) ==
    /\ Go("out", "ring_pause") /\ call' = name
    /\ pauseInterrupts("port")
    /\ UNCHANGED <<vars, first, before, masked, promised>>

RingPause ==
    /\ Go("ring_pause", "ring")
    /\ pauseInterrupts(RingOf(call))
    /\ UNCHANGED <<vars, call, first, before, masked, promised>>

\* store(c) or read_char() of the ring; what was polled is used up.
RingCall ==
    /\ Go("ring", "ring_resume")
    /\ \/ /\ call = "write"
          /\ before' = tx /\ tx' = StoreChar(tx, txTag).ring
          /\ promised' = promised \ {"writeBufFull"}
          /\ UNCHANGED rx
       \/ /\ call = "read_char"
          /\ before' = rx /\ rx' = ReadChar(rx).ring
          /\ promised' = promised \ {"available", "readBufFull"}
          /\ UNCHANGED tx
    /\ UNCHANGED <<transmitDMAInProgress, current_tx_length, epIn, rxbuf,
                   receiveDMAInProgress, epOut, cbVars, txHist, rxHist,
                   call, primask, irq_status, first, masked>>

RingResume ==
    /\ Go("ring_resume", "start")
    /\ resumeInterrupts(RingOf(call))
    /\ UNCHANGED <<vars, call, irq_status, first, before, masked, promised>>

\* "if no running transfer start one"; the byte enters or leaves the stream.
StartTransferIfIdle ==
    /\ Go("start", "resume")
    /\ \/ /\ call = "write" /\ StartTxIfIdle(tx)
          /\ UNCHANGED txBroken /\ TxAccept(StoreChar(before, txTag).len)
          /\ UNCHANGED <<rxVars, cbVars, rxHist>>
       \/ /\ call = "read_char" /\ StartRxIfIdle(rx)
          /\ UNCHANGED rxBroken /\ RxDeliver(ReadChar(before).data)
          /\ UNCHANGED <<txVars, cbVars, txHist>>
    /\ before' = EmptyRing
    /\ UNCHANGED <<call, primask, irq_status, first, masked, promised>>

Return ==
    /\ Go("resume", "out")
    /\ resumeInterrupts("port")
    /\ UNCHANGED <<vars, call, irq_status, first, before, masked, promised>>

-----------------------------------------------------------------------------
(* The polls.                                                               *)

Polled(name) == IF name = "writeBufFull" THEN tx ELSE rx

Mut_Answer(name, r) == IF name = "available" THEN ~IsEmpty(r) ELSE UsedSpace(r) = N
Answer(name, r) == IF name = "available" THEN ~IsEmpty(r) ELSE IsFull(r)

\* usedSpace and isEmpty read headPtr and tailPtr in an order C++ leaves open.
PollFirst(name, pointer) ==
    /\ Go("out", "poll") /\ call' = name
    /\ first' = [pointer |-> pointer, offset |-> Polled(name)[pointer]]
    /\ UNCHANGED <<vars, primask, irq_status, before, masked, promised>>

PollSecond ==
    LET mixed == [Polled(call) EXCEPT ![first.pointer] = first.offset]
        holds == Answer(call, mixed) = (call # "writeBufFull")
    IN  /\ Go("poll", "out")
        /\ promised' = IF holds THEN promised \cup {call} ELSE promised
        /\ first' = NoRead
        /\ UNCHANGED <<vars, call, primask, irq_status, before, masked>>

\* The application disables or enables interrupts.
MaskInterrupts ==
    /\ pc = "out"
    /\ masked' = ~masked /\ primask' = masked'
    /\ UNCHANGED <<vars, direction, pc, call, irq_status, first, before, promised>>

-----------------------------------------------------------------------------
UsbInterrupt == ~primask /\ (UsbCompletion \/ SetConfiguration)
HostSteps == \/ EndpointsOff
             \/ HostIn
             \/ direction = "in" /\ \E n \in 0 .. N : HostOut(n)

CallsNext ==
    \/ \E name \in Calls : Enter(name)
    \/ RingPause \/ RingCall \/ RingResume \/ StartTransferIfIdle \/ Return
    \/ \E name \in Polls, pointer \in {"head", "tail"} : PollFirst(name, pointer)
    \/ PollSecond
    \/ MaskInterrupts
    \/ UsbInterrupt /\ UNCHANGED callVars
    \/ HostSteps /\ UNCHANGED callVars

CallsSpec == CallsInit /\ [][CallsNext]_allVars

\* A pending interrupt is taken as soon as PRIMASK allows it, a call goes on to its
\* end, the application does not leave interrupts disabled, and the host polls.
CallsFairSpec ==
    /\ CallsSpec
    /\ SF_allVars(~primask /\ UsbCompletion /\ UNCHANGED callVars)
    /\ WF_allVars(RingPause \/ RingCall \/ RingResume \/ StartTransferIfIdle \/ Return \/ PollSecond)
    /\ SF_allVars(masked /\ MaskInterrupts)
    /\ WF_allVars(HostIn /\ UNCHANGED callVars)

-----------------------------------------------------------------------------
(* Properties.                                                              *)

\* A call returns with PRIMASK as its caller had it, although the ring's critical
\* section lies inside the port's: interrupts are neither left disabled nor
\* enabled behind the back of a caller that had disabled them.
MaskRestored == pc = "out" => primask = masked

\* An answer holds until the application acts on it, whatever the interrupt did
\* between the two reads: after writeBufFull said no, a write finds room; after
\* available said yes, a read finds a byte; a full rx_buffer stays full.
PollsHold ==
    /\ "writeBufFull" \in promised => ~IsFull(tx)
    /\ "available" \in promised => ~IsEmpty(rx)
    /\ "readBufFull" \in promised => IsFull(rx)

\* A call is one step of the port: the ring it has changed looks untouched until
\* the transfer is started.
InRing == pc \in {"ring_resume", "start"}
PortTx == IF InRing /\ call = "write" THEN before ELSE tx
PortRx == IF InRing /\ call = "read_char" THEN [rx EXCEPT !.tail = before.tail] ELSE rx

Port == INSTANCE USBserial WITH tx <- PortTx, rx <- PortRx

\* The nested critical sections make write and read_char atomic to the interrupt:
\* the port of USBserial, in which each is one step, is implemented.
CallsAtomic == Port!Spec
=============================================================================
