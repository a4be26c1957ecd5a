------------------------------- MODULE RingBuffer -------------------------------
(***************************************************************************)
(* The template class RingBuffer<N, align> of core/RingBuffer.h: one       *)
(* operator per member function.  A ring is a value, a record of the       *)
(* storage and the two pointers, so that a caller which makes several      *)
(* calls inside one critical section composes the operators.               *)
(*                                                                         *)
(* The pointers headPtr and tailPtr are offsets from _buffer, endPtr is    *)
(* the offset N.  align is "none", "rx" (BUFFER_USB_RX_ALIGN) or "tx"      *)
(* (BUFFER_USB_TX_ALIGN).  Every member function runs with interrupts      *)
(* disabled or inside one interrupt handler, so each one is atomic.        *)
(*                                                                         *)
(* An operator Mut_f is a faulty version of f: the runs must tell them     *)
(* apart.                                                                  *)
(***************************************************************************)
EXTENDS Integers, Sequences

CONSTANTS
    N,      \* capacity of the storage, the template argument (uint8_t)
    Byte    \* the values a slot may hold

\* N is a uint8_t and a ring has at least the one slot it never fills.
ASSUME NAssumption == N \in 1 .. 255

BounceSize == 8         \* bytes in _rx_buffer, the aligned DMA target
AlignStep  == 4         \* the USB DMA moves 32-bit words

Slot == 0 .. N - 1
Ring == [buf : [Slot -> Byte], head : Slot, tail : Slot]

min(x, y) == IF x < y THEN x ELSE y

\* memcpy into the storage at offset `at', and len bytes read from `at'.
MemcpyIn(buf, at, data) ==
    [i \in Slot |-> IF i \in at .. at + Len(data) - 1 THEN data[i - at + 1]
                                                      ELSE buf[i]]
MemcpyOut(buf, at, len) == [k \in 1 .. len |-> buf[at + k - 1]]

-----------------------------------------------------------------------------
(* Occupancy.  One slot is never used, so that head = tail means empty.     *)

UsedSpace(r)      == LET diff == r.head - r.tail
                     IN  IF diff < 0 THEN N + diff ELSE diff
AvailableSpace(r) == N - UsedSpace(r) - 1
IsFull(r)         == AvailableSpace(r) = 0
IsEmpty(r)        == r.head = r.tail

\* The unread bytes, oldest first: what a reader going from tail to head sees.
SlotAt(r, k) == IF r.tail + k - 1 < N THEN r.tail + k - 1 ELSE r.tail + k - 1 - N
Contents(r)  == [k \in 1 .. UsedSpace(r) |-> r.buf[SlotAt(r, k)]]

-----------------------------------------------------------------------------
(* Processor-side access.                                                   *)

Mut_Wrap(p) == IF p > N THEN 0 ELSE p             \* off by one
Wrap(p)  == IF p >= N THEN 0 ELSE p     \* wrap_headPtr, wrap_tailPtr
Clear(r) == [r EXCEPT !.head = 0, !.tail = 0]

\* A bulk copy of len bytes from offset p reaches endPtr and is split in two.
\* The first part stops one short of endPtr, as the code computes it.
Splits(p, len)     == p + len >= N
PrewrapLen(p, len) == IF Splits(p, len) THEN N - 1 - p ELSE 0
CopyFrom(p, len)   == IF Splits(p, len) THEN 0 ELSE p

\* store(const char*, len): `len' of the result is the number of bytes stored.
Store(r, data) ==
    LET max  == min(Len(data), AvailableSpace(r))
        pre  == PrewrapLen(r.head, max)
        at   == CopyFrom(r.head, max)
        buf1 == MemcpyIn(r.buf, r.head, SubSeq(data, 1, pre))
    IN  [ring |-> [r EXCEPT !.buf  = MemcpyIn(buf1, at, SubSeq(data, pre + 1, max)),
                            !.head = at + (max - pre)],
         len  |-> max]

\* store(c)
Mut_StoreChar(r, c) ==                            \* no test for a full ring
    [ring |-> [r EXCEPT !.buf[r.head] = c, !.head = Wrap(r.head + 1)], len |-> 1]
StoreChar(r, c) ==
    IF IsFull(r) THEN [ring |-> r, len |-> 0]
    ELSE [ring |-> [r EXCEPT !.buf[r.head] = c, !.head = Wrap(r.head + 1)],
          len  |-> 1]

\* read(buffer, max_len)
Read(r, max_len) ==
    LET total == min(max_len, UsedSpace(r))
        pre   == PrewrapLen(r.tail, total)
        at    == CopyFrom(r.tail, total)
    IN  [ring |-> [r EXCEPT !.tail = at + (total - pre)],
         data |-> MemcpyOut(r.buf, r.tail, pre) \o MemcpyOut(r.buf, at, total - pre)]

\* The byte is not popped.
Mut_ReadChar(r) ==
    IF IsEmpty(r) THEN [ring |-> r, data |-> << >>]
    ELSE [ring |-> r, data |-> << r.buf[r.tail] >>]

\* read_char(): an empty ring answers 0, which is no byte of the stream.
ReadChar(r) ==
    IF IsEmpty(r) THEN [ring |-> r, data |-> << >>]
    ELSE [ring |-> [r EXCEPT !.tail = Wrap(r.tail + 1)],
          data |-> << r.buf[r.tail] >>]

-----------------------------------------------------------------------------
(* DMA-side access: prepare names the region of a transfer, complete moves  *)
(* the pointer over what was transferred.                                   *)

Aligned(p) == p % AlignStep = 0
RoundUp(len) == IF Aligned(len) THEN len ELSE (len - (len % AlignStep)) + AlignStep

\* The transfer goes through _rx_buffer when headPtr is not word aligned.
Bounces(r, align) == align = "rx" /\ ~Aligned(r.head)

\* The region runs over unread bytes; runs past endPtr; overruns _rx_buffer.
Mut_PrepareOverUnread(r, align) ==
    IF Bounces(r, align) THEN min(N - r.head, BounceSize) ELSE N - r.head
Mut_PreparePastEnd(r, align) ==
    IF Bounces(r, align) THEN min(AvailableSpace(r), BounceSize) ELSE AvailableSpace(r)
Mut_PrepareNoBounceCap(r, align) == min(N - r.head, AvailableSpace(r))

PrepareDirectWrite(r, align) ==
    LET max == min(N - r.head, AvailableSpace(r))
    IN  IF Bounces(r, align) THEN min(max, BounceSize) ELSE max

\* The bytes stay in _rx_buffer.
Mut_CompleteDirectWrite(r, align, len, rxbuf) == [r EXCEPT !.head = Wrap(@ + len)]

\* rxbuf is what the DMA left in _rx_buffer.
CompleteDirectWrite(r, align, len, rxbuf) ==
    [r EXCEPT !.buf  = IF Bounces(r, align) THEN MemcpyIn(@, r.head, rxbuf) ELSE @,
              !.head = Wrap(r.head + len)]

\* A short transfer leaves headPtr where it is; a long one is not cut to words.
Mut_PrepareNoPadding(r, align) ==
    LET max == min(N - r.tail, UsedSpace(r))
    IN  [ring |-> r,
         len  |-> IF align # "tx" \/ max < AlignStep THEN max ELSE max - (max % AlignStep)]
Mut_PrepareNoRounding(r, align) ==
    LET max == min(N - r.tail, UsedSpace(r))
    IN  [ring |-> IF align = "tx" /\ max < AlignStep
                  THEN [r EXCEPT !.head = Wrap(r.head + (AlignStep - max))] ELSE r,
         len  |-> max]

\* A short "tx" transfer moves headPtr on to the next word boundary.
PrepareDirectRead(r, align) ==
    LET max == min(N - r.tail, UsedSpace(r))
    IN  CASE align # "tx" -> [ring |-> r, len |-> max]
          [] align = "tx" /\ max < AlignStep ->
               [ring |-> [r EXCEPT !.head = Wrap(r.head + (AlignStep - max))],
                len  |-> max]
          [] OTHER -> [ring |-> r, len |-> max - (max % AlignStep)]

\* The tail is never rounded up; it is rounded up in every ring.
Mut_CompleteNoRounding(r, align, len) == [r EXCEPT !.tail = Wrap(r.tail + len)]
Mut_CompleteAlwaysRounding(r, align, len) ==
    [r EXCEPT !.tail = Wrap(r.tail + RoundUp(len))]
CompleteDirectRead(r, align, len) ==
    LET step == IF align = "tx" THEN RoundUp(len) ELSE len
    IN  [r EXCEPT !.tail = Wrap(r.tail + step)]
=============================================================================
