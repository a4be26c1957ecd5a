----------------------------- MODULE RingBufferApi -----------------------------
(***************************************************************************)
(* One RingBuffer object and the calls its owner makes, each of which is   *)
(* atomic.  Each direction is used either by the processor or by DMA:      *)
(* "only valid if all data in the same direction uses DMA"                 *)
(* (core/RingBuffer.h:45).                                                 *)
(*                                                                         *)
(* The bytes stored are numbered modulo Tags, so that a lost, repeated or  *)
(* reordered byte shows.  pending, out and broken are history variables:   *)
(* the stream of ByteStream that the ring has to implement.  A bulk call   *)
(* whose region reaches endPtr breaks the stream; nothing else does.       *)
(***************************************************************************)
EXTENDS RingBuffer

CONSTANTS
    Owners,         \* ways to own a ring: the template argument align, "none" or
                    \* "rx" (USBserial is the user of a "tx" ring), and whether
                    \* the writer and the reader are DMA channels
    StoreLens,      \* lengths passed to the bulk store
    ReadLens,       \* lengths passed to the bulk read
    Tags            \* bytes are numbered modulo Tags

ASSUME ApiAssumption ==
    /\ Owners \subseteq [align : {"none", "rx"}, dmaWrite : BOOLEAN, dmaRead : BOOLEAN]
    /\ StoreLens \subseteq Nat /\ ReadLens \subseteq Nat
    /\ Tags \in Nat \ {0} /\ Byte = 0 .. Tags - 1

VARIABLES
    owner,      \* how this ring is owned; it does not change
    ring,       \* the object
    writing,    \* length armed by the last prepareDirectWrite, 0 when idle
    reading,    \* length armed by the last prepareDirectRead, 0 when idle
    tag,        \* number of the next byte to be stored
    pending, out, broken

vars == <<owner, ring, writing, reading, tag, pending, out, broken>>

NextBytes(n) == [k \in 1 .. n |-> (tag + k - 1) % Tags]

\* The stream after n bytes went in, and after `data' came out.
Accepted(n) ==
    /\ tag' = (tag + n) % Tags
    /\ pending' = IF broken' THEN << >> ELSE pending \o NextBytes(n)
    /\ out' = IF broken' THEN << >> ELSE out
Delivered(data) ==
    /\ out' = IF broken' THEN << >> ELSE data
    /\ pending' = IF broken' THEN << >>
                  ELSE SubSeq(pending, Len(data) + 1, Len(pending))
    /\ UNCHANGED tag

Init ==
    /\ owner \in Owners
    /\ ring = Clear([buf |-> [i \in Slot |-> 0], head |-> 0, tail |-> 0])
    /\ writing = 0 /\ reading = 0 /\ tag = 0
    /\ pending = << >> /\ out = << >> /\ broken = FALSE

-----------------------------------------------------------------------------
(* Processor side.                                                          *)

DoStore(len) ==
    LET res == Store(ring, NextBytes(len))
    IN  /\ ~owner.dmaWrite
        /\ ring' = res.ring
        /\ broken' = (broken \/ Splits(ring.head, res.len))
        /\ Accepted(res.len)
        /\ UNCHANGED <<owner, writing, reading>>

DoStoreChar ==
    LET res == StoreChar(ring, tag)
    IN  /\ ~owner.dmaWrite
        /\ ring' = res.ring
        /\ UNCHANGED broken
        /\ Accepted(res.len)
        /\ UNCHANGED <<owner, writing, reading>>

DoRead(max_len) ==
    LET res == Read(ring, max_len)
    IN  /\ ~owner.dmaRead
        /\ ring' = res.ring
        /\ broken' = (broken \/ Splits(ring.tail, Len(res.data)))
        /\ Delivered(res.data)
        /\ UNCHANGED <<owner, writing, reading>>

DoReadChar ==
    LET res == ReadChar(ring)
    IN  /\ ~owner.dmaRead
        /\ ring' = res.ring
        /\ UNCHANGED broken
        /\ Delivered(res.data)
        /\ UNCHANGED <<owner, writing, reading>>

DoClear ==
    /\ writing = 0 /\ reading = 0
    /\ ring' = Clear(ring)
    /\ pending' = << >> /\ out' = << >>
    /\ UNCHANGED <<owner, writing, reading, tag, broken>>

-----------------------------------------------------------------------------
(* DMA side: prepare, then the channel moves bytes, then complete.          *)

StartDirectWrite ==
    /\ owner.dmaWrite /\ writing = 0 /\ ~IsFull(ring)
    /\ writing' = PrepareDirectWrite(ring, owner.align)
    /\ UNCHANGED <<owner, ring, reading, tag, pending, out, broken>>

\* The channel has written n bytes at headPtr, or in _rx_buffer.
FinishDirectWrite(n) ==
    LET direct == [ring EXCEPT !.buf = MemcpyIn(@, ring.head, NextBytes(n))]
        filled == IF Bounces(ring, owner.align) THEN ring ELSE direct
    IN  /\ n \in 1 .. writing
        /\ ring' = CompleteDirectWrite(filled, owner.align, n, NextBytes(n))
        /\ writing' = 0
        /\ UNCHANGED broken
        /\ Accepted(n)
        /\ UNCHANGED <<owner, reading>>

StartDirectRead ==
    LET res == PrepareDirectRead(ring, owner.align)
    IN  /\ owner.dmaRead /\ reading = 0 /\ ~IsEmpty(ring)
        /\ ring' = res.ring
        /\ reading' = res.len
        /\ UNCHANGED <<owner, writing, tag, pending, out, broken>>

FinishDirectRead ==
    /\ reading > 0
    /\ ring' = CompleteDirectRead(ring, owner.align, reading)
    /\ reading' = 0
    /\ UNCHANGED broken
    /\ Delivered(MemcpyOut(ring.buf, ring.tail, reading))
    /\ UNCHANGED <<owner, writing>>

Next ==
    \/ \E len \in StoreLens : DoStore(len)
    \/ DoStoreChar
    \/ \E len \in ReadLens : DoRead(len)
    \/ DoReadChar
    \/ DoClear
    \/ StartDirectWrite
    \/ \E n \in 1 .. N : FinishDirectWrite(n)
    \/ StartDirectRead
    \/ FinishDirectRead

Spec == Init /\ [][Next]_vars

-----------------------------------------------------------------------------
(* Properties.                                                              *)

\* headPtr and tailPtr stay inside the storage (wrap_headPtr, wrap_tailPtr) and
\* the slots hold bytes.
TypeOK ==
    /\ owner \in Owners
    /\ ring \in Ring
    /\ writing \in 0 .. N /\ reading \in 0 .. N
    /\ tag \in Byte
    /\ pending \in Seq(Byte) /\ out \in Seq(Byte)
    /\ broken \in BOOLEAN

\* The unread region of the storage holds exactly the bytes accepted and not
\* yet returned, in order: used space, pointers and contents agree.
RingHoldsStream == ~broken => Contents(ring) = pending

\* Until a bulk call reaches endPtr, an armed DMA region lies inside the storage
\* and inside the part of the ring that belongs to the channel, whatever the other
\* side does meanwhile: what prepareDirectRead and prepareDirectWrite promise until
\* the transfer completes.  A write through _rx_buffer fits in it.  Nothing is said
\* once the stream is void (broken).
DmaRegionReserved ==
    ~broken => /\ ring.head + writing <= N /\ writing <= AvailableSpace(ring)
               /\ Bounces(ring, owner.align) => writing <= BounceSize
               /\ ring.tail + reading <= N /\ reading <= UsedSpace(ring)

Stream == INSTANCE ByteStream WITH Capacity <- N - 1, Clearable <- TRUE

\* Until a bulk call reaches endPtr the ring is a bounded first-in first-out
\* byte stream of capacity N - 1, whatever mix of calls stores and reads.
StreamSpec == Stream!Spec

\* core/RingBuffer.h:19-20, headPtr "points to the next slot to write data to",
\* tailPtr "to the next slot to read data from": a bulk store or read moves the
\* pointers so that the used space changes by as many bytes as it returns.
BulkCallsCount ==
    [][/\ \A len \in StoreLens : DoStore(len) =>
            UsedSpace(ring') = UsedSpace(ring) + Store(ring, NextBytes(len)).len
       /\ \A len \in ReadLens : DoRead(len) =>
            UsedSpace(ring') + Len(Read(ring, len).data) = UsedSpace(ring)]_vars
=============================================================================
