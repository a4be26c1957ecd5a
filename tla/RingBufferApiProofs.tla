-------------------------- MODULE RingBufferApiProofs --------------------------
(***************************************************************************)
(* A ring keeps its types, the region of a transfer is left alone until it *)
(* completes, and the ring is a byte stream as long as its promise stands, *)
(* for every capacity, owner and sequence of calls.                        *)
(***************************************************************************)
EXTENDS RingBufferApi, RingBufferProofs

HistType == /\ tag \in Byte /\ pending \in Seq(Byte) /\ out \in Seq(Byte)
            /\ broken \in BOOLEAN

\* Where an armed transfer lies; no bulk call can move it past endPtr, since one
\* side of the ring is used by DMA alone.
InStorage ==
    /\ writing \in 0 .. N /\ reading \in 0 .. N
    /\ ring.head + writing <= N /\ ring.tail + reading <= N
    /\ Bounces(ring, owner.align) => writing <= BounceSize
    /\ writing # 0 => owner.dmaWrite
    /\ reading # 0 => owner.dmaRead

Reserved == ~broken => writing <= AvailableSpace(ring) /\ reading <= UsedSpace(ring)

ApiInv == owner \in Owners /\ ring \in Ring /\ HistType /\ InStorage /\ Reserved

-----------------------------------------------------------------------------
(* The numbered bytes.                                                      *)

\* Zero is a byte and the pointers are numbers.
LEMMA Numbers ==
  /\ 0 \in Byte /\ N \in Nat \ {0}
  /\ \A r \in Ring : r.head \in 0 .. N - 1 /\ r.tail \in 0 .. N - 1
  BY NAssumption, ApiAssumption DEF Ring, Slot

\* Numbers stay below Tags.
LEMMA TagStays ==
  ASSUME NEW t \in Byte, NEW n \in Nat
  PROVE  (t + n) % Tags \in Byte
  BY ApiAssumption

\* What is stored is a sequence of bytes.
LEMMA NextBytesType ==
  ASSUME NEW n \in Nat, tag \in Byte
  PROVE  NextBytes(n) \in Seq(Byte) /\ Len(NextBytes(n)) = n
<1>1. \A k \in 1 .. n : (tag + k - 1) % Tags \in Byte
  BY ApiAssumption
<1> QED BY <1>1 DEF NextBytes

\* What is left of a stream after a delivery is a stream.
LEMMA RestType ==
  ASSUME NEW s \in Seq(Byte), NEW n \in Nat
  PROVE  SubSeq(s, n + 1, Len(s)) \in Seq(Byte)
<1>1. CASE n <= Len(s)
  BY <1>1
<1>2. CASE n > Len(s)
  <2>1. SubSeq(s, n + 1, Len(s)) = << >>
    BY <1>2
  <2> QED BY <2>1
<1> QED BY <1>1, <1>2

\* The history keeps its type when bytes go in and when they come out.
LEMMA HistSteps ==
  ASSUME HistType, broken' \in BOOLEAN
  PROVE  /\ \A n \in Nat : Accepted(n) => HistType'
         /\ \A data \in Seq(Byte) : Delivered(data) => HistType'
<1>1. ASSUME NEW n \in Nat, Accepted(n) PROVE HistType'
  <2>1. NextBytes(n) \in Seq(Byte) /\ tag' \in Byte
    BY <1>1, NextBytesType, TagStays DEF HistType, Accepted
  <2> QED BY <1>1, <2>1 DEF HistType, Accepted
<1>2. ASSUME NEW data \in Seq(Byte), Delivered(data) PROVE HistType'
  BY <1>2, RestType DEF HistType, Delivered
<1> QED BY <1>1, <1>2

-----------------------------------------------------------------------------
(* Moving one pointer.                                                      *)

\* The writer is the processor: the transfer of the reader keeps its region as long
\* as no slot is freed.
LEMMA HeadMoves ==
  ASSUME ApiInv, ring' \in Ring, ring'.tail = ring.tail, ~owner.dmaWrite,
         ~broken' => ~broken /\ UsedSpace(ring) <= UsedSpace(ring'),
         HistType', UNCHANGED <<owner, writing, reading>>
  PROVE  ApiInv'
<1>1. writing = 0
  BY DEF ApiInv, InStorage
<1>2. AvailableSpace(ring') \in Nat /\ UsedSpace(ring') \in Nat /\ UsedSpace(ring) \in Nat
  BY SpaceFacts DEF ApiInv
<1>3. InStorage'
  BY <1>1, Numbers DEF ApiInv, InStorage, BounceSize
<1>4. Reserved'
  <2>1. CASE broken'
    BY <2>1 DEF Reserved
  <2>2. CASE ~broken'
    <3>1. reading \in Nat /\ reading <= UsedSpace(ring)
      BY <2>2 DEF ApiInv, InStorage, Reserved
    <3>2. UsedSpace(ring)' = UsedSpace(ring') /\ AvailableSpace(ring)' = AvailableSpace(ring')
      OBVIOUS
    <3> QED BY <1>1, <1>2, <2>2, <3>1, <3>2 DEF Reserved
  <2> QED BY <2>1, <2>2
<1> QED BY <1>3, <1>4 DEF ApiInv

\* The reader is the processor, likewise.
LEMMA TailMoves ==
  ASSUME ApiInv, ring' \in Ring, ring'.head = ring.head, ~owner.dmaRead,
         ~broken' => ~broken /\ AvailableSpace(ring) <= AvailableSpace(ring'),
         HistType', UNCHANGED <<owner, writing, reading>>
  PROVE  ApiInv'
<1>1. reading = 0
  BY DEF ApiInv, InStorage
<1>2. AvailableSpace(ring') \in Nat /\ UsedSpace(ring') \in Nat /\ AvailableSpace(ring) \in Nat
  BY SpaceFacts DEF ApiInv
<1>3. Bounces(ring, owner.align)' <=> Bounces(ring, owner.align)
  BY DEF Bounces
<1>4. InStorage'
  BY <1>1, <1>3, Numbers DEF ApiInv, InStorage
<1>5. Reserved'
  <2>1. CASE broken'
    BY <2>1 DEF Reserved
  <2>2. CASE ~broken'
    <3>1. writing \in Nat /\ writing <= AvailableSpace(ring)
      BY <2>2 DEF ApiInv, InStorage, Reserved
    <3>2. UsedSpace(ring)' = UsedSpace(ring') /\ AvailableSpace(ring)' = AvailableSpace(ring')
      OBVIOUS
    <3> QED BY <1>1, <1>2, <2>2, <3>1, <3>2 DEF Reserved
  <2> QED BY <2>1, <2>2
<1> QED BY <1>4, <1>5 DEF ApiInv

\* A completed write makes the slots it filled used ones.
LEMMA WrittenIsUsed ==
  ASSUME NEW r \in Ring, NEW s \in Ring, NEW n \in Nat,
         n <= AvailableSpace(r), r.head + n <= N,
         s.head = Wrap(r.head + n), s.tail = r.tail
  PROVE  UsedSpace(s) = UsedSpace(r) + n
<1>1. /\ r.head \in 0 .. N - 1 /\ r.tail \in 0 .. N - 1 /\ N \in Nat
  BY Numbers
<1>2. UsedSpace(r) + n <= N - 1
  BY <1>1, SpaceFacts
<1> QED BY <1>1, <1>2 DEF UsedSpace, Wrap

\* A completed read makes the slots it took available ones.
LEMMA TakenIsAvailable ==
  ASSUME NEW r \in Ring, NEW s \in Ring, NEW n \in Nat,
         n <= UsedSpace(r), r.tail + n <= N,
         s.tail = Wrap(r.tail + n), s.head = r.head
  PROVE  UsedSpace(s) = UsedSpace(r) - n
<1>1. /\ r.head \in 0 .. N - 1 /\ r.tail \in 0 .. N - 1 /\ N \in Nat
  BY Numbers
<1> QED BY <1>1 DEF UsedSpace, Wrap

-----------------------------------------------------------------------------
(* The calls.                                                               *)

LEMMA InitInv == ASSUME Init PROVE ApiInv
<1>0. 0 \in Byte /\ 0 \in Slot
  BY Numbers DEF Slot
<1>1. ring \in Ring /\ ring.head = 0 /\ ring.tail = 0
  BY <1>0 DEF Init, Clear, Ring
<1>2. UsedSpace(ring) \in Nat /\ AvailableSpace(ring) \in Nat
  BY <1>1, SpaceFacts
<1>3. HistType
  BY <1>0 DEF Init, HistType
<1> QED BY <1>1, <1>2, <1>3, Numbers DEF Init, ApiInv, InStorage, Reserved, BounceSize

LEMMA StoreInv == ASSUME ApiInv, NEW len \in StoreLens, DoStore(len) PROVE ApiInv'
<1> DEFINE res == Store(ring, NextBytes(len))
<1>1. NextBytes(len) \in Seq(Byte) /\ ring \in Ring /\ broken \in BOOLEAN
  BY NextBytesType, ApiAssumption DEF ApiInv, HistType
<1>2. res.ring \in Ring /\ res.ring.tail = ring.tail /\ res.len \in Nat
  BY <1>1, StoreFacts
<1>3. ~Splits(ring.head, res.len) => UsedSpace(ring) <= UsedSpace(res.ring)
  BY <1>1, StoreGrows
<1>4. /\ ~owner.dmaWrite /\ ring' = res.ring
      /\ broken' = (broken \/ Splits(ring.head, res.len)) /\ Accepted(res.len)
      /\ UNCHANGED <<owner, writing, reading>>
  BY DEF DoStore
<1> HIDE DEF res
<1>5. broken' \in BOOLEAN /\ (~broken' => ~broken /\ ~Splits(ring.head, res.len))
  BY <1>1, <1>4
<1>6. HistType'
  BY <1>2, <1>4, <1>5, HistSteps DEF ApiInv
<1> QED BY <1>2, <1>3, <1>4, <1>5, <1>6, HeadMoves

LEMMA StoreCharInv == ASSUME ApiInv, DoStoreChar PROVE ApiInv'
<1> DEFINE res == StoreChar(ring, tag)
<1>1. tag \in Byte /\ ring \in Ring /\ broken \in BOOLEAN
  BY DEF ApiInv, HistType
<1>2. res.ring \in Ring /\ res.ring.tail = ring.tail /\ res.len \in Nat
  BY <1>1, StoreCharFacts
<1>3. UsedSpace(ring) <= UsedSpace(res.ring)
  BY <1>1, StoreCharGrows
<1>4. /\ ~owner.dmaWrite /\ ring' = res.ring /\ broken' = broken /\ Accepted(res.len)
      /\ UNCHANGED <<owner, writing, reading>>
  BY DEF DoStoreChar
<1> HIDE DEF res
<1>5. HistType'
  BY <1>1, <1>2, <1>4, HistSteps DEF ApiInv
<1> QED BY <1>2, <1>3, <1>4, <1>5, HeadMoves

LEMMA ReadInv == ASSUME ApiInv, NEW max_len \in ReadLens, DoRead(max_len) PROVE ApiInv'
<1> DEFINE res == Read(ring, max_len)
<1>1. max_len \in Nat /\ ring \in Ring /\ broken \in BOOLEAN
  BY ApiAssumption DEF ApiInv, HistType
<1>2. res.ring \in Ring /\ res.ring.head = ring.head /\ res.data \in Seq(Byte)
  BY <1>1, ReadFacts
<1>3. ~Splits(ring.tail, Len(res.data)) => AvailableSpace(ring) <= AvailableSpace(res.ring)
  BY <1>1, ReadShrinks
<1>4. /\ ~owner.dmaRead /\ ring' = res.ring
      /\ broken' = (broken \/ Splits(ring.tail, Len(res.data))) /\ Delivered(res.data)
      /\ UNCHANGED <<owner, writing, reading>>
  BY DEF DoRead
<1> HIDE DEF res
<1>5. broken' \in BOOLEAN /\ (~broken' => ~broken /\ ~Splits(ring.tail, Len(res.data)))
  BY <1>1, <1>4
<1>6. HistType'
  BY <1>2, <1>4, <1>5, HistSteps DEF ApiInv
<1> QED BY <1>2, <1>3, <1>4, <1>5, <1>6, TailMoves

LEMMA ReadCharInv == ASSUME ApiInv, DoReadChar PROVE ApiInv'
<1> DEFINE res == ReadChar(ring)
<1>1. ring \in Ring /\ broken \in BOOLEAN
  BY DEF ApiInv, HistType
<1>2. res.ring \in Ring /\ res.ring.head = ring.head /\ res.data \in Seq(Byte)
  BY <1>1, ReadCharFacts
<1>3. AvailableSpace(ring) <= AvailableSpace(res.ring)
  BY <1>1, ReadCharShrinks
<1>4. /\ ~owner.dmaRead /\ ring' = res.ring /\ broken' = broken /\ Delivered(res.data)
      /\ UNCHANGED <<owner, writing, reading>>
  BY DEF DoReadChar
<1> HIDE DEF res
<1>5. HistType'
  BY <1>1, <1>2, <1>4, HistSteps DEF ApiInv
<1> QED BY <1>2, <1>3, <1>4, <1>5, TailMoves

LEMMA ClearInv == ASSUME ApiInv, DoClear PROVE ApiInv'
<1>1. ring' \in Ring
  BY Numbers DEF DoClear, Clear, ApiInv, Ring, Slot
<1>2. /\ UsedSpace(ring') \in Nat /\ AvailableSpace(ring') \in Nat
      /\ ring'.head \in 0 .. N - 1 /\ ring'.tail \in 0 .. N - 1
  BY <1>1, SpaceFacts, Numbers
<1>3. HistType'
  BY DEF DoClear, ApiInv, HistType
<1>4. UsedSpace(ring)' = UsedSpace(ring') /\ AvailableSpace(ring)' = AvailableSpace(ring')
  OBVIOUS
<1> QED BY <1>1, <1>2, <1>3, <1>4, Numbers
        DEF DoClear, ApiInv, InStorage, Reserved, BounceSize

\* prepareDirectWrite names a region inside the storage, the available space and,
\* where it bounces, _rx_buffer.
LEMMA StartWriteInv == ASSUME ApiInv, StartDirectWrite PROVE ApiInv'
<1> DEFINE len == PrepareDirectWrite(ring, owner.align)
<1>1. ring \in Ring /\ ~IsFull(ring)
  BY DEF ApiInv, StartDirectWrite
<1>2. /\ len \in 1 .. AvailableSpace(ring) /\ ring.head + len <= N
      /\ Bounces(ring, owner.align) => len <= BounceSize
  BY <1>1, PrepareDirectWriteFacts
<1>3. /\ owner.dmaWrite /\ writing' = len
      /\ UNCHANGED <<owner, ring, reading, tag, pending, out, broken>>
  BY DEF StartDirectWrite
<1> HIDE DEF len
<1>4. AvailableSpace(ring) \in 0 .. N - 1 /\ N \in Nat
  BY <1>1, SpaceFacts, Numbers
<1>5. InStorage'
  BY <1>2, <1>3, <1>4 DEF ApiInv, InStorage, Bounces
<1>6. Reserved'
  <2>1. UsedSpace(ring)' = UsedSpace(ring) /\ AvailableSpace(ring)' = AvailableSpace(ring)
    BY <1>3
  <2> QED BY <1>2, <1>3, <1>4, <2>1 DEF ApiInv, Reserved
<1> QED BY <1>3, <1>5, <1>6 DEF ApiInv, HistType

\* completeDirectWrite moves headPtr over what was armed.
LEMMA FinishWriteInv ==
  ASSUME ApiInv, NEW n \in 1 .. N, FinishDirectWrite(n)
  PROVE  ApiInv'
<1> DEFINE direct == [ring EXCEPT !.buf = MemcpyIn(@, ring.head, NextBytes(n))]
           filled == IF Bounces(ring, owner.align) THEN ring ELSE direct
<1>1. /\ n \in 1 .. writing /\ writing' = 0 /\ broken' = broken /\ Accepted(n)
      /\ ring' = CompleteDirectWrite(filled, owner.align, n, NextBytes(n))
      /\ UNCHANGED <<owner, reading>>
  BY DEF FinishDirectWrite
<1>2. /\ ring \in Ring /\ broken \in BOOLEAN /\ N \in Nat
      /\ writing \in 0 .. N /\ ring.head + writing <= N
      /\ ring.head \in 0 .. N - 1 /\ ring.tail \in 0 .. N - 1
  BY Numbers DEF ApiInv, InStorage, HistType
<1>3. n \in Nat /\ n <= writing /\ ring.head + n <= N
  BY <1>1, <1>2
<1>4. NextBytes(n) \in Seq(Byte)
  BY <1>3, NextBytesType DEF ApiInv, HistType
<1>5. MemcpyIn(ring.buf, ring.head, NextBytes(n)) \in [Slot -> Byte]
  BY <1>2, <1>4, MemcpyInType DEF Ring
<1>6. filled \in Ring /\ filled.head = ring.head /\ filled.tail = ring.tail
  BY <1>2, <1>5 DEF Ring
<1> HIDE DEF filled
<1>7. ring' \in Ring /\ ring'.tail = ring.tail /\ ring'.head = Wrap(ring.head + n)
  BY <1>1, <1>3, <1>4, <1>6, CompleteDirectWriteFacts
<1>8. HistType'
  BY <1>1, <1>2, <1>3, HistSteps DEF ApiInv
<1>9. ring'.head \in 0 .. N - 1 /\ AvailableSpace(ring') \in Nat
  BY <1>7, Numbers, SpaceFacts
<1>10. InStorage'
  BY <1>1, <1>2, <1>7, <1>9 DEF ApiInv, InStorage, BounceSize
<1>11. Reserved'
  <2>1. CASE broken
    BY <1>1, <2>1 DEF Reserved
  <2>2. CASE ~broken
    <3>1. writing <= AvailableSpace(ring) /\ reading <= UsedSpace(ring) /\ reading \in Nat
      BY <2>2 DEF ApiInv, Reserved, InStorage
    <3>2. AvailableSpace(ring) \in Nat /\ UsedSpace(ring) \in Nat
      BY <1>2, SpaceFacts
    <3>3. n <= AvailableSpace(ring)
      BY <1>2, <1>3, <3>1, <3>2
    <3>4. UsedSpace(ring') = UsedSpace(ring) + n
      BY <1>2, <1>3, <1>7, <3>3, WrittenIsUsed
    <3>5. UsedSpace(ring)' = UsedSpace(ring') /\ AvailableSpace(ring)' = AvailableSpace(ring')
      OBVIOUS
    <3> QED BY <1>1, <1>3, <1>9, <3>1, <3>2, <3>4, <3>5 DEF Reserved
  <2> QED BY <1>2, <2>1, <2>2
<1> QED BY <1>1, <1>7, <1>8, <1>10, <1>11 DEF ApiInv

\* prepareDirectRead of a ring that pads nothing names used slots before endPtr.
LEMMA StartReadInv == ASSUME ApiInv, StartDirectRead PROVE ApiInv'
<1> DEFINE max == min(N - ring.tail, UsedSpace(ring))
<1>1. owner.align # "tx"
  BY ApiAssumption DEF ApiInv
<1>2. PrepareDirectRead(ring, owner.align) = [ring |-> ring, len |-> max]
  BY <1>1 DEF PrepareDirectRead
<1>3. /\ owner.dmaRead /\ ring' = ring /\ reading' = max
      /\ UNCHANGED <<owner, writing, tag, pending, out, broken>>
  BY <1>2 DEF StartDirectRead
<1>4. /\ UsedSpace(ring) \in 0 .. N - 1 /\ ring.tail \in 0 .. N - 1 /\ N \in Nat
  BY SpaceFacts, Numbers DEF ApiInv
<1>5. max \in 0 .. N /\ max <= UsedSpace(ring) /\ ring.tail + max <= N
  BY <1>4 DEF min
<1> HIDE DEF max
<1>6. InStorage'
  BY <1>3, <1>4, <1>5 DEF ApiInv, InStorage, Bounces
<1>7. Reserved'
  <2>1. UsedSpace(ring)' = UsedSpace(ring) /\ AvailableSpace(ring)' = AvailableSpace(ring)
    BY <1>3
  <2> QED BY <1>3, <1>5, <2>1 DEF ApiInv, Reserved
<1> QED BY <1>3, <1>6, <1>7 DEF ApiInv, HistType

\* completeDirectRead moves tailPtr over what was armed.
LEMMA FinishReadInv == ASSUME ApiInv, FinishDirectRead PROVE ApiInv'
<1>1. owner.align # "tx"
  BY ApiAssumption DEF ApiInv
<1>2. /\ ring \in Ring /\ broken \in BOOLEAN /\ N \in Nat
      /\ reading \in Nat /\ ring.tail + reading <= N
      /\ ring.head \in 0 .. N - 1 /\ ring.tail \in 0 .. N - 1
  BY Numbers DEF ApiInv, InStorage, HistType
<1>3. /\ reading' = 0 /\ broken' = broken /\ UNCHANGED <<owner, writing>>
      /\ ring' = [ring EXCEPT !.tail = Wrap(ring.tail + reading)]
      /\ Delivered(MemcpyOut(ring.buf, ring.tail, reading))
  BY <1>1 DEF FinishDirectRead, CompleteDirectRead
<1>4. Wrap(ring.tail + reading) \in Slot
  BY <1>2, WrapFacts
<1>5. ring' \in Ring /\ ring'.head = ring.head /\ ring'.tail = Wrap(ring.tail + reading)
  BY <1>2, <1>3, <1>4 DEF Ring
<1>6. MemcpyOut(ring.buf, ring.tail, reading) \in Seq(Byte)
  BY <1>2, MemcpyOutType DEF Ring
<1>7. HistType'
  BY <1>2, <1>3, <1>6, HistSteps DEF ApiInv
<1>8. ring'.tail \in 0 .. N - 1 /\ AvailableSpace(ring') \in Nat /\ UsedSpace(ring') \in Nat
  BY <1>5, Numbers, SpaceFacts
<1>9. Bounces(ring, owner.align)' <=> Bounces(ring, owner.align)
  BY <1>3, <1>5 DEF Bounces
<1>10. InStorage'
  BY <1>2, <1>3, <1>5, <1>8, <1>9 DEF ApiInv, InStorage
<1>11. Reserved'
  <2>1. CASE broken
    BY <1>3, <2>1 DEF Reserved
  <2>2. CASE ~broken
    <3>1. writing <= AvailableSpace(ring) /\ reading <= UsedSpace(ring) /\ writing \in Nat
      BY <2>2 DEF ApiInv, Reserved, InStorage
    <3>2. /\ AvailableSpace(ring) \in Nat /\ UsedSpace(ring) \in Nat
          /\ UsedSpace(ring) + AvailableSpace(ring) = N - 1
          /\ UsedSpace(ring') + AvailableSpace(ring') = N - 1
      BY <1>2, <1>5, SpaceFacts
    <3>3. UsedSpace(ring') = UsedSpace(ring) - reading
      BY <1>2, <1>5, <3>1, TakenIsAvailable
    <3>4. UsedSpace(ring)' = UsedSpace(ring') /\ AvailableSpace(ring)' = AvailableSpace(ring')
      OBVIOUS
    <3> QED BY <1>2, <1>3, <1>8, <3>1, <3>2, <3>3, <3>4 DEF Reserved
  <2> QED BY <1>2, <2>1, <2>2
<1> QED BY <1>3, <1>5, <1>7, <1>10, <1>11 DEF ApiInv

LEMMA NextInv == ASSUME ApiInv, [Next]_vars PROVE ApiInv'
<1>1. CASE UNCHANGED vars
  BY <1>1 DEF vars, ApiInv, HistType, InStorage, Reserved, Bounces, AvailableSpace, UsedSpace
<1>2. CASE Next
  BY <1>2, StoreInv, StoreCharInv, ReadInv, ReadCharInv, ClearInv, StartWriteInv,
     FinishWriteInv, StartReadInv, FinishReadInv DEF Next
<1> QED BY <1>1, <1>2

-----------------------------------------------------------------------------
\* The inductive invariant of one ring, for every capacity, owner and call length.
THEOREM ApiInvHolds == Spec => []ApiInv
  BY InitInv, NextInv, PTL DEF Spec

\* headPtr and tailPtr never leave the storage, after a broken bulk call either.
THEOREM TypeCorrect == Spec => []TypeOK
  <1>1. ApiInv => TypeOK
    BY DEF ApiInv, HistType, InStorage, TypeOK
  <1> QED
    BY <1>1, ApiInvHolds, PTL

\* What prepareDirectRead and prepareDirectWrite name is left alone until it is
\* completed, whatever the other side calls meanwhile.
THEOREM RegionReserved == Spec => []DmaRegionReserved
  <1>1. ApiInv => DmaRegionReserved
    BY DEF ApiInv, InStorage, Reserved, DmaRegionReserved
  <1> QED
    BY <1>1, ApiInvHolds, PTL
-----------------------------------------------------------------------------
(* The contents of the ring are the stream, and the stream is one.           *)

RingInv == ApiInv /\ RingHoldsStream

\* What a step may do to the stream.
StreamStep == Stream!Next \/ UNCHANGED <<pending, out, broken>>

\* The numbered bytes of a shorter store are the first ones of a longer.
LEMMA FirstBytes ==
  ASSUME NEW n \in Nat, NEW m \in Nat, m <= n, tag \in Byte
  PROVE  SubSeq(NextBytes(n), 1, m) = NextBytes(m)
<1>1. NextBytes(n) \in Seq(Byte) /\ NextBytes(m) \in Seq(Byte)
      /\ Len(NextBytes(n)) = n /\ Len(NextBytes(m)) = m
  BY NextBytesType
<1>2. ASSUME NEW k \in 1 .. m PROVE NextBytes(n)[k] = NextBytes(m)[k]
  BY <1>2 DEF NextBytes
<1>3. /\ SubSeq(NextBytes(n), 1, m) \in Seq(Byte)
      /\ Len(SubSeq(NextBytes(n), 1, m)) = m
      /\ \A k \in 1 .. m : SubSeq(NextBytes(n), 1, m)[k] = NextBytes(n)[k]
  BY <1>1
<1> QED BY <1>1, <1>2, <1>3, SameElements

\* Copying no bytes changes nothing.
LEMMA CopyNothing ==
  ASSUME NEW buf \in [Slot -> Byte], NEW at \in Nat
  PROVE  MemcpyIn(buf, at, << >>) = buf
  BY DEF MemcpyIn

\* Bytes copied to the head of an unbroken ring are bytes accepted by the stream.
LEMMA BytesAccepted ==
  ASSUME RingInv, ~broken, broken' = FALSE, NEW n \in Nat,
         n <= AvailableSpace(ring), ring.head + n <= N, ring' \in Ring,
         ring'.buf = MemcpyIn(ring.buf, ring.head, NextBytes(n)),
         ring'.head = Wrap(ring.head + n), ring'.tail = ring.tail, Accepted(n)
  PROVE  RingHoldsStream' /\ StreamStep
<1>1. ring \in Ring /\ tag \in Byte /\ Contents(ring) = pending /\ broken = FALSE
      /\ pending \in Seq(Byte)
  BY DEF RingInv, ApiInv, HistType, RingHoldsStream
<1>2. NextBytes(n) \in Seq(Byte) /\ Len(NextBytes(n)) = n
  BY <1>1, NextBytesType
<1>3. /\ Contents(ring') = Contents(ring) \o NextBytes(n)
      /\ UsedSpace(ring') = UsedSpace(ring) + n
  BY <1>1, <1>2, WrittenIsAppended
<1>4. pending' = pending \o NextBytes(n) /\ out' = out
  BY DEF Accepted
<1>5. Contents(ring)' = Contents(ring')
  OBVIOUS
<1>6. RingHoldsStream'
  BY <1>1, <1>3, <1>4, <1>5 DEF RingHoldsStream
<1>7. Len(pending) = UsedSpace(ring) /\ UsedSpace(ring) \in Nat
      /\ UsedSpace(ring) + n \in 0 .. N - 1
  <2>1. UsedSpace(ring') \in 0 .. N - 1
    BY SpaceFacts
  <2>2. UsedSpace(ring) \in Nat
    BY <1>1, SpaceFacts
  <2> QED BY <1>1, <1>3, <2>1, <2>2, ContentsType
<1>8. CASE n = 0
  <2>1. NextBytes(n) = << >>
    BY <1>2, <1>8
  <2>2. pending' = pending
    BY <1>1, <1>4, <2>1
  <2> QED BY <1>1, <1>4, <1>6, <2>2 DEF StreamStep
<1>9. CASE n # 0
  <2>1. Len(pending') = Len(pending) + n
    <3>1. Len(pending \o NextBytes(n)) = Len(pending) + Len(NextBytes(n))
      BY <1>1, <1>2
    <3> QED BY <1>2, <1>4, <3>1
  <2>2. Len(pending') \in Len(pending) + 1 .. N - 1
    BY <1>7, <1>9, <2>1, Numbers
  <2>3. SubSeq(pending', 1, Len(pending)) = pending
    BY <1>1, <1>2, <1>4, FirstPart
  <2>4. Stream!Accept
    BY <1>1, <1>4, <2>2, <2>3 DEF Stream!Accept
  <2> QED BY <1>6, <2>4 DEF StreamStep, Stream!Next
<1> QED BY <1>8, <1>9

\* Bytes taken at the tail of an unbroken ring are bytes delivered by the stream.
LEMMA BytesDelivered ==
  ASSUME RingInv, ~broken, broken' = FALSE, NEW n \in Nat, NEW data,
         n <= UsedSpace(ring), ring.tail + n <= N, ring' \in Ring,
         data = MemcpyOut(ring.buf, ring.tail, n),
         ring'.buf = ring.buf, ring'.head = ring.head,
         ring'.tail = Wrap(ring.tail + n), Delivered(data)
  PROVE  RingHoldsStream' /\ StreamStep
<1>1. ring \in Ring /\ Contents(ring) = pending /\ broken = FALSE
      /\ pending \in Seq(Byte) /\ ring.buf \in [Slot -> Byte] /\ ring.tail \in Nat
  BY Numbers DEF RingInv, ApiInv, HistType, RingHoldsStream, Ring
<1>2. /\ data = SubSeq(Contents(ring), 1, n)
      /\ Contents(ring') = SubSeq(Contents(ring), n + 1, Len(Contents(ring)))
  BY <1>1, TakenIsOldest
<1>3. Len(pending) = UsedSpace(ring) /\ UsedSpace(ring) \in Nat
  BY <1>1, ContentsType, SpaceFacts
<1>4. Len(data) = n
  BY <1>1, MemcpyOutType
<1>5. out' = data /\ pending' = SubSeq(pending, n + 1, Len(pending))
  BY <1>4 DEF Delivered
<1>6. Contents(ring)' = Contents(ring')
  OBVIOUS
<1>7. RingHoldsStream'
  BY <1>1, <1>2, <1>5, <1>6 DEF RingHoldsStream
<1>8. n \in 0 .. Len(pending)
  BY <1>3
<1>9. Stream!Deliver
  BY <1>1, <1>2, <1>5, <1>8 DEF Stream!Deliver
<1> QED BY <1>7, <1>9 DEF StreamStep, Stream!Next

\* A broken stream promises nothing.
LEMMA BrokenStream ==
  ASSUME broken' = TRUE
  PROVE  RingHoldsStream' /\ StreamStep
  BY DEF RingHoldsStream, StreamStep, Stream!Next, Stream!Break

\* The bulk store: unless it breaks the stream it appends what it stores.
LEMMA StoreStream ==
  ASSUME RingInv, NEW len \in StoreLens, DoStore(len)
  PROVE  RingHoldsStream' /\ StreamStep
<1> DEFINE data == NextBytes(len)
           res  == Store(ring, data)
<1>1. /\ ring \in Ring /\ data \in Seq(Byte) /\ Len(data) = len /\ len \in Nat
      /\ tag \in Byte /\ broken \in BOOLEAN
  BY NextBytesType, ApiAssumption DEF RingInv, ApiInv, HistType
<1>2. ring' \in Ring
  BY StoreInv DEF RingInv, ApiInv
<1>3. res.ring.tail = ring.tail /\ res.len \in 0 .. len
  BY <1>1, StoreFacts
<1>4. ~Splits(ring.head, res.len) =>
        /\ res.len <= AvailableSpace(ring) /\ ring.head + res.len <= N
        /\ res.ring.buf = MemcpyIn(ring.buf, ring.head, SubSeq(data, 1, res.len))
        /\ res.ring.head = Wrap(ring.head + res.len)
  BY <1>1, StoreUnsplit
<1>5. SubSeq(data, 1, res.len) = NextBytes(res.len) /\ res.len \in Nat
  BY <1>1, <1>3, FirstBytes
<1>6. /\ ring' = res.ring /\ Accepted(res.len)
      /\ broken' = (broken \/ Splits(ring.head, res.len))
  BY DEF DoStore
<1> HIDE DEF data, res
<1>7. CASE broken \/ Splits(ring.head, res.len)
  <2>1. broken' = TRUE
    BY <1>1, <1>6, <1>7
  <2> QED BY <2>1, BrokenStream
<1>8. CASE ~broken /\ ~Splits(ring.head, res.len)
  <2>1. broken' = FALSE
    BY <1>1, <1>6, <1>8
  <2> QED BY <1>2, <1>3, <1>4, <1>5, <1>6, <1>8, <2>1, BytesAccepted
<1> QED BY <1>7, <1>8

\* store(c) appends one byte, or none to a full ring.
LEMMA StoreCharStream ==
  ASSUME RingInv, DoStoreChar
  PROVE  RingHoldsStream' /\ StreamStep
<1> DEFINE res == StoreChar(ring, tag)
<1>1. /\ ring \in Ring /\ tag \in Byte /\ broken \in BOOLEAN /\ ring.buf \in [Slot -> Byte]
      /\ ring.head \in 0 .. N - 1 /\ N \in Nat
  BY Numbers DEF RingInv, ApiInv, HistType, Ring
<1>2. ring' \in Ring
  BY StoreCharInv DEF RingInv, ApiInv
<1>3. ring' = res.ring /\ broken' = broken /\ Accepted(res.len)
  BY DEF DoStoreChar
<1>4. CASE broken
  BY <1>1, <1>3, <1>4, BrokenStream
<1>5. CASE ~broken /\ IsFull(ring)
  <2>1. ring' = ring /\ Accepted(0)
    BY <1>3, <1>5 DEF StoreChar
  <2>2. NextBytes(0) = << >> /\ ring.head + 0 = ring.head
    BY <1>1 DEF NextBytes
  <2>3. MemcpyIn(ring.buf, ring.head, NextBytes(0)) = ring.buf
    BY <1>1, <2>2, CopyNothing
  <2>4. Wrap(ring.head + 0) = ring.head /\ ring.head + 0 <= N /\ 0 <= AvailableSpace(ring)
    BY <1>1, <2>2, SpaceFacts DEF Wrap
  <2>5. broken' = FALSE
    BY <1>1, <1>3, <1>5
  <2> QED BY <1>2, <1>5, <2>1, <2>3, <2>4, <2>5, BytesAccepted
<1>6. CASE ~broken /\ ~IsFull(ring)
  <2>1. /\ Accepted(1)
        /\ ring' = [ring EXCEPT !.buf[ring.head] = tag, !.head = Wrap(ring.head + 1)]
    BY <1>3, <1>6 DEF StoreChar
  <2>2. NextBytes(1) \in Seq(Byte) /\ Len(NextBytes(1)) = 1
    BY <1>1, NextBytesType
  <2>3. NextBytes(1)[1] = tag
    BY <1>1, ApiAssumption DEF NextBytes
  <2>4. /\ ring'.buf = [ring.buf EXCEPT ![ring.head] = tag]
        /\ ring'.head = Wrap(ring.head + 1) /\ ring'.tail = ring.tail
    BY <1>1, <2>1 DEF Ring
  <2>5. ring'.buf = MemcpyIn(ring.buf, ring.head, NextBytes(1))
    BY <1>1, <2>2, <2>3, <2>4, StoreCharCopies
  <2>6. 1 <= AvailableSpace(ring) /\ ring.head + 1 <= N
    BY <1>1, <1>6, SpaceFacts DEF IsFull
  <2>7. broken' = FALSE
    BY <1>1, <1>3, <1>6
  <2> QED BY <1>2, <1>6, <2>1, <2>4, <2>5, <2>6, <2>7, BytesAccepted
<1> QED BY <1>4, <1>5, <1>6

\* The bulk read: unless it breaks the stream it delivers what it returns.
LEMMA ReadStream ==
  ASSUME RingInv, NEW max_len \in ReadLens, DoRead(max_len)
  PROVE  RingHoldsStream' /\ StreamStep
<1> DEFINE res == Read(ring, max_len)
<1>1. ring \in Ring /\ max_len \in Nat /\ broken \in BOOLEAN
  BY ApiAssumption DEF RingInv, ApiInv, HistType
<1>2. ring' \in Ring
  BY ReadInv DEF RingInv, ApiInv
<1>3. res.ring.head = ring.head
  BY <1>1, ReadFacts
<1>4. ~Splits(ring.tail, Len(res.data)) =>
        \E n \in 0 .. UsedSpace(ring) :
            /\ res.data = MemcpyOut(ring.buf, ring.tail, n) /\ ring.tail + n <= N
            /\ res.ring.buf = ring.buf /\ res.ring.tail = Wrap(ring.tail + n)
  BY <1>1, ReadUnsplit
<1>5. /\ ring' = res.ring /\ Delivered(res.data)
      /\ broken' = (broken \/ Splits(ring.tail, Len(res.data)))
  BY DEF DoRead
<1> HIDE DEF res
<1>6. CASE broken \/ Splits(ring.tail, Len(res.data))
  <2>1. broken' = TRUE
    BY <1>1, <1>5, <1>6
  <2> QED BY <2>1, BrokenStream
<1>7. CASE ~broken /\ ~Splits(ring.tail, Len(res.data))
  <2>1. broken' = FALSE
    BY <1>1, <1>5, <1>7
  <2>2. PICK n \in 0 .. UsedSpace(ring) :
            /\ res.data = MemcpyOut(ring.buf, ring.tail, n) /\ ring.tail + n <= N
            /\ res.ring.buf = ring.buf /\ res.ring.tail = Wrap(ring.tail + n)
    BY <1>4, <1>7
  <2>3. n \in Nat /\ n <= UsedSpace(ring)
    BY <1>1, SpaceFacts
  <2> QED BY <1>2, <1>3, <1>5, <1>7, <2>1, <2>2, <2>3, BytesDelivered
<1> QED BY <1>6, <1>7

\* read_char() delivers one byte, or none of an empty ring.
LEMMA ReadCharStream ==
  ASSUME RingInv, DoReadChar
  PROVE  RingHoldsStream' /\ StreamStep
<1> DEFINE res == ReadChar(ring)
<1>1. /\ ring \in Ring /\ broken \in BOOLEAN
      /\ ring.tail \in 0 .. N - 1 /\ N \in Nat
  BY Numbers DEF RingInv, ApiInv, HistType
<1>2. ring' \in Ring
  BY ReadCharInv DEF RingInv, ApiInv
<1>3. ring' = res.ring /\ broken' = broken /\ Delivered(res.data)
  BY DEF DoReadChar
<1>4. CASE broken
  BY <1>1, <1>3, <1>4, BrokenStream
<1>5. CASE ~broken /\ IsEmpty(ring)
  <2>1. ring' = ring /\ Delivered(<< >>)
    BY <1>3, <1>5 DEF ReadChar
  <2>2. MemcpyOut(ring.buf, ring.tail, 0) = << >>
    BY DEF MemcpyOut
  <2>3. Wrap(ring.tail + 0) = ring.tail /\ ring.tail + 0 <= N /\ 0 <= UsedSpace(ring)
    BY <1>1, SpaceFacts DEF Wrap
  <2>4. broken' = FALSE
    BY <1>1, <1>3, <1>5
  <2> QED BY <1>2, <1>5, <2>1, <2>2, <2>3, <2>4, BytesDelivered
<1>6. CASE ~broken /\ ~IsEmpty(ring)
  <2>1. /\ Delivered(<< ring.buf[ring.tail] >>)
        /\ ring' = [ring EXCEPT !.tail = Wrap(ring.tail + 1)]
    BY <1>3, <1>6 DEF ReadChar
  <2>2. << ring.buf[ring.tail] >> = MemcpyOut(ring.buf, ring.tail, 1)
    BY <1>1 DEF MemcpyOut
  <2>3. ring'.tail = Wrap(ring.tail + 1) /\ ring'.buf = ring.buf /\ ring'.head = ring.head
    BY <1>1, <2>1 DEF Ring
  <2>4. 1 <= UsedSpace(ring) /\ ring.tail + 1 <= N
    BY <1>1, <1>6, SpaceFacts
  <2>5. broken' = FALSE
    BY <1>1, <1>3, <1>6
  <2> QED BY <1>2, <1>6, <2>1, <2>2, <2>3, <2>4, <2>5, BytesDelivered
<1> QED BY <1>4, <1>5, <1>6

\* clear() discards what waits.
LEMMA ClearStream ==
  ASSUME RingInv, DoClear
  PROVE  RingHoldsStream' /\ StreamStep
<1>1. /\ ring' \in Ring /\ ring'.head = ring'.tail
      /\ pending' = << >> /\ out' = << >> /\ broken' = broken
  <2>1. ring' \in Ring
    BY ClearInv DEF RingInv, ApiInv
  <2>2. ring'.head = 0 /\ ring'.tail = 0
    BY DEF DoClear, Clear, RingInv, ApiInv, Ring
  <2> QED BY <2>1, <2>2 DEF DoClear
<1>2. Contents(ring') \in Seq(Byte) /\ Len(Contents(ring')) = 0
  BY <1>1, ContentsType, SpaceFacts DEF IsEmpty
<1>3. Contents(ring') = << >>
  BY <1>2
<1>4. Contents(ring)' = Contents(ring')
  OBVIOUS
<1>5. Stream!Discard
  BY <1>1 DEF Stream!Discard
<1> QED BY <1>1, <1>3, <1>4, <1>5 DEF RingHoldsStream, StreamStep, Stream!Next

\* completeDirectWrite appends what the channel wrote, from _rx_buffer or in place.
LEMMA FinishWriteStream ==
  ASSUME RingInv, NEW n \in 1 .. N, FinishDirectWrite(n)
  PROVE  RingHoldsStream' /\ StreamStep
<1> DEFINE copied == MemcpyIn(ring.buf, ring.head, NextBytes(n))
           direct == [ring EXCEPT !.buf = MemcpyIn(@, ring.head, NextBytes(n))]
           filled == IF Bounces(ring, owner.align) THEN ring ELSE direct
<1>1. /\ n \in 1 .. writing /\ broken' = broken /\ Accepted(n)
      /\ ring' = CompleteDirectWrite(filled, owner.align, n, NextBytes(n))
  BY DEF FinishDirectWrite
<1>2. /\ ring \in Ring /\ broken \in BOOLEAN /\ N \in Nat
      /\ writing \in 0 .. N /\ ring.head + writing <= N /\ ring.head \in 0 .. N - 1
  BY Numbers DEF RingInv, ApiInv, InStorage, HistType
<1>3. n \in Nat /\ n <= writing /\ ring.head + n <= N
  BY <1>1, <1>2
<1>4. ring' \in Ring
  BY FinishWriteInv DEF RingInv, ApiInv
<1>5. /\ ring'.buf = copied /\ ring'.tail = ring.tail /\ ring'.head = Wrap(ring.head + n)
  <2>1. CASE Bounces(ring, owner.align)
    <3>1. ring' = [ring EXCEPT !.buf = copied, !.head = Wrap(ring.head + n)]
      BY <1>1, <2>1 DEF CompleteDirectWrite
    <3> HIDE DEF copied
    <3> QED BY <1>2, <3>1 DEF Ring
  <2>2. CASE ~Bounces(ring, owner.align)
    <3>1. filled = [ring EXCEPT !.buf = copied]
      BY <2>2
    <3>2. filled.head = ring.head /\ filled.tail = ring.tail /\ filled.buf = copied
          /\ filled \in [buf : {copied}, head : Slot, tail : Slot]
      <4> HIDE DEF copied, filled
      <4> QED BY <1>2, <3>1 DEF Ring
    <3>3. ~Bounces(filled, owner.align)
      BY <2>2, <3>2 DEF Bounces
    <3>4. ring' = [filled EXCEPT !.buf = filled.buf, !.head = Wrap(filled.head + n)]
      BY <1>1, <3>3 DEF CompleteDirectWrite
    <3> HIDE DEF copied, filled
    <3> QED BY <3>2, <3>4
  <2> QED BY <2>1, <2>2
<1>6. CASE broken
  BY <1>1, <1>2, <1>6, BrokenStream
<1>7. CASE ~broken
  <2>1. writing <= AvailableSpace(ring) /\ AvailableSpace(ring) \in Nat
    BY <1>2, <1>7, SpaceFacts DEF RingInv, ApiInv, Reserved
  <2>2. n <= AvailableSpace(ring)
    BY <1>2, <1>3, <2>1
  <2>3. broken' = FALSE
    BY <1>1, <1>2, <1>7
  <2> QED BY <1>1, <1>3, <1>4, <1>5, <1>7, <2>2, <2>3, BytesAccepted
<1> QED BY <1>6, <1>7

\* completeDirectRead delivers what the channel took.
LEMMA FinishReadStream ==
  ASSUME RingInv, FinishDirectRead
  PROVE  RingHoldsStream' /\ StreamStep
<1>1. owner.align # "tx"
  BY ApiAssumption DEF RingInv, ApiInv
<1>2. /\ ring \in Ring /\ broken \in BOOLEAN /\ reading \in Nat /\ ring.tail + reading <= N
  BY Numbers DEF RingInv, ApiInv, InStorage, HistType
<1>3. /\ broken' = broken /\ ring' = [ring EXCEPT !.tail = Wrap(ring.tail + reading)]
      /\ Delivered(MemcpyOut(ring.buf, ring.tail, reading))
  BY <1>1 DEF FinishDirectRead, CompleteDirectRead
<1>4. ring' \in Ring
  BY FinishReadInv DEF RingInv, ApiInv
<1>5. ring'.buf = ring.buf /\ ring'.head = ring.head /\ ring'.tail = Wrap(ring.tail + reading)
  BY <1>2, <1>3 DEF Ring
<1>6. CASE broken
  BY <1>2, <1>3, <1>6, BrokenStream
<1>7. CASE ~broken
  <2>1. reading <= UsedSpace(ring)
    BY <1>7 DEF RingInv, ApiInv, Reserved
  <2>2. broken' = FALSE
    BY <1>2, <1>3, <1>7
  <2> QED BY <1>2, <1>3, <1>4, <1>5, <1>7, <2>1, <2>2, BytesDelivered
<1> QED BY <1>6, <1>7

\* Arming a transfer, of a ring that pads nothing, leaves the stream alone.
LEMMA StartStream ==
  ASSUME RingInv, StartDirectWrite \/ StartDirectRead
  PROVE  RingHoldsStream' /\ StreamStep
<1>1. owner.align # "tx"
  BY ApiAssumption DEF RingInv, ApiInv
<1>2. UNCHANGED <<ring, pending, out, broken>>
  BY <1>1 DEF StartDirectWrite, StartDirectRead, PrepareDirectRead
<1>3. Contents(ring)' = Contents(ring)
  BY <1>2
<1> QED BY <1>2, <1>3 DEF RingInv, RingHoldsStream, StreamStep

\* Every step keeps the ring invariant and is a step of the stream.
LEMMA StreamNext ==
  ASSUME RingInv, [Next]_vars
  PROVE  RingInv' /\ [Stream!Next]_<<pending, out, broken>>
<1>1. ApiInv'
  BY NextInv DEF RingInv
<1>2. CASE UNCHANGED vars
  <2>1. Contents(ring)' = Contents(ring) /\ UNCHANGED <<pending, out, broken>>
    BY <1>2 DEF vars
  <2> QED BY <1>1, <2>1 DEF RingInv, RingHoldsStream
<1>3. CASE Next
  <2>1. RingHoldsStream' /\ StreamStep
    BY <1>3, StoreStream, StoreCharStream, ReadStream, ReadCharStream, ClearStream,
       StartStream, FinishWriteStream, FinishReadStream DEF Next
  <2> QED BY <1>1, <2>1 DEF RingInv, StreamStep
<1> QED BY <1>2, <1>3

\* An empty ring holds an empty stream.
LEMMA StreamInit == ASSUME Init PROVE RingInv /\ Stream!Init
<1>1. ApiInv
  BY InitInv
<1>2. ring \in Ring /\ IsEmpty(ring) /\ pending = << >>
  <2>1. ring \in Ring
    BY <1>1 DEF ApiInv
  <2>2. ring.head = 0 /\ ring.tail = 0
    BY DEF Init, Clear
  <2> QED BY <2>1, <2>2 DEF Init, IsEmpty
<1>3. Contents(ring) \in Seq(Byte) /\ Len(Contents(ring)) = 0
  BY <1>2, ContentsType, SpaceFacts
<1>4. Contents(ring) = << >>
  BY <1>3
<1> QED BY <1>1, <1>2, <1>4 DEF Init, RingInv, RingHoldsStream, Stream!Init

-----------------------------------------------------------------------------
\* Used space, pointers and contents of the storage agree with the bytes accepted
\* and not yet returned, until a bulk call reaches endPtr.
THEOREM RingContents == Spec => []RingHoldsStream
  <1>1. RingInv => RingHoldsStream
    BY DEF RingInv
  <1> QED
    BY <1>1, StreamInit, StreamNext, PTL DEF Spec

\* A ring implements the bounded byte stream, for every capacity, owner and mix of
\* calls.
THEOREM RingIsStream == Spec => StreamSpec
  BY StreamInit, StreamNext, PTL DEF Spec, StreamSpec, Stream!Spec
=============================================================================
