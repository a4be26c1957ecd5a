---------------------------- MODULE RingBufferProofs ----------------------------
(***************************************************************************)
(* What the member functions of RingBuffer keep, for every capacity:       *)
(* the pointers stay inside the storage, a word-aligned tail stays word    *)
(* aligned, and a call that does not reach endPtr gives no slot away.      *)
(***************************************************************************)
EXTENDS RingBuffer, TLAPS

Words == N % AlignStep = 0 /\ N > AlignStep

-----------------------------------------------------------------------------
(* Arithmetic on words.                                                     *)

\* Rounding up ends at the next word boundary.
LEMMA RoundUpFacts ==
  ASSUME NEW len \in Nat
  PROVE  /\ RoundUp(len) \in Nat
         /\ Aligned(RoundUp(len))
         /\ len <= RoundUp(len) /\ RoundUp(len) < len + AlignStep
         /\ Aligned(len) => RoundUp(len) = len
         /\ len > 0 => RoundUp(len) >= AlignStep
  BY DEF RoundUp, Aligned, AlignStep

\* Sums and differences of whole words are whole words.
LEMMA AlignedSum ==
  ASSUME NEW p \in Nat, NEW q \in Nat, Aligned(p), Aligned(q)
  PROVE  /\ Aligned(p + q)
         /\ p >= q => Aligned(p - q)
         /\ p > q => p >= q + AlignStep
  BY DEF Aligned, AlignStep

-----------------------------------------------------------------------------
(* Occupancy.                                                               *)

\* usedSpace and availableSpace share the N - 1 usable slots out.
LEMMA SpaceFacts ==
  ASSUME NEW r \in Ring
  PROVE  /\ UsedSpace(r) \in 0 .. N - 1
         /\ AvailableSpace(r) \in 0 .. N - 1
         /\ UsedSpace(r) + AvailableSpace(r) = N - 1
         /\ IsEmpty(r) <=> UsedSpace(r) = 0
<1>1. N \in Nat /\ r.head \in 0 .. N - 1 /\ r.tail \in 0 .. N - 1
  BY NAssumption DEF Ring, Slot
<1>2. UsedSpace(r) \in 0 .. N - 1 /\ (r.head = r.tail <=> UsedSpace(r) = 0)
  BY <1>1 DEF UsedSpace
<1> QED BY <1>1, <1>2 DEF AvailableSpace, IsEmpty

\* A copy into the storage keeps it a storage of bytes.
LEMMA MemcpyInType ==
  ASSUME NEW buf \in [Slot -> Byte], NEW at \in Nat, NEW data \in Seq(Byte)
  PROVE  MemcpyIn(buf, at, data) \in [Slot -> Byte]
<1> SUFFICES ASSUME NEW i \in Slot, i \in at .. at + Len(data) - 1
             PROVE  data[i - at + 1] \in Byte
  BY DEF MemcpyIn
<1> i - at + 1 \in 1 .. Len(data)
  BY NAssumption DEF Slot
<1> QED OBVIOUS

\* A copy out of the storage yields as many bytes as asked for.
LEMMA MemcpyOutType ==
  ASSUME NEW buf \in [Slot -> Byte], NEW at \in Nat, NEW len \in Nat, at + len <= N
  PROVE  MemcpyOut(buf, at, len) \in Seq(Byte) /\ Len(MemcpyOut(buf, at, len)) = len
<1>1. \A k \in 1 .. len : at + k - 1 \in Slot
  BY NAssumption DEF Slot
<1> QED BY <1>1 DEF MemcpyOut

-----------------------------------------------------------------------------
(* The member functions.                                                    *)

\* wrap_headPtr and wrap_tailPtr: back into the storage, word alignment kept.
LEMMA WrapFacts ==
  ASSUME NEW p \in 0 .. N
  PROVE  /\ Wrap(p) \in Slot
         /\ Words /\ Aligned(p) => Aligned(Wrap(p))
  BY NAssumption DEF Wrap, Slot, Aligned, AlignStep

\* A split copy starts again at 0 and leaves at least one byte to copy there.
LEMMA SplitFacts ==
  ASSUME NEW p \in Slot, NEW len \in 0 .. N - 1
  PROVE  /\ PrewrapLen(p, len) \in 0 .. len
         /\ p + PrewrapLen(p, len) <= N
         /\ CopyFrom(p, len) \in Slot
         /\ CopyFrom(p, len) + (len - PrewrapLen(p, len)) \in Slot
  BY NAssumption DEF Slot, PrewrapLen, CopyFrom, Splits

\* The bulk store moves only the head, within the storage.
LEMMA StoreFacts ==
  ASSUME NEW r \in Ring, NEW data \in Seq(Byte)
  PROVE  /\ Store(r, data).ring \in Ring
         /\ Store(r, data).ring.tail = r.tail
         /\ Store(r, data).len \in 0 .. Len(data)
<1> DEFINE max  == min(Len(data), AvailableSpace(r))
           pre  == PrewrapLen(r.head, max)
           at   == CopyFrom(r.head, max)
           buf1 == MemcpyIn(r.buf, r.head, SubSeq(data, 1, pre))
           buf2 == MemcpyIn(buf1, at, SubSeq(data, pre + 1, max))
           new  == [r EXCEPT !.buf = buf2, !.head = at + (max - pre)]
<1>1. r.buf \in [Slot -> Byte] /\ r.head \in Slot /\ r.tail \in Slot
  BY DEF Ring
<1>2. max \in 0 .. N - 1 /\ max \in 0 .. Len(data)
  BY SpaceFacts, NAssumption DEF min
<1>3. /\ pre \in 0 .. max /\ at \in Slot
      /\ at + (max - pre) \in Slot
  BY <1>1, <1>2, SplitFacts
<1> HIDE DEF max, pre, at
<1>4. /\ SubSeq(data, 1, pre) \in Seq(Byte)
      /\ SubSeq(data, pre + 1, max) \in Seq(Byte)
  BY <1>2, <1>3
<1>5. r.head \in Nat /\ at \in Nat
  BY <1>1, <1>3 DEF Slot
<1>6. buf1 \in [Slot -> Byte]
  BY <1>1, <1>4, <1>5, MemcpyInType
<1> HIDE DEF buf1
<1>7. buf2 \in [Slot -> Byte]
  BY <1>4, <1>5, <1>6, MemcpyInType
<1> HIDE DEF buf2
<1>8. new \in Ring /\ new.tail = r.tail
  BY <1>1, <1>3, <1>7 DEF Ring
<1>9. Store(r, data) = [ring |-> new, len |-> max]
  BY DEF Store, max, pre, at, buf1, buf2
<1> HIDE DEF new
<1> QED BY <1>2, <1>8, <1>9

\* So does store(c), which leaves a full ring alone.
LEMMA StoreCharFacts ==
  ASSUME NEW r \in Ring, NEW c \in Byte
  PROVE  /\ StoreChar(r, c).ring \in Ring
         /\ StoreChar(r, c).ring.tail = r.tail
         /\ StoreChar(r, c).len \in 0 .. 1
         /\ StoreChar(r, c).len = 0 => StoreChar(r, c).ring = r
<1>1. Wrap(r.head + 1) \in Slot
  BY WrapFacts, NAssumption DEF Ring, Slot
<1>2. [r EXCEPT !.buf[r.head] = c, !.head = Wrap(r.head + 1)] \in Ring
  BY <1>1 DEF Ring
<1> QED BY <1>2 DEF StoreChar, Ring

\* The bulk read moves only the tail, and returns no more than is used.
LEMMA ReadFacts ==
  ASSUME NEW r \in Ring, NEW max_len \in Nat
  PROVE  /\ Read(r, max_len).ring \in Ring
         /\ Read(r, max_len).ring.head = r.head
         /\ Read(r, max_len).data \in Seq(Byte)
         /\ Len(Read(r, max_len).data) \in 0 .. UsedSpace(r)
<1> DEFINE total == min(max_len, UsedSpace(r))
           pre   == PrewrapLen(r.tail, total)
           at    == CopyFrom(r.tail, total)
           one   == MemcpyOut(r.buf, r.tail, pre)
           two   == MemcpyOut(r.buf, at, total - pre)
<1>1. r.buf \in [Slot -> Byte] /\ r.head \in Slot /\ r.tail \in Slot
  BY DEF Ring
<1>2. total \in 0 .. N - 1 /\ total \in 0 .. UsedSpace(r)
  BY SpaceFacts, NAssumption DEF min
<1>3. /\ pre \in 0 .. total /\ at \in Slot /\ r.tail + pre <= N
      /\ at + (total - pre) \in Slot
  BY <1>1, <1>2, SplitFacts
<1> HIDE DEF total, pre, at
<1>4. /\ r.tail \in Nat /\ pre \in Nat /\ at \in Nat /\ total - pre \in Nat
      /\ at + (total - pre) <= N
  BY <1>1, <1>2, <1>3, NAssumption DEF Slot
<1>5. one \in Seq(Byte) /\ Len(one) = pre
  BY <1>1, <1>3, <1>4, MemcpyOutType
<1>6. two \in Seq(Byte) /\ Len(two) = total - pre
  BY <1>1, <1>4, MemcpyOutType
<1>7. Read(r, max_len) = [ring |-> [r EXCEPT !.tail = at + (total - pre)],
                          data |-> one \o two]
  BY DEF Read, total, pre, at
<1> HIDE DEF one, two
<1>8. one \o two \in Seq(Byte) /\ Len(one \o two) = total
  BY <1>2, <1>3, <1>5, <1>6
<1>9. [r EXCEPT !.tail = at + (total - pre)] \in Ring
  BY <1>1, <1>3 DEF Ring
<1>10. Read(r, max_len).data = one \o two
  BY <1>7
<1>11. /\ Read(r, max_len).ring = [r EXCEPT !.tail = at + (total - pre)]
       /\ Read(r, max_len).ring.head = r.head
  BY <1>1, <1>7 DEF Ring
<1> QED BY <1>2, <1>8, <1>9, <1>10, <1>11

\* So does read_char().
LEMMA ReadCharFacts ==
  ASSUME NEW r \in Ring
  PROVE  /\ ReadChar(r).ring \in Ring
         /\ ReadChar(r).ring.head = r.head
         /\ ReadChar(r).data \in Seq(Byte)
         /\ Len(ReadChar(r).data) \in 0 .. 1
<1>1. Wrap(r.tail + 1) \in Slot
  BY WrapFacts, NAssumption DEF Ring, Slot
<1>2. [r EXCEPT !.tail = Wrap(r.tail + 1)] \in Ring
  BY <1>1 DEF Ring
<1>3. r.buf[r.tail] \in Byte
  BY DEF Ring
<1> QED BY <1>2, <1>3 DEF ReadChar, Ring

-----------------------------------------------------------------------------
(* The DMA side.                                                            *)

\* What a transfer out of a "tx" ring needs: it starts on a word boundary, is
\* not empty, and its last word still lies inside the storage.
LEMMA PrepareDirectReadFacts ==
  ASSUME NEW r \in Ring, Words, Aligned(r.tail), ~IsEmpty(r),
         NEW res, res = PrepareDirectRead(r, "tx")
  PROVE  /\ res.ring \in Ring
         /\ res.ring.tail = r.tail
         /\ ~IsEmpty(res.ring)
         /\ res.len \in 1 .. N
         /\ r.tail + RoundUp(res.len) <= N
<1> DEFINE max == min(N - r.tail, UsedSpace(r))
<1>1. r.head \in Slot /\ r.tail \in Slot
  BY DEF Ring
<1>2. N - r.tail >= AlignStep
  BY <1>1, AlignedSum, NAssumption DEF Words, Aligned, Slot, AlignStep
<1>3. max \in 1 .. N - 1 /\ max <= N - r.tail /\ max <= UsedSpace(r)
  BY <1>1, <1>2, SpaceFacts, NAssumption DEF min, Slot, AlignStep
<1>4. CASE max < AlignStep
  \* Fewer than four bytes are left and the ring does not wrap inside them.
  <2>1. max = UsedSpace(r) /\ r.head = r.tail + max
    BY <1>1, <1>2, <1>3, <1>4, NAssumption DEF UsedSpace, min, Slot, AlignStep
  <2>2. r.head + (AlignStep - max) = r.tail + AlignStep
    BY <1>1, <1>3, <2>1, NAssumption DEF Slot, AlignStep
  <2>3. /\ Wrap(r.tail + AlignStep) \in Slot
        /\ Wrap(r.tail + AlignStep) # r.tail
    BY <1>1, <1>2, NAssumption DEF Wrap, Slot, Words, AlignStep
  <2>4. res = [ring |-> [r EXCEPT !.head = Wrap(r.tail + AlignStep)], len |-> max]
    BY <1>4, <2>2 DEF PrepareDirectRead
  <2>5. RoundUp(max) = AlignStep
    BY <1>3, <1>4, NAssumption DEF RoundUp, Aligned, AlignStep
  <2>6. [r EXCEPT !.head = Wrap(r.tail + AlignStep)] \in Ring
    BY <2>3 DEF Ring
  <2>7. res.ring.tail = r.tail /\ res.ring.head = Wrap(r.tail + AlignStep)
    BY <2>4 DEF Ring
  <2>8. res.len \in 1 .. N /\ RoundUp(res.len) = AlignStep
    BY <1>3, <2>4, <2>5, NAssumption
  <2>9. r.tail + AlignStep <= N
    BY <1>1, <1>2, NAssumption DEF Slot, AlignStep
  <2> QED BY <2>3, <2>4, <2>6, <2>7, <2>8, <2>9 DEF IsEmpty
<1>5. CASE max >= AlignStep
  <2>1. res = [ring |-> r, len |-> max - (max % AlignStep)]
    BY <1>3, <1>5 DEF PrepareDirectRead, AlignStep
  <2>2. /\ max - (max % AlignStep) \in 1 .. max
        /\ Aligned(max - (max % AlignStep))
    BY <1>3, <1>5, NAssumption DEF Aligned, AlignStep
  <2>3. RoundUp(res.len) = res.len
    BY <2>1, <2>2, RoundUpFacts
  <2>4. res.ring = r /\ res.len \in 1 .. max
    BY <2>1, <2>2
  <2>5. r.tail + res.len <= N /\ res.len \in 1 .. N
    BY <1>1, <1>3, <2>4, NAssumption DEF Slot
  <2> QED BY <2>3, <2>4, <2>5
<1> QED BY <1>3, <1>4, <1>5, NAssumption DEF AlignStep

\* Accounting for such a transfer leaves a ring with a word-aligned tail.
LEMMA CompleteDirectReadFacts ==
  ASSUME NEW r \in Ring, Words, Aligned(r.tail), NEW len \in Nat,
         r.tail + RoundUp(len) <= N
  PROVE  /\ CompleteDirectRead(r, "tx", len) \in Ring
         /\ Aligned(CompleteDirectRead(r, "tx", len).tail)
         /\ CompleteDirectRead(r, "tx", len).head = r.head
<1>1. r.tail + RoundUp(len) \in 0 .. N /\ Aligned(r.tail + RoundUp(len))
  BY RoundUpFacts, AlignedSum, NAssumption DEF Ring, Slot
<1>2. Wrap(r.tail + RoundUp(len)) \in Slot /\ Aligned(Wrap(r.tail + RoundUp(len)))
  BY <1>1, WrapFacts
<1>3. CompleteDirectRead(r, "tx", len) = [r EXCEPT !.tail = Wrap(r.tail + RoundUp(len))]
  BY DEF CompleteDirectRead
<1> QED BY <1>2, <1>3 DEF Ring

\* A transfer into a ring has room, and fits _rx_buffer when it bounces.
LEMMA PrepareDirectWriteFacts ==
  ASSUME NEW r \in Ring, ~IsFull(r), NEW align
  PROVE  /\ PrepareDirectWrite(r, align) \in 1 .. AvailableSpace(r)
         /\ r.head + PrepareDirectWrite(r, align) <= N
         /\ Bounces(r, align) => PrepareDirectWrite(r, align) <= BounceSize
<1>1. r.head \in Slot /\ AvailableSpace(r) \in 1 .. N - 1
  BY SpaceFacts, NAssumption DEF IsFull, Ring
<1> QED BY <1>1, NAssumption DEF PrepareDirectWrite, min, Slot, BounceSize

\* Accounting for it keeps head inside the storage and the bytes typed.
LEMMA CompleteDirectWriteFacts ==
  ASSUME NEW r \in Ring, NEW len \in Nat, r.head + len <= N,
         NEW rxbuf \in Seq(Byte), NEW align
  PROVE  /\ CompleteDirectWrite(r, align, len, rxbuf) \in Ring
         /\ CompleteDirectWrite(r, align, len, rxbuf).tail = r.tail
         /\ CompleteDirectWrite(r, align, len, rxbuf).head = Wrap(r.head + len)
<1>1. r.head + len \in 0 .. N /\ r.head \in Nat
  BY NAssumption DEF Ring, Slot
<1>2. Wrap(r.head + len) \in Slot
  BY <1>1, WrapFacts
<1>3. MemcpyIn(r.buf, r.head, rxbuf) \in [Slot -> Byte]
  BY <1>1, MemcpyInType DEF Ring
<1> QED BY <1>2, <1>3 DEF CompleteDirectWrite, Ring

-----------------------------------------------------------------------------
(* What the member functions do to the used space.                          *)

\* A bulk store that does not reach endPtr frees no slot.
LEMMA StoreGrows ==
  ASSUME NEW r \in Ring, NEW data \in Seq(Byte),
         ~Splits(r.head, Store(r, data).len)
  PROVE  UsedSpace(r) <= UsedSpace(Store(r, data).ring)
<1> DEFINE max == min(Len(data), AvailableSpace(r))
           new == Store(r, data).ring
<1>1. max \in 0 .. AvailableSpace(r) /\ Store(r, data).len = max
  BY SpaceFacts, NAssumption DEF min, Store
<1>2. ~Splits(r.head, max)
  BY <1>1
<1> HIDE DEF max
<1>3. new.tail = r.tail /\ new.head = r.head + max
  <2>1. new.tail = r.tail
    BY StoreFacts
  <2>2. PrewrapLen(r.head, max) = 0 /\ CopyFrom(r.head, max) = r.head
    BY <1>2 DEF PrewrapLen, CopyFrom
  <2>3. r.head \in Nat /\ max \in Nat
    BY <1>1, SpaceFacts, NAssumption DEF Ring, Slot
  <2>4. new.head = CopyFrom(r.head, max) + (max - PrewrapLen(r.head, max))
    BY DEF Store, max, Ring
  <2> QED BY <2>1, <2>2, <2>3, <2>4
<1> HIDE DEF new
<1>4. r.head \in 0 .. N - 1 /\ r.tail \in 0 .. N - 1 /\ N \in Nat
  BY NAssumption DEF Ring, Slot
<1>5. r.head + max < N /\ max \in Nat
  BY <1>1, <1>2, <1>4, SpaceFacts DEF Splits
<1>6. max <= N - 1 - UsedSpace(r)
  BY <1>1, <1>4, SpaceFacts
<1> QED BY <1>3, <1>4, <1>5, <1>6 DEF UsedSpace, new

\* store(c) frees no slot.
LEMMA StoreCharGrows ==
  ASSUME NEW r \in Ring, NEW c \in Byte
  PROVE  UsedSpace(r) <= UsedSpace(StoreChar(r, c).ring)
<1>1. r.head \in 0 .. N - 1 /\ r.tail \in 0 .. N - 1 /\ N \in Nat
  BY NAssumption DEF Ring, Slot
<1>2. CASE IsFull(r)
  <2>1. StoreChar(r, c).ring = r
    BY <1>2 DEF StoreChar
  <2> QED BY <1>1, <2>1, SpaceFacts
<1>3. CASE ~IsFull(r)
  <2> DEFINE new == StoreChar(r, c).ring
  <2>1. new.head = Wrap(r.head + 1) /\ new.tail = r.tail
    BY <1>3 DEF StoreChar, Ring
  <2>2. UsedSpace(r) < N - 1
    BY <1>1, <1>3, SpaceFacts DEF IsFull
  <2> HIDE DEF new
  <2>3. UsedSpace(r) <= UsedSpace(new)
    BY <1>1, <2>1, <2>2 DEF UsedSpace, Wrap
  <2> QED BY <2>3 DEF new
<1> QED BY <1>2, <1>3

\* The bulk read returns as many bytes as it says.
LEMMA ReadLength ==
  ASSUME NEW r \in Ring, NEW max_len \in Nat
  PROVE  Len(Read(r, max_len).data) = min(max_len, UsedSpace(r))
<1> DEFINE total == min(max_len, UsedSpace(r))
<1>1. r.head \in 0 .. N - 1 /\ r.tail \in 0 .. N - 1 /\ N \in Nat
  BY NAssumption DEF Ring, Slot
<1>2. total \in 0 .. UsedSpace(r) /\ total \in 0 .. N - 1
  BY <1>1, SpaceFacts DEF min
<1>3. Len(Read(r, max_len).data) = total
  <2> DEFINE pre == PrewrapLen(r.tail, total)
             at  == CopyFrom(r.tail, total)
             one == MemcpyOut(r.buf, r.tail, pre)
             two == MemcpyOut(r.buf, at, total - pre)
  <2>1. Read(r, max_len).data = one \o two
    BY DEF Read
  <2> HIDE DEF total
  <2>2. /\ r.tail \in Slot /\ pre \in 0 .. total /\ at \in Slot /\ r.tail + pre <= N
        /\ at + (total - pre) \in Slot
    BY <1>2, SplitFacts DEF Ring
  <2> HIDE DEF pre, at
  <2>3. /\ r.tail \in Nat /\ pre \in Nat /\ at \in Nat /\ total - pre \in Nat
        /\ at + (total - pre) <= N /\ r.buf \in [Slot -> Byte]
    BY <1>1, <1>2, <2>2 DEF Slot, Ring
  <2>4. one \in Seq(Byte) /\ Len(one) = pre
    BY <2>2, <2>3, MemcpyOutType
  <2>5. two \in Seq(Byte) /\ Len(two) = total - pre
    BY <2>3, MemcpyOutType
  <2> HIDE DEF one, two
  <2>6. Len(one \o two) = total
    BY <1>2, <2>2, <2>4, <2>5
  <2> QED BY <2>1, <2>6
<1> QED BY <1>3

\* A bulk read that does not reach endPtr takes no slot.
LEMMA ReadShrinks ==
  ASSUME NEW r \in Ring, NEW max_len \in Nat,
         ~Splits(r.tail, Len(Read(r, max_len).data))
  PROVE  AvailableSpace(r) <= AvailableSpace(Read(r, max_len).ring)
<1> DEFINE total == min(max_len, UsedSpace(r))
           new   == Read(r, max_len).ring
<1>1. r.head \in 0 .. N - 1 /\ r.tail \in 0 .. N - 1 /\ N \in Nat
  BY NAssumption DEF Ring, Slot
<1>2. total \in 0 .. UsedSpace(r) /\ total \in 0 .. N - 1
  BY <1>1, SpaceFacts DEF min
<1>3. Len(Read(r, max_len).data) = total
  BY ReadLength
<1>4. ~Splits(r.tail, total)
  BY <1>3
<1>5. new.head = r.head
  BY ReadFacts
<1>6. new.tail = CopyFrom(r.tail, total) + (total - PrewrapLen(r.tail, total))
  BY DEF Read, Ring
<1> HIDE DEF new, total
<1>7. new.tail = r.tail + total
  BY <1>1, <1>2, <1>4, <1>6 DEF PrewrapLen, CopyFrom
<1>8. r.tail + total < N
  BY <1>1, <1>2, <1>4 DEF Splits
<1>9. UsedSpace(new) <= UsedSpace(r) /\ UsedSpace(new) \in Int /\ UsedSpace(r) \in Int
  BY <1>1, <1>2, <1>5, <1>7, <1>8 DEF UsedSpace
<1> QED BY <1>1, <1>9 DEF AvailableSpace, new

\* read_char() takes no slot.
LEMMA ReadCharShrinks ==
  ASSUME NEW r \in Ring
  PROVE  AvailableSpace(r) <= AvailableSpace(ReadChar(r).ring)
<1>1. r.head \in 0 .. N - 1 /\ r.tail \in 0 .. N - 1 /\ N \in Nat
  BY NAssumption DEF Ring, Slot
<1>2. CASE IsEmpty(r)
  <2>1. ReadChar(r).ring = r
    BY <1>2 DEF ReadChar
  <2> QED BY <1>1, <2>1, SpaceFacts
<1>3. CASE ~IsEmpty(r)
  <2> DEFINE new == ReadChar(r).ring
  <2>1. new.tail = Wrap(r.tail + 1) /\ new.head = r.head
    BY <1>3 DEF ReadChar, Ring
  <2> HIDE DEF new
  <2>2. r.head # r.tail
    BY <1>3 DEF IsEmpty
  <2>3. UsedSpace(new) <= UsedSpace(r) /\ UsedSpace(new) \in Int /\ UsedSpace(r) \in Int
    BY <1>1, <2>1, <2>2 DEF UsedSpace, Wrap
  <2> QED BY <1>1, <2>3 DEF AvailableSpace, new
<1> QED BY <1>2, <1>3

-----------------------------------------------------------------------------
(* What the member functions do to the contents.                            *)

\* Two sequences with the same elements are the same.
LEMMA SameElements ==
  ASSUME NEW S, NEW s \in Seq(S), NEW t \in Seq(S), Len(s) = Len(t),
         \A i \in 1 .. Len(s) : s[i] = t[i]
  PROVE  s = t
  OBVIOUS

\* The elements of a concatenation after the first part.
LEMMA SecondPart ==
  ASSUME NEW S, NEW s \in Seq(S), NEW t \in Seq(S), NEW k \in 1 .. Len(t)
  PROVE  (s \o t)[Len(s) + k] = t[k]
  OBVIOUS

\* The first part of a concatenation.
LEMMA FirstPart ==
  ASSUME NEW S, NEW s \in Seq(S), NEW t \in Seq(S)
  PROVE  SubSeq(s \o t, 1, Len(s)) = s
<1>1. /\ SubSeq(s \o t, 1, Len(s)) \in Seq(S)
      /\ Len(SubSeq(s \o t, 1, Len(s))) = Len(s)
  OBVIOUS
<1>2. \A i \in 1 .. Len(s) : SubSeq(s \o t, 1, Len(s))[i] = s[i]
  OBVIOUS
<1> QED BY <1>1, <1>2, SameElements

\* The contents are as many bytes as the space used.
LEMMA ContentsType ==
  ASSUME NEW r \in Ring
  PROVE  /\ Contents(r) \in Seq(Byte) /\ Len(Contents(r)) = UsedSpace(r)
         /\ \A k \in 1 .. UsedSpace(r) : Contents(r)[k] = r.buf[SlotAt(r, k)]
<1>1. N \in Nat /\ r.tail \in 0 .. N - 1 /\ r.buf \in [Slot -> Byte]
  BY NAssumption DEF Ring, Slot
<1>2. UsedSpace(r) \in 0 .. N - 1
  BY SpaceFacts
<1>3. \A k \in 1 .. UsedSpace(r) : SlotAt(r, k) \in Slot
  BY <1>1, <1>2 DEF SlotAt, Slot
<1> QED BY <1>1, <1>2, <1>3 DEF Contents

\* The slots from the head on come after the used ones, and are none of them.
LEMMA HeadSlots ==
  ASSUME NEW r \in Ring, NEW n \in Nat, n <= AvailableSpace(r), r.head + n <= N
  PROVE  /\ \A k \in 1 .. n : SlotAt(r, UsedSpace(r) + k) = r.head + k - 1
         /\ \A k \in 1 .. UsedSpace(r) : /\ SlotAt(r, k) \in Slot
                                         /\ SlotAt(r, k) \notin r.head .. r.head + n - 1
<1>1. N \in Nat /\ r.tail \in 0 .. N - 1 /\ r.head \in 0 .. N - 1
  BY NAssumption DEF Ring, Slot
<1>2. UsedSpace(r) \in 0 .. N - 1 /\ n <= N - 1 - UsedSpace(r)
  BY <1>1, SpaceFacts
<1>3. UsedSpace(r) = IF r.head < r.tail THEN N + r.head - r.tail ELSE r.head - r.tail
  BY <1>1 DEF UsedSpace
<1>4. ASSUME NEW k \in 1 .. n PROVE SlotAt(r, UsedSpace(r) + k) = r.head + k - 1
  BY <1>1, <1>2, <1>3 DEF SlotAt
<1>5. ASSUME NEW k \in 1 .. UsedSpace(r)
      PROVE  SlotAt(r, k) \in Slot /\ SlotAt(r, k) \notin r.head .. r.head + n - 1
  BY <1>1, <1>2, <1>3 DEF SlotAt, Slot
<1> QED BY <1>4, <1>5

\* Bytes copied to the head and counted as used are appended to the contents.
LEMMA WrittenIsAppended ==
  ASSUME NEW r \in Ring, NEW s \in Ring, NEW data \in Seq(Byte),
         Len(data) <= AvailableSpace(r), r.head + Len(data) <= N,
         s.buf = MemcpyIn(r.buf, r.head, data),
         s.head = Wrap(r.head + Len(data)), s.tail = r.tail
  PROVE  Contents(s) = Contents(r) \o data /\ UsedSpace(s) = UsedSpace(r) + Len(data)
<1> DEFINE n == Len(data)
<1>1. N \in Nat /\ r.tail \in 0 .. N - 1 /\ r.head \in 0 .. N - 1 /\ n \in Nat
  BY NAssumption DEF Ring, Slot
<1>2. UsedSpace(r) \in 0 .. N - 1 /\ n <= N - 1 - UsedSpace(r)
  BY <1>1, SpaceFacts
<1>3. UsedSpace(s) = UsedSpace(r) + n
  BY <1>1, <1>2 DEF UsedSpace, Wrap
<1>4. \A k \in Nat : SlotAt(s, k) = SlotAt(r, k)
  BY DEF SlotAt
<1>5. ASSUME NEW k \in 1 .. UsedSpace(r) PROVE Contents(s)[k] = Contents(r)[k]
  <2>1. SlotAt(r, k) \in Slot /\ SlotAt(r, k) \notin r.head .. r.head + n - 1
    BY <1>1, HeadSlots
  <2>2. s.buf[SlotAt(r, k)] = r.buf[SlotAt(r, k)]
    BY <2>1 DEF MemcpyIn
  <2>3. Contents(s)[k] = s.buf[SlotAt(s, k)] /\ Contents(r)[k] = r.buf[SlotAt(r, k)]
    BY <1>1, <1>2, <1>3, ContentsType
  <2> QED BY <1>4, <2>2, <2>3
<1>6. ASSUME NEW k \in 1 .. n PROVE Contents(s)[UsedSpace(r) + k] = data[k]
  <2>1. SlotAt(r, UsedSpace(r) + k) = r.head + k - 1
    BY <1>1, HeadSlots
  <2>2. r.head + k - 1 \in Slot /\ r.head + k - 1 \in r.head .. r.head + n - 1
        /\ (r.head + k - 1) - r.head + 1 = k
    BY <1>1 DEF Slot
  <2>3. s.buf[r.head + k - 1] = data[(r.head + k - 1) - r.head + 1]
    BY <2>2 DEF MemcpyIn
  <2>4. Contents(s)[UsedSpace(r) + k] = s.buf[SlotAt(s, UsedSpace(r) + k)]
    <3>1. UsedSpace(r) + k \in 1 .. UsedSpace(s)
      BY <1>1, <1>2, <1>3
    <3> QED BY <3>1, ContentsType
  <2>5. SlotAt(s, UsedSpace(r) + k) = SlotAt(r, UsedSpace(r) + k)
    BY <1>1, <1>2, <1>4
  <2> QED BY <2>1, <2>2, <2>3, <2>4, <2>5
<1>7. /\ Contents(s) \in Seq(Byte) /\ Len(Contents(s)) = UsedSpace(r) + n
      /\ Contents(r) \in Seq(Byte) /\ Len(Contents(r)) = UsedSpace(r)
  BY <1>3, ContentsType
<1> HIDE DEF n
<1>8. \A i \in 1 .. UsedSpace(r) + n : Contents(s)[i] = (Contents(r) \o data)[i]
  <2> SUFFICES ASSUME NEW i \in 1 .. UsedSpace(r) + n
               PROVE  Contents(s)[i] = (Contents(r) \o data)[i]
    OBVIOUS
  <2>1. CASE i <= UsedSpace(r)
    BY <1>1, <1>2, <1>5, <1>7, <2>1
  <2>2. CASE i > UsedSpace(r)
    <3>1. i - UsedSpace(r) \in 1 .. n /\ UsedSpace(r) + (i - UsedSpace(r)) = i
      BY <1>1, <1>2, <2>2
    <3>2. Contents(s)[i] = data[i - UsedSpace(r)]
      BY <1>6, <3>1
    <3>3. (Contents(r) \o data)[Len(Contents(r)) + (i - UsedSpace(r))] = data[i - UsedSpace(r)]
      BY <1>7, <3>1, SecondPart DEF n
    <3> QED BY <1>7, <3>1, <3>2, <3>3
  <2>3. i <= UsedSpace(r) \/ i > UsedSpace(r)
    <3>1. i \in Int /\ UsedSpace(r) \in Int
      BY <1>1, <1>2
    <3> QED BY <3>1
  <2> QED BY <2>1, <2>2, <2>3, Zenon
<1>9. Contents(r) \o data \in Seq(Byte) /\ Len(Contents(r) \o data) = UsedSpace(r) + n
  BY <1>7 DEF n
<1> QED BY <1>3, <1>7, <1>8, <1>9, SameElements DEF n

\* Bytes taken at the tail are the oldest ones, and the rest stays.
LEMMA TakenIsOldest ==
  ASSUME NEW r \in Ring, NEW s \in Ring, NEW n \in Nat,
         n <= UsedSpace(r), r.tail + n <= N,
         s.buf = r.buf, s.head = r.head, s.tail = Wrap(r.tail + n)
  PROVE  /\ MemcpyOut(r.buf, r.tail, n) = SubSeq(Contents(r), 1, n)
         /\ Contents(s) = SubSeq(Contents(r), n + 1, Len(Contents(r)))
<1> DEFINE c == Contents(r)
<1>1. N \in Nat /\ r.tail \in 0 .. N - 1 /\ r.head \in 0 .. N - 1
  BY NAssumption DEF Ring, Slot
<1>2. UsedSpace(r) \in 0 .. N - 1
  BY SpaceFacts
<1>3. UsedSpace(s) = UsedSpace(r) - n
  BY <1>1, <1>2 DEF UsedSpace, Wrap
<1>4. c \in Seq(Byte) /\ Len(c) = UsedSpace(r)
      /\ \A k \in 1 .. UsedSpace(r) : c[k] = r.buf[SlotAt(r, k)]
  BY ContentsType
<1>5. Contents(s) \in Seq(Byte) /\ Len(Contents(s)) = UsedSpace(s)
      /\ \A k \in 1 .. UsedSpace(s) : Contents(s)[k] = s.buf[SlotAt(s, k)]
  BY ContentsType
<1> HIDE DEF c
<1>6. MemcpyOut(r.buf, r.tail, n) = SubSeq(c, 1, n)
  <2>1. /\ MemcpyOut(r.buf, r.tail, n) \in Seq(Byte)
        /\ Len(MemcpyOut(r.buf, r.tail, n)) = n
    BY <1>1, MemcpyOutType DEF Ring
  <2>2. SubSeq(c, 1, n) \in Seq(Byte) /\ Len(SubSeq(c, 1, n)) = n
    BY <1>2, <1>4
  <2>3. ASSUME NEW k \in 1 .. n
        PROVE  MemcpyOut(r.buf, r.tail, n)[k] = SubSeq(c, 1, n)[k]
    <3>1. SlotAt(r, k) = r.tail + k - 1
      BY <1>1 DEF SlotAt
    <3>2. SubSeq(c, 1, n)[k] = c[k] /\ k \in 1 .. UsedSpace(r)
      BY <1>2, <1>4
    <3>3. MemcpyOut(r.buf, r.tail, n)[k] = r.buf[r.tail + k - 1]
      BY DEF MemcpyOut
    <3> QED BY <1>4, <3>1, <3>2, <3>3
  <2> QED BY <2>1, <2>2, <2>3, SameElements
<1>7. Contents(s) = SubSeq(c, n + 1, Len(c))
  <2>1. SubSeq(c, n + 1, Len(c)) \in Seq(Byte)
        /\ Len(SubSeq(c, n + 1, Len(c))) = UsedSpace(r) - n
    BY <1>2, <1>4
  <2>2. ASSUME NEW k \in 1 .. UsedSpace(s)
        PROVE  Contents(s)[k] = SubSeq(c, n + 1, Len(c))[k]
    <3>1. SubSeq(c, n + 1, Len(c))[k] = c[n + k] /\ n + k \in 1 .. UsedSpace(r)
      BY <1>2, <1>3, <1>4
    <3>2. SlotAt(s, k) = SlotAt(r, n + k)
      BY <1>1, <1>2, <1>3 DEF SlotAt, Wrap
    <3> QED BY <1>4, <1>5, <3>1, <3>2
  <2> QED BY <1>3, <1>5, <2>1, <2>2, SameElements
<1> QED BY <1>6, <1>7 DEF c

\* A bulk store that does not reach endPtr copies the first bytes to the head.
LEMMA StoreUnsplit ==
  ASSUME NEW r \in Ring, NEW data \in Seq(Byte),
         ~Splits(r.head, Store(r, data).len)
  PROVE  /\ Store(r, data).len <= AvailableSpace(r)
         /\ r.head + Store(r, data).len <= N
         /\ Store(r, data).ring.buf =
                MemcpyIn(r.buf, r.head, SubSeq(data, 1, Store(r, data).len))
         /\ Store(r, data).ring.head = Wrap(r.head + Store(r, data).len)
<1> DEFINE max  == min(Len(data), AvailableSpace(r))
<1>1. Store(r, data).len = max
  BY DEF Store
<1>2. ~Splits(r.head, max)
  BY <1>1
<1>3. N \in Nat /\ r.head \in 0 .. N - 1 /\ r.buf \in [Slot -> Byte]
  BY NAssumption DEF Ring, Slot
<1>4. max \in 0 .. N - 1 /\ max <= AvailableSpace(r) /\ max \in 0 .. Len(data)
  BY <1>3, SpaceFacts DEF min
<1>5. r.head + max < N
  BY <1>2, <1>3, <1>4 DEF Splits
<1>6. SubSeq(data, 1, 0) = << >>
  OBVIOUS
<1>7. MemcpyIn(r.buf, r.head, << >>) = r.buf
  BY <1>3 DEF MemcpyIn
<1>8. PrewrapLen(r.head, max) = 0 /\ CopyFrom(r.head, max) = r.head
  BY <1>2 DEF PrewrapLen, CopyFrom
<1>9. Store(r, data).ring =
        [r EXCEPT !.buf  = MemcpyIn(r.buf, r.head, SubSeq(data, 1, max)),
                  !.head = r.head + max]
  <2>1. Store(r, data).ring =
          [r EXCEPT !.buf  = MemcpyIn(MemcpyIn(r.buf, r.head, SubSeq(data, 1, 0)),
                                      r.head, SubSeq(data, 0 + 1, max)),
                    !.head = r.head + (max - 0)]
    BY <1>8 DEF Store
  <2>2. max - 0 = max /\ 0 + 1 = 1
    BY <1>4
  <2> HIDE DEF max
  <2> QED BY <1>6, <1>7, <2>1, <2>2
<1> HIDE DEF max
<1>10. Wrap(r.head + max) = r.head + max
  BY <1>3, <1>4, <1>5 DEF Wrap
<1>11. /\ Store(r, data).ring.buf = MemcpyIn(r.buf, r.head, SubSeq(data, 1, max))
       /\ Store(r, data).ring.head = r.head + max
  BY <1>9 DEF Ring
<1> QED BY <1>1, <1>3, <1>4, <1>5, <1>10, <1>11

\* A bulk read that does not reach endPtr returns the bytes at the tail.
LEMMA ReadUnsplit ==
  ASSUME NEW r \in Ring, NEW max_len \in Nat,
         ~Splits(r.tail, Len(Read(r, max_len).data))
  PROVE  \E n \in 0 .. UsedSpace(r) :
            /\ Read(r, max_len).data = MemcpyOut(r.buf, r.tail, n)
            /\ r.tail + n <= N
            /\ Read(r, max_len).ring.buf = r.buf
            /\ Read(r, max_len).ring.tail = Wrap(r.tail + n)
<1> DEFINE n == min(max_len, UsedSpace(r))
<1>1. N \in Nat /\ r.tail \in 0 .. N - 1 /\ r.buf \in [Slot -> Byte]
  BY NAssumption DEF Ring, Slot
<1>2. n \in 0 .. UsedSpace(r) /\ n \in 0 .. N - 1
  BY <1>1, SpaceFacts DEF min
<1>3. Len(Read(r, max_len).data) = n
  BY <1>2, ReadLength
<1>4. ~Splits(r.tail, n)
  BY <1>3
<1>5. r.tail + n < N
  BY <1>1, <1>2, <1>4 DEF Splits
<1>6. PrewrapLen(r.tail, n) = 0 /\ CopyFrom(r.tail, n) = r.tail
  BY <1>4 DEF PrewrapLen, CopyFrom
<1>7. /\ Read(r, max_len).ring = [r EXCEPT !.tail = r.tail + (n - 0)]
      /\ Read(r, max_len).data = MemcpyOut(r.buf, r.tail, 0) \o MemcpyOut(r.buf, r.tail, n - 0)
  BY <1>6 DEF Read
<1> HIDE DEF n
<1>8. n - 0 = n /\ Wrap(r.tail + n) = r.tail + n
  BY <1>1, <1>2, <1>5 DEF Wrap
<1>9. MemcpyOut(r.buf, r.tail, n) \in Seq(Byte)
  BY <1>1, <1>2, <1>5, MemcpyOutType
<1>10. MemcpyOut(r.buf, r.tail, 0) = << >>
  BY DEF MemcpyOut
<1>11. << >> \o MemcpyOut(r.buf, r.tail, n) = MemcpyOut(r.buf, r.tail, n)
  BY <1>9
<1>12. Read(r, max_len).data = MemcpyOut(r.buf, r.tail, n)
  BY <1>7, <1>8, <1>10, <1>11
<1>13. /\ Read(r, max_len).ring.buf = r.buf
       /\ Read(r, max_len).ring.tail = Wrap(r.tail + n)
  BY <1>7, <1>8 DEF Ring
<1> QED BY <1>1, <1>2, <1>5, <1>12, <1>13

\* Storing one byte copies it to the head.
LEMMA StoreCharCopies ==
  ASSUME NEW r \in Ring, NEW data \in Seq(Byte), Len(data) = 1
  PROVE  [r.buf EXCEPT ![r.head] = data[1]] = MemcpyIn(r.buf, r.head, data)
<1>1. r.head \in Slot /\ r.buf \in [Slot -> Byte] /\ \A i \in Slot : i \in Nat
  BY NAssumption DEF Ring, Slot
<1>2. \A i \in Slot : i \in r.head .. r.head + Len(data) - 1 <=> i = r.head
  BY <1>1
<1>3. r.head - r.head + 1 = 1
  BY <1>1
<1> QED BY <1>1, <1>2, <1>3 DEF MemcpyIn
-----------------------------------------------------------------------------
(* Transfers and the contents.                                              *)

\* Dropping a part of the first sequence leaves the second whole.
LEMMA DropFirst ==
  ASSUME NEW S, NEW s \in Seq(S), NEW t \in Seq(S), NEW n \in 0 .. Len(s)
  PROVE  SubSeq(s \o t, n + 1, Len(s \o t)) = SubSeq(s, n + 1, Len(s)) \o t
<1> DEFINE left == SubSeq(s \o t, n + 1, Len(s \o t))
           rest == SubSeq(s, n + 1, Len(s))
<1>1. /\ left \in Seq(S) /\ Len(left) = Len(s) - n + Len(t)
      /\ rest \in Seq(S) /\ Len(rest) = Len(s) - n
      /\ Len(s) \in Nat /\ Len(t) \in Nat /\ n \in Nat /\ n <= Len(s)
  OBVIOUS
<1>2. \A i \in 1 .. Len(s) - n + Len(t) : left[i] = (s \o t)[n + i]
  OBVIOUS
<1>3. \A i \in 1 .. Len(s) - n : rest[i] = s[n + i]
  OBVIOUS
<1> HIDE DEF left, rest
<1>4. rest \o t \in Seq(S) /\ Len(rest \o t) = Len(s) - n + Len(t)
  BY <1>1
<1>5. ASSUME NEW i \in 1 .. Len(s) - n + Len(t) PROVE left[i] = (rest \o t)[i]
  <2>1. CASE i \in 1 .. Len(s) - n
    <3>1. (s \o t)[n + i] = s[n + i]
      BY <1>1, <2>1
    <3>2. (rest \o t)[i] = rest[i]
      BY <1>1, <2>1
    <3> QED BY <1>2, <1>3, <2>1, <3>1, <3>2
  <2>2. CASE i \notin 1 .. Len(s) - n
    <3> DEFINE k == i - (Len(s) - n)
    <3>1. k \in 1 .. Len(t) /\ Len(s) + k = n + i /\ Len(rest) + k = i
      BY <1>1, <2>2
    <3> HIDE DEF k
    <3>2. (s \o t)[Len(s) + k] = t[k] /\ (rest \o t)[Len(rest) + k] = t[k]
      BY <1>1, <3>1, SecondPart
    <3> QED BY <1>2, <3>1, <3>2
  <2> QED BY <2>1, <2>2
<1>6. left = rest \o t
  BY <1>1, <1>4, <1>5, SameElements
<1> QED BY <1>6 DEF left, rest

\* The first elements of a concatenation are those of the first sequence.
LEMMA KeepFirst ==
  ASSUME NEW S, NEW s \in Seq(S), NEW t \in Seq(S), NEW n \in 0 .. Len(s)
  PROVE  SubSeq(s \o t, 1, n) = SubSeq(s, 1, n)
<1>1. /\ SubSeq(s \o t, 1, n) \in Seq(S) /\ Len(SubSeq(s \o t, 1, n)) = n
      /\ SubSeq(s, 1, n) \in Seq(S) /\ Len(SubSeq(s, 1, n)) = n
  OBVIOUS
<1>2. \A i \in 1 .. n : SubSeq(s \o t, 1, n)[i] = SubSeq(s, 1, n)[i]
  OBVIOUS
<1> QED BY <1>1, <1>2, SameElements

\* Two parts of a sequence make the whole.
LEMMA TwoParts ==
  ASSUME NEW S, NEW s \in Seq(S), NEW n \in 0 .. Len(s)
  PROVE  SubSeq(s, 1, n) \o SubSeq(s, n + 1, Len(s)) = s
<1> DEFINE start == SubSeq(s, 1, n)
           rest  == SubSeq(s, n + 1, Len(s))
<1>1. /\ start \in Seq(S) /\ Len(start) = n /\ \A i \in 1 .. n : start[i] = s[i]
      /\ rest \in Seq(S) /\ Len(rest) = Len(s) - n
      /\ \A i \in 1 .. Len(s) - n : rest[i] = s[n + i]
      /\ Len(s) \in Nat /\ n \in Nat /\ n <= Len(s)
  OBVIOUS
<1> HIDE DEF start, rest
<1>2. start \o rest \in Seq(S) /\ Len(start \o rest) = Len(s)
  BY <1>1
<1>3. ASSUME NEW i \in 1 .. Len(s) PROVE (start \o rest)[i] = s[i]
  <2>1. CASE i \in 1 .. n
    BY <1>1, <2>1
  <2>2. CASE i \notin 1 .. n
    <3> DEFINE k == i - n
    <3>1. k \in 1 .. Len(rest) /\ Len(start) + k = i /\ n + k = i
      BY <1>1, <2>2
    <3> HIDE DEF k
    <3>2. (start \o rest)[Len(start) + k] = rest[k]
      BY <1>1, <3>1, SecondPart
    <3> QED BY <1>1, <3>1, <3>2
  <2> QED BY <2>1, <2>2
<1>4. start \o rest = s
  BY <1>2, <1>3, SameElements
<1> QED BY <1>4 DEF start, rest

\* The empty sequence adds nothing.
LEMMA NothingAdded ==
  ASSUME NEW S, NEW s \in Seq(S)
  PROVE  << >> \o s = s /\ s \o << >> = s
  OBVIOUS

\* Concatenation is associative.
LEMMA ThreeParts ==
  ASSUME NEW S, NEW s \in Seq(S), NEW t \in Seq(S), NEW u \in Seq(S)
  PROVE  (s \o t) \o u = s \o (t \o u)
  OBVIOUS

\* Bytes copied back to where they came from change nothing.
LEMMA CopiedBack ==
  ASSUME NEW buf \in [Slot -> Byte], NEW at \in Nat, NEW len \in Nat, at + len <= N
  PROVE  MemcpyIn(buf, at, MemcpyOut(buf, at, len)) = buf
<1> DEFINE data == MemcpyOut(buf, at, len)
<1>1. Len(data) = len
  BY MemcpyOutType
<1>2. ASSUME NEW i \in Slot, i \in at .. at + len - 1 PROVE data[i - at + 1] = buf[i]
  <2>1. i - at + 1 \in 1 .. len /\ at + (i - at + 1) - 1 = i
    BY <1>2, NAssumption DEF Slot
  <2> QED BY <2>1 DEF MemcpyOut
<1> HIDE DEF data
<1>3. MemcpyIn(buf, at, data) = buf
  BY <1>1, <1>2 DEF MemcpyIn
<1> QED BY <1>3 DEF data

\* What was copied in is what is copied out.
LEMMA CopiedOut ==
  ASSUME NEW buf \in [Slot -> Byte], NEW at \in Nat, NEW data \in Seq(Byte),
         at + Len(data) <= N
  PROVE  MemcpyOut(MemcpyIn(buf, at, data), at, Len(data)) = data
<1> DEFINE new == MemcpyIn(buf, at, data)
           got == MemcpyOut(new, at, Len(data))
<1>1. new \in [Slot -> Byte] /\ Len(data) \in Nat
  BY MemcpyInType
<1>2. ASSUME NEW k \in 1 .. Len(data) PROVE new[at + k - 1] = data[k]
  <2>1. /\ at + k - 1 \in Slot /\ at + k - 1 \in at .. at + Len(data) - 1
        /\ (at + k - 1) - at + 1 = k
    BY NAssumption DEF Slot
  <2> QED BY <2>1 DEF MemcpyIn
<1> HIDE DEF new
<1>3. got \in Seq(Byte) /\ Len(got) = Len(data)
  BY <1>1, MemcpyOutType
<1>4. \A k \in 1 .. Len(data) : got[k] = data[k]
  BY <1>2 DEF MemcpyOut
<1> HIDE DEF got
<1>5. got = data
  BY <1>3, <1>4, SameElements
<1> QED BY <1>5 DEF got, new

\* A transfer into the available slots at the head is not seen by the reader.
LEMMA BeyondTheHead ==
  ASSUME NEW r \in Ring, NEW s \in Ring, NEW data \in Seq(Byte),
         Len(data) <= AvailableSpace(r), r.head + Len(data) <= N,
         s.buf = MemcpyIn(r.buf, r.head, data), s.head = r.head, s.tail = r.tail
  PROVE  Contents(s) = Contents(r)
<1>1. UsedSpace(s) = UsedSpace(r)
  BY DEF UsedSpace
<1>2. ASSUME NEW k \in 1 .. UsedSpace(r) PROVE Contents(s)[k] = Contents(r)[k]
  <2>1. SlotAt(r, k) \in Slot /\ SlotAt(r, k) \notin r.head .. r.head + Len(data) - 1
    BY HeadSlots
  <2>2. s.buf[SlotAt(r, k)] = r.buf[SlotAt(r, k)]
    BY <2>1 DEF MemcpyIn
  <2>3. Contents(s)[k] = s.buf[SlotAt(s, k)] /\ Contents(r)[k] = r.buf[SlotAt(r, k)]
    BY <1>1, ContentsType
  <2>4. SlotAt(s, k) = SlotAt(r, k)
    BY DEF SlotAt
  <2> QED BY <2>2, <2>3, <2>4
<1>3. /\ Contents(s) \in Seq(Byte) /\ Len(Contents(s)) = UsedSpace(r)
      /\ Contents(r) \in Seq(Byte) /\ Len(Contents(r)) = UsedSpace(r)
  BY <1>1, ContentsType
<1> QED BY <1>2, <1>3, SameElements
=============================================================================
