--------------------------- MODULE UnlockedProofs ----------------------------
(***************************************************************************)
(* Proofs about the parts that do without the library's mutex: RingBuffer, *)
(* for every size of the buffer, every width of the ranges' words that can *)
(* hold that size, and every place in the stream; Task, for every port and *)
(* any number of tasks in the same storage; FreeRtos, for any number of    *)
(* tasks, bits and calls of an interrupt handler; Accumulator, for every   *)
(* size of its ring.                                                       *)
(***************************************************************************)
EXTENDS RingBuffer, FreeRtos, Task, Accumulator, WellFoundedInduction, TLAPS

-----------------------------------------------------------------------------
(* Remainders.                                                             *)

\* A number is a multiple of the divisor and its remainder.
LEMMA ModDef ==
  ASSUME NEW m \in Nat \ {0}, NEW a \in Int
  PROVE  a % m \in 0..m-1 /\ \E q \in Int : a = q * m + (a % m)
<1>1. a % m \in 0..m-1
  OBVIOUS
<1>2. a = (a \div m) * m + (a % m) /\ a \div m \in Int
  OBVIOUS
<1>3. QED
  BY <1>1, <1>2

\* The only multiple of m between -m and m is zero.
LEMMA SmallMultiple ==
  ASSUME NEW m \in Nat \ {0}, NEW q \in Int, q * m < m, -m < q * m
  PROVE  q = 0
<1>1. q >= 1 => q * m >= m
  OBVIOUS
<1>2. q <= -1 => q * m <= -m
  OBVIOUS
<1>3. QED
  BY <1>1, <1>2

\* There is one remainder.
LEMMA ModUnique ==
  ASSUME NEW m \in Nat \ {0}, NEW a \in Int, NEW q \in Int, NEW r \in 0..m-1,
         a = q * m + r
  PROVE  a % m = r
<1>1. PICK p \in Int : a = p * m + (a % m)
  BY ModDef
<1>2. a % m \in 0..m-1
  BY ModDef
<1>3. (p - q) * m = r - (a % m)
  BY <1>1, <1>2
<1>4. (p - q) * m < m /\ -m < (p - q) * m
  BY <1>2, <1>3
<1>5. p - q = 0
  BY <1>4, SmallMultiple
<1>6. QED
  BY <1>1, <1>2, <1>5

\* What the conversion to a word leaves alone, and what it takes off.
LEMMA ModSmall ==
  ASSUME NEW m \in Nat \ {0}, NEW a \in 0..m-1
  PROVE  a % m = a
<1>1. a = 0 * m + a
  OBVIOUS
<1>2. QED
  BY <1>1, ModUnique

\* The remainder of a number between m and 2m.
LEMMA ModOnce ==
  ASSUME NEW m \in Nat \ {0}, NEW a \in m..2*m-1
  PROVE  a % m = a - m
<1>1. a = 1 * m + (a - m) /\ a - m \in 0..m-1
  OBVIOUS
<1>2. QED
  BY <1>1, ModUnique

\* Two positions of the stream less than the buffer apart are in different
\* places of it.
LEMMA ModInjective ==
  ASSUME NEW m \in Nat \ {0}, NEW a \in Int, NEW b \in Int, a % m = b % m,
         a - b < m, b - a < m
  PROVE  a = b
<1>1. PICK p \in Int : a = p * m + (a % m)
  BY ModDef
<1>2. PICK q \in Int : b = q * m + (b % m)
  BY ModDef
<1>3. a % m \in Int /\ b % m \in Int
  BY ModDef
<1>4. (p - q) * m = a - b
  BY <1>1, <1>2, <1>3
<1>5. p - q = 0
  BY <1>4, SmallMultiple
<1>6. QED
  BY <1>1, <1>2, <1>5

\* The two regions a range of the stream is split into, up to the end of the
\* buffer and from its start, are where the positions of the range belong.
LEMMA RegionIsPlace ==
  ASSUME NEW w \in Int, NEW n \in 0..Size, NEW k \in 0..n-1
  PROVE  Region(w % Size, n, k) = (w + k) % Size
<1> DEFINE p == w % Size
<1>1. PICK q \in Int : w = q * Size + p
  BY ModDef, SizeAssumption
<1>2. p \in 0..Size-1 /\ w + k \in Int
  BY ModDef, SizeAssumption
<1> HIDE DEF p
<1>3. CASE p + k < Size
  <2>1. Region(p, n, k) = p + k
    BY <1>2, <1>3, SizeAssumption DEF Region
  <2>2. w + k = q * Size + (p + k) /\ p + k \in 0..Size-1
    BY <1>1, <1>2, <1>3, SizeAssumption
  <2>3. (w + k) % Size = p + k
    BY <1>2, <2>2, SizeAssumption, ModUnique
  <2>4. QED
    BY <2>1, <2>3 DEF p
<1>4. CASE p + k >= Size
  <2>1. Region(p, n, k) = p + k - Size
    BY <1>2, <1>4, SizeAssumption DEF Region
  <2>2. w + k = (q + 1) * Size + (p + k - Size) /\ p + k - Size \in 0..Size-1
    BY <1>1, <1>2, <1>4, SizeAssumption
  <2>3. PICK c \in Int : c = q + 1
    OBVIOUS
  <2>4. PICK r \in 0..Size-1 : r = p + k - Size
    BY <2>2
  <2>5. w + k = c * Size + r
    BY <2>2, <2>3, <2>4
  <2>6. (w + k) % Size = r
    BY <1>2, <2>5, SizeAssumption, ModUnique
  <2>7. QED
    BY <2>1, <2>4, <2>6 DEF p
<1>5. QED
  BY <1>2, <1>3, <1>4, SizeAssumption

-----------------------------------------------------------------------------
(* The inductive invariant.                                                *)

\* The types, which do not bound the offsets: the stream goes on for ever.
RingTypeOK ==
    /\ data \in [Places -> Int]
    /\ read_offset \in Nat
    /\ write_offset \in Nat
    /\ wr \in [pc : {"idle", "plan", "copy"}, size : Nat, n : Nat, k : Nat]
    /\ rd \in [pc : {"idle", "take", "copy", "aborted"},
               location : 0..Word-1, length : Nat, peek : BOOLEAN,
               range : [location : 0..Word-1, length : Nat],
               base : Nat, n : 0..Size, got : Seq(Int)]

\* The reader never overtakes the writer, nor the writer the reader by more than
\* the buffer.
OffsetsSound == read_offset <= write_offset /\ write_offset - read_offset <= Size

\* What is between the offsets is in its place.
BytesInPlace == \A p \in read_offset..write_offset-1 : data[p % Size] = p

\* A write that has begun to copy has room for all of its bytes, and those it
\* has copied are in place, although the offset does not tell of them yet.
WriterInv ==
    wr.pc = "copy" =>
        /\ wr.k <= wr.n
        /\ write_offset + wr.n - read_offset <= Size
        /\ \A k \in 0..wr.k-1 : data[(write_offset + k) % Size] = write_offset + k

\* The range the reader looked at is no longer than what is there: the reading
\* thread alone moves the read offset, and the write offset only grows.
TakeInv ==
    rd.pc = "take" =>
        /\ rd.range.location = read_offset % Word
        /\ rd.range.length <= write_offset - read_offset
        /\ rd.range.length <= Size
        /\ location_in_data_range(rd.location, rd.range)

\* The request whose end passes the word, behind the read offset: its sum wraps
\* and the assert lets it through.
Excepted == BeginsBehind /\ rd.location + rd.n >= Word

\* What the reader copies ends before the write offset, and what it has copied
\* is right or was given back.
CopyInv ==
    rd.pc = "copy" /\ ~Excepted =>
        /\ rd.base + rd.n <= write_offset
        /\ Len(rd.got) <= rd.n
        /\ \A k \in 1..Len(rd.got) :
            rd.got[k] = rd.base + k - 1 \/ rd.base + k - 1 < read_offset

\* The inductive invariant.
RingInv ==
    /\ RingTypeOK /\ OffsetsSound /\ BytesInPlace
    /\ WriterInv /\ TakeInv /\ CopyInv /\ RangeAssertions

\* The available bytes, computed in a word, are those between the offsets.
LEMMA Available ==
  ASSUME RingTypeOK, OffsetsSound
  PROVE  /\ AvailableForRead = write_offset - read_offset
         /\ AvailableForWrite = Size - (write_offset - read_offset)
<1>1. write_offset - read_offset \in 0..Word-1 /\ Word \in Nat \ {0}
  BY SizeAssumption, WordAssumption DEF RingTypeOK, OffsetsSound
<1>2. (write_offset - read_offset) % Word = write_offset - read_offset
  BY <1>1, ModSmall
<1>3. QED
  BY <1>2 DEF AvailableForRead, AvailableForWrite

\* Places of the stream's positions.
LEMMA PlaceOf == \A a \in Int : a % Size \in Places
  BY ModDef, SizeAssumption DEF Places

\* It holds at the start, when both offsets are zero.
LEMMA RingInitInv == RingInit => RingInv
<1> SUFFICES ASSUME RingInit PROVE RingInv
  OBVIOUS
<1>1. RingTypeOK
  BY SizeAssumption, WordAssumption
  DEF RingInit, RingTypeOK, IdleWriter, IdleReader, Empty, Stale
<1>2. OffsetsSound /\ BytesInPlace
  BY SizeAssumption DEF RingInit, OffsetsSound, BytesInPlace
<1>3. WriterInv /\ TakeInv /\ CopyInv /\ RangeAssertions
  BY DEF RingInit, WriterInv, TakeInv, CopyInv, RangeAssertions, IdleWriter, IdleReader
<1>4. QED
  BY <1>1, <1>2, <1>3 DEF RingInv

-----------------------------------------------------------------------------
(* The steps of the writing thread. It leaves the read offset and the      *)
(* reader's record alone.                                                  *)

\* The reader's parts of the invariant are kept by a step of the writer, which
\* can only add to the stream.
LEMMA ReaderFrame ==
  ASSUME RingTypeOK, TakeInv, CopyInv, RangeAssertions,
         UNCHANGED <<read_offset, rd>>, write_offset' \in Nat,
         write_offset' >= write_offset
  PROVE  TakeInv' /\ CopyInv' /\ RangeAssertions'
<1>1. TakeInv'
  BY SMTT(60) DEF RingTypeOK, TakeInv, location_in_data_range
<1>2. CopyInv'
  BY DEF RingTypeOK, CopyInv, Excepted, BeginsBehind
<1>3. RangeAssertions'
  BY DEF RangeAssertions, BeginsBehind
<1>4. QED
  BY <1>1, <1>2, <1>3

\* ring_buffer_write begins.
LEMMA WriteBeginStep ==
  ASSUME RingInv, NEW want \in 1..Size+1, WriteBegin(want)
  PROVE  RingInv'
<1> USE DEF RingInv, WriteBegin
<1>1. RingTypeOK'
  <2>1. want \in Nat
    BY SizeAssumption
  <2>2. wr' \in [pc : {"plan"}, size : Nat, n : Nat, k : Nat]
    BY <2>1 DEF RingTypeOK
  <2>3. QED
    BY <2>2 DEF RingTypeOK
<1>2. OffsetsSound' /\ BytesInPlace'
  BY DEF OffsetsSound, BytesInPlace
<1>3. WriterInv'
  BY DEF RingTypeOK, WriterInv
<1>4. TakeInv' /\ CopyInv' /\ RangeAssertions'
  BY ReaderFrame DEF RingTypeOK
<1>5. QED
  BY <1>1, <1>2, <1>3, <1>4

\* It computes how many bytes there is room for; the reader, which alone moves
\* the read offset, can only make room.
LEMMA WritePlanStep ==
  ASSUME RingInv, WritePlan
  PROVE  RingInv'
<1> USE DEF RingInv, WritePlan
<1>1. /\ wr'.pc = "copy" /\ wr'.k = 0 /\ wr'.size = wr.size
      /\ wr'.n = Min2(wr.size, AvailableForWrite)
      /\ wr' \in [pc : {"copy"}, size : Nat, n : {wr'.n}, k : {0}]
  BY DEF RingTypeOK
<1>2. AvailableForWrite = Size - (write_offset - read_offset)
  BY Available
<1>3. wr'.n \in Nat /\ write_offset + wr'.n - read_offset <= Size
  BY <1>1, <1>2, SizeAssumption, SMTT(60) DEF RingTypeOK, OffsetsSound, Min2
<1>4. RingTypeOK'
  BY <1>1, <1>3 DEF RingTypeOK
<1>5. OffsetsSound' /\ BytesInPlace'
  BY DEF OffsetsSound, BytesInPlace
<1>6. WriterInv'
  BY <1>1, <1>3 DEF RingTypeOK, WriterInv
<1>7. TakeInv' /\ CopyInv' /\ RangeAssertions'
  BY ReaderFrame DEF RingTypeOK
<1>8. QED
  BY <1>4, <1>5, <1>6, <1>7

\* A byte that is written is at a position from the write offset on and less
\* than the size after the read offset, so it overwrites none between them.
LEMMA WriteByteStep ==
  ASSUME RingInv, WriteByte
  PROVE  RingInv'
<1> USE DEF RingInv
<1>a. /\ wr.n \in Nat /\ wr.k \in Nat /\ wr.k < wr.n /\ Size \in Nat
      /\ write_offset \in Nat /\ read_offset \in Nat /\ read_offset <= write_offset
      /\ write_offset + wr.n - read_offset <= Size
  BY SizeAssumption DEF WriteByte, RingTypeOK, WriterInv, OffsetsSound
<1>b. PICK q \in Nat : q = write_offset + wr.k
  BY <1>a
<1>1. wr.n \in 0..Size /\ wr.k \in 0..wr.n-1 /\ q - read_offset < Size
  BY <1>a, <1>b
<1>2. Region(write_offset % Size, wr.n, wr.k) = q % Size
  <2>1. PICK w \in Int, n \in 0..Size : w = write_offset /\ n = wr.n
    BY <1>a, <1>1
  <2>2. PICK k \in 0..n-1 : k = wr.k
    BY <1>1, <2>1
  <2>3. Region(w % Size, n, k) = (w + k) % Size
    BY RegionIsPlace
  <2>4. QED
    BY <1>b, <2>1, <2>2, <2>3
<1>3. data' = [data EXCEPT ![q % Size] = q] /\ q % Size \in Places
  <2>1. data' = [data EXCEPT ![Region(write_offset % Size, wr.n, wr.k)] =
                                write_offset + wr.k]
    BY DEF WriteByte
  <2>2. data' = [data EXCEPT ![q % Size] = q]
    BY <1>b, <1>2, <2>1, Zenon
  <2>3. QED
    BY <1>b, <2>2, PlaceOf
<1>4. data'[q % Size] = q
  BY <1>3 DEF RingTypeOK
<1>5. ASSUME NEW p \in Int, p < q, q - p < Size PROVE data'[p % Size] = data[p % Size]
  <2>1. ASSUME p % Size = q % Size PROVE FALSE
    <3>1. p - q < Size /\ q - p < Size /\ q \in Int
      BY <1>5, SizeAssumption
    <3>2. p = q
      BY <2>1, <3>1, SizeAssumption, ModInjective
    <3>3. QED
      BY <1>5, <3>2
  <2>2. p % Size \in Places
    BY PlaceOf
  <2>3. QED
    BY <1>3, <2>1, <2>2 DEF RingTypeOK
<1>6. /\ wr' = [wr EXCEPT !.k = wr.k + 1] /\ wr'.k = wr.k + 1 /\ wr'.n = wr.n
      /\ UNCHANGED <<read_offset, write_offset, rd>>
  BY DEF RingTypeOK, WriteByte
<1>7. RingTypeOK'
  <2>1. data' \in [Places -> Int]
    BY <1>3 DEF RingTypeOK
  <2>2. wr.k + 1 \in Nat
    BY <1>a
  <2>3. wr' \in [pc : {"idle", "plan", "copy"}, size : Nat, n : Nat, k : Nat]
    BY <1>6, <2>2 DEF RingTypeOK
  <2>4. QED
    BY <1>6, <2>1, <2>3 DEF RingTypeOK
<1>8. OffsetsSound'
  BY <1>6 DEF OffsetsSound
<1>9. BytesInPlace'
  <2>1. ASSUME NEW p \in read_offset..write_offset-1 PROVE data'[p % Size] = p
    <3>1. p \in Int /\ p < q /\ q - p < Size
      BY <1>a, <1>b, <1>1
    <3>2. data[p % Size] = p
      BY DEF BytesInPlace
    <3>3. QED
      BY <1>5, <3>1, <3>2
  <2>2. QED
    BY <1>6, <2>1 DEF BytesInPlace
<1>10. WriterInv'
  <2>1. ASSUME NEW k \in 0..wr.k
        PROVE  data'[(write_offset + k) % Size] = write_offset + k
    <3>1. CASE k = wr.k
      BY <1>b, <1>4, <3>1
    <3>2. CASE k # wr.k
      <4>1. k \in 0..wr.k-1
        BY <1>a, <3>2
      <4>2. data[(write_offset + k) % Size] = write_offset + k
        BY <4>1 DEF WriterInv, WriteByte
      <4>3. write_offset + k \in Int /\ write_offset + k < q
             /\ q - (write_offset + k) < Size
        BY <1>a, <1>b, <1>1, <4>1
      <4>4. QED
        BY <1>5, <4>2, <4>3
    <3>3. QED
      BY <3>1, <3>2
  <2>2. wr'.k <= wr'.n /\ write_offset' + wr'.n - read_offset' <= Size
    BY <1>a, <1>6
  <2>3. 0..wr'.k-1 = 0..wr.k
    BY <1>a, <1>6
  <2>4. QED
    BY <1>6, <2>1, <2>2, <2>3 DEF WriterInv
<1>11. TakeInv' /\ CopyInv' /\ RangeAssertions'
  BY <1>a, <1>6, ReaderFrame
<1>12. QED
  BY <1>7, <1>8, <1>9, <1>10, <1>11

\* The write offset passes the bytes that were copied.
LEMMA WriteEndStep ==
  ASSUME RingInv, WriteEnd
  PROVE  RingInv'
<1> USE DEF RingInv, WriteEnd
<1>1. wr.n \in Nat /\ write_offset' = write_offset + wr.n /\ write_offset' \in Nat
  BY DEF RingTypeOK
<1>2. RingTypeOK'
  BY <1>1, SizeAssumption DEF RingTypeOK, IdleWriter
<1>3. OffsetsSound'
  BY <1>1, SMTT(60) DEF OffsetsSound, WriterInv, RingTypeOK
<1>4. BytesInPlace'
  <2>1. ASSUME NEW p \in read_offset..write_offset + wr.n - 1 PROVE data[p % Size] = p
    <3>1. CASE p < write_offset
      BY <3>1 DEF RingTypeOK, BytesInPlace
    <3>2. CASE p >= write_offset
      <4>1. PICK k \in 0..wr.k-1 : k = p - write_offset
        BY <1>1, <2>1, <3>2, SMTT(60) DEF RingTypeOK
      <4>2. data[(write_offset + k) % Size] = write_offset + k
        BY DEF WriterInv
      <4>3. write_offset + k = p
        BY <1>1, <4>1 DEF RingTypeOK
      <4>4. QED
        BY <4>2, <4>3
    <3>3. QED
      BY <3>1, <3>2 DEF RingTypeOK
  <2>2. \A p \in read_offset'..write_offset'-1 : p \in read_offset..write_offset + wr.n - 1
    BY <1>1, SMTT(60) DEF RingTypeOK
  <2>3. \A p \in read_offset'..write_offset'-1 : data'[p % Size] = p
    BY <2>1, <2>2
  <2>4. QED
    BY <2>3 DEF BytesInPlace
<1>5. WriterInv'
  BY DEF WriterInv, IdleWriter
<1>6. TakeInv' /\ CopyInv' /\ RangeAssertions'
  BY <1>1, ReaderFrame DEF RingTypeOK
<1>7. QED
  BY <1>2, <1>3, <1>4, <1>5, <1>6

-----------------------------------------------------------------------------
(* The steps of the reading thread.                                        *)

\* Giving bytes back makes room and moves none.
LEMMA WriterFrame ==
  ASSUME RingInv, UNCHANGED <<data, write_offset, wr>>, read_offset' \in Nat,
         read_offset <= read_offset', read_offset' <= write_offset
  PROVE  OffsetsSound' /\ BytesInPlace' /\ WriterInv'
<1> USE DEF RingInv
<1>1. OffsetsSound'
  <2>1. /\ write_offset \in Nat /\ read_offset \in Nat /\ Size \in Nat
        /\ write_offset - read_offset <= Size
    BY SizeAssumption DEF OffsetsSound, RingTypeOK
  <2>2. \A a, b, r, m \in Nat : a - b <= m /\ b <= r => a - r <= m
    OBVIOUS
  <2>3. write_offset - read_offset' <= Size
    BY <2>1, <2>2
  <2>4. QED
    BY <2>2, <2>3 DEF OffsetsSound
<1>2. BytesInPlace'
  <2>1. \A p \in read_offset'..write_offset'-1 : p \in read_offset..write_offset-1
    BY DEF RingTypeOK
  <2>2. \A p \in read_offset'..write_offset'-1 : data'[p % Size] = p
    BY <2>1 DEF BytesInPlace
  <2>3. QED
    BY <2>2 DEF BytesInPlace
<1>3. WriterInv'
  <2>1. write_offset \in Nat /\ read_offset \in Nat /\ wr.n \in Nat /\ Size \in Nat
    BY SizeAssumption DEF RingTypeOK
  <2>2. write_offset + wr.n - read_offset <= Size =>
            write_offset + wr.n - read_offset' <= Size
    BY <2>1
  <2>3. QED
    BY <2>2 DEF WriterInv
<1>4. QED
  BY <1>1, <1>2, <1>3

\* The range the reader looks at.
LEMMA GetBeginStep ==
  ASSUME RingInv, NEW location \in 0..Word-1, NEW length \in 0..Size+1,
         NEW peek \in BOOLEAN, GetBegin(location, length, peek)
  PROVE  RingInv'
<1>1. /\ RingTypeOK /\ OffsetsSound /\ AvailableForRead = write_offset - read_offset
      /\ read_offset \in Nat /\ write_offset \in Nat
  BY Available DEF RingInv, RingTypeOK
<1>2. AvailableForRead \in Nat /\ AvailableForRead <= Size
  BY <1>1, SizeAssumption DEF OffsetsSound
<1>3. read_offset % Word \in 0..Word-1
  BY <1>1, ModDef, SizeAssumption, WordAssumption
<1>4. /\ CurrentRange.location = read_offset % Word
      /\ CurrentRange.length = AvailableForRead
      /\ CurrentRange \in [location : 0..Word-1, length : Nat]
  BY <1>2, <1>3 DEF CurrentRange
<1>5. /\ rd'.pc = "take" /\ rd'.location = location /\ rd'.range = CurrentRange
      /\ UNCHANGED <<data, read_offset, write_offset, wr>>
      /\ location_in_data_range(location, CurrentRange)
  BY <1>1 DEF GetBegin, RingTypeOK
<1>6. RingTypeOK'
  <2>1. length \in Nat
    BY SizeAssumption
  <2>2. rd' \in [pc : {"idle", "take", "copy", "aborted"},
               location : 0..Word-1, length : Nat, peek : BOOLEAN,
               range : [location : 0..Word-1, length : Nat],
               base : Nat, n : 0..Size, got : Seq(Int)]
    BY <1>1, <1>4, <2>1 DEF GetBegin, RingTypeOK
  <2>3. QED
    BY <1>1, <1>5, <2>2 DEF RingTypeOK
<1>7. OffsetsSound' /\ BytesInPlace' /\ WriterInv'
  BY <1>1, <1>5, WriterFrame DEF RingInv, OffsetsSound
<1>8. TakeInv'
  <2>1. /\ rd'.range.location = read_offset' % Word
        /\ rd'.range.length = write_offset' - read_offset'
        /\ rd'.range.length <= Size
    BY <1>1, <1>2, <1>4, <1>5
  <2>2. location_in_data_range(rd'.location, rd'.range)
    BY <1>5
  <2>3. rd'.range.length <= write_offset' - read_offset'
    BY <1>1, <1>5, <2>1
  <2>4. QED
    BY <2>1, <2>2, <2>3 DEF TakeInv
<1>9. CopyInv' /\ RangeAssertions'
  BY <1>5 DEF CopyInv, RangeAssertions
<1>10. QED
  BY <1>6, <1>7, <1>8, <1>9 DEF RingInv

\* The asserts at the end of ring_buffer_get_data_at_range do their work: with
\* them, what is taken ends within the range that was looked at, except where
\* the end of the request wraps around in its word. If they fail, the request
\* began behind the read offset, or the range itself wraps around.
LEMMA AssertsDecide ==
  ASSUME RingInv, rd.pc = "take", NEW n, n = BytesToRead(rd.length, rd.range)
  PROVE  LET move_offset == (rd.location - rd.range.location) % Word
         IN  /\ n \in 0..Size
             /\ n <= rd.range.length
             /\ move_offset = rd.location - rd.range.location
             /\ move_offset \in Nat
             /\ Consistent(n) /\ ~(BeginsBehind /\ rd.location + n >= Word) =>
                    move_offset + n <= rd.range.length
             /\ ~Consistent(n) =>
                    BeginsBehind \/ rd.range.location + rd.range.length >= Word
<1> DEFINE move_offset == (rd.location - rd.range.location) % Word
<1>1. /\ rd.location \in 0..Word-1 /\ rd.length \in Nat
      /\ rd.range.location \in 0..Word-1 /\ rd.range.length \in Nat
      /\ Word \in Nat \ {0} /\ Size \in Nat /\ Size < Word
  BY SizeAssumption, WordAssumption DEF RingInv, RingTypeOK
<1>2. /\ rd.location >= rd.range.location
      /\ rd.location - rd.range.location < rd.range.length
      /\ rd.range.length <= Size
  BY DEF RingInv, TakeInv, location_in_data_range
<1>3. n \in 0..Size /\ n <= rd.range.length /\ n <= rd.length
  BY <1>1, <1>2 DEF BytesToRead, Min2
<1>4. PICK mv \in 0..Word-1 : mv = rd.location - rd.range.location
  BY <1>1, <1>2
<1>5. move_offset = mv
  BY <1>1, <1>4, ModSmall
<1>6. (rd.range.location + mv) % Word = rd.location
  <2>1. rd.range.location + mv = rd.location
    BY <1>1, <1>4
  <2>2. QED
    BY <1>1, <2>1, ModSmall
<1>7. PICK e \in Nat : e = rd.location + n
  BY <1>1, <1>3
<1>8. PICK f \in Nat : f = rd.range.location + rd.range.length
  BY <1>1
<1>9. Consistent(n) <=> e % Word <= f % Word
  BY <1>5, <1>6, <1>7, <1>8 DEF Consistent, max_data_range
<1>10. f < Word => f % Word = f
  BY <1>1, ModSmall
<1>11. f >= Word => f % Word = f - Word
  <2>1. f < 2 * Word
    BY <1>1, <1>2, <1>8
  <2>2. f >= Word => f \in Word..2*Word-1
    BY <1>1, <2>1
  <2>3. QED
    BY <1>1, <2>2, ModOnce
<1>12. e < Word => e % Word = e
  BY <1>1, ModSmall
<1>13. ASSUME Consistent(n), ~(BeginsBehind /\ rd.location + n >= Word)
       PROVE  mv + n <= rd.range.length
  <2>1. CASE BeginsBehind
    <3>1. e < Word /\ e % Word = e
      BY <1>1, <1>7, <1>12, <1>13, <2>1
    <3>2. e <= f % Word
      BY <1>9, <1>13, <3>1
    <3>3. f < Word
      BY <1>1, <1>2, <1>3, <1>7, <1>8, <1>11, <3>2
    <3>4. QED
      BY <1>1, <1>3, <1>4, <1>7, <1>8, <1>10, <3>2, <3>3
  <2>2. CASE ~BeginsBehind
    BY <1>1, <1>2, <1>3, <1>4, <2>2 DEF BeginsBehind
  <2>3. QED
    BY <2>1, <2>2
<1>14. ASSUME ~Consistent(n), ~BeginsBehind, f < Word PROVE FALSE
  <2>1. e <= f
    BY <1>1, <1>2, <1>3, <1>7, <1>8, <1>14 DEF BeginsBehind
  <2>2. e % Word = e /\ f % Word = f
    BY <1>1, <1>10, <1>12, <1>14, <2>1
  <2>3. QED
    BY <1>9, <1>14, <2>1, <2>2
<1>15. ~Consistent(n) =>
            BeginsBehind \/ rd.range.location + rd.range.length >= Word
  BY <1>1, <1>8, <1>14
<1>16. QED
  BY <1>3, <1>4, <1>5, <1>13, <1>15

\* The bytes are taken, or an assert fails.
LEMMA GetEndStep ==
  ASSUME RingInv, GetEnd
  PROVE  RingInv'
<1> DEFINE move_offset == (rd.location - rd.range.location) % Word
<1>1. PICK n : n = BytesToRead(rd.length, rd.range)
  OBVIOUS
<1>2. rd.pc = "take" /\ UNCHANGED <<data, write_offset, wr>>
  BY DEF GetEnd
<1>3. /\ n \in 0..Size /\ n \in Nat /\ n <= rd.range.length
      /\ move_offset \in Nat
      /\ Consistent(n) /\ ~(BeginsBehind /\ rd.location + n >= Word) =>
            move_offset + n <= rd.range.length
      /\ ~Consistent(n) =>
            BeginsBehind \/ rd.range.location + rd.range.length >= Word
  BY <1>1, <1>2, SizeAssumption, AssertsDecide
<1> HIDE DEF move_offset
<1>4. /\ RingTypeOK /\ read_offset \in Nat /\ write_offset \in Nat
      /\ rd.range.length \in Nat
      /\ rd.range.length <= write_offset - read_offset
      /\ OffsetsSound
  BY <1>2 DEF RingInv, RingTypeOK, TakeInv
<1>5. CASE Consistent(n)
  <2>1. /\ rd' = [rd EXCEPT !.pc = "copy", !.base = read_offset + move_offset,
                            !.n = n, !.got = <<>>]
        /\ read_offset' = IF rd.peek THEN read_offset ELSE read_offset + n
    BY <1>1, <1>5 DEF GetEnd, move_offset
  <2>2. /\ read_offset' \in Nat /\ read_offset <= read_offset'
        /\ read_offset' <= write_offset
    BY <1>3, <1>4, <2>1
  <2>3. OffsetsSound' /\ BytesInPlace' /\ WriterInv'
    BY <1>2, <2>2, WriterFrame
  <2>4. read_offset + move_offset \in Nat
    BY <1>3, <1>4
  <2>5. /\ rd'.pc = "copy" /\ rd'.n = n /\ rd'.base = read_offset + move_offset
        /\ rd'.got = <<>> /\ rd'.location = rd.location /\ rd'.range = rd.range
        /\ rd'.length = rd.length
    BY <1>4, <2>1 DEF RingTypeOK
  <2>6. RingTypeOK'
    <3>1. rd' \in [pc : {"idle", "take", "copy", "aborted"},
                 location : 0..Word-1, length : Nat, peek : BOOLEAN,
                 range : [location : 0..Word-1, length : Nat],
                 base : Nat, n : 0..Size, got : Seq(Int)]
      <4>1. PICK base \in Nat : base = read_offset + move_offset
        BY <2>4
      <4>2. rd' = [rd EXCEPT !.pc = "copy", !.base = base, !.n = n, !.got = <<>>]
        BY <2>1, <4>1
      <4>3. n \in 0..Size /\ <<>> \in Seq(Int)
        BY <1>3
      <4>4. QED
        BY <1>4, <4>2, <4>3 DEF RingTypeOK
    <3>2. QED
      BY <1>2, <1>4, <2>2, <3>1 DEF RingTypeOK
  <2>7. CopyInv'
    <3>1. SUFFICES ASSUME ~Excepted'
                   PROVE  /\ rd'.base + rd'.n <= write_offset'
                          /\ Len(rd'.got) <= rd'.n
                          /\ \A k \in 1..Len(rd'.got) :
                                \/ rd'.got[k] = rd'.base + k - 1
                                \/ rd'.base + k - 1 < read_offset'
      BY DEF CopyInv
    <3>2. ~(BeginsBehind /\ rd.location + n >= Word)
      BY <2>5, <3>1 DEF Excepted, BeginsBehind
    <3>3. rd'.base + rd'.n <= write_offset'
      BY <1>2, <1>3, <1>4, <1>5, <2>5, <3>2
    <3>4. Len(rd'.got) = 0
      BY <2>5
    <3>5. QED
      BY <1>3, <2>5, <3>3, <3>4
  <2>8. TakeInv' /\ RangeAssertions'
    BY <2>5 DEF TakeInv, RangeAssertions
  <2>9. QED
    BY <2>3, <2>6, <2>7, <2>8 DEF RingInv
<1>6. CASE ~Consistent(n)
  <2>1. rd' = [rd EXCEPT !.pc = "aborted"] /\ read_offset' = read_offset
    BY <1>1, <1>6 DEF GetEnd
  <2>2. /\ rd'.pc = "aborted" /\ rd'.location = rd.location /\ rd'.range = rd.range
        /\ rd'.length = rd.length
    BY <1>4, <2>1 DEF RingTypeOK
  <2>3. OffsetsSound' /\ BytesInPlace' /\ WriterInv'
    BY <1>2, <1>4, <2>1, WriterFrame DEF OffsetsSound
  <2>4. RingTypeOK'
    <3>1. rd' \in [pc : {"idle", "take", "copy", "aborted"},
                 location : 0..Word-1, length : Nat, peek : BOOLEAN,
                 range : [location : 0..Word-1, length : Nat],
                 base : Nat, n : 0..Size, got : Seq(Int)]
      BY <1>4, <2>1 DEF RingTypeOK
    <3>2. QED
      BY <1>2, <1>4, <2>1, <3>1 DEF RingTypeOK
  <2>5. RangeAssertions'
    BY <1>3, <1>6, <2>2 DEF RangeAssertions, BeginsBehind
  <2>6. TakeInv' /\ CopyInv'
    BY <2>2 DEF TakeInv, CopyInv
  <2>7. QED
    BY <2>3, <2>4, <2>5, <2>6 DEF RingInv
<1>7. QED
  BY <1>5, <1>6

\* A byte is copied out of the buffer. If its position has not been given back
\* it is still between the offsets, and in place.
LEMMA CopyByteStep ==
  ASSUME RingInv, CopyByte
  PROVE  RingInv'
<1>1. /\ RingTypeOK /\ OffsetsSound /\ rd.pc = "copy" /\ Len(rd.got) < rd.n
      /\ UNCHANGED <<data, read_offset, write_offset, wr>>
      /\ read_offset \in Nat /\ write_offset \in Nat /\ rd.base \in Nat
      /\ rd.n \in 0..Size /\ rd.got \in Seq(Int) /\ Len(rd.got) \in Nat
  BY DEF CopyByte, RingInv, RingTypeOK
<1>2. PICK k \in 0..Size : k = Len(rd.got) /\ k < rd.n
  BY <1>1, SizeAssumption
<1>3. PICK p \in Nat : p = rd.base + k
  BY <1>1
<1>4. Region(rd.base % Size, rd.n, k) = p % Size
  <2>1. PICK w \in Int, n \in 0..Size : w = rd.base /\ n = rd.n
    BY <1>1
  <2>2. k \in 0..n-1
    BY <1>2, <2>1
  <2>3. Region(w % Size, n, k) = (w + k) % Size
    BY <2>2, RegionIsPlace
  <2>4. QED
    BY <1>3, <2>1, <2>3
<1>5. PICK v \in Int : v = data[p % Size]
  BY <1>1, <1>3, PlaceOf DEF RingTypeOK
<1>6. rd' = [rd EXCEPT !.got = Append(rd.got, v)]
  <2>1. rd' = [rd EXCEPT !.got =
                Append(rd.got, data[Region(rd.base % Size, rd.n, Len(rd.got))])]
    BY DEF CopyByte
  <2>2. QED
    BY <1>2, <1>4, <1>5, <2>1, Zenon
<1>7. Append(rd.got, v) \in Seq(Int)
  BY <1>1
<1>8. /\ rd'.pc = "copy" /\ rd'.got = Append(rd.got, v) /\ rd'.n = rd.n
      /\ rd'.base = rd.base /\ rd'.location = rd.location /\ rd'.range = rd.range
      /\ rd'.length = rd.length
  BY <1>1, <1>6 DEF RingTypeOK
<1>9. RingTypeOK'
  <2>1. rd' \in [pc : {"idle", "take", "copy", "aborted"},
               location : 0..Word-1, length : Nat, peek : BOOLEAN,
               range : [location : 0..Word-1, length : Nat],
               base : Nat, n : 0..Size, got : Seq(Int)]
    BY <1>1, <1>6, <1>7 DEF RingTypeOK
  <2>2. QED
    BY <1>1, <2>1 DEF RingTypeOK
<1>10. OffsetsSound' /\ BytesInPlace' /\ WriterInv'
  BY <1>1, WriterFrame DEF OffsetsSound
<1>11. CopyInv'
  <2>1. SUFFICES ASSUME ~Excepted'
                 PROVE  /\ rd'.base + rd'.n <= write_offset'
                        /\ Len(rd'.got) <= rd'.n
                        /\ \A j \in 1..Len(rd'.got) :
                              \/ rd'.got[j] = rd'.base + j - 1
                              \/ rd'.base + j - 1 < read_offset'
    BY DEF CopyInv
  <2>2. ~Excepted
    BY <1>8, <2>1 DEF Excepted, BeginsBehind
  <2>3. /\ rd.base + rd.n <= write_offset
        /\ \A j \in 1..Len(rd.got) :
              rd.got[j] = rd.base + j - 1 \/ rd.base + j - 1 < read_offset
    BY <1>1, <2>2 DEF RingInv, CopyInv
  <2>4. p < read_offset \/ v = p
    <3>1. p < write_offset
      BY <1>1, <1>2, <1>3, <2>3
    <3>2. p >= read_offset => p \in read_offset..write_offset-1
      BY <1>1, <3>1
    <3>3. QED
      BY <1>1, <1>5, <3>2 DEF RingInv, BytesInPlace
  <2>5. Len(rd'.got) = k + 1 /\ Len(rd'.got) <= rd'.n
    BY <1>1, <1>2, <1>8
  <2>6. ASSUME NEW j \in 1..k+1
        PROVE  rd'.got[j] = rd'.base + j - 1 \/ rd'.base + j - 1 < read_offset'
    <3>1. CASE j = k + 1
      <4>1. rd'.got[j] = v /\ rd'.base + j - 1 = p
        BY <1>1, <1>2, <1>3, <1>8, <3>1
      <4>2. QED
        BY <1>1, <2>4, <4>1
    <3>2. CASE j # k + 1
      <4>1. j \in 1..Len(rd.got) /\ rd'.got[j] = rd.got[j]
        BY <1>1, <1>2, <1>8, <3>2
      <4>2. QED
        BY <1>1, <1>8, <2>3, <4>1
    <3>3. QED
      BY <3>1, <3>2
  <2>7. QED
    BY <1>1, <1>8, <2>3, <2>5, <2>6
<1>12. TakeInv' /\ RangeAssertions'
  BY <1>8 DEF TakeInv, RangeAssertions
<1>13. QED
  BY <1>9, <1>10, <1>11, <1>12 DEF RingInv

\* The reader has copied all it was given.
LEMMA CopyEndStep ==
  ASSUME RingInv, CopyEnd
  PROVE  RingInv'
<1>1. RingTypeOK /\ OffsetsSound /\ UNCHANGED <<data, read_offset, write_offset, wr>>
  BY DEF RingInv, CopyEnd
<1>2. RingTypeOK'
  BY <1>1, SizeAssumption, WordAssumption DEF RingTypeOK, CopyEnd, IdleReader
<1>3. OffsetsSound' /\ BytesInPlace' /\ WriterInv'
  BY <1>1, WriterFrame DEF OffsetsSound, RingTypeOK
<1>4. TakeInv' /\ CopyInv' /\ RangeAssertions'
  BY DEF CopyEnd, IdleReader, TakeInv, CopyInv, RangeAssertions
<1>5. QED
  BY <1>2, <1>3, <1>4 DEF RingInv

\* ring_buffer_clear_data moves the read offset up to the write offset at most.
LEMMA ClearStep ==
  ASSUME RingInv, NEW length \in 1..Size+1, ring_buffer_clear_data(length)
  PROVE  RingInv'
<1>1. /\ RingTypeOK /\ OffsetsSound /\ UNCHANGED <<data, write_offset, wr, rd>>
      /\ rd.pc \in {"idle", "copy"}
      /\ read_offset \in Nat /\ write_offset \in Nat
      /\ read_offset' = read_offset + Min2(length, AvailableForRead)
      /\ AvailableForRead = write_offset - read_offset
  BY Available DEF RingInv, ring_buffer_clear_data, RingTypeOK
<1>2. /\ read_offset' \in Nat /\ read_offset <= read_offset'
      /\ read_offset' <= write_offset
  BY <1>1, SizeAssumption DEF OffsetsSound, Min2
<1>3. RingTypeOK'
  BY <1>1, <1>2 DEF RingTypeOK
<1>4. OffsetsSound' /\ BytesInPlace' /\ WriterInv'
  BY <1>1, <1>2, WriterFrame
<1>5. CopyInv'
  <2>1. SUFFICES ASSUME rd.pc = "copy", ~Excepted
                 PROVE  /\ rd.base + rd.n <= write_offset
                        /\ Len(rd.got) <= rd.n
                        /\ \A k \in 1..Len(rd.got) :
                              \/ rd.got[k] = rd.base + k - 1
                              \/ rd.base + k - 1 < read_offset'
    BY <1>1 DEF CopyInv, Excepted, BeginsBehind
  <2>2. rd.base \in Nat
    BY <1>1 DEF RingTypeOK
  <2>3. QED
    BY <1>1, <1>2, <2>1, <2>2 DEF RingInv, CopyInv
<1>6. TakeInv' /\ RangeAssertions'
  BY <1>1 DEF TakeInv, RangeAssertions
<1>7. QED
  BY <1>3, <1>4, <1>5, <1>6 DEF RingInv

\* ring_buffer_reset_at_offset, which no read or write overlaps.
LEMMA ResetStep ==
  ASSUME RingInv, NEW offset \in Offsets, ring_buffer_reset_at_offset(offset)
  PROVE  RingInv'
<1>1. /\ RingTypeOK /\ read_offset' = offset /\ write_offset' = offset /\ offset \in Nat
      /\ data' = Empty /\ UNCHANGED <<wr, rd>> /\ wr.pc = "idle" /\ rd.pc = "idle"
  BY OffsetsAssumption DEF RingInv, ring_buffer_reset_at_offset
<1>2. RingTypeOK'
  <2>1. Empty \in [Places -> Int]
    BY DEF Empty, Stale
  <2>2. QED
    BY <1>1, <2>1 DEF RingTypeOK
<1>3. OffsetsSound'
  BY <1>1, SizeAssumption DEF OffsetsSound
<1>4. BytesInPlace'
  BY <1>1 DEF BytesInPlace
<1>5. WriterInv' /\ TakeInv' /\ CopyInv' /\ RangeAssertions'
  BY <1>1 DEF WriterInv, TakeInv, CopyInv, RangeAssertions
<1>6. QED
  BY <1>2, <1>3, <1>4, <1>5 DEF RingInv

-----------------------------------------------------------------------------
(* The results.                                                            *)

\* RingInv is inductive.
LEMMA RingInvariant == RingSpec => []RingInv
<1>1. RingInit => RingInv
  BY RingInitInv
<1>2. RingInv /\ [RingNext]_rbvars => RingInv'
  <2> SUFFICES ASSUME RingInv, [RingNext]_rbvars PROVE RingInv'
    OBVIOUS
  <2>1. CASE UNCHANGED rbvars
    BY <2>1
    DEF rbvars, RingInv, RingTypeOK, OffsetsSound, BytesInPlace, WriterInv, TakeInv,
        CopyInv, RangeAssertions, Excepted, BeginsBehind, location_in_data_range
  <2>2. QED
    BY <2>1, WriteBeginStep, WritePlanStep, WriteByteStep, WriteEndStep,
       GetBeginStep, GetEndStep, CopyByteStep, CopyEndStep, ClearStep, ResetStep
    DEF RingNext
<1>3. QED
  BY <1>1, <1>2, PTL DEF RingSpec

\* For a buffer of any size and anywhere in the stream, one writing and one
\* reading thread without a lock: no byte between the offsets is overwritten or
\* out of place, and a reader copies what was written or what it gave back.
THEOREM StreamIntact == RingSpec => []BytesIntact
<1>1. RingInv => BytesIntact
  <2> SUFFICES ASSUME RingInv PROVE BytesIntact
    OBVIOUS
  <2>1. ASSUME rd.pc = "copy", ~(BeginsBehind /\ rd.location + rd.n >= Word),
               NEW k \in DOMAIN rd.got
        PROVE  LET p == rd.base + k - 1 IN rd.got[k] = p \/ p < read_offset
    <3>1. k \in 1..Len(rd.got)
      BY DEF RingInv, RingTypeOK
    <3>2. QED
      BY <2>1, <3>1 DEF RingInv, CopyInv, Excepted
  <2>2. QED
    BY <2>1 DEF RingInv, OffsetsSound, BytesInPlace, BytesIntact
<1>2. QED
  BY <1>1, RingInvariant, PTL

\* Whatever is asked of ring_buffer_get_data_at_range, its asserts fail for the
\* two reasons that RangeAssertions gives and for no other.
THEOREM AssertsExplained == RingSpec => []RangeAssertions
<1>1. RingInv => RangeAssertions
  BY DEF RingInv
<1>2. QED
  BY <1>1, RingInvariant, PTL

-----------------------------------------------------------------------------
(* The control block of a task.                                            *)

\* A label in storage: the life it is of, and whether all of it is there.
Label == [of : Int, whole : BOOLEAN]

\* The label of this life.
Whole == [of |-> life, whole |-> TRUE]

\* The types.
TaskTypeOK ==
    /\ port \in Ports
    /\ life \in Nat
    /\ client \in {"idle", "attributes", "created", "failed", "has task"}
    /\ tcb \in [sanity : BOOLEAN, label : Label, handle : BOOLEAN]
    /\ thread \in [pc : {"none", "start", "func", "name", "suspended"},
                   returned : BOOLEAN, since : BOOLEAN, name : Label]

\* Nothing, a part or all of this life's label; or, for a name, unknown.
OwnLabels == {NoLabel} \cup [of : {life}, whole : BOOLEAN]

\* A task runs only while the client is creating it or has it; where the task
\* is joined, one that runs no more has returned.
ThreadInv ==
    /\ client \notin {"created", "has task"} => thread.pc = "none"
    /\ port # "freertos" /\ thread.pc = "none" =>
            thread.returned \/ thread = NotRunning

\* Where the control block is zeroed, its label is of no other life; when
\* task_new_static returns, it is complete.
BlockInv ==
    port # "freertos" =>
        /\ client # "idle" => tcb.label \in OwnLabels
        /\ client = "has task" => tcb.sanity /\ tcb.label = Whole

\* The name a task was told, and what it is about to be told.
NameInv ==
    /\ thread.pc # "none" =>
        /\ thread.name \in {Unknown} \cup OwnLabels
        /\ thread.pc # "name" /\ thread.since => thread.name = Whole
    /\ thread.pc = "name" =>
        /\ port # "freertos"
        /\ thread.since => client = "has task"

\* The inductive invariant.
TaskInv == TaskTypeOK /\ ThreadInv /\ BlockInv /\ NameInv

\* The labels of the model are labels.
LEMMA Labels == Unknown \in Label /\ NoLabel \in Label
  BY DEF Unknown, NoLabel, Label

\* So is this life's.
LEMMA OwnLabel == life \in Nat => Whole \in Label /\ Whole \in OwnLabels
  BY DEF Whole, Label, OwnLabels

\* A new storage meets the invariant.
LEMMA TaskInitInv == TaskInit => TaskInv
<1> SUFFICES ASSUME TaskInit PROVE TaskInv
  OBVIOUS
<1> USE DEF TaskInit, NotRunning, Zeroed, NoLabel, Unknown
<1>1. TaskTypeOK
  BY DEF TaskTypeOK, Label
<1>2. ThreadInv /\ NameInv
  BY DEF ThreadInv, NameInv
<1>3. BlockInv
  BY DEF BlockInv
<1>4. QED
  BY <1>1, <1>2, <1>3 DEF TaskInv

\* The steps of the client.
LEMMA ClientStep ==
  ASSUME TaskInv,
         \/ task_new_static \/ AttributesFail \/ Create \/ CreateFail
         \/ StoreSanity \/ StoreLabel \/ NewEnd \/ task_destroy_static
  PROVE  TaskInv'
<1> USE DEF TaskInv
<1>a. life \in Int
  <2>1. life \in Nat
    BY DEF TaskTypeOK
  <2>2. QED
    BY ONLY <2>1
<1>1. CASE task_new_static
  <2> USE <1>1 DEF task_new_static
  <2>1. TaskTypeOK'
    BY DEF TaskTypeOK, Zeroed, NoLabel, Label
  <2>2. thread.pc = "none" /\ client = "idle"
    BY DEF ThreadInv
  <2>3. ThreadInv' /\ NameInv'
    BY <2>2 DEF ThreadInv, NameInv
  <2>4. BlockInv'
    BY DEF BlockInv, OwnLabels, Zeroed
  <2>5. QED
    BY <2>1, <2>3, <2>4
<1>2. CASE AttributesFail
  BY <1>2
  DEF AttributesFail, TaskTypeOK, ThreadInv, BlockInv, NameInv, OwnLabels, Whole
<1>3. CASE Create
  <2> USE <1>3 DEF Create
  <2>1. thread' = [pc |-> "start", returned |-> FALSE, since |-> FALSE, name |-> Unknown]
    BY DEF NotRunning
  <2>2. TaskTypeOK'
    <3>1. thread' \in [pc : {"none", "start", "func", "name", "suspended"},
                       returned : BOOLEAN, since : BOOLEAN, name : Label]
      BY ONLY <2>1, Labels
    <3>2. QED
      BY <3>1 DEF TaskTypeOK
  <2>3. ThreadInv' /\ NameInv'
    BY <2>1 DEF ThreadInv, NameInv
  <2>4. BlockInv'
    BY DEF BlockInv, OwnLabels, Whole
  <2>5. QED
    BY <2>2, <2>3, <2>4
<1>4. CASE CreateFail
  BY <1>4
  DEF CreateFail, TaskTypeOK, ThreadInv, BlockInv, NameInv, OwnLabels, Whole
<1>5. CASE StoreSanity
  <2> USE <1>5 DEF StoreSanity
  <2>1. tcb'.label = tcb.label /\ tcb'.sanity /\ client # "has task"
    BY DEF TaskTypeOK
  <2>2. TaskTypeOK'
    BY DEF TaskTypeOK
  <2>3. ThreadInv' /\ NameInv'
    BY DEF ThreadInv, NameInv, OwnLabels, Whole
  <2>4. BlockInv'
    BY <2>1 DEF BlockInv, OwnLabels, Whole
  <2>5. QED
    BY <2>2, <2>3, <2>4
<1>6. CASE StoreLabel
  <2> USE <1>6 DEF StoreLabel
  <2>1. tcb'.label = [of |-> life, whole |-> tcb.label.of = life]
        /\ client # "has task"
    BY DEF TaskTypeOK
  <2>2. tcb'.label \in [of : {life}, whole : BOOLEAN] /\ tcb'.label \in Label
    <3>1. PICK w \in BOOLEAN : w = (tcb.label.of = life)
      OBVIOUS
    <3>2. tcb'.label = [of |-> life, whole |-> w]
      BY <2>1, <3>1, Zenon
    <3>3. w = TRUE \/ w = FALSE
      OBVIOUS
    <3>4. QED
      BY ONLY <1>a, <3>2, <3>3 DEF Label
  <2>3. TaskTypeOK'
    BY <2>1, <2>2 DEF TaskTypeOK
  <2>4. ThreadInv' /\ NameInv'
    BY DEF ThreadInv, NameInv, OwnLabels, Whole
  <2>5. BlockInv'
    BY <2>1, <2>2 DEF BlockInv, OwnLabels
  <2>6. QED
    BY <2>3, <2>4, <2>5
<1>7. CASE NewEnd
  <2> USE <1>7 DEF NewEnd
  <2>1. tcb'.label = tcb.label /\ tcb'.sanity = tcb.sanity
    BY DEF TaskTypeOK
  <2>2. TaskTypeOK'
    BY DEF TaskTypeOK
  <2>3. ThreadInv'
    BY DEF ThreadInv
  <2>4. NameInv'
    BY DEF NameInv, ThreadInv, OwnLabels, Whole
  <2>5. BlockInv'
    BY <2>1 DEF BlockInv, OwnLabels, Whole
  <2>6. QED
    BY <2>2, <2>3, <2>4, <2>5
<1>8. CASE task_destroy_static
  <2> USE <1>8 DEF task_destroy_static
  <2>1. thread'.pc = "none" /\ thread'.returned = thread.returned
    BY DEF TaskTypeOK
  <2>2. TaskTypeOK'
    BY DEF TaskTypeOK
  <2>3. ThreadInv'
    <3>1. port # "freertos" => thread' = thread
      BY DEF TaskTypeOK
    <3>2. QED
      BY <2>1, <3>1 DEF ThreadInv
  <2>4. NameInv' /\ BlockInv'
    BY <2>1 DEF NameInv, BlockInv
  <2>5. QED
    BY <2>2, <2>3, <2>4
<1>9. QED
  BY <1>1, <1>2, <1>3, <1>4, <1>5, <1>6, <1>7, <1>8

\* The steps of the task.
LEMMA ThreadStep ==
  ASSUME TaskInv, RunnerBegin \/ RunnerEnd \/ GetNameBegin \/ GetNameEnd
  PROVE  TaskInv'
<1> USE DEF TaskInv
<1>1. CASE RunnerBegin
  <2> USE <1>1 DEF RunnerBegin
  <2>1. /\ thread'.pc = "func" /\ thread'.name = thread.name
        /\ thread'.since = thread.since
    BY DEF TaskTypeOK
  <2>2. TaskTypeOK'
    BY DEF TaskTypeOK
  <2>3. ThreadInv'
    BY <2>1 DEF ThreadInv
  <2>4. BlockInv' /\ NameInv'
    BY <2>1 DEF BlockInv, NameInv, OwnLabels, Whole
  <2>5. QED
    BY <2>2, <2>3, <2>4
<1>2. CASE RunnerEnd
  <2> USE <1>2 DEF RunnerEnd
  <2>1. /\ thread'.pc \in {"suspended", "none"} /\ thread'.name = thread.name
        /\ thread'.since = thread.since /\ thread'.returned
    BY DEF TaskTypeOK
  <2>2. TaskTypeOK'
    BY DEF TaskTypeOK
  <2>3. ThreadInv'
    BY <2>1 DEF ThreadInv
  <2>4. BlockInv' /\ NameInv'
    BY <2>1 DEF BlockInv, NameInv, OwnLabels, Whole
  <2>5. QED
    BY <2>2, <2>3, <2>4
<1>3. CASE GetNameBegin
  <2> USE <1>3 DEF GetNameBegin
  <2>1. client \in {"created", "has task"} /\ thread.pc = "func"
    BY DEF ThreadInv
  <2>2. CASE port = "freertos"
    <3>1. thread' = [thread EXCEPT !.name = Whole, !.since = (client = "has task")]
      BY <2>2 DEF Whole
    <3>2. thread'.pc = "func" /\ thread'.name = Whole /\ Whole \in Label
      BY <2>1, <3>1, OwnLabel DEF TaskTypeOK
    <3>3. TaskTypeOK'
      BY <3>1, <3>2 DEF TaskTypeOK
    <3>4. ThreadInv' /\ BlockInv'
      BY <2>1, <2>2, <3>2 DEF ThreadInv, BlockInv
    <3>5. NameInv'
      <4>1. Whole' = Whole /\ OwnLabels' = OwnLabels /\ Whole \in OwnLabels
        BY OwnLabel DEF TaskTypeOK, Whole, OwnLabels
      <4>2. QED
        BY <3>2, <4>1 DEF NameInv
    <3>6. QED
      BY <3>3, <3>4, <3>5
  <2>3. CASE port # "freertos" /\ tcb.sanity
    <3>1. thread' = [thread EXCEPT !.pc = "name", !.since = (client = "has task")]
      BY <2>3
    <3>2. /\ thread'.pc = "name" /\ thread'.name = thread.name
          /\ thread'.since = (client = "has task")
      BY <3>1 DEF TaskTypeOK
    <3>3. TaskTypeOK'
      BY <3>1 DEF TaskTypeOK
    <3>4. ThreadInv' /\ BlockInv'
      BY <2>1, <3>2 DEF ThreadInv, BlockInv, OwnLabels, Whole
    <3>5. NameInv'
      BY <2>1, <2>3, <3>2 DEF NameInv, OwnLabels, Whole
    <3>6. QED
      BY <3>3, <3>4, <3>5
  <2>4. CASE port # "freertos" /\ ~tcb.sanity
    <3>1. thread' = [thread EXCEPT !.name = Unknown, !.since = (client = "has task")]
      BY <2>4
    <3>2. client # "has task"
      BY <2>4 DEF BlockInv
    <3>3. thread'.pc = "func" /\ thread'.name = Unknown /\ thread'.since = FALSE
      BY <2>1, <3>1, <3>2 DEF TaskTypeOK
    <3>4. TaskTypeOK'
      BY <3>1, Labels DEF TaskTypeOK
    <3>5. ThreadInv' /\ BlockInv'
      BY <2>1, <3>3 DEF ThreadInv, BlockInv, OwnLabels, Whole
    <3>6. NameInv'
      BY <3>3 DEF NameInv
    <3>7. QED
      BY <3>4, <3>5, <3>6
  <2>5. QED
    BY <2>2, <2>3, <2>4
<1>4. CASE GetNameEnd
  <2> USE <1>4 DEF GetNameEnd
  <2>1. /\ thread'.pc = "func" /\ thread'.name = tcb.label
        /\ thread'.since = thread.since
    BY DEF TaskTypeOK
  <2>2. /\ client \in {"created", "has task"} /\ port # "freertos"
        /\ thread.since => client = "has task"
    BY DEF ThreadInv, NameInv
  <2>3. TaskTypeOK'
    BY DEF TaskTypeOK
  <2>4. ThreadInv' /\ BlockInv'
    BY <2>1, <2>2 DEF ThreadInv, BlockInv, OwnLabels, Whole
  <2>5. NameInv'
    BY <2>1, <2>2 DEF NameInv, BlockInv, OwnLabels, Whole
  <2>6. QED
    BY <2>3, <2>4, <2>5
<1>5. QED
  BY <1>1, <1>2, <1>3, <1>4

\* On every port, tasks that follow each other in one storage keep apart: none
\* runs when the storage is the client's again (task_destroy_static), and none
\* is told the name of another (task_get_current_name), although the task runs
\* while task_new_static is still filling in the control block.
THEOREM TasksApart == TaskSpec => []LivesApart
<1>1. TaskInit => TaskInv
  BY TaskInitInv
<1>2. TaskInv /\ [TaskNext]_taskvars => TaskInv'
  <2> SUFFICES ASSUME TaskInv, [TaskNext]_taskvars PROVE TaskInv'
    OBVIOUS
  <2>1. CASE UNCHANGED taskvars
    <3> USE DEF taskvars, TaskInv
    <3>1. TaskTypeOK'
      BY <2>1 DEF TaskTypeOK
    <3>2. ThreadInv' /\ BlockInv'
      BY <2>1 DEF ThreadInv, BlockInv, OwnLabels, Whole
    <3>3. NameInv'
      BY <2>1 DEF NameInv, OwnLabels, Whole
    <3>4. QED
      BY <3>1, <3>2, <3>3
  <2>2. QED
    BY <2>1, ClientStep, ThreadStep DEF TaskNext
<1>3. TaskInv => LivesApart
  BY DEF TaskInv, TaskTypeOK, ThreadInv, NameInv, OwnLabels, Whole, LivesApart
<1>4. QED
  BY <1>1, <1>2, <1>3, PTL DEF TaskSpec

-----------------------------------------------------------------------------
(* The objects of the FreeRTOS port.                                       *)

\* What the kernel's configuration gives: priorities up to a bound, by which the
\* tasks are named, and a word of usable and of reserved bits.
Priorities == \E n \in Nat : Tasks \subseteq 1..n
EventWord ==
    /\ Bits \intersect Reserved = {}
    /\ \A b \in Asked : b \subseteq Bits \union Reserved

\* The lemmas below name what they need of it.
LEMMA Configuration == Priorities /\ EventWord
<1>1. PICK n \in Tasks : \A t \in Tasks : t <= n
  BY PriorityAssumption
<1>2. n \in Nat /\ Tasks \subseteq 1..n
  BY <1>1, PriorityAssumption
<1>3. QED
  BY <1>2, BitsAssumption DEF Priorities, EventWord

\* A set of priorities that is not empty has a greatest one: the distances from
\* the bound have a least.
LEMMA HasGreatest ==
  ASSUME NEW N \in Nat, NEW S \in SUBSET (1..N), S # {}
  PROVE  \E m \in S : \A u \in S : u <= m
<1> DEFINE T == {d \in Nat : \E s \in S : d = N - s}
<1>1. T \subseteq Nat /\ T # {}
  <2>1. PICK s \in S : TRUE
    OBVIOUS
  <2>2. N - s \in Nat /\ N - s \in T
    OBVIOUS
  <2>3. QED
    BY <2>2
<1>2. PICK x \in T : \A y \in T : ~(<<y, x>> \in OpToRel(<, Nat))
  BY <1>1, NatLessThanWellFounded, WFMin, Zenon
<1>3. \A y \in T : ~(y < x)
  BY <1>2, Zenon DEF OpToRel
<1>4. PICK m \in S : x = N - m
  BY <1>2
<1>5. ASSUME NEW u \in S PROVE u <= m
  <2>1. N - u \in T
    OBVIOUS
  <2>2. ~(N - u < N - m)
    BY <1>3, <1>4, <2>1
  <2>3. QED
    BY <2>2
<1>6. QED
  BY <1>5

\* The scheduler's choice is the task it is meant to be.
LEMMA Highest ==
  ASSUME Priorities, NEW S \in SUBSET Tasks
  PROVE  /\ HighestOf(S) \in Nat
         /\ S = {} => HighestOf(S) = Idle
         /\ S # {} => HighestOf(S) \in S /\ HighestOf(S) > Idle
         /\ \A u \in S : u \in Nat /\ u <= HighestOf(S)
<1>1. PICK n \in Nat : Tasks \subseteq 1..n
  BY DEF Priorities
<1>2. S \in SUBSET (1..n)
  BY <1>1
<1>3. CASE S = {}
  BY <1>3 DEF HighestOf, Idle
<1>4. CASE S # {}
  <2>1. \E m \in S : \A u \in S : u <= m
    BY <1>2, <1>4, HasGreatest
  <2>2. HighestOf(S) = CHOOSE t \in S : \A u \in S : u <= t
    BY <1>4 DEF HighestOf
  <2>3. HighestOf(S) \in S /\ \A u \in S : u <= HighestOf(S)
    <3> DEFINE Top(t) == t \in S /\ \A u \in S : u <= t
    <3>1. \E m : Top(m)
      BY <2>1
    <3>2. Top(CHOOSE m : Top(m))
      BY <3>1, Zenon
    <3>3. HighestOf(S) = CHOOSE m : Top(m)
      BY <2>2
    <3>4. QED
      BY <3>2, <3>3
  <2>4. \A u \in S : u \in Nat /\ u > 0
    BY <1>2
  <2>5. QED
    BY <1>4, <2>3, <2>4 DEF Idle
<1>5. QED
  BY <1>3, <1>4

\* The choice is the only one.
LEMMA HighestUnique ==
  ASSUME Priorities, NEW S \in SUBSET Tasks, NEW m \in S, \A u \in S : u <= m
  PROVE  HighestOf(S) = m
<1>1. HighestOf(S) \in S /\ m <= HighestOf(S) /\ m \in Nat /\ HighestOf(S) \in Nat
  BY Highest
<1>2. HighestOf(S) <= m
  BY <1>1
<1>3. QED
  BY <1>1, <1>2

-----------------------------------------------------------------------------
(* The scheduler.                                                          *)

\* The tasks that could run, given the calls c.
Ready(c) == {t \in Tasks : ~Blocked(c, t)}

\* The processor is the highest ready task's, unless a switch to it was put off,
\* or the handler that readied it has not ended and knows of it.
SchedulerInv ==
    /\ DOMAIN call = Tasks
    /\ isr.on \in BOOLEAN /\ isr.flag \in BOOLEAN /\ isr.woken \in BOOLEAN
    /\ DOMAIN isr = {"on", "calls", "flag", "woken"}
    /\ deferred \in BOOLEAN
    /\ ~deferred /\ (isr.on => isr.flag /\ ~isr.woken) =>
            running = HighestOf(Ready(call))

\* The calls of tasks end with a context switch, or change nothing that it
\* depends on.
LEMMA TaskCallsScheduled ==
  ASSUME Priorities, SchedulerInv, NEW t \in Tasks,
         \/ \E n \in Sizes : ts_queue_init(t, n)
         \/ ts_queue_destroy(t)
         \/ \E w \in Timeouts : ts_queue_enqueue(t, w) \/ ts_queue_dequeue(t, w)
         \/ Resume(t)
         \/ event_flag_new(t) \/ event_flag_free(t)
         \/ \E r \in Asked, a, c \in BOOLEAN, w \in Timeouts :
                event_flag_wait(t, r, a, c, w)
         \/ \E b \in Asked : event_flag_send(t, b) \/ event_flag_clear(t, b)
  PROVE  SchedulerInv'
<1>1. ASSUME UNCHANGED <<call, running, isr, deferred>> PROVE SchedulerInv'
  BY <1>1 DEF SchedulerInv, Ready, Blocked
<1>2. ASSUME NEW after, DOMAIN after = Tasks, call' = after, Schedule(after),
             UNCHANGED <<isr, deferred>>
      PROVE  SchedulerInv'
  BY <1>2 DEF SchedulerInv, Ready, Schedule, Blocked
<1>3. ASSUME NEW c, Attempt(t, c) PROVE SchedulerInv'
  <2>1. \A f, fn : DOMAIN f = Tasks => DOMAIN WakeOne(f, fn) = Tasks
    BY DEF WakeOne
  <2>2. DOMAIN call' = Tasks
    BY <1>3, <2>1 DEF Attempt, SchedulerInv
  <2>3. QED
    BY <1>2, <1>3, <2>2 DEF Attempt
<1>4. ASSUME NEW r \in Asked, NEW a \in BOOLEAN, NEW c \in BOOLEAN,
             NEW w \in Timeouts, event_flag_wait(t, r, a, c, w)
      PROVE  SchedulerInv'
  <2>1. DOMAIN call' = Tasks
    BY <1>4 DEF event_flag_wait, SchedulerInv
  <2>2. QED
    BY <1>2, <1>4, <2>1 DEF event_flag_wait
<1>5. ASSUME NEW b \in Asked, event_flag_send(t, b) PROVE SchedulerInv'
  <2>1. DOMAIN call' = Tasks
    BY <1>5 DEF event_flag_send
  <2>2. QED
    BY <1>2, <1>5, <2>1 DEF event_flag_send
<1>6. QED
  BY <1>1, <1>3, <1>4, <1>5
  DEF ts_queue_init, ts_queue_destroy, ts_queue_enqueue, ts_queue_dequeue, Resume,
      event_flag_new, event_flag_free, event_flag_clear

\* A task that goes on after a wait was the one that runs, and was ready.
LEMMA WaitResumeScheduled ==
  ASSUME Priorities, SchedulerInv, NEW t \in Tasks, WaitResume(t)
  PROVE  SchedulerInv'
<1>1. /\ running = t /\ ~isr.on /\ call' = [call EXCEPT ![t] = NoCall]
      /\ UNCHANGED <<running, isr, deferred>>
  BY DEF WaitResume, InTask
<1>2. DOMAIN call = Tasks /\ DOMAIN call' = Tasks
  BY <1>1 DEF SchedulerInv
<1>3. ASSUME ~deferred PROVE Ready(call') = Ready(call)
  <2>1. t = HighestOf(Ready(call))
    BY <1>1, <1>3 DEF SchedulerInv
  <2>2. Ready(call) \in SUBSET Tasks
    BY DEF Ready
  <2>3. t > Idle
    BY DEF Priorities, Idle
  <2>4. t \in Ready(call)
    BY <2>1, <2>2, <2>3, Highest DEF Idle
  <2>5. \A u \in Tasks \ {t} : call'[u] = call[u]
    BY <1>1, <1>2
  <2>6. call'[t].fn = "none"
    BY <1>1, <1>2 DEF NoCall
  <2>7. QED
    BY <2>4, <2>5, <2>6 DEF Ready, Blocked
<1>4. QED
  BY <1>1, <1>2, <1>3 DEF SchedulerInv, Ready, Blocked

\* A handler's call readies at most the highest of those that wait, and tells of
\* it if that one is above the task that was interrupted.
LEMMA FromIsrScheduled ==
  ASSUME Priorities, SchedulerInv, NEW possible \in BOOLEAN, NEW change,
         NEW other, FromIsr(possible, change, other)
  PROVE  SchedulerInv'
<1> DEFINE after == IF possible THEN WakeOne(call, other) ELSE call
           w == HighestOf(Waiting(other))
           wakes == after # call /\ w > running
<1>1. /\ isr.on /\ call' = after /\ UNCHANGED <<running, deferred>>
      /\ isr' = [isr EXCEPT !.calls = isr.calls + 1, !.woken = FlagAfter(wakes)]
  BY DEF FromIsr
<1>2. DOMAIN call = Tasks /\ DOMAIN call' = Tasks
  BY <1>1 DEF SchedulerInv, WakeOne
<1>3. /\ isr'.on = isr.on /\ isr'.flag = isr.flag /\ isr'.woken = FlagAfter(wakes)
      /\ DOMAIN isr' = DOMAIN isr
  BY <1>1 DEF SchedulerInv
<1>4. FlagAfter(wakes) \in BOOLEAN
  BY DEF FlagAfter, SchedulerInv
<1>5. ASSUME ~deferred, isr.flag, ~FlagAfter(wakes)
      PROVE  running = HighestOf(Ready(call'))
  <2>1. ~wakes /\ ~isr.woken
    BY <1>5 DEF FlagAfter
  <2>2. running = HighestOf(Ready(call))
    BY <1>1, <1>5, <2>1 DEF SchedulerInv
  <2>3. CASE after = call
    BY <1>1, <2>2, <2>3
  <2>4. CASE after # call
    <3>1. /\ possible /\ Waiting(other) # {} /\ ~(w > running)
          /\ after = [call EXCEPT ![w].blocked = FALSE]
      BY <2>1, <2>4 DEF WakeOne
    <3>2. Waiting(other) \in SUBSET Tasks /\ Ready(call) \in SUBSET Tasks
          /\ Ready(call') \in SUBSET Tasks
      BY DEF Waiting, Ready
    <3>3. w \in Waiting(other) /\ w > Idle /\ w \in Nat
      BY <3>1, <3>2, Highest
    <3>4. running \in Nat /\ w <= running
      BY <2>2, <3>1, <3>2, <3>3, Highest
    <3>5. Ready(call) # {} /\ running \in Ready(call)
      BY <2>2, <3>2, <3>3, <3>4, Highest DEF Idle
    <3>6. \A u \in Tasks \ {w} : call'[u] = call[u]
      BY <1>1, <1>2, <3>1
    <3>7. w \notin Ready(call)
      BY <3>3 DEF Waiting, Ready
    <3>8. running \in Ready(call') /\ Ready(call') \subseteq Ready(call) \cup {w}
      BY <3>5, <3>6, <3>7 DEF Ready, Blocked
    <3>9. \A u \in Ready(call) : u <= running
      BY <2>2, <3>2, Highest
    <3>10. \A u \in Ready(call') : u <= running
      BY <3>4, <3>8, <3>9
    <3>11. QED
      BY <3>2, <3>8, <3>10, HighestUnique
  <2>5. QED
    BY <2>3, <2>4
<1> HIDE DEF after, w, wakes
<1>6. QED
  BY <1>1, <1>2, <1>3, <1>4, <1>5 DEF SchedulerInv, Ready, Blocked

\* Outside of an interrupt the highest ready task runs, whichever of a handler's
\* calls of ts_queue_enqueue_from_isr and ts_queue_dequeue_from_isr woke it, for
\* any number of tasks and of calls: no call takes back what an earlier one has
\* stored in the flag.
THEOREM HighestReadyRuns == RtosSpec => []WokenRuns
<1> USE Configuration
<1>1. RtosInit => SchedulerInv
  <2> SUFFICES ASSUME RtosInit PROVE SchedulerInv
    OBVIOUS
  <2>1. Ready(call) = Tasks
    BY DEF RtosInit, Ready, Blocked, NoCall
  <2>2. QED
    BY <2>1 DEF RtosInit, SchedulerInv, NoIsr
<1>2. SchedulerInv /\ [RtosNext]_rtosvars => SchedulerInv'
  <2> SUFFICES ASSUME SchedulerInv, [RtosNext]_rtosvars PROVE SchedulerInv'
    OBVIOUS
  <2>1. ASSUME NEW flag \in BOOLEAN, IsrBegin(flag) PROVE SchedulerInv'
    BY <2>1 DEF IsrBegin, SchedulerInv, NoIsr, Ready, Blocked
  <2>2. CASE ts_queue_enqueue_from_isr \/ ts_queue_dequeue_from_isr
    <3>1. (count < size) \in BOOLEAN /\ (count > 0) \in BOOLEAN
      OBVIOUS
    <3>2. QED
      BY <2>2, <3>1, FromIsrScheduled
      DEF ts_queue_enqueue_from_isr, ts_queue_dequeue_from_isr
  <2>3. CASE task_yield_from_isr
    BY <2>3 DEF task_yield_from_isr, SchedulerInv, NoIsr, Schedule, Ready, Blocked
  <2>4. CASE Tick
    <3>1. PICK after : DOMAIN after = Tasks /\ call' = after /\ Schedule(after)
      BY <2>4 DEF Tick
    <3>2. QED
      BY <2>4, <3>1 DEF Tick, SchedulerInv, Schedule, Ready, Blocked
  <2>5. CASE UNCHANGED rtosvars
    BY <2>5 DEF rtosvars, SchedulerInv, Ready, Blocked
  <2>6. QED
    BY <2>1, <2>2, <2>3, <2>4, <2>5, TaskCallsScheduled, WaitResumeScheduled
    DEF RtosNext
<1>3. SchedulerInv => WokenRuns
  BY DEF SchedulerInv, WokenRuns, Ready
<1>4. QED
  BY <1>1, <1>2, <1>3, PTL DEF RtosSpec

-----------------------------------------------------------------------------
(* The event flag.                                                         *)

\* The calls of the queue and of the event flag.
QueueCalls == [fn : {"send", "receive"}, left : Timeouts, blocked : BOOLEAN]
BitCalls ==
    [fn : {"bits"}, required : Asked, all : BOOLEAN, clear : BOOLEAN,
     left : Timeouts, blocked : BOOLEAN, got : SUBSET Bits]

\* A wait that the kernel has ended was given bits that meet it.
CallOK(c) ==
    \/ c = NoCall
    \/ c \in QueueCalls
    \/ c \in BitCalls /\ (c.got # {} => Met(c, c.got))

\* The inductive invariant of the event flag.
FlagInv ==
    /\ DOMAIN call = Tasks
    /\ \A t \in Tasks : CallOK(call[t])
    /\ bits \in SUBSET Bits
    /\ FlagsReported

\* What a call is follows from its function.
LEMMA CallByFn ==
  ASSUME NEW c, CallOK(c)
  PROVE  /\ c.fn \in {"send", "receive"} => c \in QueueCalls
         /\ c.fn = "bits" => c \in BitCalls /\ (c.got # {} => Met(c, c.got))
         /\ c.fn # "none" => c \in QueueCalls \/ c.fn = "bits"
  BY DEF CallOK, NoCall, QueueCalls, BitCalls

\* Waking a call, or letting its time run out, leaves what it waits for alone.
LEMMA WokenCallOK ==
  ASSUME NEW c, CallOK(c), c.fn # "none"
  PROVE  CallOK([c EXCEPT !.left = "none", !.blocked = FALSE])
<1> DEFINE d == [c EXCEPT !.left = "none", !.blocked = FALSE]
<1>1. CASE c \in QueueCalls
  <2>1. d \in QueueCalls
    BY <1>1 DEF QueueCalls, Timeouts
  <2>2. QED
    BY <2>1 DEF CallOK
<1>2. CASE c.fn = "bits"
  <2>1. c \in BitCalls /\ (c.got # {} => Met(c, c.got))
    BY <1>2, CallByFn
  <2>2. d \in BitCalls
    BY <2>1 DEF BitCalls, Timeouts
  <2>3. d.got = c.got /\ d.all = c.all /\ d.required = c.required
    BY <2>1 DEF BitCalls
  <2>4. Met(d, d.got) <=> Met(c, c.got)
    BY <2>3 DEF Met
  <2>5. QED
    BY <2>1, <2>2, <2>3, <2>4 DEF CallOK
<1>3. QED
  BY <1>1, <1>2, CallByFn

\* So does readying a sender or a receiver.
LEMMA WakeOneOK ==
  ASSUME Priorities, NEW f, DOMAIN f = Tasks, \A t \in Tasks : CallOK(f[t]),
         NEW fn \in {"send", "receive"},
         \A t \in Waiting(fn) : f[t] = call[t]
  PROVE  DOMAIN WakeOne(f, fn) = Tasks /\ \A t \in Tasks : CallOK(WakeOne(f, fn)[t])
<1>1. CASE Waiting(fn) = {}
  BY <1>1 DEF WakeOne
<1>2. CASE Waiting(fn) # {}
  <2>1. PICK h : h = HighestOf(Waiting(fn)) /\ h \in Waiting(fn) /\ h \in Tasks
    <3>1. Waiting(fn) \in SUBSET Tasks
      BY DEF Waiting
    <3>2. QED
      BY <1>2, <3>1, Highest
  <2>2. f[h].fn = fn
    BY <2>1 DEF Waiting
  <2>3. f[h] \in QueueCalls
    BY <2>1, <2>2, CallByFn
  <2>4. [f[h] EXCEPT !.blocked = FALSE] \in QueueCalls
    BY <2>3 DEF QueueCalls
  <2>5. WakeOne(f, fn) = [f EXCEPT ![h] = [f[h] EXCEPT !.blocked = FALSE]]
    BY <1>2, <2>1 DEF WakeOne
  <2>6. QED
    BY <2>1, <2>4, <2>5 DEF CallOK
<1>3. QED
  BY <1>1, <1>2

\* What event_flag_wait returns is whether its wait was met, unless it asked for
\* all of some bits with a reserved one among them: the kernel is not asked for
\* that one, and it is never set.
LEMMA ReturnsMet ==
  ASSUME EventWord, NEW c, c.required \in Asked, NEW got \in SUBSET Bits
  PROVE  /\ c.all /\ c.required \intersect Reserved # {} => ~Returns(c, got)
         /\ ~(c.all /\ c.required \intersect Reserved # {}) =>
                (Returns(c, got) <=> Met(c, got))
  BY DEF EventWord, Returns, Met

\* Hence the end of a wait is reported as it should be.
LEMMA WaitEndsReported ==
  ASSUME EventWord, NEW c, c.required \in Asked, NEW got \in SUBSET Bits,
         NEW met, met <=> Met(c, got), met \in BOOLEAN,
         waited' = WaitEnds(c, got, met)
  PROVE  FlagsReported'
<1>1. /\ waited'.ret = Returns(c, got) /\ waited'.met = met
      /\ waited'.beyond = (c.all /\ c.required \intersect Reserved # {})
  BY DEF WaitEnds
<1>2. Returns(c, got) \in BOOLEAN
  BY DEF Returns
<1>3. QED
  BY <1>1, <1>2, ReturnsMet DEF FlagsReported

\* The calls of the queue do not touch the bits.
LEMMA AttemptFlags ==
  ASSUME Priorities, FlagInv, NEW t \in Tasks, NEW c \in QueueCalls,
         call[t] = NoCall \/ call[t] = c, Attempt(t, c)
  PROVE  FlagInv'
<1> DEFINE other == IF c.fn = "send" THEN "receive" ELSE "send"
           ended == [call EXCEPT ![t] = NoCall]
           waits == [call EXCEPT ![t] = [c EXCEPT !.blocked = TRUE]]
<1>1. call' \in {WakeOne(ended, other), ended, waits} /\ UNCHANGED evars
  BY DEF Attempt
<1>2. DOMAIN ended = Tasks /\ \A u \in Tasks : CallOK(ended[u])
  BY DEF FlagInv, CallOK
<1>3. DOMAIN waits = Tasks /\ \A u \in Tasks : CallOK(waits[u])
  <2>1. [c EXCEPT !.blocked = TRUE] \in QueueCalls
    BY DEF QueueCalls
  <2>2. QED
    BY <2>1 DEF FlagInv, CallOK
<1>4. \A u \in Waiting(other) : ended[u] = call[u]
  <2>1. t \notin Waiting(other)
    BY DEF Waiting, NoCall, QueueCalls
  <2>2. QED
    BY <2>1 DEF FlagInv, Waiting
<1>5. other \in {"send", "receive"}
  OBVIOUS
<1> HIDE DEF ended, waits, other
<1>6. DOMAIN call' = Tasks /\ \A u \in Tasks : CallOK(call'[u])
  BY <1>1, <1>2, <1>3, <1>4, <1>5, WakeOneOK
<1>7. QED
  BY <1>1, <1>6 DEF evars, FlagInv, FlagsReported, CallOK, Met

\* event_flag_wait finds its bits at once, or goes to sleep, or returns.
LEMMA WaitFlags ==
  ASSUME EventWord, FlagInv, NEW t \in Tasks, NEW r \in Asked, NEW a \in BOOLEAN,
         NEW clear \in BOOLEAN, NEW w \in Timeouts,
         event_flag_wait(t, r, a, clear, w)
  PROVE  FlagInv'
<1> DEFINE c == [fn |-> "bits", required |-> r, all |-> a, clear |-> clear,
                 left |-> w, blocked |-> TRUE, got |-> {}]
           ends == Met(c, bits) \/ w = "none"
<1>1. c \in BitCalls /\ c.got = {} /\ c.required = r
  BY DEF BitCalls
<1>2. /\ waited' = IF ends THEN WaitEnds(c, bits, Met(c, bits)) ELSE waited
      /\ bits' = IF ends /\ Met(c, bits) /\ clear THEN bits \ r ELSE bits
      /\ call' = IF ends THEN call ELSE [call EXCEPT ![t] = c]
  BY DEF event_flag_wait
<1>3. Met(c, bits) \in BOOLEAN
  BY DEF Met
<1> HIDE DEF c
<1>4. DOMAIN call' = Tasks /\ \A u \in Tasks : CallOK(call'[u])
  BY <1>1, <1>2 DEF FlagInv, CallOK
<1>5. bits' \in SUBSET Bits
  BY <1>2 DEF FlagInv
<1>6. FlagsReported'
  <2>1. CASE ends
    BY <1>1, <1>2, <1>3, <2>1, WaitEndsReported DEF FlagInv
  <2>2. CASE ~ends
    BY <1>2, <2>2 DEF FlagInv, FlagsReported
  <2>3. QED
    BY <2>1, <2>2
<1>7. QED
  BY <1>4, <1>5, <1>6 DEF FlagInv, CallOK

\* A wait that ends after the task was blocked: woken by event_flag_send, or
\* timed out, with the bits that are set by then.
LEMMA WaitResumeFlags ==
  ASSUME EventWord, FlagInv, NEW t \in Tasks, WaitResume(t)
  PROVE  FlagInv'
<1> DEFINE c == call[t]
           got == IF c.got # {} THEN c.got ELSE bits
           late == c.got = {} /\ Met(c, bits)
<1>1. c \in BitCalls /\ (c.got # {} => Met(c, c.got))
  BY CallByFn DEF FlagInv, WaitResume
<1>2. c.required \in Asked /\ c.got \in SUBSET Bits /\ got \in SUBSET Bits
  BY <1>1 DEF BitCalls, FlagInv
<1>3. /\ waited' = WaitEnds(c, got, c.got # {} \/ late)
      /\ bits' = IF late /\ c.clear THEN bits \ c.required ELSE bits
      /\ call' = [call EXCEPT ![t] = NoCall]
  BY DEF WaitResume
<1>4. (c.got # {} \/ late) <=> Met(c, got)
  BY <1>1
<1>5. FlagsReported'
  <2>1. PICK d, g, m : d = c /\ g = got /\ m = (c.got # {} \/ late)
    OBVIOUS
  <2>2. /\ d.required \in Asked /\ g \in SUBSET Bits /\ m \in BOOLEAN
        /\ m <=> Met(d, g)
        /\ waited' = WaitEnds(d, g, m)
    BY <1>2, <1>3, <1>4, <2>1
  <2>3. QED
    BY <2>2, WaitEndsReported
<1>6. DOMAIN call' = Tasks /\ \A u \in Tasks : CallOK(call'[u])
  BY <1>3 DEF FlagInv, CallOK
<1>7. bits' \in SUBSET Bits
  BY <1>3 DEF FlagInv
<1>8. QED
  BY <1>5, <1>6, <1>7 DEF FlagInv, CallOK

\* event_flag_send ends every wait that its bits meet, and takes off what those
\* waits clear.
LEMMA SendFlags ==
  ASSUME FlagInv, NEW t \in Tasks, NEW flag_bits \in Asked,
         event_flag_send(t, flag_bits)
  PROVE  FlagInv'
<1> DEFINE set == bits \union (flag_bits \intersect Bits)
           woken == {u \in Waiting("bits") : Met(call[u], set)}
<1>1. set \in SUBSET Bits
  BY DEF FlagInv
<1>2. /\ call' = [u \in Tasks |-> IF u \in woken
                                  THEN [call[u] EXCEPT !.blocked = FALSE, !.got = set]
                                  ELSE call[u]]
      /\ UNCHANGED waited
      /\ bits' \subseteq set
  BY DEF event_flag_send
<1> HIDE DEF set
<1>3. ASSUME NEW u \in Tasks, u \in woken PROVE CallOK(call'[u])
  <2>1. call[u].fn = "bits" /\ Met(call[u], set)
    BY <1>3 DEF Waiting
  <2>2. call[u] \in BitCalls
    BY <2>1, CallByFn DEF FlagInv
  <2>3. call'[u] = [call[u] EXCEPT !.blocked = FALSE, !.got = set]
    BY <1>2, <1>3
  <2>4. call'[u] \in BitCalls
    BY <1>1, <2>2, <2>3 DEF BitCalls
  <2>5. /\ call'[u].got = set /\ call'[u].all = call[u].all
        /\ call'[u].required = call[u].required
    BY <2>2, <2>3 DEF BitCalls
  <2>6. Met(call'[u], call'[u].got)
    BY <2>1, <2>5 DEF Met
  <2>7. QED
    BY <2>4, <2>6 DEF CallOK
<1>4. \A u \in Tasks : CallOK(call'[u])
  BY <1>2, <1>3 DEF FlagInv
<1>5. QED
  BY <1>1, <1>2, <1>4 DEF FlagInv, FlagsReported, CallOK

\* event_flag_wait on FreeRTOS is true exactly when the kernel has found the
\* bits it waited for, and has taken them off if it was asked to: none is lost.
\* It is false whenever it asks for all of some bits, a reserved one among them.
THEOREM NoFlagLost == RtosSpec => []FlagsReported
<1> USE Configuration
<1>1. RtosInit => FlagInv
  BY DEF RtosInit, FlagInv, CallOK, FlagsReported, NotWaited
<1>2. FlagInv /\ [RtosNext]_rtosvars => FlagInv'
  <2> SUFFICES ASSUME FlagInv, [RtosNext]_rtosvars PROVE FlagInv'
    OBVIOUS
  <2>1. ASSUME NEW t \in Tasks, NEW w \in Timeouts,
               ts_queue_enqueue(t, w) \/ ts_queue_dequeue(t, w)
        PROVE  FlagInv'
    <3>1. call[t] = NoCall
      BY <2>1 DEF ts_queue_enqueue, ts_queue_dequeue, MayCall
    <3>2. \A fn \in {"send", "receive"} :
            [fn |-> fn, left |-> w, blocked |-> FALSE] \in QueueCalls
      BY DEF QueueCalls
    <3>3. QED
      BY <2>1, <3>1, <3>2, AttemptFlags DEF ts_queue_enqueue, ts_queue_dequeue
  <2>2. ASSUME NEW t \in Tasks, Resume(t) PROVE FlagInv'
    <3>1. call[t] \in QueueCalls
      BY <2>2, CallByFn DEF Resume, FlagInv
    <3>2. QED
      BY <2>2, <3>1, AttemptFlags DEF Resume
  <2>3. ASSUME UNCHANGED <<call, waited>>, bits' \subseteq Bits PROVE FlagInv'
    BY <2>3 DEF FlagInv, FlagsReported, CallOK, Met
  <2>4. CASE \E t \in Tasks :
                \/ \E n \in Sizes : ts_queue_init(t, n)
                \/ ts_queue_destroy(t)
                \/ event_flag_new(t) \/ event_flag_free(t)
                \/ \E b \in Asked : event_flag_clear(t, b)
    BY <2>3, <2>4
    DEF ts_queue_init, ts_queue_destroy, event_flag_new, event_flag_free,
        event_flag_clear, evars, FlagInv
  <2>5. CASE (\E flag \in BOOLEAN : IsrBegin(flag)) \/ task_yield_from_isr
    BY <2>3, <2>5 DEF IsrBegin, task_yield_from_isr, evars, FlagInv
  <2>6. CASE ts_queue_enqueue_from_isr \/ ts_queue_dequeue_from_isr
    <3>1. PICK other \in {"send", "receive"} :
            call' = call \/ call' = WakeOne(call, other)
      BY <2>6 DEF ts_queue_enqueue_from_isr, ts_queue_dequeue_from_isr, FromIsr
    <3>2. UNCHANGED <<bits, waited>>
      BY <2>6
      DEF ts_queue_enqueue_from_isr, ts_queue_dequeue_from_isr, FromIsr, evars
    <3>3. DOMAIN call' = Tasks /\ \A u \in Tasks : CallOK(call'[u])
      BY <3>1, WakeOneOK DEF FlagInv
    <3>4. QED
      BY <3>2, <3>3 DEF FlagInv, FlagsReported, CallOK
  <2>7. CASE Tick
    <3>1. PICK S \in SUBSET {t \in Tasks : Blocked(call, t) /\ call[t].left = "some"} :
            call' = [t \in Tasks |-> IF t \in S
                            THEN [call[t] EXCEPT !.left = "none", !.blocked = FALSE]
                            ELSE call[t]]
      BY <2>7 DEF Tick
    <3>2. \A u \in S : call[u].fn # "none"
      BY <3>1 DEF Blocked
    <3>3. DOMAIN call' = Tasks /\ \A u \in Tasks : CallOK(call'[u])
      BY <3>1, <3>2, WokenCallOK DEF FlagInv
    <3>4. UNCHANGED <<bits, waited>>
      BY <2>7 DEF Tick, evars
    <3>5. QED
      BY <3>3, <3>4 DEF FlagInv, FlagsReported, CallOK
  <2>8. CASE UNCHANGED rtosvars
    BY <2>3, <2>8 DEF rtosvars, FlagInv
  <2>9. QED
    BY <2>1, <2>2, <2>4, <2>5, <2>6, <2>7, <2>8, WaitFlags, WaitResumeFlags,
       SendFlags
    DEF RtosNext
<1>3. FlagInv => FlagsReported
  BY DEF FlagInv
<1>4. QED
  BY <1>1, <1>2, <1>3, PTL DEF RtosSpec

-----------------------------------------------------------------------------
(* The accumulator.                                                        *)

Cells == 0..TotalSize-1

\* The place of an offset that has passed the end of the ring at most once.
Wrapped(x) == IF x < TotalSize THEN x ELSE x - TotalSize

\* How many places there are from i up to e.
Gap(i, e) == IF e >= i THEN e - i ELSE TotalSize - (i - e)

\* The bytes in the places of b from i up to e.
Slice(b, i, e) == [k \in 1..Gap(i, e) |-> b[Wrapped(i + k - 1)]]

AccTypes ==
    /\ buf \in [Cells -> Bytes]
    /\ in \in Cells /\ out \in Cells /\ iter \in Cells
    /\ overrun \in BOOLEAN /\ stale \in BOOLEAN

\* The iterator is among the bytes contained.
IteratorInside == ~stale /\ ~overrun => Gap(out, iter) <= Gap(out, in)

AccInv == AccTypes /\ IteratorInside

\* What it has to do with %.
LEMMA WrappedIsRemainder ==
  ASSUME NEW x \in 0..2*TotalSize-1
  PROVE  x % TotalSize = Wrapped(x) /\ Wrapped(x) \in Cells
<1> USE AccumulatorAssumption
<1>1. CASE x < TotalSize
  <2>1. x \in 0..TotalSize-1
    BY <1>1
  <2>2. QED
    BY <1>1, <2>1, ModSmall DEF Wrapped, Cells
<1>2. CASE x >= TotalSize
  <2>1. x \in TotalSize..2*TotalSize-1
    BY <1>2
  <2>2. QED
    BY <1>2, <2>1, ModOnce DEF Wrapped, Cells
<1>3. QED
  BY <1>1, <1>2

\* Gap is the distance in the ring.
LEMMA GapIsDistance ==
  ASSUME NEW i \in Cells, NEW e \in Cells
  PROVE  /\ (e + TotalSize - i) % TotalSize = Gap(i, e)
         /\ Gap(i, e) \in 0..TotalSize-1
         /\ Wrapped(i + Gap(i, e)) = e
<1> USE AccumulatorAssumption
<1>1. e + TotalSize - i \in 0..2*TotalSize-1
  BY DEF Cells
<1>2. (e + TotalSize - i) % TotalSize = Wrapped(e + TotalSize - i)
  BY <1>1, WrappedIsRemainder
<1>3. QED
  BY <1>2 DEF Wrapped, Gap, Cells

\* Going on by n places brings what is n places ahead closer.
LEMMA GapShrinks ==
  ASSUME NEW i \in Cells, NEW e \in Cells, NEW n \in 0..Gap(i, e)
  PROVE  /\ Wrapped(i + n) \in Cells
         /\ Gap(Wrapped(i + n), e) = Gap(i, e) - n
         /\ Gap(i, Wrapped(i + n)) = n
  BY AccumulatorAssumption DEF Wrapped, Gap, Cells

\* What the code computes as contained and as left.
LEMMA ContainedIsGap ==
  /\ \A i : BytesContainedFrom(i) = Gap(i, in)
  /\ BytesContained = Gap(out, in)
  /\ \A o \in Cells : in \in Cells => BytesLeft(o) = TotalSize - 1 - Gap(o, in)
  BY AccumulatorAssumption DEF BytesContainedFrom, BytesContained, BytesLeft, Gap, Cells

\* A finite function on 1..n as a sequence.
LEMMA FunctionIsSeq ==
  ASSUME NEW S, NEW n \in Nat, NEW f \in [1..n -> S]
  PROVE  f \in Seq(S) /\ Len(f) = n
  OBVIOUS

\* Sequences of the same elements.
LEMMA SeqsEqual ==
  ASSUME NEW S, NEW s \in Seq(S), NEW t \in Seq(S), Len(s) = Len(t),
         \A k \in 1..Len(s) : s[k] = t[k]
  PROVE  s = t
  OBVIOUS

\* A concatenation, one by one.
LEMMA ConcatParts ==
  ASSUME NEW S, NEW s \in Seq(S), NEW t \in Seq(S)
  PROVE  /\ s \o t \in Seq(S) /\ Len(s \o t) = Len(s) + Len(t)
         /\ \A k \in 1..Len(s) + Len(t) :
               (s \o t)[k] = IF k <= Len(s) THEN s[k] ELSE t[k - Len(s)]
  OBVIOUS

\* A part of a sequence, one by one.
LEMMA SubSeqParts ==
  ASSUME NEW S, NEW s \in Seq(S), NEW r \in 0..Len(s), NEW n \in r..Len(s)
  PROVE  /\ SubSeq(s, r + 1, n) \in Seq(S) /\ Len(SubSeq(s, r + 1, n)) = n - r
         /\ \A k \in 1..n - r : SubSeq(s, r + 1, n)[k] = s[k + r]
<1>1. Len(s) \in Nat
  OBVIOUS
<1>2. \A k \in 1..n - r : k + r \in 1..Len(s) /\ (k + (r + 1)) - 1 = k + r
  BY <1>1
<1>3. QED
  BY <1>1, <1>2

\* A slice, one by one.
LEMMA SliceParts ==
  ASSUME NEW b \in [Cells -> Bytes], NEW i \in Cells, NEW e \in Cells
  PROVE  /\ Slice(b, i, e) \in Seq(Bytes) /\ Len(Slice(b, i, e)) = Gap(i, e)
         /\ \A k \in 1..Gap(i, e) : Slice(b, i, e)[k] = b[Wrapped(i + k - 1)]
         /\ Slice(b, i, e) = [k \in 1..((e + TotalSize - i) % TotalSize) |->
                                b[(i + k - 1) % TotalSize]]
<1> USE AccumulatorAssumption
<1> DEFINE n == Gap(i, e)
<1>1. n \in 0..TotalSize-1 /\ (e + TotalSize - i) % TotalSize = n
  BY GapIsDistance
<1> HIDE DEF n
<1>2. \A k \in 1..n : /\ (i + k - 1) % TotalSize = Wrapped(i + k - 1)
                      /\ Wrapped(i + k - 1) \in Cells
  <2> TAKE k \in 1..n
  <2>1. i + k - 1 \in 0..2*TotalSize-1
    BY <1>1 DEF Cells
  <2>2. QED
    BY <2>1, WrappedIsRemainder
<1>3. Slice(b, i, e) = [k \in 1..n |-> b[Wrapped(i + k - 1)]]
  BY DEF Slice, n
<1>4. Slice(b, i, e) \in [1..n -> Bytes]
  BY <1>2, <1>3
<1>5. Slice(b, i, e) \in Seq(Bytes) /\ Len(Slice(b, i, e)) = n
  BY <1>1, <1>4, FunctionIsSeq
<1>6. Slice(b, i, e) = [k \in 1..n |-> b[(i + k - 1) % TotalSize]]
  BY <1>2, <1>3
<1>7. QED
  BY <1>1, <1>3, <1>5, <1>6 DEF n

\* Dropping the first n bytes of a slice is beginning it n places on.
LEMMA SliceTail ==
  ASSUME NEW b \in [Cells -> Bytes], NEW i \in Cells, NEW e \in Cells,
         NEW n \in 0..Gap(i, e)
  PROVE  Slice(b, Wrapped(i + n), e) = SubSeq(Slice(b, i, e), n + 1, Gap(i, e))
<1> USE AccumulatorAssumption
<1> DEFINE j == Wrapped(i + n)
           s == Slice(b, i, e)
           t == SubSeq(s, n + 1, Gap(i, e))
           u == Slice(b, j, e)
<1>1. Gap(i, e) \in 0..TotalSize-1
  BY GapIsDistance
<1>2. j \in Cells /\ Gap(j, e) = Gap(i, e) - n
  BY GapShrinks
<1>3. /\ s \in Seq(Bytes) /\ Len(s) = Gap(i, e)
      /\ \A k \in 1..Gap(i, e) : s[k] = b[Wrapped(i + k - 1)]
  BY SliceParts
<1>4. /\ u \in Seq(Bytes) /\ Len(u) = Gap(j, e)
      /\ \A k \in 1..Gap(j, e) : u[k] = b[Wrapped(j + k - 1)]
  BY <1>2, SliceParts
<1>5. ASSUME NEW k \in 1..Gap(j, e)
      PROVE  Wrapped(j + k - 1) = Wrapped(i + (k + n) - 1)
  BY <1>1, <1>2 DEF Wrapped, Cells
<1> HIDE DEF s, u, j
<1>6. /\ t \in Seq(Bytes) /\ Len(t) = Gap(i, e) - n
      /\ \A k \in 1..Gap(i, e) - n : t[k] = s[k + n]
  <2>1. Len(s) = Gap(i, e) /\ n \in 0..Len(s) /\ Len(s) \in n..Len(s) /\ s \in Seq(Bytes)
    BY <1>1, <1>3
  <2>2. /\ SubSeq(s, n + 1, Len(s)) \in Seq(Bytes) /\ Len(SubSeq(s, n + 1, Len(s))) = Len(s) - n
        /\ \A k \in 1..Len(s) - n : SubSeq(s, n + 1, Len(s))[k] = s[k + n]
    BY <2>1, SubSeqParts
  <2>3. t = SubSeq(s, n + 1, Len(s))
    BY <2>1
  <2> HIDE DEF t
  <2>4. QED
    BY <2>1, <2>2, <2>3
<1>7. \A k \in 1..Gap(j, e) : u[k] = t[k]
  <2> TAKE k \in 1..Gap(j, e)
  <2>1. k + n \in 1..Gap(i, e)
    BY <1>1, <1>2
  <2>2. QED
    BY <1>2, <1>3, <1>4, <1>5, <1>6, <2>1
<1> HIDE DEF t
<1>8. u = t
  BY <1>2, <1>4, <1>6, <1>7, SeqsEqual
<1>9. QED
  BY <1>8 DEF s, t, u, j

\* The first n bytes of a slice.
LEMMA SliceFront ==
  ASSUME NEW b \in [Cells -> Bytes], NEW i \in Cells, NEW e \in Cells,
         NEW n \in 0..Gap(i, e), NEW s \in Seq(Bytes), Len(s) = n,
         \A k \in 1..n : s[k] = b[Wrapped(i + k - 1)]
  PROVE  s = SubSeq(Slice(b, i, e), 1, n)
<1> DEFINE w == Slice(b, i, e)
           t == SubSeq(w, 1, n)
<1>1. /\ w \in Seq(Bytes) /\ Len(w) = Gap(i, e)
      /\ \A k \in 1..Gap(i, e) : w[k] = b[Wrapped(i + k - 1)]
  BY SliceParts
<1>2. Gap(i, e) \in Nat
  BY GapIsDistance, AccumulatorAssumption
<1> HIDE DEF w
<1>3. t \in Seq(Bytes) /\ Len(t) = n /\ \A k \in 1..n : t[k] = w[k]
  BY <1>1, <1>2
<1> HIDE DEF t
<1>4. \A k \in 1..n : s[k] = t[k]
  <2> TAKE k \in 1..n
  <2>1. k \in 1..Gap(i, e)
    BY <1>2
  <2>2. QED
    BY <1>1, <1>3, <2>1
<1>5. s = t
  BY <1>3, <1>4, SeqsEqual
<1>6. QED
  BY <1>5 DEF t, w

\* A copy in two parts is one of consecutive places of the ring.
LEMMA ReadParts ==
  ASSUME AccTypes, NEW i \in Cells, NEW n \in 0..TotalSize-1
  PROVE  /\ Read(i, n) \in Seq(Bytes) /\ Len(Read(i, n)) = n
         /\ \A k \in 1..n : Read(i, n)[k] = buf[Wrapped(i + k - 1)]
<1> USE AccumulatorAssumption
<1> DEFINE Part(a, m) == [k \in 1..m |-> buf[a + k - 1]]
<1>1. ASSUME NEW a \in Cells, NEW m \in Nat, a + m <= TotalSize
      PROVE  /\ Part(a, m) \in Seq(Bytes) /\ Len(Part(a, m)) = m
             /\ \A k \in 1..m : Part(a, m)[k] = buf[a + k - 1]
  <2>1. \A k \in 1..m : a + k - 1 \in Cells
    BY <1>1 DEF Cells
  <2>2. Part(a, m) \in [1..m -> Bytes]
    BY <2>1 DEF AccTypes
  <2>3. QED
    BY <2>2, FunctionIsSeq
<1>2. CASE i + n > TotalSize
  <2> DEFINE h == TotalSize - i
  <2>1. /\ h \in Nat /\ n - h \in Nat /\ i + h <= TotalSize /\ 0 + (n - h) <= TotalSize
        /\ 0 \in Cells /\ h < n
    BY <1>2 DEF Cells
  <2>2. Read(i, n) = Part(i, h) \o Part(0, n - h)
    BY <1>2 DEF Read
  <2>3. /\ Part(i, h) \in Seq(Bytes) /\ Len(Part(i, h)) = h
        /\ \A k \in 1..h : Part(i, h)[k] = buf[i + k - 1]
    BY <1>1, <2>1
  <2>4. /\ Part(0, n - h) \in Seq(Bytes) /\ Len(Part(0, n - h)) = n - h
        /\ \A k \in 1..n - h : Part(0, n - h)[k] = buf[0 + k - 1]
    BY <1>1, <2>1
  <2> DEFINE p == Part(i, h)
             q == Part(0, n - h)
  <2> HIDE DEF p, q
  <2>5. Read(i, n) \in Seq(Bytes) /\ Len(Read(i, n)) = n
    <3>1. p \in Seq(Bytes) /\ q \in Seq(Bytes) /\ Len(p) = h /\ Len(q) = n - h
      BY <2>3, <2>4 DEF p, q
    <3>2. p \o q \in Seq(Bytes) /\ Len(p \o q) = Len(p) + Len(q)
      BY <3>1, ConcatParts
    <3>3. Read(i, n) = p \o q
      BY <2>2 DEF p, q
    <3>4. h + (n - h) = n
      BY <2>1
    <3>5. QED
      BY <3>1, <3>2, <3>3, <3>4
  <2> HIDE DEF Part
  <2>6. ASSUME NEW k \in 1..n
        PROVE  Read(i, n)[k] = buf[Wrapped(i + k - 1)]
    <3>1. CASE k <= h
      <4>1. k \in 1..h /\ Wrapped(i + k - 1) = i + k - 1
        BY <3>1, <2>1 DEF Cells, Wrapped
      <4>2. QED
        BY <4>1, <2>2, <2>3, <2>4
    <3>2. CASE k > h
      <4>1. k - h \in 1..n - h /\ Wrapped(i + k - 1) = 0 + (k - h) - 1
        BY <3>2, <2>1 DEF Cells, Wrapped
      <4>2. Read(i, n)[k] = Part(0, n - h)[k - h]
        BY <3>2, <2>1, <2>2, <2>3, <2>4
      <4>3. QED
        BY <4>1, <4>2, <2>4
    <3>3. QED
      BY <3>1, <3>2, <2>1
  <2>7. QED
    BY <2>5, <2>6
<1>3. CASE i + n <= TotalSize
  <2>1. Read(i, n) = Part(i, n)
    BY <1>3 DEF Read, Cells
  <2>2. \A k \in 1..n : Wrapped(i + k - 1) = i + k - 1
    BY <1>3 DEF Wrapped, Cells
  <2>3. QED
    BY <1>1, <1>3, <2>1, <2>2
<1>4. QED
  BY <1>2, <1>3 DEF Cells

\* What Write leaves in the ring b whose in is e.
Written(b, e, bytes) ==
    LET first == TotalSize - e
    IN  [i \in DOMAIN b |->
            CASE i >= e /\ i - e < Len(bytes) -> bytes[i - e + 1]
              [] i < Len(bytes) - first -> bytes[first + i + 1]
              [] OTHER -> b[i]]

\* A copy into the ring, in one part or in two, changes the Len(bytes) places
\* from e on.
LEMMA WrittenParts ==
  ASSUME NEW b \in [Cells -> Bytes], NEW e \in Cells, NEW bytes \in Seq(Bytes),
         Len(bytes) < TotalSize
  PROVE  /\ Written(b, e, bytes) \in [Cells -> Bytes]
         /\ \A p \in Cells : Written(b, e, bytes)[p] =
                IF Gap(e, p) < Len(bytes) THEN bytes[Gap(e, p) + 1] ELSE b[p]
<1> USE AccumulatorAssumption
<1> DEFINE v == Written(b, e, bytes)
<1>1. Len(bytes) \in Nat
  OBVIOUS
<1>2. ASSUME NEW p \in Cells
      PROVE  /\ v[p] = IF Gap(e, p) < Len(bytes) THEN bytes[Gap(e, p) + 1] ELSE b[p]
             /\ v[p] \in Bytes
  <2>1. v[p] = CASE p >= e /\ p - e < Len(bytes) -> bytes[p - e + 1]
                 [] p < Len(bytes) - (TotalSize - e) -> bytes[(TotalSize - e) + p + 1]
                 [] OTHER -> b[p]
    BY DEF Written
  <2>2. CASE p >= e /\ p - e < Len(bytes)
    <3>1. Gap(e, p) = p - e /\ ~(p < Len(bytes) - (TotalSize - e)) /\ p - e + 1 \in 1..Len(bytes)
      BY <1>1, <2>2 DEF Gap, Cells
    <3>2. v[p] = bytes[p - e + 1]
      BY <2>1, <2>2, <3>1
    <3>3. bytes[p - e + 1] \in Bytes
      BY <3>1
    <3>4. QED
      BY <2>2, <3>1, <3>2, <3>3
  <2>3. CASE p < Len(bytes) - (TotalSize - e)
    <3>1. /\ Gap(e, p) = (TotalSize - e) + p /\ ~(p >= e)
          /\ (TotalSize - e) + p + 1 \in 1..Len(bytes)
      BY <1>1, <2>3 DEF Gap, Cells
    <3>2. v[p] = bytes[(TotalSize - e) + p + 1]
      BY <2>1, <2>3, <3>1
    <3>3. bytes[(TotalSize - e) + p + 1] \in Bytes
      BY <3>1
    <3>4. Gap(e, p) < Len(bytes)
      BY <1>1, <2>3, <3>1 DEF Cells
    <3>5. QED
      BY <3>1, <3>2, <3>3, <3>4
  <2>4. CASE ~(p >= e /\ p - e < Len(bytes)) /\ ~(p < Len(bytes) - (TotalSize - e))
    <3>1. ~(Gap(e, p) < Len(bytes))
      BY <1>1, <2>4 DEF Gap, Cells
    <3>2. v[p] = b[p]
      BY <2>1, <2>4
    <3>3. QED
      BY <3>1, <3>2
  <2>5. QED
    BY <2>2, <2>3, <2>4
<1>3. DOMAIN v = Cells /\ v = [p \in Cells |-> v[p]]
  BY DEF Written
<1> HIDE DEF v
<1>4. v \in [Cells -> Bytes]
  BY <1>2, <1>3
<1>5. QED
  BY <1>2, <1>4 DEF v

\* Where there is room, the slice grows by the bytes that are written behind it.
LEMMA SliceAppend ==
  ASSUME NEW b \in [Cells -> Bytes], NEW i \in Cells, NEW e \in Cells,
         NEW bytes \in Seq(Bytes), Gap(i, e) + Len(bytes) <= TotalSize - 1
  PROVE  /\ Wrapped(e + Len(bytes)) \in Cells
         /\ Gap(i, Wrapped(e + Len(bytes))) = Gap(i, e) + Len(bytes)
         /\ Slice(Written(b, e, bytes), i, Wrapped(e + Len(bytes)))
              = Slice(b, i, e) \o bytes
<1> USE AccumulatorAssumption
<1> DEFINE g == Gap(i, e)
           n == Len(bytes)
           f == Wrapped(e + n)
           v == Written(b, e, bytes)
           s == Slice(b, i, e)
           u == Slice(v, i, f)
           t == s \o bytes
<1>1. n \in Nat /\ g \in 0..TotalSize-1 /\ n < TotalSize
  BY GapIsDistance
<1>2. f \in Cells /\ Gap(i, f) = g + n
  BY <1>1 DEF Wrapped, Cells, Gap
<1>3. /\ v \in [Cells -> Bytes]
      /\ \A p \in Cells : v[p] = IF Gap(e, p) < n THEN bytes[Gap(e, p) + 1] ELSE b[p]
  BY <1>1, WrittenParts
<1>4. /\ s \in Seq(Bytes) /\ Len(s) = g
      /\ \A k \in 1..g : s[k] = b[Wrapped(i + k - 1)]
  BY SliceParts
<1> HIDE DEF v, f
<1>5. /\ u \in Seq(Bytes) /\ Len(u) = g + n
      /\ \A k \in 1..g + n : u[k] = v[Wrapped(i + k - 1)]
  <2>1. v \in [Cells -> Bytes]
    BY <1>3
  <2>2. /\ u \in Seq(Bytes) /\ Len(u) = Gap(i, f)
        /\ \A k \in 1..Gap(i, f) : u[k] = v[Wrapped(i + k - 1)]
    BY <1>2, <2>1, SliceParts
  <2> HIDE DEF u, g, n
  <2>3. QED
    BY <1>2, <2>2
<1>6. ASSUME NEW k \in 1..g + n
      PROVE  LET p == Wrapped(i + k - 1)
             IN  /\ p \in Cells
                 /\ k <= g => ~(Gap(e, p) < n)
                 /\ k > g => Gap(e, p) = k - 1 - g
  BY <1>1 DEF Wrapped, Cells, Gap
<1> HIDE DEF s, u, g, n
<1>7. /\ t \in Seq(Bytes) /\ Len(t) = g + n
      /\ \A k \in 1..g + n : t[k] = IF k <= g THEN s[k] ELSE bytes[k - g]
  <2>1. Len(bytes) = n
    BY DEF n
  <2>2. /\ t \in Seq(Bytes) /\ Len(t) = Len(s) + Len(bytes)
        /\ \A k \in 1..Len(s) + Len(bytes) :
              t[k] = IF k <= Len(s) THEN s[k] ELSE bytes[k - Len(s)]
    BY <1>4, ConcatParts
  <2> HIDE DEF t
  <2>3. QED
    BY <1>4, <2>1, <2>2
<1> HIDE DEF t
<1>8. ASSUME NEW k \in 1..g + n
      PROVE  u[k] = t[k]
  <2> DEFINE p == Wrapped(i + k - 1)
  <2>1. p \in Cells /\ u[k] = v[p]
    BY <1>5, <1>6
  <2>2. CASE k <= g
    <3>1. ~(Gap(e, p) < n)
      BY <2>2, <1>6
    <3>2. k \in 1..g
      BY <1>1, <2>2
    <3>3. QED
      BY <1>3, <1>4, <1>7, <2>1, <2>2, <3>1, <3>2
  <2>3. CASE k > g
    <3>1. Gap(e, p) = k - 1 - g
      BY <2>3, <1>6
    <3>2. Gap(e, p) < n /\ Gap(e, p) + 1 = k - g /\ ~(k <= g)
      BY <1>1, <2>3, <3>1
    <3>3. QED
      BY <1>3, <1>7, <2>1, <3>2
  <2>4. QED
    BY <1>1, <2>2, <2>3
<1>9. u = t
  BY <1>5, <1>7, <1>8, SeqsEqual
<1>10. QED
  BY <1>2, <1>9 DEF u, t, s, v, f, g, n

\* Dropping the oldest elements first and appending then, or the other way round.
LEMMA DropThenAppend ==
  ASSUME NEW S, NEW s \in Seq(S), NEW t \in Seq(S), NEW r \in 0..Len(s)
  PROVE  SubSeq(s, r + 1, Len(s)) \o t = SubSeq(s \o t, r + 1, Len(s) + Len(t))
<1> DEFINE a == SubSeq(s, r + 1, Len(s))
           u == a \o t
           c == s \o t
           v == SubSeq(c, r + 1, Len(s) + Len(t))
<1>1. Len(s) \in Nat /\ Len(t) \in Nat
  OBVIOUS
<1>2. /\ a \in Seq(S) /\ Len(a) = Len(s) - r
      /\ \A k \in 1..Len(s) - r : a[k] = s[k + r]
  BY <1>1
<1>3. /\ c \in Seq(S) /\ Len(c) = Len(s) + Len(t)
      /\ \A k \in 1..Len(s) + Len(t) :
            c[k] = IF k <= Len(s) THEN s[k] ELSE t[k - Len(s)]
  BY ConcatParts
<1> HIDE DEF a, c
<1>4. /\ u \in Seq(S) /\ Len(u) = Len(s) - r + Len(t)
      /\ \A k \in 1..Len(s) - r + Len(t) :
            u[k] = IF k <= Len(s) - r THEN a[k] ELSE t[k - (Len(s) - r)]
  <2>1. /\ u \in Seq(S) /\ Len(u) = Len(a) + Len(t)
        /\ \A k \in 1..Len(a) + Len(t) : u[k] = IF k <= Len(a) THEN a[k] ELSE t[k - Len(a)]
    BY <1>2, ConcatParts
  <2> HIDE DEF u
  <2>2. QED
    BY <1>2, <2>1
<1>5. /\ v \in Seq(S) /\ Len(v) = Len(s) - r + Len(t)
      /\ \A k \in 1..Len(s) - r + Len(t) : v[k] = c[k + r]
  <2>1. r \in 0..Len(c) /\ Len(c) \in r..Len(c) /\ Len(c) - r = Len(s) - r + Len(t)
    BY <1>1, <1>3
  <2>2. QED
    BY <1>3, <2>1, SubSeqParts
<1> HIDE DEF u, v
<1>6. ASSUME NEW k \in 1..Len(u)
      PROVE  u[k] = v[k]
  <2>1. k + r \in 1..Len(s) + Len(t) /\ k \in 1..Len(s) - r + Len(t)
    BY <1>1, <1>4
  <2>2. CASE k <= Len(s) - r
    <3>1. k \in 1..Len(s) - r /\ k + r <= Len(s)
      BY <1>1, <2>1, <2>2
    <3>2. QED
      BY <1>2, <1>3, <1>4, <1>5, <2>1, <3>1
  <2>3. CASE ~(k <= Len(s) - r)
    <3>1. ~(k + r <= Len(s)) /\ k - (Len(s) - r) = (k + r) - Len(s)
      BY <1>1, <2>1, <2>3
    <3>2. QED
      BY <1>3, <1>4, <1>5, <2>1, <2>3, <3>1
  <2>4. QED
    BY <2>2, <2>3
<1>7. u = v
  BY <1>4, <1>5, <1>6, SeqsEqual
<1>8. QED
  BY <1>7 DEF u, v, a, c
\* The bytes contained are a slice, before a step and after it.
LEMMA BytesAreSlice ==
  /\ AccTypes => \A i \in Cells : BytesFrom(i) = Slice(buf, i, in)
  /\ AccTypes' => BytesFrom(out)' = Slice(buf', out', in')
<1>1. ASSUME AccTypes, NEW i \in Cells
      PROVE  BytesFrom(i) = Slice(buf, i, in)
  <2>1. buf \in [Cells -> Bytes] /\ in \in Cells
    BY <1>1 DEF AccTypes
  <2>2. QED
    BY <2>1, SliceParts DEF BytesFrom
<1>2. ASSUME AccTypes'
      PROVE  BytesFrom(out)' = Slice(buf', out', in')
  <2>1. buf' \in [Cells -> Bytes] /\ in' \in Cells /\ out' \in Cells
    BY <1>2 DEF AccTypes
  <2>2. Slice(buf', out', in')
          = [k \in 1..((in' + TotalSize - out') % TotalSize) |->
                buf'[(out' + k - 1) % TotalSize]]
    BY <2>1, SliceParts
  <2>3. QED
    BY <2>2 DEF BytesFrom
<1>3. QED
  BY <1>1, <1>2

\* A move of out, by less than the ring.
LEMMA MoveOutParts ==
  ASSUME AccTypes, NEW n \in 0..TotalSize-1, MoveOut(n)
  PROVE  /\ out' = Wrapped(out + n) /\ out' \in Cells /\ stale' \in BOOLEAN
         /\ ~stale' => ~stale /\ n <= Gap(out, iter)
<1> USE AccumulatorAssumption
<1>1. out + n \in 0..2*TotalSize-1
  BY DEF AccTypes, Cells
<1>2. out' = Wrapped(out + n) /\ out' \in Cells
  BY <1>1, WrappedIsRemainder DEF MoveOut
<1>3. /\ (iter + TotalSize - out) % TotalSize = Gap(out, iter)
      /\ Gap(out, iter) \in Nat
  BY GapIsDistance DEF AccTypes
<1>4. stale' = (stale \/ n > Gap(out, iter))
  BY <1>3 DEF MoveOut
<1>5. stale' \in BOOLEAN
  BY <1>4 DEF AccTypes
<1>6. ASSUME ~stale'
      PROVE  ~stale /\ n <= Gap(out, iter)
  <2>1. ~stale /\ ~(n > Gap(out, iter))
    BY <1>4, <1>6, Zenon
  <2>2. QED
    BY <1>3, <2>1
<1>7. QED
  BY <1>2, <1>5, <1>6

\* A move of out by what is contained drops the oldest bytes.
LEMMA TakeBytes ==
  ASSUME AccInv, NEW n \in 0..Gap(out, in), MoveOut(n), UNCHANGED <<buf, in, iter>>,
         overrun' \in BOOLEAN, ~overrun' => ~overrun
  PROVE  /\ AccInv'
         /\ BytesFrom(out)' = SubSeq(BytesFrom(out), n + 1, Len(BytesFrom(out)))
<1> USE AccumulatorAssumption
<1>1. /\ buf \in [Cells -> Bytes] /\ in \in Cells /\ out \in Cells /\ iter \in Cells
      /\ AccTypes
  BY DEF AccInv, AccTypes
<1>2. n \in 0..TotalSize-1
  BY <1>1, GapIsDistance
<1>3. /\ out' = Wrapped(out + n) /\ out' \in Cells /\ stale' \in BOOLEAN
      /\ ~stale' => ~stale /\ n <= Gap(out, iter)
  BY <1>1, <1>2, MoveOutParts
<1>4. AccTypes'
  BY <1>1, <1>3 DEF AccTypes
<1>5. IteratorInside'
  <2> SUFFICES ASSUME ~stale', ~overrun'
               PROVE  Gap(out', iter) <= Gap(out', in)
    BY DEF IteratorInside, Gap
  <2>1. n \in 0..Gap(out, iter) /\ Gap(out, iter) <= Gap(out, in)
    BY <1>1, <1>2, <1>3, GapIsDistance DEF AccInv, IteratorInside
  <2>2. Gap(out', iter) = Gap(out, iter) - n /\ Gap(out', in) = Gap(out, in) - n
    BY <1>1, <1>3, <2>1, GapShrinks
  <2>3. Gap(out, iter) \in Nat /\ Gap(out, in) \in Nat
    BY <1>1, GapIsDistance
  <2>4. QED
    BY <2>1, <2>2, <2>3
<1>6. BytesFrom(out) = Slice(buf, out, in) /\ BytesFrom(out)' = Slice(buf, out', in)
  BY <1>1, <1>4, BytesAreSlice
<1>7. Len(BytesFrom(out)) = Gap(out, in)
  BY <1>1, <1>6, SliceParts
<1>8. BytesFrom(out)' = SubSeq(BytesFrom(out), n + 1, Len(BytesFrom(out)))
  BY <1>1, <1>3, <1>6, <1>7, SliceTail
<1>9. QED
  BY <1>4, <1>5, <1>8 DEF AccInv

\* An insert pushes out the oldest bytes that there is no room for.
LEMMA InsertBytes ==
  ASSUME AccInv, NEW bytes \in Seq(Bytes), accumulator_insert(bytes)
  PROVE  /\ AccInv' /\ put' = bytes
         /\ BytesFrom(out)' = Window!Newest(BytesFrom(out) \o bytes, TotalSize - 1)
<1> USE AccumulatorAssumption
<1> DEFINE len == Len(bytes)
           rotate == IF len > BytesLeft(out) THEN len - BytesLeft(out) ELSE 0
           g == Gap(out, in)
<1>1. /\ buf \in [Cells -> Bytes] /\ in \in Cells /\ out \in Cells /\ iter \in Cells
      /\ AccTypes /\ len \in Nat /\ len < TotalSize
  BY DEF AccInv, AccTypes, accumulator_insert
<1>2. /\ MoveOut(rotate) /\ put' = bytes /\ UNCHANGED <<iter, overrun>>
      /\ IF len <= BytesLeft(out')
         THEN buf' = Write(bytes) /\ in' = (in + len) % TotalSize
         ELSE UNCHANGED <<buf, in>>
  BY DEF accumulator_insert
<1>3. g \in 0..TotalSize-1 /\ BytesLeft(out) = TotalSize - 1 - g
  BY <1>1, GapIsDistance, ContainedIsGap
<1>4. /\ rotate \in 0..g /\ rotate \in 0..TotalSize-1
      /\ g - rotate + len <= TotalSize - 1
      /\ rotate = IF g + len <= TotalSize - 1 THEN 0 ELSE g + len - (TotalSize - 1)
  BY <1>1, <1>3
<1> HIDE DEF rotate, g, len
<1>5. /\ out' = Wrapped(out + rotate) /\ out' \in Cells /\ stale' \in BOOLEAN
      /\ ~stale' => ~stale /\ rotate <= Gap(out, iter)
  BY <1>1, <1>2, <1>4, MoveOutParts
<1>6. Gap(out', in) = g - rotate
  BY <1>1, <1>4, <1>5, GapShrinks DEF g
<1>7. len <= BytesLeft(out')
  <2>1. BytesLeft(out') = TotalSize - 1 - Gap(out', in)
    BY <1>1, <1>5, ContainedIsGap
  <2>2. QED
    BY <1>1, <1>3, <1>4, <1>6, <2>1
<1>8. in + len \in 0..2*TotalSize-1
  BY <1>1 DEF Cells
<1>9. in' = Wrapped(in + len)
  BY <1>2, <1>7, <1>8, WrappedIsRemainder
<1>10. buf' = Written(buf, in, bytes)
  BY <1>2, <1>7 DEF Write, Written
<1>11. buf' \in [Cells -> Bytes]
  BY <1>1, <1>10, WrittenParts DEF len
<1>12. /\ in' \in Cells /\ Gap(out', in') = g - rotate + len
       /\ Slice(buf', out', in') = Slice(buf, out', in) \o bytes
  <2>1. Gap(out', in) + Len(bytes) <= TotalSize - 1
    BY <1>4, <1>6 DEF len
  <2>2. buf \in [Cells -> Bytes] /\ out' \in Cells /\ in \in Cells
    BY <1>1, <1>5
  <2>3. /\ Wrapped(in + Len(bytes)) \in Cells
        /\ Gap(out', Wrapped(in + Len(bytes))) = Gap(out', in) + Len(bytes)
        /\ Slice(Written(buf, in, bytes), out', Wrapped(in + Len(bytes)))
             = Slice(buf, out', in) \o bytes
    BY <2>1, <2>2, SliceAppend
  <2>4. QED
    BY <1>6, <1>9, <1>10, <2>3 DEF len
<1>13. AccTypes'
  BY <1>1, <1>2, <1>5, <1>11, <1>12 DEF AccTypes
<1>14. IteratorInside'
  <2> SUFFICES ASSUME ~stale', ~overrun
               PROVE  Gap(out', iter) <= Gap(out', in')
    BY <1>2 DEF IteratorInside, Gap
  <2>1. Gap(out, iter) \in Nat
    BY <1>1, GapIsDistance
  <2>2. rotate \in 0..Gap(out, iter) /\ Gap(out, iter) <= g
    BY <1>4, <1>5, <2>1 DEF AccInv, IteratorInside, g
  <2>3. Gap(out', iter) = Gap(out, iter) - rotate
    BY <1>1, <1>5, <2>2, GapShrinks
  <2>4. QED
    BY <1>1, <1>3, <1>4, <1>12, <2>1, <2>2, <2>3
<1>15. BytesFrom(out) = Slice(buf, out, in) /\ BytesFrom(out)' = Slice(buf', out', in')
  BY <1>1, <1>13, BytesAreSlice
<1> DEFINE w == BytesFrom(out)
<1>16. w \in Seq(Bytes) /\ Len(w) = g
  BY <1>1, <1>15, SliceParts DEF g
<1>17. Slice(buf, out', in) = SubSeq(w, rotate + 1, Len(w))
  <2>1. rotate \in 0..Gap(out, in)
    BY <1>4 DEF g
  <2>2. Slice(buf, Wrapped(out + rotate), in)
          = SubSeq(Slice(buf, out, in), rotate + 1, Gap(out, in))
    BY <1>1, <2>1, SliceTail
  <2>3. QED
    BY <1>5, <1>15, <1>16, <2>2 DEF g
<1>18. BytesFrom(out)' = SubSeq(w \o bytes, rotate + 1, Len(w) + Len(bytes))
  BY <1>4, <1>12, <1>15, <1>16, <1>17, DropThenAppend
<1> HIDE DEF w
<1>19. SubSeq(w \o bytes, rotate + 1, Len(w) + Len(bytes))
         = Window!Newest(w \o bytes, TotalSize - 1)
  <2> DEFINE c == w \o bytes
  <2>1. c \in Seq(Bytes) /\ Len(c) = g + len
    BY <1>16, ConcatParts DEF len
  <2>2. Len(w) + Len(bytes) = g + len
    BY <1>16 DEF len
  <2> HIDE DEF c
  <2>3. CASE g + len <= TotalSize - 1
    <3>1. rotate = 0
      BY <1>4, <2>3
    <3>2. Window!Newest(c, TotalSize - 1) = c
      BY <2>1, <2>3 DEF Window!Newest
    <3>3. SubSeq(c, 1, Len(c)) = c
      BY <2>1
    <3>4. QED
      BY <2>1, <2>2, <3>1, <3>2, <3>3 DEF c
  <2>4. CASE ~(g + len <= TotalSize - 1)
    <3>1. rotate + 1 = (g + len) - (TotalSize - 1) + 1
      BY <1>1, <1>3, <1>4, <2>4
    <3>2. Window!Newest(c, TotalSize - 1)
            = SubSeq(c, (g + len) - (TotalSize - 1) + 1, g + len)
      BY <2>1, <2>4 DEF Window!Newest
    <3>3. QED
      BY <2>2, <3>1, <3>2 DEF c
  <2>5. QED
    BY <2>3, <2>4
<1>20. QED
  BY <1>2, <1>13, <1>14, <1>18, <1>19 DEF AccInv, w
\* An iterator that is moved by no more than is left stays inside.
LEMMA IteratorMoves ==
  ASSUME AccInv, NEW n \in 0..Gap(iter, in), iter' = (iter + n) % TotalSize,
         ~stale /\ ~overrun => Gap(out, iter) + n <= Gap(out, in),
         UNCHANGED <<ring, overrun, stale>>
  PROVE  AccInv'
<1> USE AccumulatorAssumption
<1>1. iter \in Cells /\ in \in Cells /\ out \in Cells
  BY DEF AccInv, AccTypes
<1>2. Gap(iter, in) \in 0..TotalSize-1
  BY <1>1, GapIsDistance
<1>3. iter + n \in 0..2*TotalSize-1
  BY <1>1, <1>2 DEF Cells
<1>4. iter' = Wrapped(iter + n) /\ iter' \in Cells
  BY <1>3, WrappedIsRemainder
<1>5. AccTypes'
  BY <1>4 DEF AccInv, AccTypes, ring
<1>6. ASSUME ~stale, ~overrun
      PROVE  Gap(out, iter') <= Gap(out, in)
  <2>1. Gap(out, iter) + n <= Gap(out, in)
    BY <1>6
  <2>2. QED
    BY <1>1, <1>2, <1>4, <2>1 DEF Gap, Wrapped, Cells
<1>7. IteratorInside'
  BY <1>6 DEF IteratorInside, Gap, ring
<1>8. QED
  BY <1>5, <1>7 DEF AccInv

\* Where the iterator is inside, what follows it ends where the contents end.
LEMMA IteratorRest ==
  ASSUME AccTypes, Gap(out, iter) <= Gap(out, in)
  PROVE  Gap(out, iter) + Gap(iter, in) = Gap(out, in)
  BY AccumulatorAssumption DEF AccTypes, Gap, Cells

\* A call that leaves the ring alone is, for the window, one that takes nothing.
LEMMA NothingTaken ==
  ASSUME AccInv, AccInv', UNCHANGED <<ring, overrun>>, NothingCopied
  PROVE  [Window!Next]_<<BytesFrom(out), put, took, overrun>>
<1> DEFINE w == BytesFrom(out)
<1>1. w' = w
  BY DEF BytesFrom, ring
<1>2. w \in Seq(Bytes)
  <2>1. AccTypes /\ out \in Cells /\ in \in Cells /\ buf \in [Cells -> Bytes]
    BY DEF AccInv, AccTypes
  <2>2. QED
    BY <2>1, BytesAreSlice, SliceParts
<1>3. CASE overrun
  BY <1>3 DEF Window!Next, Window!Break, ring
<1>4. CASE ~overrun
  <2>1. /\ 0 <= Len(w) /\ SubSeq(w, 0 + 1, Len(w)) = w
    BY <1>2
  <2>2. Window!Take(0)
    BY <1>1, <2>1 DEF Window!Take, NothingCopied
  <2>3. 0 \in 0..TotalSize-1
    BY AccumulatorAssumption
  <2>4. QED
    BY <1>4, <2>2, <2>3 DEF Window!Next
<1>5. QED
  BY <1>3, <1>4

\* An extract yields and drops the oldest bytes.
LEMMA ExtractStep ==
  ASSUME AccInv, NEW n \in 0..TotalSize, accumulator_extract(n)
  PROVE  AccInv' /\ Window!Next
<1> USE AccumulatorAssumption
<1> DEFINE w == BytesFrom(out)
<1>1. /\ n <= Gap(out, in) /\ took' = Read(out, n) /\ put' = <<>>
      /\ MoveOut(n) /\ UNCHANGED <<buf, in, iter, overrun>>
  BY ContainedIsGap DEF accumulator_extract
<1>2. /\ AccTypes /\ out \in Cells /\ in \in Cells /\ buf \in [Cells -> Bytes]
      /\ overrun \in BOOLEAN
  BY DEF AccInv, AccTypes
<1>3. Gap(out, in) \in 0..TotalSize-1
  BY <1>2, GapIsDistance
<1>4. n \in 0..Gap(out, in) /\ n \in 0..TotalSize-1
  BY <1>1, <1>3
<1>5. overrun' \in BOOLEAN /\ (~overrun' => ~overrun)
  BY <1>1, <1>2
<1>6. AccInv' /\ w' = SubSeq(w, n + 1, Len(w))
  BY <1>1, <1>4, <1>5, TakeBytes
<1>7. w = Slice(buf, out, in) /\ Len(w) = Gap(out, in)
  BY <1>2, BytesAreSlice, SliceParts
<1>8. /\ Read(out, n) \in Seq(Bytes) /\ Len(Read(out, n)) = n
      /\ \A k \in 1..n : Read(out, n)[k] = buf[Wrapped(out + k - 1)]
  BY <1>2, <1>4, ReadParts
<1>9. took' = SubSeq(w, 1, n)
  BY <1>1, <1>2, <1>4, <1>7, <1>8, SliceFront
<1>10. CASE overrun
  <2>1. overrun' = TRUE
    BY <1>1, <1>2, <1>10
  <2>2. QED
    BY <1>6, <2>1 DEF Window!Next, Window!Break
<1>11. CASE ~overrun
  <2>1. Window!Take(n)
    BY <1>1, <1>6, <1>7, <1>9 DEF Window!Take
  <2>2. n \in 0..TotalSize-1
    BY <1>4
  <2>3. QED
    BY <1>6, <1>11, <2>1, <2>2 DEF Window!Next
<1>12. QED
  BY <1>6, <1>10, <1>11

\* An advance drops bytes as well, or breaks the window.
LEMMA AdvanceStep ==
  ASSUME AccInv, NEW n \in 0..TotalSize, accumulator_advance(n)
  PROVE  AccInv' /\ Window!Next
<1> USE AccumulatorAssumption
<1> DEFINE w == BytesFrom(out)
           len == IF n > TotalSize - 1 THEN TotalSize - 1 ELSE n
<1>1. /\ MoveOut(len) /\ overrun' = (overrun \/ len > Gap(out, in))
      /\ NothingCopied /\ UNCHANGED <<buf, in, iter>>
  BY ContainedIsGap DEF accumulator_advance
<1>2. len \in 0..TotalSize-1
  OBVIOUS
<1> HIDE DEF len
<1>3. /\ AccTypes /\ out \in Cells /\ in \in Cells /\ buf \in [Cells -> Bytes]
      /\ overrun \in BOOLEAN
  BY DEF AccInv, AccTypes
<1>4. Gap(out, in) \in 0..TotalSize-1
  BY <1>3, GapIsDistance
<1>5. overrun' \in BOOLEAN
  BY <1>1, <1>3
<1>6. CASE overrun'
  <2>1. out' \in Cells /\ stale' \in BOOLEAN
    BY <1>1, <1>2, <1>3, MoveOutParts
  <2>2. AccTypes'
    BY <1>1, <1>5, <2>1 DEF AccInv, AccTypes
  <2>3. IteratorInside'
    BY <1>6 DEF IteratorInside
  <2>4. Window!Next
    BY <1>5, <1>6 DEF Window!Next, Window!Break
  <2>5. QED
    BY <2>2, <2>3, <2>4 DEF AccInv
<1>7. CASE ~overrun'
  <2>1. ~overrun /\ ~(len > Gap(out, in))
    BY <1>1, <1>7, Zenon
  <2>2. len \in 0..Gap(out, in)
    BY <1>2, <1>4, <2>1
  <2>3. AccInv' /\ w' = SubSeq(w, len + 1, Len(w))
    BY <1>1, <1>5, <2>1, <2>2, TakeBytes
  <2>4. Len(w) = Gap(out, in)
    BY <1>3, BytesAreSlice, SliceParts
  <2>5. UNCHANGED overrun
    BY <1>3, <1>5, <1>7, <2>1
  <2>6. Window!Take(len)
    BY <1>1, <1>4, <2>2, <2>3, <2>4, <2>5 DEF Window!Take, NothingCopied
  <2>7. QED
    BY <1>2, <2>1, <2>3, <2>6 DEF Window!Next
<1>8. QED
  BY <1>6, <1>7

\* Every step keeps the invariant and is one of the window.
LEMMA AccumulatorStep ==
  ASSUME AccInv, [AccNext]_avars
  PROVE  AccInv' /\ [Window!Next]_<<BytesFrom(out), put, took, overrun>>
<1> USE AccumulatorAssumption
<1> DEFINE w == BytesFrom(out)
<1>1. /\ AccTypes /\ out \in Cells /\ in \in Cells /\ iter \in Cells
      /\ buf \in [Cells -> Bytes] /\ overrun \in BOOLEAN
  BY DEF AccInv, AccTypes
<1>2. ASSUME NEW len \in 0..TotalSize, NEW bytes \in [1..len -> Bytes],
             accumulator_insert(bytes)
      PROVE  AccInv' /\ Window!Next
  <2>1. bytes \in Seq(Bytes)
    BY FunctionIsSeq
  <2>2. /\ AccInv' /\ put' = bytes
        /\ w' = Window!Newest(w \o bytes, TotalSize - 1)
    BY <1>2, <2>1, InsertBytes
  <2>3. took' = <<>> /\ UNCHANGED overrun
    BY <1>2 DEF accumulator_insert
  <2>4. CASE overrun
    BY <2>2, <2>3, <2>4 DEF Window!Next, Window!Break
  <2>5. CASE ~overrun
    BY <2>2, <2>3, <2>5 DEF Window!Next, Window!Push
  <2>6. QED
    BY <2>2, <2>4, <2>5
<1>3. CASE accumulator_clear
  <2>1. /\ in' = 0 /\ out' = 0 /\ overrun' = FALSE /\ stale' = TRUE
        /\ put' = <<>> /\ took' = <<>> /\ UNCHANGED <<buf, iter>>
    BY <1>3 DEF accumulator_clear, NothingCopied
  <2>2. 0 \in Cells
    BY DEF Cells
  <2>3. AccTypes'
    BY <1>1, <2>1, <2>2 DEF AccTypes
  <2>4. AccInv'
    BY <2>1, <2>3 DEF AccInv, IteratorInside
  <2>5. w' = Slice(buf', 0, 0)
    BY <2>1, <2>3, BytesAreSlice
  <2>6. Slice(buf', 0, 0) = <<>>
    BY DEF Slice, Gap
  <2>7. QED
    BY <2>1, <2>4, <2>5, <2>6 DEF Window!Next, Window!Clear
<1>4. CASE accumulator_iterator_init
  <2>1. iter' = out /\ stale' = FALSE /\ NothingCopied /\ UNCHANGED <<ring, overrun>>
    BY <1>4 DEF accumulator_iterator_init
  <2>2. AccTypes'
    BY <1>1, <2>1 DEF AccTypes, ring
  <2>3. Gap(out, out) = 0 /\ Gap(out, in) \in Nat
    BY <1>1, GapIsDistance DEF Gap, Cells
  <2>4. IteratorInside'
    BY <2>1, <2>3 DEF IteratorInside, Gap, ring
  <2>5. QED
    BY <2>1, <2>2, <2>4, NothingTaken DEF AccInv
<1>5. CASE accumulator_iterator_next
  <2>1. /\ in # out /\ iter # in /\ iter' = (iter + 1) % TotalSize
        /\ NothingCopied /\ UNCHANGED <<ring, overrun, stale>>
    BY <1>5 DEF accumulator_iterator_next, IteratorValid
  <2>2. 1 \in 0..Gap(iter, in)
    BY <1>1, <2>1 DEF Gap, Cells
  <2>3. ~stale /\ ~overrun => Gap(out, iter) + 1 <= Gap(out, in)
    BY <1>1, <2>1 DEF AccInv, IteratorInside, Gap, Cells
  <2>4. AccInv'
    BY <2>1, <2>2, <2>3, IteratorMoves
  <2>5. QED
    BY <2>1, <2>4, NothingTaken
<1>6. ASSUME NEW n \in 0..TotalSize, accumulator_iterator_advance(n)
      PROVE  AccInv' /\ [Window!Next]_<<w, put, took, overrun>>
  <2>1. /\ n <= Gap(iter, in) /\ iter' = (iter + n) % TotalSize
        /\ NothingCopied /\ UNCHANGED <<ring, overrun, stale>>
    BY <1>6, ContainedIsGap DEF accumulator_iterator_advance
  <2>2. Gap(iter, in) \in Nat /\ Gap(out, iter) \in Nat
    BY <1>1, GapIsDistance
  <2>3. n \in 0..Gap(iter, in)
    BY <2>1, <2>2
  <2>4. ASSUME ~stale, ~overrun
        PROVE  Gap(out, iter) + n <= Gap(out, in)
    <3>1. Gap(out, iter) + Gap(iter, in) = Gap(out, in)
      BY <1>1, <2>4, IteratorRest DEF AccInv, IteratorInside
    <3>2. QED
      BY <2>1, <2>2, <3>1
  <2>5. AccInv'
    BY <2>1, <2>3, <2>4, IteratorMoves
  <2>6. QED
    BY <2>1, <2>5, NothingTaken
<1>7. CASE UNCHANGED avars
  <2>1. UNCHANGED <<w, put, took, overrun>>
    BY <1>7 DEF avars, BytesFrom
  <2>2. AccInv'
    BY <1>7 DEF avars, AccInv, AccTypes, IteratorInside, Gap
  <2>3. QED
    BY <2>1, <2>2
<1>8. QED
  BY <1>2, <1>3, <1>4, <1>5, <1>6, <1>7, ExtractStep, AdvanceStep DEF AccNext

\* The accumulator begins empty.
LEMMA AccumulatorInit ==
  ASSUME AccInit
  PROVE  AccInv /\ Window!Init
<1> USE AccumulatorAssumption
<1>1. 0 \in Cells
  BY DEF Cells
<1>2. buf \in [Cells -> Bytes]
  BY DEF AccInit, Cells
<1>3. AccTypes
  BY <1>1, <1>2 DEF AccInit, AccTypes
<1>4. IteratorInside
  BY DEF AccInit, IteratorInside, Gap
<1>5. BytesFrom(out) = Slice(buf, 0, 0)
  BY <1>1, <1>3, BytesAreSlice DEF AccInit
<1>6. Slice(buf, 0, 0) = <<>>
  BY DEF Slice, Gap
<1>7. QED
  BY <1>3, <1>4, <1>5, <1>6 DEF AccInv, Window!Init, AccInit

\* accumulator_insert, extract, advance and clear implement a window over the
\* newest bytes, for every size of the buffer: each copy in two parts and each
\* rotation of out is a push or a take of the bytes in order.
THEOREM AccumulatorKeepsNewest == AccSpec => AccumulatorWindow
<1>1. AccInit => AccInv /\ Window!Init
  BY AccumulatorInit
<1>2. AccInv /\ [AccNext]_avars
        => AccInv' /\ [Window!Next]_<<BytesFrom(out), put, took, overrun>>
  BY AccumulatorStep
<1>3. QED
  BY <1>1, <1>2, PTL DEF AccSpec, AccumulatorWindow, Window!Spec

\* accumulator_peek_at through an iterator that out has not passed reads what is
\* contained from it on, for every size of the buffer and of the request.
THEOREM IteratorStaysInside == AccSpec => []IteratorReads
<1> USE AccumulatorAssumption
<1>1. AccInit => AccInv
  BY AccumulatorInit
<1>2. AccInv /\ [AccNext]_avars => AccInv'
  BY AccumulatorStep
<1>3. AccInv => IteratorReads
  <2> SUFFICES ASSUME AccInv, ~stale, ~overrun
               PROVE  /\ (iter + TotalSize - out) % TotalSize <= BytesContained
                      /\ \A n \in 0..TotalSize :
                          LET rest == BytesFrom(iter)
                          IN  PeekAt(iter, n)
                                = SubSeq(rest, 1, IF n > Len(rest) THEN Len(rest) ELSE n)
    BY DEF IteratorReads
  <2>1. /\ AccTypes /\ out \in Cells /\ in \in Cells /\ iter \in Cells
        /\ buf \in [Cells -> Bytes]
    BY DEF AccInv, AccTypes
  <2>2. (iter + TotalSize - out) % TotalSize <= BytesContained
    BY <2>1, GapIsDistance, ContainedIsGap DEF AccInv, IteratorInside
  <2>3. ASSUME NEW n \in 0..TotalSize
        PROVE  LET rest == BytesFrom(iter)
               IN  PeekAt(iter, n)
                     = SubSeq(rest, 1, IF n > Len(rest) THEN Len(rest) ELSE n)
    <3> DEFINE g == Gap(iter, in)
               len == IF n > g THEN g ELSE n
               r == Read(iter, len)
    <3>1. g \in 0..TotalSize-1 /\ iter < TotalSize /\ iter \in Int
      <4>1. g \in 0..TotalSize-1
        BY <2>1, GapIsDistance
      <4>2. iter < TotalSize /\ iter \in Int
        BY <2>1 DEF Cells
      <4>3. QED
        BY <4>1, <4>2
    <3>2. PeekAt(iter, n) = r
      BY <3>1, ContainedIsGap DEF PeekAt
    <3>3. BytesFrom(iter) = Slice(buf, iter, in) /\ Len(Slice(buf, iter, in)) = g
      BY <2>1, BytesAreSlice, SliceParts
    <3>4. len \in 0..g /\ len \in 0..TotalSize-1
      BY <3>1
    <3> HIDE DEF len
    <3>5. /\ r \in Seq(Bytes) /\ Len(r) = len
          /\ \A k \in 1..len : r[k] = buf[Wrapped(iter + k - 1)]
      BY <2>1, <3>4, ReadParts
    <3> HIDE DEF r
    <3>6. r = SubSeq(Slice(buf, iter, in), 1, len)
      BY <2>1, <3>4, <3>5, SliceFront
    <3>7. QED
      BY <3>2, <3>3, <3>6 DEF len, r
  <2>4. QED
    BY <2>2, <2>3
<1>4. QED
  BY <1>1, <1>2, <1>3, PTL DEF AccSpec
=============================================================================
