------------------------------ MODULE RingBuffer ------------------------------
(***************************************************************************)
(* The ring buffer (src/ring_buffer.c, inc/cutils/ring_buffer.h) between   *)
(* one reading and one writing thread that share its two offsets without a *)
(* lock. The offsets count the bytes of the whole stream in 64 bits and    *)
(* are taken modulo the size for a place in the buffer; the ranges that    *)
(* clients see hold them in 32 bits. A step is one access to an offset of  *)
(* the other thread, or one byte of a copy. A byte is its position in the  *)
(* stream.                                                                 *)
(***************************************************************************)
EXTENDS Integers, Sequences

CONSTANTS
    Size,           \* size_in_bytes
    Word,           \* 2^32
    Offsets,        \* the offsets the buffer is reset at
    MaxOffset       \* bound: how far the stream goes

ASSUME SizeAssumption == Size \in Nat \ {0}
ASSUME WordAssumption == Word \in Nat /\ Word > Size
ASSUME OffsetsAssumption == Offsets \subseteq Nat /\ MaxOffset \in Nat

VARIABLES
    data,           \* the bytes of the buffer
    read_offset,
    write_offset,
    wr,             \* the writing thread: its step, its bytes and its copy
    rd              \* the reading thread: its step, its request and its copy

rbvars == <<data, read_offset, write_offset, wr, rd>>

Stale == -1         \* a byte from before the last reset

Places == 0..Size-1
Empty == [p \in Places |-> Stale]

Min2(a, b) == IF a < b THEN a ELSE b

IdleWriter == [pc |-> "idle", size |-> 0, n |-> 0, k |-> 0]
IdleReader ==
    [pc |-> "idle", location |-> 0, length |-> 0, peek |-> FALSE,
     range |-> [location |-> 0, length |-> 0], base |-> 0, n |-> 0, got |-> <<>>]

\* create_ring_buffer, in storage that holds zeroes
RingInit ==
    /\ data = Empty
    /\ read_offset = 0 /\ write_offset = 0
    /\ wr = IdleWriter /\ rd = IdleReader

\* ring_buffer_get_bytes_available_for_read, .._for_write
AvailableForRead == (write_offset - read_offset) % Word
AvailableForWrite == Size - AvailableForRead

\* ring_buffer_get_current_data_range
CurrentRange == [location |-> read_offset % Word, length |-> AvailableForRead]

location_in_data_range(loc, range) ==
    loc >= range.location /\ loc - range.location < range.length
max_data_range(range) == (range.location + range.length) % Word

\* Where byte k of n from place p on is: in the part up to the end of the
\* buffer or in the part from its start.
Region(p, n, k) ==
    LET remaining == Size - p
    IN  IF n > remaining /\ k >= remaining THEN k - remaining ELSE p + k

-----------------------------------------------------------------------------
\* ring_buffer_write_data: a first look at the room.
WriteBegin(size) ==
    /\ wr.pc = "idle" /\ size > 0
    /\ AvailableForWrite # 0
    /\ wr' = [wr EXCEPT !.pc = "plan", !.size = size]
    /\ UNCHANGED <<data, read_offset, write_offset, rd>>

\* Mutation: the bytes are not clipped to the room.
WritePlanUnclipped ==
    /\ wr.pc = "plan"
    /\ wr' = [wr EXCEPT !.pc = "copy", !.n = wr.size, !.k = 0]
    /\ UNCHANGED <<data, read_offset, write_offset, rd>>

\* A second look decides how many bytes are written.
WritePlan ==
    /\ wr.pc = "plan"
    /\ wr' = [wr EXCEPT !.pc = "copy",
                        !.n = Min2(wr.size, AvailableForWrite), !.k = 0]
    /\ UNCHANGED <<data, read_offset, write_offset, rd>>

WriteByte ==
    /\ wr.pc = "copy" /\ wr.k < wr.n
    /\ data' = [data EXCEPT ![Region(write_offset % Size, wr.n, wr.k)] =
                    write_offset + wr.k]
    /\ wr' = [wr EXCEPT !.k = @ + 1]
    /\ UNCHANGED <<read_offset, write_offset, rd>>

\* The write offset is published, and the client called with the range.
WriteEnd ==
    /\ wr.pc = "copy" /\ wr.k = wr.n
    /\ write_offset' = write_offset + wr.n
    /\ wr' = IdleWriter
    /\ UNCHANGED <<data, read_offset, rd>>

-----------------------------------------------------------------------------
\* ring_buffer_get_data_at_range: the current range is looked at. With a
\* location outside of it nothing is returned.
GetBegin(location, length, peek) ==
    /\ rd.pc = "idle"
    /\ location_in_data_range(location, CurrentRange)
    /\ rd' = [rd EXCEPT !.pc = "take", !.location = location, !.length = length,
                        !.peek = peek, !.range = CurrentRange]
    /\ UNCHANGED <<data, read_offset, write_offset, wr>>

\* Mutation: the bytes are not clipped to what is there.
BytesToReadUnclipped(length, range) == length

BytesToRead(length, range) == Min2(length, range.length)

\* The asserts at the end of ring_buffer_get_data_at_range.
Consistent(n) ==
    LET move_offset == (rd.location - rd.range.location) % Word
    IN  /\ (rd.range.location + move_offset) % Word = rd.location
        /\ (rd.location + n) % Word <= max_data_range(rd.range)

\* The regions of the data are worked out and, unless it only peeks, the bytes
\* are given back: before the client copies them. The client is called.
GetEnd ==
    /\ rd.pc = "take"
    /\ LET move_offset == (rd.location - rd.range.location) % Word
           n == BytesToRead(rd.length, rd.range)
       IN  IF Consistent(n)
           THEN /\ rd' = [rd EXCEPT !.pc = "copy", !.base = read_offset + move_offset,
                                    !.n = n, !.got = <<>>]
                /\ read_offset' = IF rd.peek THEN read_offset ELSE read_offset + n
           ELSE /\ rd' = [rd EXCEPT !.pc = "aborted"]
                /\ UNCHANGED read_offset
    /\ UNCHANGED <<data, write_offset, wr>>

\* copy_ring_data_to_buffer
CopyByte ==
    /\ rd.pc = "copy" /\ Len(rd.got) < rd.n
    /\ rd' = [rd EXCEPT !.got =
                Append(@, data[Region(rd.base % Size, rd.n, Len(rd.got))])]
    /\ UNCHANGED <<data, read_offset, write_offset, wr>>

\* The client is done with the data, copied or not.
CopyEnd ==
    /\ rd.pc = "copy"
    /\ rd' = IdleReader
    /\ UNCHANGED <<data, read_offset, write_offset, wr>>

\* Also between a peek and the end of its copy.
ring_buffer_clear_data(length) ==
    /\ rd.pc \in {"idle", "copy"}
    /\ read_offset' = read_offset + Min2(length, AvailableForRead)
    /\ UNCHANGED <<data, write_offset, wr, rd>>

\* ring_buffer_release too; both threads are out of the buffer.
ring_buffer_reset_at_offset(offset) ==
    /\ wr.pc = "idle" /\ rd.pc = "idle"
    /\ read_offset' = offset /\ write_offset' = offset
    /\ data' = Empty
    /\ UNCHANGED <<wr, rd>>

-----------------------------------------------------------------------------
RingNext ==
    \/ \E size \in 1..Size+1 : write_offset + size <= MaxOffset /\ WriteBegin(size)
    \/ WritePlan
    \/ WriteByte
    \/ WriteEnd
    \/ \E location \in 0..Word-1, length \in 0..Size+1, peek \in BOOLEAN :
            GetBegin(location, length, peek)
    \/ GetEnd
    \/ CopyByte
    \/ CopyEnd
    \/ \E length \in 1..Size+1 : ring_buffer_clear_data(length)
    \/ \E offset \in Offsets : ring_buffer_reset_at_offset(offset)

RingSpec == RingInit /\ [][RingNext]_rbvars

-----------------------------------------------------------------------------
\* The request begins behind the read offset and asks for more than follows.
BeginsBehind ==
    /\ rd.location > rd.range.location
    /\ rd.location + rd.length > rd.range.location + rd.range.length

\* Although neither thread locks, every byte between the offsets is in its
\* place, through every wrap-around, there are never more of them than the
\* buffer holds, and the byte a reader copies is the one of the stream at its
\* place or one that it has given back before. The exception is a request that
\* begins behind the read offset, asks for more than follows and ends beyond the
\* last offset that 32 bits hold: the asserts let it pass.
BytesIntact ==
    /\ read_offset <= write_offset /\ write_offset - read_offset <= Size
    /\ \A p \in read_offset..write_offset-1 : data[p % Size] = p
    /\ rd.pc = "copy" /\ ~(BeginsBehind /\ rd.location + rd.n >= Word) =>
        \A k \in DOMAIN rd.got :
            LET p == rd.base + k - 1 IN rd.got[k] = p \/ p < read_offset

\* The asserts of ring_buffer_get_data_at_range fail in two cases and in no other:
\* a request that begins behind the read offset and asks for more than follows
\* (PartialServed is about it), and a range that reaches beyond the last offset
\* that 32 bits hold, where the sums compared wrap around. Whatever the writer
\* does between the two looks at the range, every other request finds them true.
RangeAssertions ==
    rd.pc = "aborted" =>
        \/ BeginsBehind
        \/ rd.range.location + rd.range.length >= Word

\* ring_buffer.h, lines 239-241: a request returns "less data than the requested
\* amount, in case the buffer only had a portion of the requested data". So a
\* request within a range that is far from the end of 32 bits is served.
PartialServed ==
    rd.pc = "aborted" => rd.range.location + rd.range.length >= Word
=============================================================================
