----------------------------- MODULE Accumulator -----------------------------
(***************************************************************************)
(* The accumulator (inc/cutils/accumulator.h): a ring of bytes with one    *)
(* place left free between in and out, so that in = out says empty, and an *)
(* insert that rotates the oldest bytes out. It is not synchronised: one   *)
(* client makes the calls, and keeps an iterator across them.              *)
(***************************************************************************)
EXTENDS Integers, Sequences

CONSTANTS
    Bytes,      \* the values of a byte
    TotalSize   \* total_buffer_size

ASSUME AccumulatorAssumption == TotalSize \in Nat \ {0}

VARIABLES
    buf,        \* the bytes, by offset
    in,         \* where the next byte goes
    out,        \* where the oldest byte is
    iter,       \* the client's iterator
    put,        \* history: the bytes of the last call, if it was an insert
    took,       \* what it copied to the client, if it was an extract
    overrun,    \* history: accumulator_advance went beyond what was contained
    stale       \* history: out has been moved past the iterator

ring == <<buf, in, out>>
avars == <<buf, in, out, iter, put, took, overrun, stale>>

\* accumulator_create
AccInit ==
    /\ buf \in {[i \in 0..TotalSize-1 |-> b] : b \in Bytes}
    /\ in = 0 /\ out = 0
    /\ iter = 0 /\ put = <<>> /\ took = <<>>
    /\ overrun = FALSE /\ stale = FALSE

\* accumulator_bytes_left, when out is o
BytesLeft(o) == (IF in >= o THEN TotalSize - (in - o) ELSE o - in) - 1

\* accumulator_bytes_contained_from, accumulator_bytes_contained
BytesContainedFrom(i) == IF in >= i THEN in - i ELSE TotalSize - (i - in)
BytesContained == BytesContainedFrom(out)

\* A copy out of the ring in one memcpy or, past its end, in two.
Read(i, n) ==
    LET Part(a, m) == [k \in 1..m |-> buf[a + k - 1]]
    IN  IF i + n > TotalSize
        THEN Part(i, TotalSize - i) \o Part(0, n - (TotalSize - i))
        ELSE Part(i, n)

\* Mutation: the second memcpy starts at the first byte again.
WriteAgain(bytes) ==
    LET first == TotalSize - in
    IN  [i \in DOMAIN buf |->
            CASE i >= in /\ i - in < Len(bytes) -> bytes[i - in + 1]
              [] i < Len(bytes) - first -> bytes[i + 1]
              [] OTHER -> buf[i]]

\* A copy into the ring, likewise.
Write(bytes) ==
    LET first == TotalSize - in
    IN  [i \in DOMAIN buf |->
            CASE i >= in /\ i - in < Len(bytes) -> bytes[i - in + 1]
              [] i < Len(bytes) - first -> bytes[first + i + 1]
              [] OTHER -> buf[i]]

\* out moves on by n bytes, n of them being given up.
MoveOut(n) ==
    /\ out' = (out + n) % TotalSize
    /\ stale' = (stale \/ n > (iter + TotalSize - out) % TotalSize)

NothingCopied == put' = <<>> /\ took' = <<>>

\* An insert of a whole buffer or more is refused. Without room for the bytes
\* out is rotated, by as many as are missing.
accumulator_insert(bytes) ==
    LET size == Len(bytes)
        rotate == IF size > BytesLeft(out) THEN size - BytesLeft(out) ELSE 0
    IN  /\ size < TotalSize
        /\ MoveOut(rotate)
        /\ IF size <= BytesLeft(out')
           THEN buf' = Write(bytes) /\ in' = (in + size) % TotalSize
           ELSE UNCHANGED <<buf, in>>
        /\ put' = bytes /\ took' = <<>>
        /\ UNCHANGED <<iter, overrun>>

\* accumulator_peek, and out is moved on.
accumulator_extract(n) ==
    /\ n <= BytesContained
    /\ took' = Read(out, n) /\ put' = <<>>
    /\ MoveOut(n)
    /\ UNCHANGED <<buf, in, iter, overrun>>

\* The size is clipped to the ring, not to what it contains.
accumulator_advance(n) ==
    LET size == IF n > TotalSize - 1 THEN TotalSize - 1 ELSE n
    IN  /\ MoveOut(size)
        /\ overrun' = (overrun \/ size > BytesContained)
        /\ NothingCopied
        /\ UNCHANGED <<buf, in, iter>>

accumulator_clear ==
    /\ in' = 0 /\ out' = 0
    /\ overrun' = FALSE /\ stale' = TRUE
    /\ NothingCopied
    /\ UNCHANGED <<buf, iter>>

accumulator_iterator_init ==
    /\ iter' = out /\ stale' = FALSE
    /\ NothingCopied
    /\ UNCHANGED <<ring, overrun>>

IteratorValid(i) == in # out /\ i # in

accumulator_iterator_next ==
    /\ IteratorValid(iter)
    /\ iter' = (iter + 1) % TotalSize
    /\ NothingCopied
    /\ UNCHANGED <<ring, overrun, stale>>

\* Mutation: the iterator may be moved by more than is left.
AdvanceUnchecked(n) ==
    /\ (iter + n) % TotalSize # in
    /\ iter' = (iter + n) % TotalSize
    /\ NothingCopied
    /\ UNCHANGED <<ring, overrun, stale>>

\* Unlike accumulator_iterator_next it does not move to the end.
accumulator_iterator_advance(n) ==
    /\ n <= BytesContainedFrom(iter)
    /\ (iter + n) % TotalSize # in
    /\ iter' = (iter + n) % TotalSize
    /\ NothingCopied
    /\ UNCHANGED <<ring, overrun, stale>>

\* What accumulator_peek_at copies.
PeekAt(i, n) ==
    IF i >= TotalSize THEN <<>>
    ELSE Read(i, IF n > BytesContainedFrom(i) THEN BytesContainedFrom(i) ELSE n)

AccNext ==
    \/ \E size \in 0..TotalSize : \E bytes \in [1..size -> Bytes] : accumulator_insert(bytes)
    \/ \E n \in 0..TotalSize : accumulator_extract(n)
    \/ \E n \in 0..TotalSize : accumulator_advance(n)
    \/ \E n \in 0..TotalSize : accumulator_iterator_advance(n)
    \/ accumulator_clear
    \/ accumulator_iterator_init
    \/ accumulator_iterator_next

AccSpec == AccInit /\ [][AccNext]_avars

-----------------------------------------------------------------------------
\* The bytes from i up to in, by the definition of a ring.
BytesFrom(i) ==
    [k \in 1..((in + TotalSize - i) % TotalSize) |-> buf[(i + k - 1) % TotalSize]]

Window ==
    INSTANCE SlidingWindow
        WITH Capacity <- TotalSize - 1, window <- BytesFrom(out), broken <- overrun

\* The accumulator keeps the newest TotalSize - 1 bytes in order, through every
\* wrap-around of in, of out and of both copies, and accumulator_extract yields
\* the oldest of them: up to an accumulator_advance beyond what is contained.
AccumulatorWindow == Window!Spec

\* As long as the byte an iterator stands at has not been given up, the iterator
\* is inside what is contained, and accumulator_peek_at through it reads that
\* part of it and nothing beyond.
IteratorReads ==
    ~stale /\ ~overrun =>
        /\ (iter + TotalSize - out) % TotalSize <= BytesContained
        /\ \A n \in 0..TotalSize :
            LET rest == BytesFrom(iter)
            IN  PeekAt(iter, n) = SubSeq(rest, 1, IF n > Len(rest) THEN Len(rest) ELSE n)
=============================================================================
