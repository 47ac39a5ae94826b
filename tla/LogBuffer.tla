------------------------------ MODULE LogBuffer ------------------------------
(***************************************************************************)
(* The log buffer (src/log_buffer.c) as operators on its control block: a  *)
(* ring of characters with one place left free, whose pushes leave out the *)
(* ANSI escape sequences, carriage returns and NULs of what is logged and  *)
(* overwrite the oldest characters.                                        *)
(***************************************************************************)
EXTENDS Integers, Sequences, FiniteSets, SequencesExt

CONSTANTS
    BufferSize,         \* bufferSize
    MaxLineLength,      \* LOG_MAX_LINE_LENGTH
    Word                \* 2^32

\* What the filter tells apart of the characters.
Letters == {"a", "b"}
Chars == Letters \union {"1", "esc", "cr", "nul"}

\* log_buffer_init: the escape state is left as it was.
log_buffer_init(lb) == [lb EXCEPT !.head = 0, !.tail = 0]

\* The state of the filter after a character.
EscapeAfter(esc, c) == c = "esc" \/ (esc /\ c \notin Letters)

\* log_buffer_filter_character
Filtered(esc, c) == c = "esc" \/ esc \/ c = "cr"

Step(i) == IF i + 1 < BufferSize THEN i + 1 ELSE 0

log_buffer_char_push(lb, c) ==
    IF c = "nul" THEN lb
    ELSE LET head == Step(lb.head)
         IN  [lb EXCEPT !.buf[lb.head] = c,
                        !.head = head,
                        !.tail = IF head = @ THEN Step(@) ELSE @]

\* One character of a string.
PushOne(lb, c) ==
    LET e == [lb EXCEPT !.esc = EscapeAfter(lb.esc, c)]
    IN  IF Filtered(lb.esc, c) THEN e ELSE log_buffer_char_push(e, c)


\* A string that could not fit is refused.
log_buffer_push(lb, s) ==
    IF Len(s) < BufferSize THEN FoldLeft(PushOne, lb, s) ELSE lb

log_buffer_is_empty(lb) == lb.head = lb.tail

\* log_buffer_char_pop, of a ring that is not empty
CharPopped(lb) == lb.buf[lb.tail]
log_buffer_char_pop(lb) == [lb EXCEPT !.tail = Step(@)]

log_buffer_clear(lb) == [lb EXCEPT !.head = 0, !.tail = 0]

\* log_buffer_current_size: the initial chunk and the residue.
log_buffer_current_size(lb) ==
    CASE lb.head > lb.tail -> lb.head - lb.tail
      [] lb.head < lb.tail -> (BufferSize - lb.tail) + lb.head
      [] OTHER -> 0

\* In uint32_t: for no byte at all the subtraction wraps around.
log_buffer_lines_from_size(size) ==
    1 + (((size - 1) % Word) \div MaxLineLength)

-----------------------------------------------------------------------------
\* What a text shows, by the definition of an escape sequence: it goes from an
\* escape character up to the first letter after it, that letter included.
Visible(s) ==
    LET InSequence(i) ==
            \E j \in 1..i-1 : s[j] = "esc" /\ \A k \in j..i-1 : s[k] \notin Letters
        Shown == {i \in DOMAIN s : s[i] \notin {"esc", "cr", "nul"} /\ ~InSequence(i)}
    IN  [n \in 1..Cardinality(Shown) |->
            s[CHOOSE i \in Shown : Cardinality({k \in Shown : k <= i}) = n]]
=============================================================================
