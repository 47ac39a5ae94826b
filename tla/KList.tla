-------------------------------- MODULE KList --------------------------------
(***************************************************************************)
(* The macros of the intrusive doubly linked list (inc/cutils/klist.h), as *)
(* operators on memory: a record m with the link fields next and prev of   *)
(* every element, the pointers head[l] of the lists held by their first    *)
(* element and tail[l] of those held by their last.                        *)
(***************************************************************************)
EXTENDS Naturals, Sequences, FiniteSets

CONSTANTS
    Elems,  \* the elements: structures that begin with a KListElem
    Nil,    \* the NULL pointer
    Lists   \* the list variables

ASSUME ListAssumption == Nil \notin Elems /\ IsFiniteSet(Elems)

Pointers == Elems \cup {Nil}

Memory ==
    [next : [Elems -> Pointers], prev : [Elems -> Pointers],
     head : [Lists -> Pointers], tail : [Lists -> Pointers]]

\* Empty lists, elements with cleared links.
Cleared ==
    [next |-> [e \in Elems |-> Nil], prev |-> [e \in Elems |-> Nil],
     head |-> [l \in Lists |-> Nil], tail |-> [l \in Lists |-> Nil]]

\* KLIST_HEAD_PREPEND: on an empty list the element's links are not written.
HeadPrepend(m, l, x) ==
    IF m.head[l] = Nil
    THEN [m EXCEPT !.head[l] = x]
    ELSE [m EXCEPT !.prev = [@ EXCEPT ![m.head[l]] = x, ![x] = Nil],
                   !.next[x] = m.head[l],
                   !.head[l] = x]

\* KLIST_HEAD_POP of a list that is not empty: the new head's prev stays.
HeadPop(m, l) ==
    LET x == m.head[l]
    IN  [m EXCEPT !.head[l] = m.next[x], !.next[x] = Nil, !.prev[x] = Nil]

\* KLIST_TAIL_APPEND: on an empty list the element's links are not written.
TailAppend(m, l, x) ==
    IF m.tail[l] = Nil
    THEN [m EXCEPT !.tail[l] = x]
    ELSE [m EXCEPT !.next = [@ EXCEPT ![m.tail[l]] = x, ![x] = Nil],
                   !.prev[x] = m.tail[l],
                   !.tail[l] = x]

\* KLIST_REMOVE_ELEM
RemoveElem(m, x) ==
    LET n == m.next[x]
        p == m.prev[x]
    IN  [m EXCEPT !.next = [e \in Elems |-> IF e = x THEN Nil
                                            ELSE IF e = p THEN n ELSE @[e]],
                  !.prev = [e \in Elems |-> IF e = x THEN Nil
                                            ELSE IF e = n THEN p ELSE @[e]]]

\* KLIST_HEAD_REMOVE_ELEM
HeadRemoveElem(m, l, x) ==
    RemoveElem(IF m.head[l] = x THEN [m EXCEPT !.head[l] = m.next[x]] ELSE m, x)

\* Mutation: the tail pointer is not moved.
TailRemoveElemKeepsTail(m, l, x) == RemoveElem(m, x)

\* KLIST_TAIL_REMOVE_ELEM
TailRemoveElem(m, l, x) ==
    RemoveElem(IF m.tail[l] = x THEN [m EXCEPT !.tail[l] = m.prev[x]] ELSE m, x)

-----------------------------------------------------------------------------
First(s) == IF s = <<>> THEN Nil ELSE s[1]
Last(s) == IF s = <<>> THEN Nil ELSE s[Len(s)]

\* Following the links of m from the first to the last element of s and back
\* gives s and nothing else. What the first element's prev holds is left open.
Linked(m, s) ==
    \A i \in 1..Len(s) :
        /\ m.next[s[i]] = IF i = Len(s) THEN Nil ELSE s[i + 1]
        /\ i > 1 => m.prev[s[i]] = s[i - 1]

HeldByHead(m, l, s) == m.head[l] = First(s) /\ Linked(m, s)

HeldByTail(m, l, s) ==
    /\ m.tail[l] = Last(s)
    /\ Linked(m, s)
    /\ s # <<>> => m.prev[s[1]] = Nil

\* s without x, which is in it.
Without(s, x) ==
    LET i == CHOOSE j \in 1..Len(s) : s[j] = x
    IN  [k \in 1..Len(s) - 1 |-> IF k < i THEN s[k] ELSE s[k + 1]]

Members(s) == {s[i] : i \in 1..Len(s)}
=============================================================================
