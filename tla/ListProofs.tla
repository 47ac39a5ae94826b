------------------------------ MODULE ListProofs ------------------------------
(***************************************************************************)
(* Proofs about the intrusive list and its two users: what the macros of   *)
(* klist.h do to a list of any length, and from that, that KQueue and      *)
(* Notifier keep their lists intact, for any number of elements, lists,    *)
(* categories and threads. The two users are independent: no proof about   *)
(* one cites the assumption on the constants of the other.                 *)
(***************************************************************************)
EXTENDS KQueue, Notifier, FiniteSetTheorems, TLAPS

-----------------------------------------------------------------------------
(* The macros, as what they write.                                         *)

\* No element is in s twice.
Injective(s) == \A i, j \in 1..Len(s) : s[i] = s[j] => i = j

\* The links of u and v differ at most on S.
LinksKept(u, v, S) ==
    \A e \in Elems \ S : v.next[e] = u.next[e] /\ v.prev[e] = u.prev[e]

\* The pointers of u and v differ at most for l.
PointersKept(u, v, l) ==
    \A k \in Lists \ {l} : v.head[k] = u.head[k] /\ v.tail[k] = u.tail[k]

\* An element with cleared links.
Loose(u, x) == u.next[x] = Nil /\ u.prev[x] = Nil

\* KLIST_HEAD_PREPEND, field by field.
LEMMA HeadPrependParts ==
  ASSUME NEW u \in Memory, NEW l \in Lists, NEW x \in Elems
  PROVE  LET v == HeadPrepend(u, l, x)
         IN  /\ v \in Memory
             /\ v.head = [u.head EXCEPT ![l] = x] /\ v.tail = u.tail
             /\ u.head[l] = Nil => v.next = u.next /\ v.prev = u.prev
             /\ u.head[l] # Nil =>
                  /\ u.head[l] \in Elems
                  /\ v.next = [u.next EXCEPT ![x] = u.head[l]]
                  /\ v.prev = [u.prev EXCEPT ![u.head[l]] = x, ![x] = Nil]
  BY DEF HeadPrepend, Memory, Pointers

\* KLIST_HEAD_POP, field by field.
LEMMA HeadPopParts ==
  ASSUME NEW u \in Memory, NEW l \in Lists, u.head[l] \in Elems
  PROVE  LET v == HeadPop(u, l)
             x == u.head[l]
         IN  /\ v \in Memory
             /\ v.head = [u.head EXCEPT ![l] = u.next[x]] /\ v.tail = u.tail
             /\ v.next = [u.next EXCEPT ![x] = Nil]
             /\ v.prev = [u.prev EXCEPT ![x] = Nil]
  BY DEF HeadPop, Memory, Pointers

\* KLIST_TAIL_APPEND, field by field.
LEMMA TailAppendParts ==
  ASSUME NEW u \in Memory, NEW l \in Lists, NEW x \in Elems
  PROVE  LET v == TailAppend(u, l, x)
         IN  /\ v \in Memory
             /\ v.tail = [u.tail EXCEPT ![l] = x] /\ v.head = u.head
             /\ u.tail[l] = Nil => v.next = u.next /\ v.prev = u.prev
             /\ u.tail[l] # Nil =>
                  /\ u.tail[l] \in Elems
                  /\ v.next = [u.next EXCEPT ![u.tail[l]] = x, ![x] = Nil]
                  /\ v.prev = [u.prev EXCEPT ![x] = u.tail[l]]
  BY DEF TailAppend, Memory, Pointers

\* KLIST_REMOVE_ELEM, field by field.
LEMMA RemoveElemParts ==
  ASSUME NEW u \in Memory, NEW x \in Elems
  PROVE  LET v == RemoveElem(u, x)
         IN  /\ v \in Memory
             /\ v.head = u.head /\ v.tail = u.tail
             /\ \A e \in Elems :
                  /\ v.next[e] = IF e = x THEN Nil
                                 ELSE IF e = u.prev[x] THEN u.next[x] ELSE u.next[e]
                  /\ v.prev[e] = IF e = x THEN Nil
                                 ELSE IF e = u.next[x] THEN u.prev[x] ELSE u.prev[e]
  BY DEF RemoveElem, Memory, Pointers

-----------------------------------------------------------------------------
(* Sequences.                                                              *)

\* The elements of a sequence of elements.
LEMMA MembersOf ==
  ASSUME NEW s \in Seq(Elems)
  PROVE  /\ Len(s) \in Nat
         /\ \A i \in 1..Len(s) : s[i] \in Elems /\ s[i] \in Members(s)
         /\ \A e \in Members(s) : e \in Elems /\ \E i \in 1..Len(s) : s[i] = e
         /\ Members(s) \subseteq Elems
  BY DEF Members

\* A new first element.
LEMMA ConsProperties ==
  ASSUME NEW s \in Seq(Elems), NEW x \in Elems
  PROVE  LET w == <<x>> \o s
         IN  /\ w \in Seq(Elems) /\ Len(w) = Len(s) + 1 /\ w[1] = x
             /\ \A i \in 2..Len(w) : w[i] = s[i - 1]
             /\ Members(w) = Members(s) \union {x}
             /\ Injective(s) /\ x \notin Members(s) => Injective(w)
<1> DEFINE w == <<x>> \o s
<1>1. /\ w \in Seq(Elems) /\ Len(w) = Len(s) + 1 /\ w[1] = x
      /\ \A i \in 2..Len(w) : w[i] = s[i - 1]
  OBVIOUS
<1> HIDE DEF w
<1>2. Members(w) = Members(s) \union {x}
  <2>1. \A i \in 1..Len(w) : w[i] \in Members(s) \union {x}
    BY <1>1, MembersOf
  <2>2. x \in Members(w)
    BY <1>1, MembersOf DEF Members
  <2>3. \A i \in 1..Len(s) : s[i] = w[i + 1] /\ i + 1 \in 1..Len(w)
    BY <1>1, MembersOf
  <2>4. \A e \in Members(s) : e \in Members(w)
    BY <2>3 DEF Members
  <2>5. QED
    BY <2>1, <2>2, <2>4 DEF Members
<1>3. ASSUME Injective(s), x \notin Members(s) PROVE Injective(w)
  <2>1. \A i \in 2..Len(w) : i - 1 \in 1..Len(s) /\ w[i] # x
    BY <1>1, <1>3, MembersOf
  <2>2. \A i, j \in 2..Len(w) : w[i] = w[j] => i = j
    BY <1>1, <1>3, <2>1 DEF Injective
  <2>3. QED
    BY <1>1, <2>1, <2>2 DEF Injective
<1>4. QED
  BY <1>1, <1>2, <1>3 DEF w

\* A new last element.
LEMMA AppendProperties ==
  ASSUME NEW s \in Seq(Elems), NEW x \in Elems
  PROVE  LET w == Append(s, x)
         IN  /\ w \in Seq(Elems) /\ Len(w) = Len(s) + 1 /\ w[Len(w)] = x
             /\ \A i \in 1..Len(s) : w[i] = s[i]
             /\ Members(w) = Members(s) \union {x}
             /\ Injective(s) /\ x \notin Members(s) => Injective(w)
<1> DEFINE w == Append(s, x)
<1>1. /\ w \in Seq(Elems) /\ Len(w) = Len(s) + 1 /\ w[Len(w)] = x
      /\ \A i \in 1..Len(s) : w[i] = s[i]
  OBVIOUS
<1> HIDE DEF w
<1>2. Members(w) = Members(s) \union {x}
  <2>1. \A i \in 1..Len(w) : w[i] \in Members(s) \union {x}
    BY <1>1, MembersOf
  <2>2. x \in Members(w)
    BY <1>1, MembersOf DEF Members
  <2>4. \A e \in Members(s) : e \in Members(w)
    BY <1>1 DEF Members
  <2>5. QED
    BY <2>1, <2>2, <2>4 DEF Members
<1>3. ASSUME Injective(s), x \notin Members(s) PROVE Injective(w)
  BY <1>1, <1>3, MembersOf DEF Injective
<1>4. QED
  BY <1>1, <1>2, <1>3 DEF w

\* The sequence without its first element.
LEMMA TailProperties ==
  ASSUME NEW s \in Seq(Elems), s # <<>>, Injective(s)
  PROVE  LET w == Tail(s)
         IN  /\ w \in Seq(Elems) /\ Len(w) = Len(s) - 1
             /\ \A i \in 1..Len(w) : w[i] = s[i + 1]
             /\ Members(w) = Members(s) \ {s[1]}
             /\ s[1] \in Members(s) /\ Injective(w)
<1> DEFINE w == Tail(s)
<1>1. /\ w \in Seq(Elems) /\ Len(w) = Len(s) - 1 /\ Len(s) >= 1
      /\ \A i \in 1..Len(w) : w[i] = s[i + 1]
  OBVIOUS
<1> HIDE DEF w
<1>2. s[1] \in Members(s)
  BY <1>1, MembersOf
<1>3. Injective(w)
  BY <1>1 DEF Injective
<1>4. Members(w) = Members(s) \ {s[1]}
  <2>1. \A i \in 1..Len(w) : w[i] \in Members(s) \ {s[1]}
    BY <1>1, MembersOf DEF Injective
  <2>2. ASSUME NEW e \in Members(s) \ {s[1]} PROVE e \in Members(w)
    <3>1. PICK i \in 1..Len(s) : s[i] = e
      BY MembersOf
    <3>2. i # 1 /\ i - 1 \in 1..Len(w) /\ w[i - 1] = e
      BY <1>1, <3>1
    <3>3. QED
      BY <3>2 DEF Members
  <2>3. QED
    BY <2>1, <2>2 DEF Members
<1>5. QED
  BY <1>1, <1>2, <1>3, <1>4 DEF w

\* The sequence without one of its elements.
LEMMA WithoutProperties ==
  ASSUME NEW s \in Seq(Elems), NEW x \in Members(s), Injective(s)
  PROVE  LET w == Without(s, x)
         IN  /\ w \in Seq(Elems) /\ Len(w) = Len(s) - 1 /\ Len(s) >= 1
             /\ \E i \in 1..Len(s) :
                  /\ s[i] = x
                  /\ \A k \in 1..Len(w) : w[k] = IF k < i THEN s[k] ELSE s[k + 1]
             /\ Members(w) = Members(s) \ {x}
             /\ Injective(w)
<1> DEFINE w == Without(s, x)
           p == CHOOSE j \in 1..Len(s) : s[j] = x
<1>1. p \in 1..Len(s) /\ s[p] = x /\ Len(s) \in Nat
  BY MembersOf
<1>2. w = [k \in 1..Len(s) - 1 |-> IF k < p THEN s[k] ELSE s[k + 1]]
  BY DEF Without
<1> HIDE DEF w, p
<1>3. \A k \in 1..Len(s) - 1 : k \in 1..Len(s) /\ k + 1 \in 1..Len(s)
  BY <1>1
<1>4. \A k \in 1..Len(s) - 1 : w[k] \in Elems
  BY <1>2, <1>3, MembersOf
<1>5. Len(s) - 1 \in Nat
  BY <1>1
<1>6. w \in Seq(Elems) /\ Len(w) = Len(s) - 1
  BY <1>2, <1>4, <1>5
<1>7. \A k \in 1..Len(w) : w[k] = IF k < p THEN s[k] ELSE s[k + 1]
  BY <1>2, <1>6
<1>8. Injective(w)
  BY <1>1, <1>6, <1>7, <1>3 DEF Injective
<1>9. Members(w) = Members(s) \ {x}
  <2>1. ASSUME NEW k \in 1..Len(w) PROVE w[k] \in Members(s) \ {x}
    BY <1>1, <1>3, <1>6, <1>7, MembersOf DEF Injective
  <2>2. ASSUME NEW e \in Members(s) \ {x} PROVE e \in Members(w)
    <3>1. PICK i \in 1..Len(s) : s[i] = e
      BY MembersOf
    <3>2. CASE i < p
      <4>1. i \in 1..Len(w) /\ w[i] = e
        BY <1>1, <1>6, <1>7, <3>1, <3>2
      <4>2. QED
        BY <4>1 DEF Members
    <3>3. CASE i > p
      <4>1. i - 1 \in 1..Len(w) /\ w[i - 1] = e
        BY <1>1, <1>6, <1>7, <3>1, <3>3
      <4>2. QED
        BY <4>1 DEF Members
    <3>4. i # p
      BY <1>1, <3>1
    <3>5. QED
      BY <1>1, <3>2, <3>3, <3>4
  <2>3. QED
    BY <2>1, <2>2 DEF Members
<1>10. QED
  BY <1>1, <1>6, <1>7, <1>8, <1>9 DEF w

-----------------------------------------------------------------------------
(* Lists.                                                                  *)

\* What is written elsewhere does not disturb a list.
LEMMA LinkedFrame ==
  ASSUME NEW u, NEW v, NEW S, NEW s \in Seq(Elems), Linked(u, s),
         LinksKept(u, v, S), Members(s) \intersect S = {}
  PROVE  Linked(v, s)
<1>1. \A i \in 1..Len(s) : v.next[s[i]] = u.next[s[i]] /\ v.prev[s[i]] = u.prev[s[i]]
  BY MembersOf DEF LinksKept
<1>2. QED
  BY <1>1 DEF Linked

\* KLIST_HEAD_PREPEND of a loose element.
LEMMA HeadPrependHolds ==
  ASSUME NEW u \in Memory, NEW l \in Lists, NEW s \in Seq(Elems), NEW x \in Elems,
         HeldByHead(u, l, s), Injective(s), Loose(u, x), x \notin Members(s)
  PROVE  LET v == HeadPrepend(u, l, x)
         IN  /\ v \in Memory
             /\ HeldByHead(v, l, <<x>> \o s)
             /\ LinksKept(u, v, Members(s) \union {x})
             /\ PointersKept(u, v, l)
             /\ v.prev[x] = Nil
<1> DEFINE v == HeadPrepend(u, l, x)
           w == <<x>> \o s
<1>1. /\ v \in Memory
      /\ v.head = [u.head EXCEPT ![l] = x] /\ v.tail = u.tail
      /\ u.head[l] = Nil => v.next = u.next /\ v.prev = u.prev
      /\ u.head[l] # Nil =>
           /\ u.head[l] \in Elems
           /\ v.next = [u.next EXCEPT ![x] = u.head[l]]
           /\ v.prev = [u.prev EXCEPT ![u.head[l]] = x, ![x] = Nil]
  BY HeadPrependParts
<1>2. /\ w \in Seq(Elems) /\ Len(w) = Len(s) + 1 /\ w[1] = x
      /\ \A i \in 2..Len(w) : w[i] = s[i - 1]
  BY ConsProperties
<1> HIDE DEF v, w
<1>3. /\ Len(s) \in Nat /\ u.head[l] = IF s = <<>> THEN Nil ELSE s[1]
      /\ s = <<>> <=> Len(s) = 0
      /\ \A i \in 1..Len(s) : s[i] \in Members(s) /\ s[i] \in Elems /\ s[i] # x
  BY MembersOf DEF HeldByHead, First
<1>4. u.head[l] = Nil <=> s = <<>>
  BY <1>3, ListAssumption
<1>5. First(w) = x /\ v.head[l] = x
  BY <1>1, <1>2, <1>3 DEF First, Memory
<1>6. PointersKept(u, v, l)
  BY <1>1 DEF PointersKept, Memory
<1>7. v.prev[x] = Nil
  BY <1>1 DEF Loose, Memory
<1>8. LinksKept(u, v, Members(s) \union {x})
  BY <1>1, <1>3, <1>4 DEF LinksKept, Memory
<1>9. Linked(v, w)
  <2>1. CASE s = <<>>
    BY <1>1, <1>2, <1>3, <1>4, <2>1 DEF Linked, Loose
  <2>2. CASE s # <<>>
    <3>1. /\ v.next[x] = s[1] /\ v.prev[s[1]] = x
          /\ \A e \in Elems : e # x => v.next[e] = u.next[e]
          /\ \A e \in Elems : e # x /\ e # s[1] => v.prev[e] = u.prev[e]
      BY <1>1, <1>3, <1>4, <2>2 DEF Memory
    <3>2. ASSUME NEW i \in 1..Len(s)
          PROVE  /\ v.next[s[i]] = IF i = Len(s) THEN Nil ELSE s[i + 1]
                 /\ i > 1 => v.prev[s[i]] = s[i - 1]
      <4>1. v.next[s[i]] = u.next[s[i]]
        BY <1>3, <3>1
      <4>2. i > 1 => s[i] # s[1]
        BY <1>3 DEF Injective
      <4>3. QED
        BY <1>3, <3>1, <4>1, <4>2 DEF HeldByHead, Linked
    <3>3. ASSUME NEW i \in 1..Len(w)
          PROVE  /\ v.next[w[i]] = IF i = Len(w) THEN Nil ELSE w[i + 1]
                 /\ i > 1 => v.prev[w[i]] = w[i - 1]
      <4>1. CASE i = 1
        BY <1>2, <1>3, <2>2, <3>1, <4>1
      <4>2. CASE i > 1
        <5>1. i - 1 \in 1..Len(s) /\ w[i] = s[i - 1]
          BY <1>2, <1>3, <4>2
        <5>2. /\ v.next[s[i - 1]] = IF i - 1 = Len(s) THEN Nil ELSE s[i]
              /\ i - 1 > 1 => v.prev[s[i - 1]] = s[i - 2]
          BY <3>2, <5>1
        <5>3. i # Len(w) => w[i + 1] = s[i]
          BY <1>2, <1>3, <4>2
        <5>4. i - 1 > 1 => w[i - 1] = s[i - 2]
          BY <1>2, <1>3, <5>1
        <5>5. i - 1 = 1 => w[i - 1] = x /\ v.prev[w[i]] = x
          BY <1>2, <3>1, <5>1
        <5>6. QED
          BY <1>2, <1>3, <4>2, <5>1, <5>2, <5>3, <5>4, <5>5
      <4>3. QED
        BY <4>1, <4>2
    <3>4. QED
      BY <3>3 DEF Linked
  <2>3. QED
    BY <2>1, <2>2
<1>10. QED
  BY <1>1, <1>5, <1>6, <1>7, <1>8, <1>9 DEF HeldByHead, v, w

\* KLIST_HEAD_POP: the new head's prev is left as it was.
LEMMA HeadPopHolds ==
  ASSUME NEW u \in Memory, NEW l \in Lists, NEW s \in Seq(Elems),
         HeldByHead(u, l, s), Injective(s), s # <<>>
  PROVE  LET v == HeadPop(u, l)
         IN  /\ v \in Memory
             /\ HeldByHead(v, l, Tail(s))
             /\ LinksKept(u, v, {s[1]})
             /\ PointersKept(u, v, l)
             /\ Loose(v, s[1])
             /\ u.head[l] = s[1]
<1> DEFINE v == HeadPop(u, l)
           w == Tail(s)
<1>1. /\ u.head[l] = s[1] /\ s[1] \in Elems /\ Len(s) \in Nat /\ Len(s) >= 1
      /\ \A i \in 1..Len(s) : s[i] \in Elems
  BY MembersOf DEF HeldByHead, First
<1>2. /\ v \in Memory
      /\ v.head = [u.head EXCEPT ![l] = u.next[s[1]]] /\ v.tail = u.tail
      /\ v.next = [u.next EXCEPT ![s[1]] = Nil]
      /\ v.prev = [u.prev EXCEPT ![s[1]] = Nil]
  <2>1. u.head[l] \in Elems
    BY <1>1
  <2>2. /\ v \in Memory
        /\ v.head = [u.head EXCEPT ![l] = u.next[u.head[l]]] /\ v.tail = u.tail
        /\ v.next = [u.next EXCEPT ![u.head[l]] = Nil]
        /\ v.prev = [u.prev EXCEPT ![u.head[l]] = Nil]
    BY <2>1, HeadPopParts
  <2>3. QED
    BY <1>1, <2>2, Zenon
<1>3. /\ w \in Seq(Elems) /\ Len(w) = Len(s) - 1
      /\ \A i \in 1..Len(w) : w[i] = s[i + 1]
  BY TailProperties
<1> HIDE DEF v, w
<1>4. Loose(v, s[1]) /\ LinksKept(u, v, {s[1]}) /\ PointersKept(u, v, l)
  BY <1>1, <1>2 DEF Loose, LinksKept, PointersKept, Memory
<1>5. v.head[l] = First(w)
  <2>1. v.head[l] = IF Len(s) = 1 THEN Nil ELSE s[2]
    <3>1. u.next[s[1]] = IF 1 = Len(s) THEN Nil ELSE s[1 + 1]
      <4>1. 1 \in 1..Len(s)
        BY <1>1
      <4>2. QED
        BY <4>1, Zenon DEF HeldByHead, Linked
    <3>2. v.head[l] = u.next[s[1]]
      <4>1. u.head \in [Lists -> Pointers]
        BY DEF Memory
      <4>2. QED
        BY <1>2, <4>1, Zenon
    <3>3. QED
      BY <3>1, <3>2
  <2>2. w = <<>> <=> Len(s) = 1
    BY <1>1, <1>3
  <2>3. Len(s) # 1 => w[1] = s[2]
    BY <1>1, <1>3
  <2>4. QED
    BY <2>1, <2>2, <2>3 DEF First
<1>6. ASSUME NEW i \in 1..Len(w)
      PROVE  /\ v.next[w[i]] = IF i = Len(w) THEN Nil ELSE w[i + 1]
             /\ i > 1 => v.prev[w[i]] = w[i - 1]
  <2>1. i + 1 \in 1..Len(s) /\ w[i] = s[i + 1] /\ s[i + 1] # s[1]
    BY <1>1, <1>3 DEF Injective
  <2>2. v.next[s[i + 1]] = u.next[s[i + 1]] /\ v.prev[s[i + 1]] = u.prev[s[i + 1]]
    BY <1>1, <1>2, <2>1 DEF Memory
  <2>3. /\ u.next[s[i + 1]] = IF i + 1 = Len(s) THEN Nil ELSE s[i + 2]
        /\ u.prev[s[i + 1]] = s[i]
    BY <2>1 DEF HeldByHead, Linked
  <2>4. i # Len(w) => w[i + 1] = s[i + 2]
    BY <1>1, <1>3
  <2>5. i > 1 => w[i - 1] = s[i]
    BY <1>1, <1>3
  <2>6. QED
    BY <1>1, <1>3, <2>1, <2>2, <2>3, <2>4, <2>5
<1>7. Linked(v, w)
  BY <1>6 DEF Linked
<1>8. QED
  BY <1>1, <1>2, <1>4, <1>5, <1>7 DEF HeldByHead, v, w

\* KLIST_TAIL_APPEND of a loose element.
LEMMA TailAppendHolds ==
  ASSUME NEW u \in Memory, NEW l \in Lists, NEW s \in Seq(Elems), NEW x \in Elems,
         HeldByTail(u, l, s), Injective(s), Loose(u, x), x \notin Members(s)
  PROVE  LET v == TailAppend(u, l, x)
         IN  /\ v \in Memory
             /\ HeldByTail(v, l, Append(s, x))
             /\ LinksKept(u, v, Members(s) \union {x})
             /\ PointersKept(u, v, l)
             /\ v.head = u.head
<1> DEFINE v == TailAppend(u, l, x)
           w == Append(s, x)
           n == Len(s)
<1>1. /\ v \in Memory
      /\ v.tail = [u.tail EXCEPT ![l] = x] /\ v.head = u.head
      /\ u.tail[l] = Nil => v.next = u.next /\ v.prev = u.prev
      /\ u.tail[l] # Nil =>
           /\ u.tail[l] \in Elems
           /\ v.next = [u.next EXCEPT ![u.tail[l]] = x, ![x] = Nil]
           /\ v.prev = [u.prev EXCEPT ![x] = u.tail[l]]
  BY TailAppendParts
<1>2. /\ w \in Seq(Elems) /\ Len(w) = n + 1 /\ w[n + 1] = x
      /\ \A i \in 1..n : w[i] = s[i]
  BY AppendProperties
<1>3. /\ n \in Nat /\ u.tail[l] = IF s = <<>> THEN Nil ELSE s[n]
      /\ s = <<>> <=> n = 0
      /\ \A i \in 1..n : s[i] \in Members(s) /\ s[i] \in Elems /\ s[i] # x
  BY MembersOf DEF HeldByTail, Last
<1> HIDE DEF v, w
<1>4. u.tail[l] = Nil <=> s = <<>>
  BY <1>3, ListAssumption
<1>5. Last(w) = x /\ v.tail[l] = x
  BY <1>1, <1>2, <1>3 DEF Last, Memory
<1>6. PointersKept(u, v, l)
  BY <1>1 DEF PointersKept, Memory
<1>7. LinksKept(u, v, Members(s) \union {x})
  BY <1>1, <1>3, <1>4 DEF LinksKept, Memory
<1>8. Linked(v, w) /\ v.prev[w[1]] = Nil
  <2>1. CASE s = <<>>
    BY <1>1, <1>2, <1>3, <1>4, <2>1 DEF Linked, Loose
  <2>2. CASE s # <<>>
    <3>1. /\ v.next[x] = Nil /\ v.prev[x] = s[n] /\ v.next[s[n]] = x
          /\ \A e \in Elems : e # x => v.prev[e] = u.prev[e]
          /\ \A e \in Elems : e # x /\ e # s[n] => v.next[e] = u.next[e]
      BY <1>1, <1>3, <1>4, <2>2 DEF Memory
    <3>2. ASSUME NEW i \in 1..n
          PROVE  /\ v.next[s[i]] = IF i = n THEN x ELSE s[i + 1]
                 /\ i > 1 => v.prev[s[i]] = s[i - 1]
      <4>1. i # n => s[i] # s[n]
        BY <1>3 DEF Injective
      <4>2. s[i] \in Elems /\ s[i] # x
        BY <1>3
      <4>3. v.prev[s[i]] = u.prev[s[i]] /\ v.next[s[i]] = IF i = n THEN x ELSE u.next[s[i]]
        BY <3>1, <4>1, <4>2
      <4>4. /\ i # n => u.next[s[i]] = s[i + 1]
            /\ i > 1 => u.prev[s[i]] = s[i - 1]
        BY <1>3 DEF HeldByTail, Linked
      <4>5. QED
        BY <4>3, <4>4
    <3>3. ASSUME NEW i \in 1..Len(w)
          PROVE  /\ v.next[w[i]] = IF i = Len(w) THEN Nil ELSE w[i + 1]
                 /\ i > 1 => v.prev[w[i]] = w[i - 1]
      <4>1. CASE i = n + 1
        BY <1>2, <1>3, <2>2, <3>1, <4>1
      <4>2. CASE i \in 1..n
        <5>1. w[i] = s[i] /\ (i > 1 => w[i - 1] = s[i - 1])
          BY <1>2, <1>3, <4>2
        <5>2. w[i + 1] = IF i = n THEN x ELSE s[i + 1]
          BY <1>2, <1>3, <4>2
        <5>3. QED
          BY <1>2, <1>3, <3>2, <4>2, <5>1, <5>2
      <4>3. QED
        BY <1>2, <1>3, <4>1, <4>2
    <3>4. v.prev[w[1]] = Nil
      BY <1>2, <1>3, <2>2, <3>1 DEF HeldByTail
    <3>5. QED
      BY <3>3, <3>4 DEF Linked
  <2>3. QED
    BY <2>1, <2>2
<1>9. QED
  BY <1>1, <1>5, <1>6, <1>7, <1>8 DEF HeldByTail, v, w

\* KLIST_REMOVE_ELEM of an element of the list; the first one's prev must have
\* been cleared.
LEMMA RemoveElemHolds ==
  ASSUME NEW u \in Memory, NEW s \in Seq(Elems), NEW x \in Members(s),
         Linked(u, s), Injective(s), x = s[1] => u.prev[x] = Nil
  PROVE  LET v == RemoveElem(u, x)
             w == Without(s, x)
         IN  /\ v \in Memory
             /\ Linked(v, w)
             /\ LinksKept(u, v, Members(s))
             /\ v.head = u.head /\ v.tail = u.tail
             /\ Loose(v, x)
             /\ w # <<>> /\ u.prev[s[1]] = Nil => v.prev[w[1]] = Nil
             /\ First(w) = IF x = s[1] THEN u.next[x] ELSE s[1]
             /\ u.prev[s[1]] = Nil =>
                    Last(w) = IF x = s[Len(s)] THEN u.prev[x] ELSE s[Len(s)]
<1> DEFINE v == RemoveElem(u, x)
           w == Without(s, x)
           n == Len(s)
<1>1. /\ w \in Seq(Elems) /\ Len(w) = n - 1 /\ n \in Nat /\ n >= 1 /\ x \in Elems
      /\ \A i \in 1..n : s[i] \in Elems /\ s[i] \in Members(s) /\ s[i] # Nil
  BY WithoutProperties, MembersOf, ListAssumption
<1>2. PICK p \in 1..n :
        /\ s[p] = x
        /\ \A k \in 1..Len(w) : w[k] = IF k < p THEN s[k] ELSE s[k + 1]
  BY WithoutProperties
<1>3. /\ v \in Memory
      /\ v.head = u.head /\ v.tail = u.tail
      /\ \A e \in Elems :
           /\ v.next[e] = IF e = x THEN Nil
                          ELSE IF e = u.prev[x] THEN u.next[x] ELSE u.next[e]
           /\ v.prev[e] = IF e = x THEN Nil
                          ELSE IF e = u.next[x] THEN u.prev[x] ELSE u.prev[e]
  BY <1>1, RemoveElemParts
<1> HIDE DEF v, w
<1>4. /\ u.next[x] = IF p = n THEN Nil ELSE s[p + 1]
      /\ u.prev[x] = IF p = 1 THEN Nil ELSE s[p - 1]
  BY <1>1, <1>2 DEF Linked
<1>5. Loose(v, x)
  BY <1>1, <1>3 DEF Loose
<1>6. LinksKept(u, v, Members(s))
  <2>1. u.next[x] \in Members(s) \union {Nil} /\ u.prev[x] \in Members(s) \union {Nil}
    BY <1>1, <1>4
  <2>2. QED
    BY <1>3, <2>1, ListAssumption DEF LinksKept
<1>7. ASSUME NEW i \in 1..n, i # p
      PROVE  /\ v.next[s[i]] = IF i = p - 1 THEN u.next[x]
                               ELSE IF i = n THEN Nil ELSE s[i + 1]
             /\ v.prev[s[i]] = IF i = p + 1 THEN u.prev[x] ELSE u.prev[s[i]]
             /\ i > 1 => u.prev[s[i]] = s[i - 1]
  <2>1. s[i] # x /\ s[i] \in Elems /\ s[i] # Nil
    BY <1>1, <1>2, <1>7 DEF Injective
  <2>2. s[i] = u.prev[x] <=> i = p - 1
    BY <1>1, <1>2, <1>4, <2>1 DEF Injective
  <2>3. s[i] = u.next[x] <=> i = p + 1
    BY <1>1, <1>2, <1>4, <2>1 DEF Injective
  <2>4. /\ u.next[s[i]] = IF i = n THEN Nil ELSE s[i + 1]
        /\ i > 1 => u.prev[s[i]] = s[i - 1]
    BY DEF Linked
  <2>5. QED
    BY <1>3, <2>1, <2>2, <2>3, <2>4
<1>8. ASSUME NEW k \in 1..Len(w)
      PROVE  /\ v.next[w[k]] = IF k = Len(w) THEN Nil ELSE w[k + 1]
             /\ k > 1 => v.prev[w[k]] = w[k - 1]
  <2>1. CASE k < p
    <3>1. w[k] = s[k] /\ k \in 1..n /\ k # p
      BY <1>1, <1>2, <2>1
    <3>2. k > 1 => w[k - 1] = s[k - 1]
      BY <1>1, <1>2, <2>1
    <3>3. k # Len(w) => w[k + 1] = IF k = p - 1 THEN s[p + 1] ELSE s[k + 1]
      BY <1>1, <1>2, <2>1
    <3>4. k = Len(w) => k = p - 1 /\ p = n
      BY <1>1, <1>2, <2>1
    <3>5. k # Len(w) => k # n /\ (k = p - 1 => p # n)
      BY <1>1, <1>2, <2>1
    <3>6. v.next[w[k]] = IF k = Len(w) THEN Nil ELSE w[k + 1]
      BY <1>4, <1>7, <3>1, <3>3, <3>4, <3>5
    <3>7. k > 1 => v.prev[w[k]] = w[k - 1]
      BY <1>2, <1>7, <2>1, <3>1, <3>2
    <3>8. QED
      BY <3>6, <3>7
  <2>2. CASE k >= p
    <3>1. w[k] = s[k + 1] /\ k + 1 \in 1..n /\ k + 1 # p /\ k + 1 # p - 1 /\ k + 1 > 1
      BY <1>1, <1>2, <2>2
    <3>2. k > 1 => w[k - 1] = IF k = p THEN s[p - 1] ELSE s[k]
      BY <1>1, <1>2, <2>2
    <3>3. k # Len(w) => w[k + 1] = s[k + 2]
      BY <1>1, <1>2, <2>2
    <3>4. v.next[s[k + 1]] = IF k + 1 = n THEN Nil ELSE s[k + 2]
      BY <1>7, <3>1
    <3>5. v.prev[s[k + 1]] = IF k = p THEN u.prev[x] ELSE s[k]
      BY <1>7, <3>1
    <3>6. k > 1 /\ k = p => u.prev[x] = s[p - 1]
      BY <1>4
    <3>7. QED
      BY <1>1, <3>1, <3>2, <3>3, <3>4, <3>5, <3>6
  <2>3. QED
    BY <1>1, <2>1, <2>2
<1>9. Linked(v, w)
  BY <1>8 DEF Linked
<1>10. w = <<>> <=> n = 1
  BY <1>1
<1>11. x = s[1] <=> p = 1
  BY <1>1, <1>2 DEF Injective
<1>12. x = s[n] <=> p = n
  BY <1>1, <1>2 DEF Injective
<1>13. n # 1 => w[1] = IF p = 1 THEN s[2] ELSE s[1]
  BY <1>1, <1>2
<1>14. n # 1 => w[Len(w)] = IF p = n THEN s[n - 1] ELSE s[n]
  BY <1>1, <1>2
<1>15. w # <<>> /\ u.prev[s[1]] = Nil => v.prev[w[1]] = Nil
  BY <1>1, <1>4, <1>7, <1>10, <1>13
<1>16. First(w) = IF x = s[1] THEN u.next[x] ELSE s[1]
  BY <1>1, <1>2, <1>4, <1>10, <1>11, <1>13 DEF First
<1>17. Last(w) = IF x = s[n] THEN u.prev[x] ELSE s[n]
  BY <1>1, <1>2, <1>4, <1>10, <1>12, <1>14 DEF Last
<1>18. QED
  BY <1>3, <1>5, <1>6, <1>9, <1>15, <1>16, <1>17 DEF v, w

\* Removing the first element leaves the tail of the sequence.
LEMMA WithoutFirst ==
  ASSUME NEW s \in Seq(Elems), s # <<>>, Injective(s)
  PROVE  Without(s, s[1]) = Tail(s)
<1> DEFINE a == Without(s, s[1])
           b == Tail(s)
<1>1. Len(s) \in Nat /\ 1 \in 1..Len(s) /\ s[1] \in Members(s)
  BY MembersOf
<1>2. /\ a \in Seq(Elems) /\ Len(a) = Len(s) - 1
      /\ \E i \in 1..Len(s) :
            s[i] = s[1] /\ \A k \in 1..Len(a) : a[k] = IF k < i THEN s[k] ELSE s[k + 1]
  BY <1>1, WithoutProperties
<1>3. b \in Seq(Elems) /\ Len(b) = Len(s) - 1 /\ \A k \in 1..Len(b) : b[k] = s[k + 1]
  BY TailProperties
<1> HIDE DEF a, b
<1>4. PICK i \in 1..Len(s) :
        s[i] = s[1] /\ \A k \in 1..Len(a) : a[k] = IF k < i THEN s[k] ELSE s[k + 1]
  BY <1>2
<1>5. i = 1
  BY <1>1, <1>4 DEF Injective
<1>6. \A k \in 1..Len(a) : ~(k < 1)
  BY <1>1, <1>2
<1>7. \A k \in 1..Len(a) : a[k] = b[k]
  BY <1>2, <1>3, <1>4, <1>5, <1>6
<1>8. a = b
  BY <1>2, <1>3, <1>7
<1>9. QED
  BY <1>8 DEF a, b

\* The pointers of a list are moved.
Repoint(u, l, h, t) == [u EXCEPT !.head[l] = h, !.tail[l] = t]

\* Moving pointers moves no links.
LEMMA PointersOnly ==
  ASSUME NEW u \in Memory, NEW l \in Lists, NEW h \in Pointers, NEW t \in Pointers
  PROVE  LET v == Repoint(u, l, h, t)
         IN  /\ v \in Memory /\ v.next = u.next /\ v.prev = u.prev
             /\ v.head = [u.head EXCEPT ![l] = h] /\ v.tail = [u.tail EXCEPT ![l] = t]
             /\ v.head[l] = h /\ v.tail[l] = t
  BY DEF Memory, Repoint

\* KLIST_HEAD_REMOVE_ELEM and KLIST_TAIL_REMOVE_ELEM come down to this: the
\* pointers of the list are moved, then the element is unlinked.
LEMMA UnlinkHolds ==
  ASSUME NEW u \in Memory, NEW l \in Lists, NEW s \in Seq(Elems), NEW x \in Members(s),
         Linked(u, s), Injective(s), u.prev[s[1]] = Nil,
         NEW h \in Pointers, NEW t \in Pointers
  PROVE  LET v == RemoveElem(Repoint(u, l, h, t), x)
             w == Without(s, x)
         IN  /\ v \in Memory /\ Linked(v, w)
             /\ LinksKept(u, v, Members(s)) /\ PointersKept(u, v, l)
             /\ v.head[l] = h /\ v.tail[l] = t
             /\ Loose(v, x)
             /\ w # <<>> => v.prev[w[1]] = Nil
             /\ First(w) = IF x = s[1] THEN u.next[x] ELSE s[1]
             /\ Last(w) = IF x = s[Len(s)] THEN u.prev[x] ELSE s[Len(s)]
<1> DEFINE a == Repoint(u, l, h, t)
           v == RemoveElem(a, x)
           w == Without(s, x)
<1>1. /\ a \in Memory /\ a.next = u.next /\ a.prev = u.prev
      /\ a.head = [u.head EXCEPT ![l] = h] /\ a.tail = [u.tail EXCEPT ![l] = t]
      /\ a.head[l] = h /\ a.tail[l] = t
  BY PointersOnly
<1> HIDE DEF a
<1>2. Linked(a, s) /\ a.prev[s[1]] = Nil
  BY <1>1 DEF Linked
<1>3. /\ v \in Memory /\ Linked(v, w) /\ LinksKept(a, v, Members(s))
      /\ v.head = a.head /\ v.tail = a.tail /\ Loose(v, x)
      /\ w # <<>> /\ a.prev[s[1]] = Nil => v.prev[w[1]] = Nil
      /\ First(w) = IF x = s[1] THEN a.next[x] ELSE s[1]
      /\ a.prev[s[1]] = Nil => Last(w) = IF x = s[Len(s)] THEN a.prev[x] ELSE s[Len(s)]
  BY <1>1, <1>2, RemoveElemHolds
<1> HIDE DEF v, w
<1>4. LinksKept(u, v, Members(s))
  BY <1>1, <1>3, Zenon DEF LinksKept
<1>5. PointersKept(u, v, l)
  <2>1. u.head \in [Lists -> Pointers] /\ u.tail \in [Lists -> Pointers]
    BY DEF Memory
  <2>2. QED
    BY <1>1, <1>3, <2>1 DEF PointersKept
<1>6. QED
  BY <1>1, <1>2, <1>3, <1>4, <1>5, Zenon DEF v, w, a

\* KLIST_HEAD_REMOVE_ELEM
LEMMA HeadRemoveHolds ==
  ASSUME NEW u \in Memory, NEW l \in Lists, NEW s \in Seq(Elems), NEW x \in Members(s),
         HeldByHead(u, l, s), Injective(s), u.prev[s[1]] = Nil
  PROVE  LET v == HeadRemoveElem(u, l, x)
             w == Without(s, x)
         IN  /\ v \in Memory /\ HeldByHead(v, l, w)
             /\ LinksKept(u, v, Members(s)) /\ PointersKept(u, v, l)
             /\ Loose(v, x)
             /\ w # <<>> => v.prev[w[1]] = Nil
<1>1. /\ s # <<>> /\ u.head[l] = s[1] /\ x \in Elems
      /\ u.head[l] \in Pointers /\ u.tail[l] \in Pointers /\ u.next[x] \in Pointers
  BY MembersOf DEF HeldByHead, First, Memory
<1> DEFINE h == IF u.head[l] = x THEN u.next[x] ELSE u.head[l]
           t == u.tail[l]
           a == Repoint(u, l, h, t)
<1>2. h \in Pointers /\ t \in Pointers
  BY <1>1
<1>3. a = IF u.head[l] = x THEN [u EXCEPT !.head[l] = u.next[x]] ELSE u
  BY DEF Memory, Repoint
<1>4. HeadRemoveElem(u, l, x) = RemoveElem(a, x)
  BY <1>3 DEF HeadRemoveElem
<1> HIDE DEF h, t
<1> DEFINE v == RemoveElem(a, x)
           w == Without(s, x)
<1>5. /\ v \in Memory /\ Linked(v, w)
      /\ LinksKept(u, v, Members(s)) /\ PointersKept(u, v, l)
      /\ v.head[l] = h /\ Loose(v, x)
      /\ w # <<>> => v.prev[w[1]] = Nil
      /\ First(w) = IF x = s[1] THEN u.next[x] ELSE s[1]
  BY <1>2, UnlinkHolds DEF HeldByHead
<1> HIDE DEF v, w
<1>6. h = First(w)
  BY <1>1, <1>5 DEF h
<1>7. QED
  BY <1>4, <1>5, <1>6 DEF HeldByHead, v, w

\* KLIST_TAIL_REMOVE_ELEM
LEMMA TailRemoveHolds ==
  ASSUME NEW u \in Memory, NEW l \in Lists, NEW s \in Seq(Elems), NEW x \in Members(s),
         HeldByTail(u, l, s), Injective(s)
  PROVE  LET v == TailRemoveElem(u, l, x)
             w == Without(s, x)
         IN  /\ v \in Memory /\ HeldByTail(v, l, w)
             /\ LinksKept(u, v, Members(s)) /\ PointersKept(u, v, l)
             /\ Loose(v, x)
<1>1. /\ s # <<>> /\ u.tail[l] = s[Len(s)] /\ x \in Elems /\ u.prev[s[1]] = Nil
      /\ u.head[l] \in Pointers /\ u.tail[l] \in Pointers /\ u.prev[x] \in Pointers
  BY MembersOf DEF HeldByTail, Last, Memory
<1> DEFINE t == IF u.tail[l] = x THEN u.prev[x] ELSE u.tail[l]
           h == u.head[l]
           a == Repoint(u, l, h, t)
<1>2. h \in Pointers /\ t \in Pointers
  BY <1>1
<1>3. a = IF u.tail[l] = x THEN [u EXCEPT !.tail[l] = u.prev[x]] ELSE u
  BY DEF Memory, Repoint
<1>4. TailRemoveElem(u, l, x) = RemoveElem(a, x)
  BY <1>3 DEF TailRemoveElem
<1> HIDE DEF h, t
<1> DEFINE v == RemoveElem(a, x)
           w == Without(s, x)
<1>5. /\ v \in Memory /\ Linked(v, w)
      /\ LinksKept(u, v, Members(s)) /\ PointersKept(u, v, l)
      /\ v.tail[l] = t /\ Loose(v, x)
      /\ w # <<>> => v.prev[w[1]] = Nil
      /\ Last(w) = IF x = s[Len(s)] THEN u.prev[x] ELSE s[Len(s)]
  BY <1>1, <1>2, UnlinkHolds DEF HeldByTail
<1> HIDE DEF v, w
<1>6. t = Last(w)
  BY <1>1, <1>5 DEF t
<1>7. QED
  BY <1>4, <1>5, <1>6 DEF HeldByTail, v, w

-----------------------------------------------------------------------------
(* Several lists.                                                          *)

\* No element is in two lists, or in one list twice.
Apart(f) ==
    /\ f \in [Lists -> Seq(Elems)]
    /\ \A l \in Lists : Injective(f[l])
    /\ \A l, k \in Lists : l # k => Members(f[l]) \intersect Members(f[k]) = {}

\* One list gets or loses an element that is in no other.
LEMMA ApartStep ==
  ASSUME NEW f, Apart(f), NEW l \in Lists, NEW w \in Seq(Elems), Injective(w),
         NEW x, Members(w) \subseteq Members(f[l]) \union {x},
         \A k \in Lists \ {l} : x \notin Members(f[k])
  PROVE  Apart([f EXCEPT ![l] = w])
<1> DEFINE g == [f EXCEPT ![l] = w]
<1>1. /\ g \in [Lists -> Seq(Elems)] /\ g[l] = w
      /\ \A k \in Lists : k # l => g[k] = f[k]
  BY DEF Apart
<1> HIDE DEF g
<1>2. \A k \in Lists : k # l => Members(w) \intersect Members(f[k]) = {}
  BY DEF Apart
<1>3. \A k \in Lists : Injective(g[k])
  BY <1>1 DEF Apart
<1>4. \A j, k \in Lists : j # k => Members(g[j]) \intersect Members(g[k]) = {}
  BY <1>1, <1>2 DEF Apart
<1>5. QED
  BY <1>1, <1>3, <1>4 DEF Apart, g

\* The other lists do not notice.
LEMMA OtherKept ==
  ASSUME NEW u, NEW v, NEW l, NEW S, LinksKept(u, v, S), PointersKept(u, v, l),
         NEW k \in Lists, k # l, NEW s \in Seq(Elems), Members(s) \intersect S = {}
  PROVE  /\ HeldByHead(u, k, s) => HeldByHead(v, k, s)
         /\ HeldByTail(u, k, s) => HeldByTail(v, k, s)
         /\ s # <<>> => v.prev[s[1]] = u.prev[s[1]]
<1>1. Linked(u, s) => Linked(v, s)
  BY LinkedFrame
<1>2. v.head[k] = u.head[k] /\ v.tail[k] = u.tail[k]
  BY DEF PointersKept
<1>3. s # <<>> => s[1] \in Elems \ S
  BY MembersOf
<1>4. s # <<>> => v.prev[s[1]] = u.prev[s[1]]
  BY <1>3 DEF LinksKept
<1>5. QED
  BY <1>1, <1>2, <1>4 DEF HeldByHead, HeldByTail

-----------------------------------------------------------------------------
(* The queue and the free list.                                            *)

\* kqueue_insert of a loose element.
LEMMA InsertedHolds ==
  ASSUME mem \in Memory, NEW s \in Seq(Elems), NEW x \in Elems, "queue" \in Lists,
         HeldByHead(mem, "queue", s), HeldByTail(mem, "queue", s), Injective(s),
         Loose(mem, x), x \notin Members(s)
  PROVE  LET v == Inserted(x)
         IN  /\ v \in Memory
             /\ HeldByHead(v, "queue", Append(s, x)) /\ HeldByTail(v, "queue", Append(s, x))
             /\ LinksKept(mem, v, Members(s) \union {x})
             /\ PointersKept(mem, v, "queue")
<1> DEFINE a == TailAppend(mem, "queue", x)
           w == Append(s, x)
           h == IF a.head["queue"] = Nil THEN x ELSE a.head["queue"]
           v == Repoint(a, "queue", h, x)
<1>1. /\ a \in Memory /\ HeldByTail(a, "queue", w)
      /\ LinksKept(mem, a, Members(s) \union {x})
      /\ PointersKept(mem, a, "queue") /\ a.head = mem.head
  BY TailAppendHolds
<1>2. /\ w \in Seq(Elems) /\ Len(w) = Len(s) + 1 /\ w[Len(w)] = x
      /\ \A i \in 1..Len(s) : w[i] = s[i]
  BY AppendProperties
<1> HIDE DEF a, w
<1>3. w # <<>> /\ a.tail["queue"] = x /\ a.head["queue"] \in Pointers
  BY <1>1, <1>2 DEF HeldByTail, Last, Memory
<1>4. Inserted(x) = v
  BY <1>1, <1>3 DEF Inserted, Repoint, Memory, a
<1>5. /\ v \in Memory /\ v.next = a.next /\ v.prev = a.prev
      /\ v.head = [a.head EXCEPT !["queue"] = h] /\ v.tail = [a.tail EXCEPT !["queue"] = x]
      /\ v.head["queue"] = h /\ v.tail["queue"] = x
  BY <1>1, <1>3, PointersOnly DEF Pointers
<1> HIDE DEF v
<1>6. h = First(w)
  <2>1. a.head["queue"] = First(s)
    BY <1>1 DEF HeldByHead
  <2>2. s # <<>> => s[1] \in Elems /\ s[1] # Nil /\ w[1] = s[1]
    BY <1>2, MembersOf, ListAssumption
  <2>3. s = <<>> => w[1] = x
    BY <1>2
  <2>4. QED
    BY <1>3, <2>1, <2>2, <2>3 DEF First
<1>7. Linked(v, w) /\ v.prev[w[1]] = Nil
  BY <1>1, <1>3, <1>5 DEF HeldByTail, Linked
<1>8. v.tail["queue"] = Last(w)
  BY <1>2, <1>3, <1>5 DEF Last
<1>9. LinksKept(mem, v, Members(s) \union {x})
  BY <1>1, <1>5 DEF LinksKept
<1>10. PointersKept(mem, v, "queue")
  <2>1. a.head \in [Lists -> Pointers] /\ a.tail \in [Lists -> Pointers]
    BY <1>1 DEF Memory
  <2>2. QED
    BY <1>1, <1>5, <2>1 DEF PointersKept
<1>11. QED
  BY <1>4, <1>5, <1>6, <1>7, <1>8, <1>9, <1>10 DEF HeldByHead, HeldByTail, w

\* kqueue_dequeue of a queue that is not empty.
LEMMA DequeuedHolds ==
  ASSUME mem \in Memory, NEW s \in Seq(Elems), "queue" \in Lists, s # <<>>,
         HeldByHead(mem, "queue", s), HeldByTail(mem, "queue", s), Injective(s)
  PROVE  LET v == Dequeued
         IN  /\ v \in Memory
             /\ HeldByHead(v, "queue", Tail(s)) /\ HeldByTail(v, "queue", Tail(s))
             /\ LinksKept(mem, v, Members(s))
             /\ PointersKept(mem, v, "queue")
             /\ Loose(v, s[1]) /\ mem.head["queue"] = s[1]
<1> DEFINE x == mem.head["queue"]
           h == mem.next[x]
           t == IF x = mem.tail["queue"] THEN Nil ELSE mem.tail["queue"]
           v == RemoveElem(Repoint(mem, "queue", h, t), x)
           w == Without(s, x)
<1>1. /\ x = s[1] /\ x \in Members(s) /\ x \in Elems /\ mem.prev[x] = Nil
      /\ mem.tail["queue"] = s[Len(s)] /\ Linked(mem, s)
      /\ h \in Pointers /\ t \in Pointers
  BY MembersOf DEF HeldByHead, HeldByTail, First, Last, Memory, Pointers
<1>2. Dequeued = v
  BY DEF Dequeued, Repoint, Memory
<1> HIDE DEF x, h, t
<1>3. /\ v \in Memory /\ Linked(v, w)
      /\ LinksKept(mem, v, Members(s)) /\ PointersKept(mem, v, "queue")
      /\ v.head["queue"] = h /\ v.tail["queue"] = t
      /\ Loose(v, x)
      /\ w # <<>> => v.prev[w[1]] = Nil
      /\ First(w) = IF x = s[1] THEN mem.next[x] ELSE s[1]
      /\ Last(w) = IF x = s[Len(s)] THEN mem.prev[x] ELSE s[Len(s)]
  BY <1>1, UnlinkHolds
<1> HIDE DEF v
<1>4. w = Tail(s)
  BY <1>1, WithoutFirst
<1> HIDE DEF w
<1>5. v.head["queue"] = First(w)
  BY <1>1, <1>3 DEF h
<1>6. v.tail["queue"] = Last(w)
  BY <1>1, <1>3 DEF t
<1>7. QED
  BY <1>1, <1>2, <1>3, <1>4, <1>5, <1>6 DEF HeldByHead, HeldByTail, x

\* Elements are in one list at most, and those in none, in the hands of the
\* client or of the callback, have cleared links.
QueuePlaces ==
    /\ mem \in Memory
    /\ Apart(lists)
    /\ inCallback \in Pointers
    /\ \A l \in Lists : inCallback \notin Members(lists[l])
    /\ \A x \in Elems :
        (\A l \in Lists : x \notin Members(lists[l])) => Loose(mem, x)

\* What KLIST_HEAD_REMOVE_ELEM needs of its list: unlike in the free list, no
\* element is ever popped, so that the first one's prev is cleared.
NoStalePrev == lists["list"] # <<>> => mem.prev[lists["list"][1]] = Nil

\* The inductive invariant.
QueueInv == QueuePlaces /\ NoStalePrev /\ ListsIntact

\* List l has become w by taking x in or giving it away.
LEMMA QueueStep ==
  ASSUME QueueInv, NEW l \in Lists, NEW w \in Seq(Elems), NEW x \in Elems,
         mem' \in Memory, Injective(w), lists' = [lists EXCEPT ![l] = w],
         LinksKept(mem, mem', Members(lists[l]) \union {x}), PointersKept(mem, mem', l),
         \/ Members(w) = Members(lists[l]) \union {x} /\ x # inCallback'
         \/ Members(w) = Members(lists[l]) \ {x} /\ Loose(mem', x),
         \A k \in Lists \ {l} : x \notin Members(lists[k]),
         inCallback' \in {inCallback, x, Nil}
  PROVE  /\ QueuePlaces'
         /\ lists'[l] = w
         /\ \A k \in Lists : k # l =>
              /\ lists'[k] = lists[k]
              /\ HeldByHead(mem, k, lists[k]) => HeldByHead(mem', k, lists'[k])
              /\ HeldByTail(mem, k, lists[k]) => HeldByTail(mem', k, lists'[k])
         /\ l # "list" /\ "list" \in Lists => NoStalePrev'
<1>1. QueuePlaces /\ NoStalePrev /\ ListsIntact
  BY DEF QueueInv
<1>2. Apart(lists)
  BY <1>1 DEF QueuePlaces
<1>3. /\ lists'[l] = w
      /\ \A k \in Lists : k # l => lists'[k] = lists[k]
  BY <1>2 DEF Apart
<1>4. Apart(lists')
  BY <1>2, ApartStep
<1>5. ASSUME NEW k \in Lists, k # l
      PROVE  /\ HeldByHead(mem, k, lists[k]) => HeldByHead(mem', k, lists[k])
             /\ HeldByTail(mem, k, lists[k]) => HeldByTail(mem', k, lists[k])
             /\ lists[k] # <<>> => mem'.prev[lists[k][1]] = mem.prev[lists[k][1]]
  <2> DEFINE S == Members(lists[l]) \union {x}
  <2>1. lists[k] \in Seq(Elems) /\ Members(lists[k]) \intersect S = {}
    BY <1>2, <1>5 DEF Apart
  <2>2. LinksKept(mem, mem', S) /\ PointersKept(mem, mem', l)
    OBVIOUS
  <2> HIDE DEF S
  <2>3. QED
    BY <1>5, <2>1, <2>2, OtherKept
<1>6. \A k \in Lists : inCallback' \notin Members(lists'[k])
  <2>1. ASSUME NEW k \in Lists PROVE inCallback' \notin Members(lists[k]) \ {x}
    <3>1. Nil \notin Members(lists[k])
      BY <1>2, MembersOf, ListAssumption DEF Apart
    <3>2. QED
      BY <1>1, <3>1 DEF QueuePlaces
  <2>2. ASSUME NEW k \in Lists, k # l PROVE inCallback' \notin Members(lists'[k])
    BY <1>3, <2>1, <2>2
  <2>3. inCallback' \notin Members(w)
    BY <2>1
  <2>4. QED
    BY <1>3, <2>2, <2>3
<1>7. ASSUME NEW e \in Elems, \A k \in Lists : e \notin Members(lists'[k])
      PROVE  Loose(mem', e)
  <2>1. e \notin Members(w) /\ \A k \in Lists : k # l => e \notin Members(lists[k])
    BY <1>3, <1>7
  <2>2. CASE e = x
    BY <2>1, <2>2
  <2>3. CASE e # x
    <3>1. \A k \in Lists : e \notin Members(lists[k])
      BY <2>1, <2>3
    <3>2. Loose(mem, e)
      BY <1>1, <3>1 DEF QueuePlaces
    <3>3. QED
      BY <2>3, <3>1, <3>2 DEF Loose, LinksKept
  <2>4. QED
    BY <2>2, <2>3
<1>8. QueuePlaces'
  BY <1>1, <1>4, <1>6, <1>7 DEF QueuePlaces, Pointers
<1>9. l # "list" /\ "list" \in Lists => NoStalePrev'
  BY <1>1, <1>3, <1>5 DEF NoStalePrev
<1>10. QED
  BY <1>3, <1>5, <1>8, <1>9

\* The four lists are lists.
LEMMA FourLists ==
  ASSUME QueueInv
  PROVE  /\ "queue" \in Lists /\ "free" \in Lists /\ "list" \in Lists /\ "log" \in Lists
         /\ mem \in Memory /\ Apart(lists)
         /\ \A l \in Lists : lists[l] \in Seq(Elems) /\ Injective(lists[l])
  BY QueueAssumption DEF QueueInv, QueuePlaces, Apart

\* What every insertion finds: an element in no list.
LEMMA Outside ==
  ASSUME QueueInv, NEW x \in Elems, x \in InHand \/ x = inCallback
  PROVE  Loose(mem, x) /\ \A l \in Lists : x \notin Members(lists[l])
<1>1. \A l \in Lists : x \notin Members(lists[l])
  BY DEF InHand, QueueInv, QueuePlaces
<1>2. QED
  BY <1>1 DEF QueueInv, QueuePlaces

\* kqueue_insert
LEMMA InsertStep ==
  ASSUME QueueInv, NEW x \in Elems, x \in InHand \/ x = inCallback, Insert(x),
         UNCHANGED available, x # inCallback', inCallback' \in {inCallback, Nil}
  PROVE  QueueInv'
<1> DEFINE s == lists["queue"]
           w == Append(s, x)
<1>1. /\ "queue" \in Lists /\ "free" \in Lists /\ "list" \in Lists /\ "log" \in Lists
      /\ mem \in Memory /\ s \in Seq(Elems) /\ Injective(s)
  BY FourLists
<1>2. Loose(mem, x) /\ x \notin Members(s) /\ \A l \in Lists : x \notin Members(lists[l])
  BY <1>1, Outside
<1>3. HeldByHead(mem, "queue", s) /\ HeldByTail(mem, "queue", s)
  BY DEF QueueInv, ListsIntact
<1>4. mem' = Inserted(x) /\ lists' = [lists EXCEPT !["queue"] = w] /\ count' = count + 1
  BY DEF Insert
<1> HIDE DEF s
<1>5. /\ mem' \in Memory /\ HeldByHead(mem', "queue", w) /\ HeldByTail(mem', "queue", w)
      /\ LinksKept(mem, mem', Members(s) \union {x}) /\ PointersKept(mem, mem', "queue")
  BY <1>1, <1>2, <1>3, <1>4, InsertedHolds
<1>6. w \in Seq(Elems) /\ Len(w) = Len(s) + 1 /\ Injective(w)
      /\ Members(w) = Members(s) \union {x}
  BY <1>1, <1>2, AppendProperties
<1> HIDE DEF w
<1>7. /\ QueuePlaces' /\ lists'["queue"] = w /\ NoStalePrev'
      /\ \A k \in Lists : k # "queue" =>
           /\ lists'[k] = lists[k]
           /\ HeldByHead(mem, k, lists[k]) => HeldByHead(mem', k, lists'[k])
           /\ HeldByTail(mem, k, lists[k]) => HeldByTail(mem', k, lists'[k])
  BY <1>1, <1>2, <1>4, <1>5, <1>6, QueueStep DEF s
<1>8. ListsIntact'
  BY <1>1, <1>4, <1>5, <1>6, <1>7 DEF ListsIntact, CountsAgree, QueueInv, s
<1>9. QED
  BY <1>7, <1>8 DEF QueueInv

\* kqueue_dequeue
LEMMA DequeueStep ==
  ASSUME QueueInv, Dequeue, UNCHANGED available,
         inCallback' \in {inCallback, mem.head["queue"], Nil}
  PROVE  QueueInv'
<1> DEFINE s == lists["queue"]
           w == Tail(s)
           x == s[1]
<1>1. /\ "queue" \in Lists /\ "free" \in Lists /\ "list" \in Lists /\ "log" \in Lists
      /\ mem \in Memory /\ s \in Seq(Elems) /\ Injective(s) /\ Apart(lists)
  BY FourLists
<1>2. HeldByHead(mem, "queue", s) /\ HeldByTail(mem, "queue", s)
  BY DEF QueueInv, ListsIntact
<1>3. /\ mem' = Dequeued /\ lists' = [lists EXCEPT !["queue"] = w] /\ count' = count - 1
      /\ ~kqueue_is_empty
  BY DEF Dequeue
<1>4. s # <<>>
  BY <1>2, <1>3 DEF kqueue_is_empty, HeldByHead, First
<1>5. x \in Elems /\ x \in Members(s)
  BY <1>1, <1>4, MembersOf
<1> HIDE DEF s
<1>6. /\ mem' \in Memory /\ HeldByHead(mem', "queue", w) /\ HeldByTail(mem', "queue", w)
      /\ LinksKept(mem, mem', Members(s)) /\ PointersKept(mem, mem', "queue")
      /\ Loose(mem', x) /\ mem.head["queue"] = x
  BY <1>1, <1>2, <1>3, <1>4, DequeuedHolds
<1>7. w \in Seq(Elems) /\ Len(w) = Len(s) - 1 /\ Injective(w) /\ Members(w) = Members(s) \ {x}
  BY <1>1, <1>4, TailProperties
<1> HIDE DEF w, x
<1>8. LinksKept(mem, mem', Members(s) \union {x})
  BY <1>6 DEF LinksKept
<1>9. \A k \in Lists \ {"queue"} : x \notin Members(lists[k])
  BY <1>1, <1>5 DEF Apart, s
<1>10. /\ QueuePlaces' /\ lists'["queue"] = w /\ NoStalePrev'
       /\ \A k \in Lists : k # "queue" =>
            /\ lists'[k] = lists[k]
            /\ HeldByHead(mem, k, lists[k]) => HeldByHead(mem', k, lists'[k])
            /\ HeldByTail(mem, k, lists[k]) => HeldByTail(mem', k, lists'[k])
  BY <1>1, <1>3, <1>5, <1>6, <1>7, <1>8, <1>9, QueueStep DEF s
<1>11. ListsIntact'
  BY <1>1, <1>3, <1>6, <1>7, <1>10 DEF ListsIntact, CountsAgree, QueueInv, s
<1>12. QED
  BY <1>10, <1>11 DEF QueueInv

\* free_list_put
LEMMA PutStep ==
  ASSUME QueueInv, NEW x \in Elems, x \in InHand \/ x = inCallback, Put(x),
         UNCHANGED count, x # inCallback', inCallback' \in {inCallback, Nil}
  PROVE  QueueInv'
<1> DEFINE s == lists["free"]
           w == <<x>> \o s
<1>1. /\ "queue" \in Lists /\ "free" \in Lists /\ "list" \in Lists /\ "log" \in Lists
      /\ mem \in Memory /\ s \in Seq(Elems) /\ Injective(s)
  BY FourLists
<1>2. Loose(mem, x) /\ x \notin Members(s) /\ \A l \in Lists : x \notin Members(lists[l])
  BY <1>1, Outside
<1>3. HeldByHead(mem, "free", s)
  BY DEF QueueInv, ListsIntact
<1>4. /\ mem' = HeadPrepend(mem, "free", x) /\ lists' = [lists EXCEPT !["free"] = w]
      /\ available' = available + 1
  BY DEF Put
<1> HIDE DEF s
<1>5. /\ mem' \in Memory /\ HeldByHead(mem', "free", w)
      /\ LinksKept(mem, mem', Members(s) \union {x}) /\ PointersKept(mem, mem', "free")
  BY <1>1, <1>2, <1>3, <1>4, HeadPrependHolds
<1>6. w \in Seq(Elems) /\ Len(w) = Len(s) + 1 /\ Injective(w)
      /\ Members(w) = Members(s) \union {x}
  BY <1>1, <1>2, ConsProperties
<1> HIDE DEF w
<1>7. /\ QueuePlaces' /\ lists'["free"] = w /\ NoStalePrev'
      /\ \A k \in Lists : k # "free" =>
           /\ lists'[k] = lists[k]
           /\ HeldByHead(mem, k, lists[k]) => HeldByHead(mem', k, lists'[k])
           /\ HeldByTail(mem, k, lists[k]) => HeldByTail(mem', k, lists'[k])
  BY <1>1, <1>2, <1>4, <1>5, <1>6, QueueStep DEF s
<1>8. ListsIntact'
  BY <1>1, <1>4, <1>5, <1>6, <1>7 DEF ListsIntact, CountsAgree, QueueInv, s
<1>9. QED
  BY <1>7, <1>8 DEF QueueInv

\* free_list_get
LEMMA GetStep ==
  ASSUME QueueInv, free_list_get
  PROVE  QueueInv'
<1> DEFINE s == lists["free"]
           w == Tail(s)
           x == s[1]
<1>1. /\ "queue" \in Lists /\ "free" \in Lists /\ "list" \in Lists /\ "log" \in Lists
      /\ mem \in Memory /\ s \in Seq(Elems) /\ Injective(s) /\ Apart(lists)
  BY FourLists
<1>2. HeldByHead(mem, "free", s)
  BY DEF QueueInv, ListsIntact
<1>3. /\ mem' = HeadPop(mem, "free") /\ lists' = [lists EXCEPT !["free"] = w]
      /\ available' = available - 1 /\ mem.head["free"] # Nil
      /\ count' = count /\ inCallback' = inCallback
  BY DEF free_list_get
<1>4. s # <<>>
  BY <1>2, <1>3 DEF HeldByHead, First
<1>5. x \in Elems /\ x \in Members(s)
  BY <1>1, <1>4, MembersOf
<1> HIDE DEF s
<1>6. /\ mem' \in Memory /\ HeldByHead(mem', "free", w)
      /\ LinksKept(mem, mem', {x}) /\ PointersKept(mem, mem', "free")
      /\ Loose(mem', x)
  BY <1>1, <1>2, <1>3, <1>4, HeadPopHolds
<1>7. w \in Seq(Elems) /\ Len(w) = Len(s) - 1 /\ Injective(w) /\ Members(w) = Members(s) \ {x}
  BY <1>1, <1>4, TailProperties
<1> HIDE DEF w, x
<1>8. LinksKept(mem, mem', Members(s) \union {x})
  BY <1>6 DEF LinksKept
<1>9. \A k \in Lists \ {"free"} : x \notin Members(lists[k])
  BY <1>1, <1>5 DEF Apart, s
<1>10. /\ QueuePlaces' /\ lists'["free"] = w /\ NoStalePrev'
       /\ \A k \in Lists : k # "free" =>
            /\ lists'[k] = lists[k]
            /\ HeldByHead(mem, k, lists[k]) => HeldByHead(mem', k, lists'[k])
            /\ HeldByTail(mem, k, lists[k]) => HeldByTail(mem', k, lists'[k])
  BY <1>1, <1>3, <1>5, <1>6, <1>7, <1>8, <1>9, QueueStep DEF s
<1>11. ListsIntact'
  BY <1>1, <1>3, <1>6, <1>7, <1>10 DEF ListsIntact, CountsAgree, QueueInv, s
<1>12. QED
  BY <1>10, <1>11 DEF QueueInv

\* KLIST_HEAD_PREPEND on the client's list.
LEMMA PrependStep ==
  ASSUME QueueInv, NEW x \in Elems, KLIST_HEAD_PREPEND(x)
  PROVE  QueueInv'
<1> DEFINE s == lists["list"]
           w == <<x>> \o s
<1>1. /\ "queue" \in Lists /\ "free" \in Lists /\ "list" \in Lists /\ "log" \in Lists
      /\ mem \in Memory /\ s \in Seq(Elems) /\ Injective(s)
  BY FourLists
<1>2. /\ mem' = HeadPrepend(mem, "list", x) /\ lists' = [lists EXCEPT !["list"] = w]
      /\ x \in InHand /\ UNCHANGED <<count, available, inCallback>>
  BY DEF KLIST_HEAD_PREPEND, Relink
<1>3. Loose(mem, x) /\ x \notin Members(s) /\ \A l \in Lists : x \notin Members(lists[l])
  BY <1>1, <1>2, Outside
<1>4. HeldByHead(mem, "list", s)
  BY DEF QueueInv, ListsIntact
<1>5. x # inCallback'
  BY <1>2 DEF InHand
<1> HIDE DEF s
<1>6. /\ mem' \in Memory /\ HeldByHead(mem', "list", w) /\ mem'.prev[x] = Nil
      /\ LinksKept(mem, mem', Members(s) \union {x}) /\ PointersKept(mem, mem', "list")
  BY <1>1, <1>2, <1>3, <1>4, HeadPrependHolds
<1>7. w \in Seq(Elems) /\ w[1] = x /\ Injective(w) /\ Members(w) = Members(s) \union {x}
  BY <1>1, <1>3, ConsProperties
<1> HIDE DEF w
<1>8. /\ QueuePlaces' /\ lists'["list"] = w
      /\ \A k \in Lists : k # "list" =>
           /\ lists'[k] = lists[k]
           /\ HeldByHead(mem, k, lists[k]) => HeldByHead(mem', k, lists'[k])
           /\ HeldByTail(mem, k, lists[k]) => HeldByTail(mem', k, lists'[k])
  BY <1>1, <1>2, <1>3, <1>5, <1>6, <1>7, QueueStep DEF s
<1>9. ListsIntact' /\ NoStalePrev'
  BY <1>1, <1>2, <1>6, <1>7, <1>8 DEF ListsIntact, CountsAgree, QueueInv, NoStalePrev
<1>10. QED
  BY <1>8, <1>9 DEF QueueInv

\* KLIST_HEAD_REMOVE_ELEM on the client's list.
LEMMA RemoveStep ==
  ASSUME QueueInv, NEW x \in Elems, KLIST_HEAD_REMOVE_ELEM(x)
  PROVE  QueueInv'
<1> DEFINE s == lists["list"]
           w == Without(s, x)
<1>1. /\ "queue" \in Lists /\ "free" \in Lists /\ "list" \in Lists /\ "log" \in Lists
      /\ mem \in Memory /\ s \in Seq(Elems) /\ Injective(s) /\ Apart(lists)
  BY FourLists
<1>2. /\ mem' = HeadRemoveElem(mem, "list", x) /\ lists' = [lists EXCEPT !["list"] = w]
      /\ x \in Members(s) /\ UNCHANGED <<count, available, inCallback>>
  BY DEF KLIST_HEAD_REMOVE_ELEM, Relink
<1>3. HeldByHead(mem, "list", s)
  BY DEF QueueInv, ListsIntact
<1>4. s # <<>>
  BY <1>1, <1>2, MembersOf
<1>5. mem.prev[s[1]] = Nil
  BY <1>4 DEF QueueInv, NoStalePrev
<1>6. \A k \in Lists \ {"list"} : x \notin Members(lists[k])
  BY <1>1, <1>2 DEF Apart
<1> HIDE DEF s
<1>7. /\ mem' \in Memory /\ HeldByHead(mem', "list", w) /\ Loose(mem', x)
      /\ LinksKept(mem, mem', Members(s)) /\ PointersKept(mem, mem', "list")
      /\ w # <<>> => mem'.prev[w[1]] = Nil
  BY <1>1, <1>2, <1>3, <1>5, HeadRemoveHolds
<1>8. w \in Seq(Elems) /\ Injective(w) /\ Members(w) = Members(s) \ {x}
  BY <1>1, <1>2, WithoutProperties
<1> HIDE DEF w
<1>9. LinksKept(mem, mem', Members(s) \union {x})
  BY <1>7 DEF LinksKept
<1>10. /\ QueuePlaces' /\ lists'["list"] = w
       /\ \A k \in Lists : k # "list" =>
            /\ lists'[k] = lists[k]
            /\ HeldByHead(mem, k, lists[k]) => HeldByHead(mem', k, lists'[k])
            /\ HeldByTail(mem, k, lists[k]) => HeldByTail(mem', k, lists'[k])
  BY <1>1, <1>2, <1>6, <1>7, <1>8, <1>9, QueueStep DEF s
<1>11. ListsIntact' /\ NoStalePrev'
  BY <1>1, <1>2, <1>7, <1>8, <1>10 DEF ListsIntact, CountsAgree, QueueInv, NoStalePrev
<1>12. QED
  BY <1>10, <1>11 DEF QueueInv

\* KLIST_TAIL_APPEND on the client's log.
LEMMA LogAppendStep ==
  ASSUME QueueInv, NEW x \in Elems, KLIST_TAIL_APPEND(x)
  PROVE  QueueInv'
<1> DEFINE s == lists["log"]
           w == Append(s, x)
<1>1. /\ "queue" \in Lists /\ "free" \in Lists /\ "list" \in Lists /\ "log" \in Lists
      /\ mem \in Memory /\ s \in Seq(Elems) /\ Injective(s)
  BY FourLists
<1>2. /\ mem' = TailAppend(mem, "log", x) /\ lists' = [lists EXCEPT !["log"] = w]
      /\ x \in InHand /\ UNCHANGED <<count, available, inCallback>>
  BY DEF KLIST_TAIL_APPEND, Relink
<1>3. Loose(mem, x) /\ x \notin Members(s) /\ \A l \in Lists : x \notin Members(lists[l])
  BY <1>1, <1>2, Outside
<1>4. HeldByTail(mem, "log", s)
  BY DEF QueueInv, ListsIntact
<1>5. x # inCallback'
  BY <1>2 DEF InHand
<1> HIDE DEF s
<1>6. /\ mem' \in Memory /\ HeldByTail(mem', "log", w)
      /\ LinksKept(mem, mem', Members(s) \union {x}) /\ PointersKept(mem, mem', "log")
  BY <1>1, <1>2, <1>3, <1>4, TailAppendHolds
<1>7. w \in Seq(Elems) /\ Injective(w) /\ Members(w) = Members(s) \union {x}
  BY <1>1, <1>3, AppendProperties
<1> HIDE DEF w
<1>8. /\ QueuePlaces' /\ lists'["log"] = w /\ NoStalePrev'
      /\ \A k \in Lists : k # "log" =>
           /\ lists'[k] = lists[k]
           /\ HeldByHead(mem, k, lists[k]) => HeldByHead(mem', k, lists'[k])
           /\ HeldByTail(mem, k, lists[k]) => HeldByTail(mem', k, lists'[k])
  BY <1>1, <1>2, <1>3, <1>5, <1>6, <1>7, QueueStep DEF s
<1>9. ListsIntact'
  BY <1>1, <1>2, <1>6, <1>8 DEF ListsIntact, CountsAgree, QueueInv
<1>10. QED
  BY <1>8, <1>9 DEF QueueInv

\* KLIST_TAIL_REMOVE_ELEM on the client's log.
LEMMA LogRemoveStep ==
  ASSUME QueueInv, NEW x \in Elems, KLIST_TAIL_REMOVE_ELEM(x)
  PROVE  QueueInv'
<1> DEFINE s == lists["log"]
           w == Without(s, x)
<1>1. /\ "queue" \in Lists /\ "free" \in Lists /\ "list" \in Lists /\ "log" \in Lists
      /\ mem \in Memory /\ s \in Seq(Elems) /\ Injective(s) /\ Apart(lists)
  BY FourLists
<1>2. /\ mem' = TailRemoveElem(mem, "log", x) /\ lists' = [lists EXCEPT !["log"] = w]
      /\ x \in Members(s) /\ UNCHANGED <<count, available, inCallback>>
  BY DEF KLIST_TAIL_REMOVE_ELEM, Relink
<1>3. HeldByTail(mem, "log", s)
  BY DEF QueueInv, ListsIntact
<1>6. \A k \in Lists \ {"log"} : x \notin Members(lists[k])
  BY <1>1, <1>2 DEF Apart
<1> HIDE DEF s
<1>7. /\ mem' \in Memory /\ HeldByTail(mem', "log", w) /\ Loose(mem', x)
      /\ LinksKept(mem, mem', Members(s)) /\ PointersKept(mem, mem', "log")
  BY <1>1, <1>2, <1>3, TailRemoveHolds
<1>8. w \in Seq(Elems) /\ Injective(w) /\ Members(w) = Members(s) \ {x}
  BY <1>1, <1>2, WithoutProperties
<1> HIDE DEF w
<1>9. LinksKept(mem, mem', Members(s) \union {x})
  BY <1>7 DEF LinksKept
<1>10. /\ QueuePlaces' /\ lists'["log"] = w /\ NoStalePrev'
       /\ \A k \in Lists : k # "log" =>
            /\ lists'[k] = lists[k]
            /\ HeldByHead(mem, k, lists[k]) => HeldByHead(mem', k, lists'[k])
            /\ HeldByTail(mem, k, lists[k]) => HeldByTail(mem', k, lists'[k])
  BY <1>1, <1>2, <1>6, <1>7, <1>8, <1>9, QueueStep DEF s
<1>11. ListsIntact'
  BY <1>1, <1>2, <1>7, <1>10 DEF ListsIntact, CountsAgree, QueueInv
<1>12. QED
  BY <1>10, <1>11 DEF QueueInv

\* free_list_init has prepended every item.
LEMMA QueueInitInv == QueueInit => QueueInv
<1> SUFFICES ASSUME QueueInit PROVE QueueInv
  OBVIOUS
<1> DEFINE n == Len(Order)
           P(e) == CHOOSE j \in 1..n : Order[j] = e
           s == [i \in 1..n |-> Order[n + 1 - i]]
<1>1. /\ n \in Nat /\ \A i \in 1..n : Order[i] \in Elems
      /\ \A i, j \in 1..n : Order[i] = Order[j] => i = j
      /\ \A e \in Elems : \E i \in 1..n : Order[i] = e
      /\ "queue" \in Lists /\ "free" \in Lists /\ "list" \in Lists /\ "log" \in Lists
  BY QueueAssumption, MembersOf
<1>2. \A e \in Elems : P(e) \in 1..n /\ Order[P(e)] = e
  BY <1>1
<1>3. \A i \in 1..n : P(Order[i]) = i
  BY <1>1, <1>2
<1>4. /\ mem.tail = [l \in Lists |-> Nil]
      /\ mem.head = [[l \in Lists |-> Nil] EXCEPT !["free"] = Last(Order)]
      /\ mem.next = [e \in Elems |-> IF P(e) = 1 THEN Nil ELSE Order[P(e) - 1]]
      /\ mem.prev = [e \in Elems |-> IF P(e) = n THEN Nil ELSE Order[P(e) + 1]]
      /\ mem = [next |-> mem.next, prev |-> mem.prev, head |-> mem.head, tail |-> mem.tail]
  BY DEF QueueInit, Cleared
<1>5. lists = [l \in Lists |-> IF l = "free" THEN s ELSE <<>>]
  BY DEF QueueInit
<1>6. count = 0 /\ available = n /\ inCallback = Nil
  BY DEF QueueInit
<1> HIDE DEF P
<1>7. Last(Order) \in Pointers
  BY <1>1 DEF Last, Pointers
<1>8. mem \in Memory
  <2>1. mem.next \in [Elems -> Pointers] /\ mem.prev \in [Elems -> Pointers]
    <3>1. \A e \in Elems : P(e) # 1 => Order[P(e) - 1] \in Elems
      BY <1>1, <1>2
    <3>2. \A e \in Elems : P(e) # n => Order[P(e) + 1] \in Elems
      BY <1>1, <1>2
    <3>3. QED
      BY <1>4, <3>1, <3>2 DEF Pointers
  <2>2. mem.head \in [Lists -> Pointers] /\ mem.tail \in [Lists -> Pointers]
    BY <1>4, <1>7 DEF Pointers
  <2>3. QED
    BY <1>4, <2>1, <2>2 DEF Memory
<1>9. \A i \in 1..n : n + 1 - i \in 1..n /\ s[i] = Order[n + 1 - i]
  BY <1>1
<1>10. s \in Seq(Elems) /\ Len(s) = n
  BY <1>1, <1>9
<1> HIDE DEF s
<1>11. Injective(s)
  <2>1. ASSUME NEW i \in 1..n, NEW j \in 1..n, s[i] = s[j] PROVE i = j
    <3>1. PICK a \in 1..n, b \in 1..n : a = n + 1 - i /\ b = n + 1 - j
      BY <1>9
    <3>2. s[i] = Order[a] /\ s[j] = Order[b]
      BY <1>9, <3>1
    <3>3. a = b
      BY <1>1, <2>1, <3>2
    <3>4. QED
      BY <1>1, <3>1, <3>3
  <2>2. QED
    BY <1>10, <2>1 DEF Injective
<1>12. Members(s) = Elems
  <2>1. ASSUME NEW e \in Elems PROVE e \in Members(s)
    <3>1. PICK j \in 1..n : Order[j] = e
      BY <1>1
    <3>2. PICK i \in 1..n : i = n + 1 - j
      BY <1>9
    <3>3. n + 1 - i = j
      BY <1>1, <3>2
    <3>4. s[i] = e
      BY <1>9, <3>1, <3>3
    <3>5. QED
      BY <1>10, <3>4 DEF Members
  <2>2. QED
    BY <1>10, <2>1, MembersOf
<1>13. lists["free"] = s /\ \A l \in Lists : l # "free" => lists[l] = <<>>
  BY <1>1, <1>5
<1>14. Members(<<>>) = {} /\ Injective(<<>>) /\ <<>> \in Seq(Elems)
  BY DEF Members, Injective
<1>15. Apart(lists)
  <2>1. lists \in [Lists -> Seq(Elems)]
    BY <1>5, <1>10, <1>14
  <2>2. \A l \in Lists : Injective(lists[l])
    BY <1>11, <1>13, <1>14
  <2>3. \A l, k \in Lists : l # k => Members(lists[l]) \intersect Members(lists[k]) = {}
    BY <1>13, <1>14
  <2>4. QED
    BY <2>1, <2>2, <2>3 DEF Apart
<1>16. QueuePlaces
  <2>1. \A l \in Lists : inCallback \notin Members(lists[l])
    BY <1>6, <1>12, <1>13, <1>14, ListAssumption
  <2>2. \A x \in Elems : x \in Members(lists["free"])
    BY <1>12, <1>13
  <2>3. QED
    BY <1>1, <1>6, <1>8, <1>15, <2>1, <2>2 DEF QueuePlaces, Pointers
<1>17. Linked(mem, s)
  <2>1. ASSUME NEW i \in 1..n
        PROVE  /\ mem.next[s[i]] = IF i = n THEN Nil ELSE s[i + 1]
               /\ i > 1 => mem.prev[s[i]] = s[i - 1]
    <3>1. n + 1 - i \in 1..n /\ s[i] = Order[n + 1 - i] /\ s[i] \in Elems
      BY <1>1, <1>9
    <3>2. P(s[i]) = n + 1 - i
      BY <1>3, <3>1
    <3>3. mem.next[s[i]] = IF n + 1 - i = 1 THEN Nil ELSE Order[n + 1 - i - 1]
      BY <1>4, <3>1, <3>2
    <3>4. mem.prev[s[i]] = IF n + 1 - i = n THEN Nil ELSE Order[n + 1 - i + 1]
      BY <1>4, <3>1, <3>2
    <3>5. i # n => s[i + 1] = Order[n + 1 - i - 1]
      BY <1>1, <1>9
    <3>6. i > 1 => s[i - 1] = Order[n + 1 - i + 1]
      BY <1>1, <1>9
    <3>7. QED
      BY <1>1, <3>3, <3>4, <3>5, <3>6
  <2>2. QED
    BY <1>10, <2>1 DEF Linked
<1>18. mem.head["free"] = First(s)
  <2>1. mem.head["free"] = Last(Order)
    BY <1>1, <1>4
  <2>2. s = <<>> <=> n = 0
    BY <1>10
  <2>3. Order = <<>> <=> n = 0
    BY QueueAssumption
  <2>4. n # 0 => s[1] = Order[n]
    BY <1>1, <1>9
  <2>5. QED
    BY <2>1, <2>2, <2>3, <2>4 DEF First, Last
<1>19. \A l \in Lists : l # "free" => HeldByHead(mem, l, lists[l]) /\ HeldByTail(mem, l, lists[l])
  BY <1>1, <1>4, <1>13 DEF HeldByHead, HeldByTail, First, Last, Linked
<1>20. ListsIntact
  BY <1>1, <1>6, <1>10, <1>13, <1>17, <1>18, <1>19
  DEF ListsIntact, CountsAgree, HeldByHead
<1>21. NoStalePrev
  BY <1>1, <1>13 DEF NoStalePrev
<1>22. QED
  BY <1>16, <1>20, <1>21 DEF QueueInv

\* A step that touches no list.
LEMMA QueueRests ==
  ASSUME QueueInv, UNCHANGED <<mem, count, available, lists>>,
         inCallback' \in {inCallback, Nil}
  PROVE  QueueInv'
<1>1. \A l \in Lists : inCallback' \notin Members(lists[l])
  BY MembersOf, ListAssumption DEF QueueInv, QueuePlaces, Apart
<1>2. QueuePlaces'
  BY <1>1 DEF QueueInv, QueuePlaces, Pointers
<1>3. NoStalePrev' /\ ListsIntact'
  BY DEF QueueInv, NoStalePrev, ListsIntact, CountsAgree
<1>4. QED
  BY <1>2, <1>3 DEF QueueInv

\* The client's callback.
LEMMA CallbackStep ==
  ASSUME QueueInv, Callback
  PROVE  QueueInv'
<1>1. inCallback \in Elems /\ inCallback' = Nil /\ inCallback # inCallback'
  BY DEF Callback, QueueInv, QueuePlaces, Pointers
<1>2. CASE Put(inCallback) /\ UNCHANGED count
  BY <1>1, <1>2, PutStep
<1>3. CASE Insert(inCallback) /\ UNCHANGED available
  BY <1>1, <1>3, InsertStep
<1>4. CASE UNCHANGED <<mem, count, available, lists>>
  BY <1>1, <1>4, QueueRests
<1>5. QED
  BY <1>2, <1>3, <1>4 DEF Callback

\* Every step keeps the invariant.
LEMMA QueueNextInv == QueueInv /\ [QueueNext]_queuevars => QueueInv'
<1> SUFFICES ASSUME QueueInv, [QueueNext]_queuevars PROVE QueueInv'
  OBVIOUS
<1>1. ASSUME NEW x \in Elems, kqueue_insert(x) PROVE QueueInv'
  <2>1. x # inCallback'
    BY <1>1 DEF kqueue_insert, InHand
  <2>2. QED
    BY <1>1, <2>1, InsertStep DEF kqueue_insert
<1>2. ASSUME NEW x \in Elems, free_list_put(x) PROVE QueueInv'
  <2>1. x # inCallback'
    BY <1>2 DEF free_list_put, InHand
  <2>2. QED
    BY <1>2, <2>1, PutStep DEF free_list_put
<1>3. ASSUME NEW x \in Elems, kqueue_drop_all_through_elem(x) PROVE QueueInv'
  BY <1>3, QueueRests DEF kqueue_drop_all_through_elem, StartDrop
<1>4. CASE kqueue_dequeue
  BY <1>4, DequeueStep DEF kqueue_dequeue
<1>5. ASSUME NEW cb \in Callbacks, kqueue_register_drop_all_cb(cb) PROVE QueueInv'
  BY <1>5, QueueRests DEF kqueue_register_drop_all_cb
<1>6. CASE kqueue_drop_all
  BY <1>6, QueueRests DEF kqueue_drop_all, StartDrop
<1>7. CASE DropNext
  BY <1>7, DequeueStep DEF DropNext
<1>8. CASE DropEnds
  BY <1>8, QueueRests DEF DropEnds
<1>9. CASE Ended \/ UNCHANGED queuevars
  BY <1>9, QueueRests DEF Ended, queuevars
<1>10. QED
  BY <1>1, <1>2, <1>3, <1>4, <1>5, <1>6, <1>7, <1>8, <1>9, GetStep, CallbackStep,
     PrependStep, RemoveStep, LogAppendStep, LogRemoveStep
  DEF QueueNext

\* The queue, the free list and the client's two lists hold exactly what was put
\* into them and not taken out, in order, and item_count and current_available
\* are their lengths: for any number of elements, whatever the callbacks of
\* kqueue_drop_all and kqueue_drop_all_through_elem do between two dequeues.
THEOREM ListsStayIntact == QueueSpec => []ListsIntact
<1>1. QueueInv => ListsIntact
  BY DEF QueueInv
<1>2. QED
  BY QueueInitInv, QueueNextInv, <1>1, PTL DEF QueueSpec

-----------------------------------------------------------------------------
(* The notifier.                                                           *)

\* The kinds of call a thread at its step may be in.
KindsOk ==
    \A t \in Threads :
        /\ pc[t] = "clear" => op[t].kind = "allocate"
        /\ pc[t] \in {"walk", "call"} => op[t].kind = "post"

\* Every block is in one place at most, and in one at least.
OnePlace ==
    /\ Apart(content)
    /\ \A b \in Blocks :
        b \in free \union held \union Registered \/ \E t \in Threads : b \in InFlight(t)
    /\ \A t \in Threads : InFlight(t) \subseteq Blocks
    /\ free \intersect held = {}
    /\ free \intersect Registered = {}
    /\ held \intersect Registered = {}
    /\ \A t \in Threads : InFlight(t) \intersect (free \union held \union Registered) = {}
    /\ \A t, u \in Threads : t # u => InFlight(t) \intersect InFlight(u) = {}

\* Thread t is about to deregister a block.
Deregisters(t) == op[t].kind = "deregister" /\ pc[t] \in {"lock", "body"}

\* A registered block is where its category says, and is deregistered by one
\* thread at most.
RegisteredOk ==
    /\ \A c \in Categories : \A b \in Members(content[c]) : category[b] = c
    /\ \A t \in Threads : Deregisters(t) => op[t].blk \in Registered
    /\ \A t, u \in Threads :
        t # u /\ Deregisters(t) /\ Deregisters(u) => op[t].blk # op[u].blk

\* No call is under way in a notifier that is closed.
ClosedOk == ~open => AllIdle /\ held = {}

\* Thread t is between mutex_lock and mutex_unlock.
Inside(t) == pc[t] \in {"body", "walk", "call", "unlock"}

\* Thread t's post has called the first blocks of the list.
CalledPrefix(t) ==
    /\ Len(called[t]) <= Len(content[op[t].cat])
    /\ \A i \in 1..Len(called[t]) : called[t][i] = content[op[t].cat][i]

\* Element k of the list, or its end.
Element(s, k) == IF k > Len(s) THEN Nil ELSE s[k]

\* The loop of thread t's post.
WalkOk(t) ==
    LET s == content[op[t].cat]
        k == Len(called[t])
    IN  op[t].kind = "post" =>
            /\ pc[t] \in {"lock", "body"} => called[t] = <<>>
            /\ pc[t] = "walk" => CalledPrefix(t) /\ cursor[t] = Element(s, k + 1)
            /\ pc[t] = "call" =>
                 /\ CalledPrefix(t) /\ k < Len(s) /\ cursor[t] = s[k + 1]
                 /\ pNext[t] = Element(s, k + 2)
            /\ pc[t] = "unlock" => called[t] = s

\* What the mutex protects.
Guarded ==
    /\ \A t \in Threads : Inside(t) => mtx = t
    /\ \A c \in Categories : HeldByHead(m, c, content[c])
    /\ \A b \in held : Loose(m, b)
    /\ \A t \in Threads :
        op[t].kind = "register" /\ pc[t] \in {"lock", "body"} => Loose(m, op[t].blk)
    /\ \A t \in Threads : WalkOk(t)

\* The inductive invariant.
NotifierInv ==
    /\ TypeOK /\ KindsOk /\ OnePlace /\ RegisteredOk /\ ClosedOk
    /\ ~intruded => Guarded

\* The types that a step of thread t leaves as they are.
LEMMA ThreadTypes ==
  ASSUME TypeOK, NEW t \in Threads
  PROVE  /\ pc[t] \in Steps /\ op[t] \in Calls /\ op[t].cat \in Categories
         /\ op[t].blk \in Blocks \union {Nil}
         /\ op[t].kind \in {"allocate", "register", "deregister", "post"}
         /\ called[t] \in Seq(Blocks)
         /\ cursor[t] \in Blocks \union {Nil} /\ pNext[t] \in Blocks \union {Nil}
  BY DEF TypeOK, Calls

\* A block in flight, by the step of the call that has it.
LEMMA Flight ==
  ASSUME NEW t \in Threads
  PROVE  /\ op[t].kind = "allocate" /\ pc[t] \in {"unlock", "clear"} =>
              InFlight(t) = {op[t].blk}
         /\ op[t].kind = "register" /\ pc[t] \in {"lock", "body"} =>
              InFlight(t) = {op[t].blk}
         /\ op[t].kind \in {"deregister", "post"} => InFlight(t) = {}
         /\ pc[t] \in {"idle", "walk", "call"} => InFlight(t) = {}
         /\ op[t].kind = "allocate" /\ pc[t] \in {"lock", "body"} => InFlight(t) = {}
         /\ op[t].kind = "register" /\ pc[t] \in {"unlock", "clear"} => InFlight(t) = {}
  BY DEF InFlight

\* A thread that does not step keeps its block.
LEMMA FlightKept ==
  ASSUME NEW t \in Threads, pc'[t] = pc[t], op'[t] = op[t]
  PROVE  InFlight(t)' = InFlight(t)
  BY DEF InFlight

\* Nothing moves.
LEMMA PlacesKept ==
  ASSUME OnePlace, UNCHANGED <<content, free, held>>,
         \A u \in Threads : InFlight(u)' = InFlight(u)
  PROVE  OnePlace'
<1>1. Registered' = Registered
  BY DEF Registered
<1>2. QED
  BY <1>1 DEF OnePlace

\* Block b moves from one place to another.
LEMMA PlacesMove ==
  ASSUME OnePlace, NEW t \in Threads, NEW b \in Blocks,
         free' \subseteq Blocks, held' \subseteq Blocks, Apart(content'),
         \A u \in Threads : u # t => InFlight(u)' = InFlight(u),
         InFlight(t) \ {b} = InFlight(t)' \ {b}, free \ {b} = free' \ {b},
         held \ {b} = held' \ {b}, Registered \ {b} = Registered' \ {b},
         \A u \in Threads : u # t => b \notin InFlight(u),
         \/ b \in InFlight(t)' /\ b \notin free' \union held' \union Registered'
         \/ b \in free' /\ b \notin InFlight(t)' \union held' \union Registered'
         \/ b \in held' /\ b \notin InFlight(t)' \union free' \union Registered'
         \/ b \in Registered' /\ b \notin InFlight(t)' \union free' \union held'
  PROVE  OnePlace'
<1>1. \A e \in Blocks : e # b =>
        /\ e \in free' <=> e \in free
        /\ e \in held' <=> e \in held
        /\ e \in Registered' <=> e \in Registered
        /\ e \in InFlight(t)' <=> e \in InFlight(t)
  OBVIOUS
<1>2. ASSUME NEW e \in Blocks
      PROVE  e \in free' \union held' \union Registered' \/ \E u \in Threads : e \in InFlight(u)'
  <2>1. CASE e = b
    BY <2>1
  <2>2. CASE e # b
    <3>1. CASE e \in free \union held \union Registered
      BY <1>1, <2>2, <3>1
    <3>2. CASE \E u \in Threads : e \in InFlight(u)
      BY <1>1, <2>2, <3>2
    <3>3. QED
      BY <3>1, <3>2 DEF OnePlace
  <2>3. QED
    BY <2>1, <2>2
<1>3. Registered \subseteq Blocks /\ Registered' \subseteq Blocks
  BY MembersOf DEF Registered, OnePlace, Apart, Blocks, Categories
<1>4. \A u \in Threads : InFlight(u)' \subseteq Blocks
  BY DEF OnePlace
<1>5. /\ free' \intersect held' = {} /\ free' \intersect Registered' = {}
      /\ held' \intersect Registered' = {}
  BY <1>1, <1>3 DEF OnePlace
<1>6. \A u \in Threads : InFlight(u)' \intersect (free' \union held' \union Registered') = {}
  <2>1. ASSUME NEW u \in Threads, NEW e \in InFlight(u)',
               e \in free' \union held' \union Registered'
        PROVE  FALSE
    <3>1. CASE e = b
      BY <2>1, <3>1
    <3>2. CASE e # b
      <4>1. e \in InFlight(u)
        BY <1>1, <1>4, <2>1, <3>2
      <4>2. e \in Blocks /\ e \in free \union held \union Registered
        BY <1>1, <1>4, <2>1, <3>2
      <4>3. QED
        BY <4>1, <4>2 DEF OnePlace
    <3>3. QED
      BY <3>1, <3>2
  <2>2. QED
    BY <2>1
<1>7. \A u, v \in Threads : u # v => InFlight(u)' \intersect InFlight(v)' = {}
  <2>1. ASSUME NEW u \in Threads, NEW v \in Threads, u # v,
               NEW e \in InFlight(u)', e \in InFlight(v)'
        PROVE  FALSE
    <3>1. CASE e = b
      BY <2>1, <3>1
    <3>2. CASE e # b
      <4>1. e \in InFlight(u) /\ e \in InFlight(v)
        BY <1>1, <1>4, <2>1, <3>2
      <4>2. QED
        BY <2>1, <4>1 DEF OnePlace
    <3>3. QED
      BY <3>1, <3>2
  <2>2. QED
    BY <2>1
<1>8. QED
  BY <1>2, <1>4, <1>5, <1>6, <1>7 DEF OnePlace

\* A block is registered.
LEMMA RegisteredGrows ==
  ASSUME Apart(content), NEW c \in Lists, NEW w, NEW b,
         content' = [content EXCEPT ![c] = w], Members(w) = Members(content[c]) \union {b}
  PROVE  Registered' = Registered \union {b}
<1>1. content'[c] = w /\ \A d \in Lists : d # c => content'[d] = content[d]
  BY DEF Apart
<1>2. QED
  BY <1>1 DEF Registered, Categories

\* A block is deregistered.
LEMMA RegisteredShrinks ==
  ASSUME Apart(content), NEW c \in Lists, NEW w, NEW b \in Members(content[c]),
         content' = [content EXCEPT ![c] = w], Members(w) = Members(content[c]) \ {b}
  PROVE  Registered' = Registered \ {b}
<1>1. content'[c] = w /\ \A d \in Lists : d # c => content'[d] = content[d]
  BY DEF Apart
<1>2. \A d \in Lists : d # c => b \notin Members(content[d])
  BY DEF Apart
<1>3. QED
  BY <1>1, <1>2 DEF Registered, Categories

\* The loop of a thread that does not step.
LEMMA OthersWalk ==
  ASSUME Guarded, NEW t \in Threads, NEW u \in Threads, u # t,
         pc'[u] = pc[u], op'[u] = op[u], called'[u] = called[u],
         cursor'[u] = cursor[u], pNext'[u] = pNext[u],
         content' = content \/ Inside(t)
  PROVE  WalkOk(u)'
<1>1. WalkOk(u)
  BY DEF Guarded
<1>2. CASE content' = content
  BY <1>1, <1>2 DEF WalkOk, CalledPrefix, Element
<1>3. CASE Inside(t)
  <2>1. pc[u] \notin {"body", "walk", "call", "unlock"}
    BY <1>3 DEF Guarded, Inside
  <2>2. QED
    BY <1>1, <2>1 DEF WalkOk
<1>4. QED
  BY <1>2, <1>3

\* A call begins.
LEMMA EnterStep ==
  ASSUME NotifierInv, NEW t \in Threads, NEW c \in Categories, NEW b \in Blocks \union {Nil},
         NEW kind \in {"allocate", "register", "deregister", "post"}, Enter(t, kind, c, b),
         kind = "register" => b \in held /\ held' = held \ {b},
         kind # "register" => held' = held,
         kind = "deregister" => b \in Registered /\ ~Leaving(b)
  PROVE  NotifierInv'
<1>1. /\ TypeOK /\ KindsOk /\ OnePlace /\ RegisteredOk /\ ClosedOk
      /\ open /\ pc[t] = "idle" /\ open' = open
      /\ UNCHANGED <<mtx, m, category, content, free, cursor, pNext, crashed, intruded>>
      /\ op' = [op EXCEPT ![t] = [kind |-> kind, cat |-> c, blk |-> b]]
      /\ called' = [called EXCEPT ![t] = <<>>]
      /\ pc' = [pc EXCEPT ![t] = "lock"]
  BY DEF NotifierInv, Enter, At, Goto, table
<1>2. /\ pc'[t] = "lock" /\ called'[t] = <<>>
      /\ op'[t] = [kind |-> kind, cat |-> c, blk |-> b]
      /\ op'[t].kind = kind /\ op'[t].cat = c /\ op'[t].blk = b
  BY <1>1 DEF TypeOK
<1>3. ASSUME NEW u \in Threads, u # t
      PROVE  pc'[u] = pc[u] /\ op'[u] = op[u] /\ called'[u] = called[u]
  BY <1>1, <1>3 DEF TypeOK
<1>4. TypeOK'
  <2>1. [kind |-> kind, cat |-> c, blk |-> b] \in Calls
    BY DEF Calls
  <2>2. op' \in [Threads -> Calls] /\ pc' \in [Threads -> Steps]
    BY <1>1, <2>1 DEF TypeOK, Steps
  <2>3. called' \in [Threads -> Seq(Blocks)]
    BY <1>1 DEF TypeOK
  <2>4. held' \subseteq Blocks
    BY <1>1 DEF TypeOK
  <2>5. \A u \in Threads : pc'[u] = "call" => cursor'[u] # Nil
    BY <1>1, <1>2, <1>3 DEF TypeOK
  <2>6. QED
    BY <1>1, <2>2, <2>3, <2>4, <2>5 DEF TypeOK
<1>5. KindsOk'
  BY <1>1, <1>2, <1>3 DEF KindsOk
<1>6. \A u \in Threads : u # t => InFlight(u)' = InFlight(u)
  BY <1>3, FlightKept
<1>7. InFlight(t) = {} /\ InFlight(t)' = IF kind = "register" THEN {b} ELSE {}
  BY <1>1, <1>2 DEF InFlight
<1>8. OnePlace'
  <2>1. CASE kind = "register"
    <3>1. b \in held /\ b \in Blocks /\ held' = held \ {b}
      BY <1>1, <2>1 DEF TypeOK
    <3>2. Registered' = Registered
      BY <1>1 DEF Registered
    <3>3. b \notin free /\ b \notin Registered /\ \A u \in Threads : b \notin InFlight(u)
      BY <1>1, <3>1 DEF OnePlace
    <3>4. Apart(content') /\ free' \subseteq Blocks /\ held' \subseteq Blocks
      BY <1>1, <1>4 DEF OnePlace, TypeOK
    <3>5. QED
      BY <1>1, <1>6, <1>7, <2>1, <3>1, <3>2, <3>3, <3>4, PlacesMove
  <2>2. CASE kind # "register"
    BY <1>1, <1>6, <1>7, <2>2, PlacesKept
  <2>3. QED
    BY <2>1, <2>2
<1>9. RegisteredOk'
  <2>1. Registered' = Registered
    BY <1>1 DEF Registered
  <2>2. \A u \in Threads : u # t => (Deregisters(u)' <=> Deregisters(u))
    BY <1>3 DEF Deregisters
  <2>3. Deregisters(t)' => b \in Registered /\ ~Leaving(b)
    BY <1>2 DEF Deregisters
  <2>4. \A u \in Threads : Deregisters(u)' => op'[u].blk \in Registered'
    BY <1>1, <1>2, <1>3, <2>1, <2>2, <2>3 DEF RegisteredOk
  <2>5. ASSUME NEW u \in Threads, u # t, Deregisters(u)', Deregisters(t)'
        PROVE  op'[u].blk # b
    <3>1. Deregisters(u) /\ op'[u].blk = op[u].blk
      BY <1>3, <2>2, <2>5
    <3>2. QED
      BY <2>3, <2>5, <3>1 DEF Leaving, Deregisters
  <2>6. \A u, v \in Threads :
          u # v /\ Deregisters(u)' /\ Deregisters(v)' => op'[u].blk # op'[v].blk
    BY <1>1, <1>2, <1>3, <2>2, <2>5 DEF RegisteredOk
  <2>7. \A d \in Categories : \A e \in Members(content'[d]) : category'[e] = d
    BY <1>1 DEF RegisteredOk
  <2>8. QED
    BY <2>4, <2>6, <2>7 DEF RegisteredOk
<1>10. ClosedOk'
  BY <1>1 DEF ClosedOk
<1>11. ASSUME ~intruded' PROVE Guarded'
  <2>1. Guarded
    BY <1>1, <1>11 DEF NotifierInv
  <2>2. \A u \in Threads : Inside(u)' => mtx' = u
    BY <1>1, <1>2, <1>3, <2>1 DEF Guarded, Inside
  <2>3. \A d \in Categories : HeldByHead(m', d, content'[d])
    BY <1>1, <2>1 DEF Guarded
  <2>4. \A e \in held' : Loose(m', e)
    BY <1>1, <2>1 DEF Guarded
  <2>5. ASSUME NEW u \in Threads, op'[u].kind = "register", pc'[u] \in {"lock", "body"}
        PROVE  Loose(m', op'[u].blk)
    BY <1>1, <1>2, <1>3, <2>1, <2>5 DEF Guarded
  <2>6. WalkOk(t)'
    BY <1>2 DEF WalkOk
  <2>7. \A u \in Threads : u # t => WalkOk(u)'
    BY <1>1, <1>3, <2>1, OthersWalk
  <2>8. QED
    BY <2>2, <2>3, <2>4, <2>5, <2>6, <2>7 DEF Guarded
<1>12. QED
  BY <1>4, <1>5, <1>8, <1>9, <1>10, <1>11 DEF NotifierInv

\* Steps of thread t's call that move no block, and after which the same
\* thread, if any, is about to deregister.
LEMMA QuietStep ==
  ASSUME NotifierInv, NEW t \in Threads, pc[t] # "idle",
         UNCHANGED <<open, m, category, content, free, held, op>>,
         \A u \in Threads : u # t => pc'[u] = pc[u],
         InFlight(t)' = InFlight(t), Deregisters(t)' => Deregisters(t)
  PROVE  OnePlace' /\ RegisteredOk' /\ ClosedOk'
<1>1. OnePlace /\ RegisteredOk /\ ClosedOk
  BY DEF NotifierInv
<1>2. \A u \in Threads : InFlight(u)' = InFlight(u)
  BY FlightKept
<1>3. OnePlace'
  BY <1>1, <1>2, PlacesKept
<1>4. Registered' = Registered
  BY DEF Registered
<1>5. \A u \in Threads : Deregisters(u)' => Deregisters(u)
  BY DEF Deregisters
<1>6. RegisteredOk'
  BY <1>1, <1>4, <1>5 DEF RegisteredOk
<1>7. ClosedOk'
  BY <1>1 DEF ClosedOk, AllIdle
<1>8. QED
  BY <1>3, <1>6, <1>7

\* mutex_lock
LEMMA LockStep ==
  ASSUME NotifierInv, NEW t \in Threads, Lock(t)
  PROVE  NotifierInv'
<1>1. /\ TypeOK /\ KindsOk
      /\ pc[t] = "lock" /\ pc' = [pc EXCEPT ![t] = "body"]
      /\ UNCHANGED <<open, m, category, content, free, held, op, cursor, pNext, called, crashed>>
      /\ \/ mtx = NoThread /\ mtx' = t /\ UNCHANGED intruded
         \/ mtx # NoThread /\ UNCHANGED mtx /\ intruded' = TRUE
  BY DEF NotifierInv, Lock, At, Goto, table, walk
<1>2. pc'[t] = "body" /\ \A u \in Threads : u # t => pc'[u] = pc[u]
  BY <1>1 DEF TypeOK
<1>3. TypeOK'
  BY <1>1, <1>2 DEF TypeOK, Steps
<1>4. KindsOk'
  BY <1>1, <1>2 DEF KindsOk
<1>5. InFlight(t)' = InFlight(t)
  BY <1>1, <1>2 DEF InFlight
<1>6. Deregisters(t)' => Deregisters(t)
  BY <1>1 DEF Deregisters
<1>7. OnePlace' /\ RegisteredOk' /\ ClosedOk'
  BY <1>1, <1>2, <1>5, <1>6, QuietStep
<1>8. ASSUME ~intruded' PROVE Guarded'
  <2>1. Guarded /\ mtx = NoThread /\ mtx' = t
    BY <1>1, <1>8 DEF NotifierInv
  <2>2. \A u \in Threads : Inside(u)' => mtx' = u
    BY <1>2, <2>1, NotifierAssumption DEF Guarded, Inside
  <2>3. \A u \in Threads :
          op'[u].kind = "register" /\ pc'[u] \in {"lock", "body"} => Loose(m', op'[u].blk)
    BY <1>1, <1>2, <2>1 DEF Guarded
  <2>4. WalkOk(t)'
    BY <1>1, <1>2, <2>1 DEF Guarded, WalkOk
  <2>5. \A u \in Threads : u # t => WalkOk(u)'
    BY <1>1, <1>2, <2>1, OthersWalk
  <2>6. QED
    BY <1>1, <2>1, <2>2, <2>3, <2>4, <2>5 DEF Guarded
<1>9. QED
  BY <1>3, <1>4, <1>7, <1>8 DEF NotifierInv

\* mutex_unlock
LEMMA UnlockStep ==
  ASSUME NotifierInv, NEW t \in Threads, Unlock(t)
  PROVE  NotifierInv'
<1> DEFINE next == IF op[t].kind = "allocate" THEN "clear" ELSE "idle"
<1>1. /\ TypeOK /\ KindsOk
      /\ pc[t] = "unlock" /\ pc' = [pc EXCEPT ![t] = next] /\ mtx' = NoThread
      /\ UNCHANGED <<open, m, category, content, free, held, op, cursor, pNext, called,
                     crashed, intruded>>
  BY DEF NotifierInv, Unlock, At, Goto, table, walk
<1>2. pc'[t] = next /\ \A u \in Threads : u # t => pc'[u] = pc[u]
  BY <1>1 DEF TypeOK
<1>3. TypeOK'
  BY <1>1, <1>2 DEF TypeOK, Steps
<1>4. KindsOk'
  BY <1>1, <1>2 DEF KindsOk
<1>5. InFlight(t)' = InFlight(t)
  BY <1>1, <1>2 DEF InFlight
<1>6. Deregisters(t)' => Deregisters(t)
  BY <1>2 DEF Deregisters
<1>7. OnePlace' /\ RegisteredOk' /\ ClosedOk'
  BY <1>1, <1>2, <1>5, <1>6, QuietStep
<1>8. ASSUME ~intruded' PROVE Guarded'
  <2>1. Guarded /\ mtx = t
    BY <1>1, <1>8 DEF NotifierInv, Guarded, Inside
  <2>2. \A u \in Threads : ~Inside(u)'
    BY <1>2, <2>1 DEF Guarded, Inside
  <2>3. \A u \in Threads :
          op'[u].kind = "register" /\ pc'[u] \in {"lock", "body"} => Loose(m', op'[u].blk)
    BY <1>1, <1>2, <2>1 DEF Guarded
  <2>4. WalkOk(t)'
    BY <1>2 DEF WalkOk
  <2>5. \A u \in Threads : u # t => WalkOk(u)'
    BY <1>1, <1>2, <2>1, OthersWalk
  <2>6. QED
    BY <1>1, <2>1, <2>2, <2>3, <2>4, <2>5 DEF Guarded
<1>9. QED
  BY <1>3, <1>4, <1>7, <1>8 DEF NotifierInv

\* pool_alloc, or its failed assertion.
LEMMA AllocateStep ==
  ASSUME NotifierInv, NEW t \in Threads, Allocate(t)
  PROVE  NotifierInv'
<1>1. /\ TypeOK /\ KindsOk /\ OnePlace /\ RegisteredOk /\ ClosedOk
      /\ pc[t] = "body" /\ op[t].kind = "allocate"
      /\ UNCHANGED <<open, mtx, m, category, content, held, cursor, pNext, called, intruded>>
  BY DEF NotifierInv, Allocate, Body, At, table, walk
<1>2. CASE free = {} /\ crashed' = TRUE /\ UNCHANGED <<free, op, pc>>
  <2>1. TypeOK' /\ KindsOk'
    BY <1>1, <1>2 DEF TypeOK, KindsOk
  <2>2. InFlight(t)' = InFlight(t) /\ (Deregisters(t)' => Deregisters(t))
    BY <1>2 DEF InFlight, Deregisters
  <2>3. OnePlace' /\ RegisteredOk' /\ ClosedOk'
    BY <1>1, <1>2, <2>2, QuietStep
  <2>4. ASSUME ~intruded' PROVE Guarded'
    <3>1. Guarded
      BY <1>1, <2>4 DEF NotifierInv
    <3>2. QED
      BY <1>1, <1>2, <3>1 DEF Guarded, Inside, WalkOk, CalledPrefix
  <2>5. QED
    BY <2>1, <2>3, <2>4 DEF NotifierInv
<1>3. ASSUME NEW b \in free, free' = free \ {b}, op' = [op EXCEPT ![t].blk = b],
             pc' = [pc EXCEPT ![t] = "unlock"], UNCHANGED crashed
      PROVE  NotifierInv'
  <2>1. /\ pc'[t] = "unlock" /\ op'[t].kind = "allocate" /\ op'[t].blk = b
        /\ op'[t] \in Calls /\ b \in Blocks
        /\ \A u \in Threads : u # t => pc'[u] = pc[u] /\ op'[u] = op[u]
    <3>1. op[t] \in Calls /\ b \in Blocks
      BY <1>1 DEF TypeOK
    <3>2. op'[t] = [op[t] EXCEPT !.blk = b]
      BY <1>1, <1>3 DEF TypeOK
    <3>3. [op[t] EXCEPT !.blk = b] \in Calls
      BY <3>1 DEF Calls
    <3>4. op'[t].kind = op[t].kind /\ op'[t].blk = b
      BY <3>1, <3>2 DEF Calls
    <3>5. pc'[t] = "unlock" /\ \A u \in Threads : u # t => pc'[u] = pc[u] /\ op'[u] = op[u]
      BY <1>1, <1>3 DEF TypeOK
    <3>6. QED
      BY <1>1, <3>1, <3>2, <3>3, <3>4, <3>5
  <2>2. TypeOK'
    <3>1. op' \in [Threads -> Calls]
      <4>1. DOMAIN op' = Threads /\ op' = [u \in Threads |-> op'[u]]
        BY <1>1, <1>3 DEF TypeOK
      <4>2. \A u \in Threads : op'[u] \in Calls
        BY <1>1, <2>1 DEF TypeOK
      <4>3. QED
        BY <4>1, <4>2
    <3>2. pc' \in [Threads -> Steps] /\ free' \subseteq Blocks
      BY <1>1, <1>3 DEF TypeOK, Steps
    <3>3. \A u \in Threads : pc'[u] = "call" => cursor'[u] # Nil
      BY <1>1, <2>1 DEF TypeOK
    <3>4. QED
      BY <1>1, <1>3, <3>1, <3>2, <3>3 DEF TypeOK
  <2>3. KindsOk'
    BY <1>1, <2>1 DEF KindsOk
  <2>4. \A u \in Threads : u # t => InFlight(u)' = InFlight(u)
    BY <2>1, FlightKept
  <2>5. InFlight(t) = {} /\ InFlight(t)' = {b}
    BY <1>1, <2>1 DEF InFlight
  <2>6. Registered' = Registered
    BY <1>1 DEF Registered
  <2>7. b \notin held /\ b \notin Registered /\ \A u \in Threads : b \notin InFlight(u)
    BY <1>1, <1>3 DEF OnePlace
  <2>8. OnePlace'
    <3>1. Apart(content') /\ free' \subseteq Blocks /\ held' \subseteq Blocks
      BY <1>1, <2>2 DEF OnePlace, TypeOK
    <3>2. QED
      BY <1>1, <1>3, <2>1, <2>4, <2>5, <2>6, <2>7, <3>1, PlacesMove
  <2>9. RegisteredOk'
    <3>1. ~Deregisters(t)'
      BY <2>1 DEF Deregisters
    <3>2. \A u \in Threads : u # t => (Deregisters(u)' <=> Deregisters(u))
      BY <2>1 DEF Deregisters
    <3>3. QED
      BY <1>1, <2>1, <2>6, <3>1, <3>2 DEF RegisteredOk
  <2>10. ClosedOk'
    BY <1>1 DEF ClosedOk, AllIdle
  <2>11. ASSUME ~intruded' PROVE Guarded'
    <3>1. Guarded
      BY <1>1, <2>11 DEF NotifierInv
    <3>2. \A u \in Threads : Inside(u)' => mtx' = u
      BY <1>1, <2>1, <3>1 DEF Guarded, Inside
    <3>3. \A u \in Threads :
            op'[u].kind = "register" /\ pc'[u] \in {"lock", "body"} => Loose(m', op'[u].blk)
      BY <1>1, <2>1, <3>1 DEF Guarded
    <3>4. WalkOk(t)'
      BY <2>1 DEF WalkOk
    <3>5. \A u \in Threads : u # t => WalkOk(u)'
      BY <1>1, <2>1, <3>1, OthersWalk
    <3>6. QED
      BY <1>1, <3>1, <3>2, <3>3, <3>4, <3>5 DEF Guarded
  <2>12. QED
    BY <2>2, <2>3, <2>8, <2>9, <2>10, <2>11 DEF NotifierInv
<1>4. QED
  BY <1>2, <1>3 DEF Allocate, Goto

\* A block that is in no list is written: nobody notices.
LEMMA LooseWrite ==
  ASSUME NEW u \in Memory, NEW b \in Elems
  PROVE  LET v == [u EXCEPT !.next[b] = Nil, !.prev[b] = Nil]
         IN  /\ v \in Memory /\ v.head = u.head /\ v.tail = u.tail
             /\ Loose(v, b) /\ LinksKept(u, v, {b})
  BY DEF Memory, Pointers, Loose, LinksKept

\* memset of the allocated block, outside the mutex.
LEMMA ClearStep ==
  ASSUME NotifierInv, NEW t \in Threads, ClearBlock(t)
  PROVE  NotifierInv'
<1> DEFINE b == op[t].blk
<1>1. /\ TypeOK /\ KindsOk /\ OnePlace /\ RegisteredOk /\ ClosedOk
      /\ pc[t] = "clear" /\ pc' = [pc EXCEPT ![t] = "idle"]
      /\ m' = [m EXCEPT !.next[b] = Nil, !.prev[b] = Nil]
      /\ category' = [category EXCEPT ![b] = 0] /\ held' = held \union {b}
      /\ UNCHANGED <<open, mtx, free, content, op, cursor, pNext, called, crashed, intruded>>
  BY DEF NotifierInv, ClearBlock, At, Goto, walk
<1>2. pc'[t] = "idle" /\ \A u \in Threads : u # t => pc'[u] = pc[u]
  BY <1>1 DEF TypeOK
<1>3. op[t].kind = "allocate"
  BY <1>1 DEF KindsOk
<1>4. \A u \in Threads : u # t => InFlight(u)' = InFlight(u)
  BY <1>1, <1>2, FlightKept
<1>5. InFlight(t) = {b} /\ InFlight(t)' = {}
  BY <1>1, <1>2, <1>3 DEF InFlight
<1>6. /\ b \in Blocks /\ b \notin free /\ b \notin held /\ b \notin Registered
      /\ \A u \in Threads : u # t => b \notin InFlight(u)
  BY <1>1, <1>5 DEF OnePlace
<1>7. /\ m' \in Memory /\ m'.head = m.head /\ m'.tail = m.tail
      /\ Loose(m', b) /\ LinksKept(m, m', {b})
  <2>1. m \in Memory /\ b \in Elems
    BY <1>1, <1>6 DEF TypeOK, Blocks
  <2>2. QED
    BY <1>1, <2>1, LooseWrite
<1> HIDE DEF b
<1>8. TypeOK'
  <2>1. category' \in [Blocks -> Categories]
    BY <1>1, <1>6, NotifierAssumption DEF TypeOK
  <2>2. pc' \in [Threads -> Steps] /\ held' \subseteq Blocks
    BY <1>1, <1>6 DEF TypeOK, Steps
  <2>3. \A u \in Threads : pc'[u] = "call" => cursor'[u] # Nil
    BY <1>1, <1>2 DEF TypeOK
  <2>4. QED
    BY <1>1, <1>7, <2>1, <2>2, <2>3 DEF TypeOK
<1>9. KindsOk'
  BY <1>1, <1>2 DEF KindsOk
<1>10. Registered' = Registered
  BY <1>1 DEF Registered
<1>11. OnePlace'
  <2>1. Apart(content') /\ free' \subseteq Blocks /\ held' \subseteq Blocks
    BY <1>1, <1>8 DEF OnePlace, TypeOK
  <2>2. QED
    BY <1>1, <1>4, <1>5, <1>6, <1>10, <2>1, PlacesMove
<1>12. RegisteredOk'
  <2>1. \A u \in Threads : Deregisters(u)' => Deregisters(u)
    BY <1>1, <1>2 DEF Deregisters
  <2>2. ASSUME NEW c \in Categories, NEW e \in Members(content'[c])
        PROVE  category'[e] = c
    <3>1. e \in Members(content[c]) /\ e \in Registered
      BY <1>1, <2>2 DEF Registered
    <3>2. e \in Blocks
      BY <1>1, <3>1, MembersOf DEF OnePlace, Apart, Categories, Blocks
    <3>3. e # b /\ category[e] = c
      BY <1>1, <1>6, <3>1 DEF RegisteredOk
    <3>4. QED
      BY <1>1, <3>2, <3>3 DEF TypeOK
  <2>3. QED
    BY <1>1, <1>10, <2>1, <2>2 DEF RegisteredOk
<1>13. ClosedOk'
  BY <1>1 DEF ClosedOk, AllIdle
<1>14. ASSUME ~intruded' PROVE Guarded'
  <2>1. Guarded
    BY <1>1, <1>14 DEF NotifierInv
  <2>2. \A u \in Threads : Inside(u)' => mtx' = u
    BY <1>1, <1>2, <2>1 DEF Guarded, Inside
  <2>3. ASSUME NEW c \in Categories PROVE HeldByHead(m', c, content'[c])
    <3>1. content[c] \in Seq(Elems) /\ Members(content[c]) \intersect {b} = {}
      BY <1>1, <1>6 DEF OnePlace, Apart, Registered, Categories
    <3>2. HeldByHead(m, c, content[c])
      BY <2>1 DEF Guarded
    <3>3. Linked(m', content[c])
      BY <1>7, <3>1, <3>2, LinkedFrame DEF HeldByHead
    <3>4. QED
      BY <1>1, <1>7, <3>2, <3>3 DEF HeldByHead
  <2>4. \A e \in held' : Loose(m', e)
    <3>1. ASSUME NEW e \in held PROVE Loose(m', e)
      <4>1. Loose(m, e) /\ e \in Elems \ {b}
        BY <1>1, <1>6, <2>1 DEF Guarded, TypeOK, Blocks
      <4>2. QED
        BY <1>7, <4>1 DEF LinksKept, Loose
    <3>2. QED
      BY <1>1, <1>7, <3>1
  <2>5. ASSUME NEW u \in Threads, op'[u].kind = "register", pc'[u] \in {"lock", "body"}
        PROVE  Loose(m', op'[u].blk)
    <3>1. u # t /\ op[u].kind = "register" /\ pc[u] \in {"lock", "body"} /\ op'[u] = op[u]
      BY <1>1, <1>2, <2>5
    <3>2. InFlight(u) = {op[u].blk}
      BY <3>1, Flight
    <3>3. op[u].blk # b /\ op[u].blk \in Elems \ {b} /\ Loose(m, op[u].blk)
      BY <1>1, <1>6, <2>1, <3>1, <3>2 DEF OnePlace, Guarded, Blocks
    <3>4. QED
      BY <1>7, <3>1, <3>3 DEF LinksKept, Loose
  <2>6. WalkOk(t)'
    BY <1>2 DEF WalkOk
  <2>7. \A u \in Threads : u # t => WalkOk(u)'
    BY <1>1, <1>2, <2>1, OthersWalk
  <2>8. QED
    BY <2>2, <2>3, <2>4, <2>5, <2>6, <2>7 DEF Guarded
<1>15. QED
  BY <1>8, <1>9, <1>11, <1>12, <1>13, <1>14 DEF NotifierInv

\* One list changes by block b, under the mutex: what the other lists, the blocks
\* in hand and the other threads see of it.
LEMMA TableStep ==
  ASSUME TypeOK, KindsOk, OnePlace, Guarded, NEW t \in Threads, Inside(t), NEW c \in Categories,
         NEW b \in Blocks, NEW w, content' = [content EXCEPT ![c] = w], m' \in Memory,
         HeldByHead(m', c, w), LinksKept(m, m', Members(content[c]) \union {b}),
         PointersKept(m, m', c), \A d \in Categories \ {c} : b \notin Members(content[d]),
         b \notin held, \A u \in Threads : u # t => b \notin InFlight(u),
         UNCHANGED <<mtx, held, op, called, cursor, pNext>>,
         pc' = [pc EXCEPT ![t] = "unlock"], op[t].kind # "post"
  PROVE  Guarded'
<1>1. pc'[t] = "unlock" /\ \A u \in Threads : u # t => pc'[u] = pc[u]
  BY DEF TypeOK
<1>2. content'[c] = w /\ \A d \in Categories : d # c => content'[d] = content[d]
  BY DEF TypeOK
<1> DEFINE S == Members(content[c]) \union {b}
<1>3. \A e \in Elems \ S : Loose(m, e) => Loose(m', e)
  BY DEF LinksKept, Loose
<1>4. ASSUME NEW d \in Categories, d # c PROVE HeldByHead(m', d, content'[d])
  <2>1. content[d] \in Seq(Elems) /\ Members(content[d]) \intersect S = {} /\ d \in Lists
    BY <1>4 DEF OnePlace, Apart, Categories
  <2>2. HeldByHead(m, d, content[d])
    BY DEF Guarded
  <2>3. LinksKept(m, m', S)
    OBVIOUS
  <2> HIDE DEF S
  <2>4. HeldByHead(m', d, content[d])
    BY <1>4, <2>1, <2>2, <2>3, OtherKept
  <2>5. QED
    BY <1>2, <1>4, <2>4
<1>5. S \subseteq Registered \union {b}
  BY DEF Registered
<1>6. ASSUME NEW e \in held' PROVE Loose(m', e)
  <2>1. e \in held /\ e \in Elems /\ e \notin Registered /\ e # b /\ Loose(m, e)
    BY <1>6 DEF TypeOK, OnePlace, Guarded, Blocks
  <2>2. QED
    BY <1>3, <1>5, <2>1
<1>7. ASSUME NEW u \in Threads, op'[u].kind = "register", pc'[u] \in {"lock", "body"}
      PROVE  Loose(m', op'[u].blk)
  <2>1. u # t /\ op[u].kind = "register" /\ pc[u] \in {"lock", "body"} /\ op'[u] = op[u]
    BY <1>1, <1>7
  <2>2. InFlight(u) = {op[u].blk}
    BY <2>1, Flight
  <2>3. /\ op[u].blk # b /\ op[u].blk \in Elems /\ op[u].blk \notin Registered
        /\ Loose(m, op[u].blk)
    BY <2>1, <2>2 DEF OnePlace, Guarded, Blocks
  <2>4. QED
    BY <1>3, <1>5, <2>1, <2>3
<1>8. \A u \in Threads : Inside(u)' => mtx' = u
  BY <1>1 DEF Guarded, Inside
<1>9. WalkOk(t)'
  BY DEF WalkOk
<1>10. \A u \in Threads : u # t => WalkOk(u)'
  BY <1>1, OthersWalk
<1>11. QED
  BY <1>2, <1>4, <1>6, <1>7, <1>8, <1>9, <1>10 DEF Guarded

\* The body of notifier_register_notification_block.
LEMMA RegisterStep ==
  ASSUME NotifierInv, NEW t \in Threads, Register(t)
  PROVE  NotifierInv'
<1> DEFINE b == op[t].blk
           c == op[t].cat
           s == content[c]
           w == <<b>> \o s
<1>1. /\ TypeOK /\ KindsOk /\ OnePlace /\ RegisteredOk /\ ClosedOk
      /\ pc[t] = "body" /\ pc' = [pc EXCEPT ![t] = "unlock"] /\ op[t].kind = "register"
      /\ category' = [category EXCEPT ![b] = c] /\ m' = HeadPrepend(m, c, b)
      /\ content' = [content EXCEPT ![c] = w]
      /\ UNCHANGED <<open, mtx, free, held, op, cursor, pNext, called, crashed, intruded>>
  BY DEF NotifierInv, Register, Body, At, Goto, walk
<1>2. pc'[t] = "unlock" /\ \A u \in Threads : u # t => pc'[u] = pc[u]
  BY <1>1 DEF TypeOK
<1>3. \A u \in Threads : u # t => InFlight(u)' = InFlight(u)
  BY <1>1, <1>2, FlightKept
<1>4. InFlight(t) = {b} /\ InFlight(t)' = {}
  BY <1>1, <1>2 DEF InFlight
<1>5. /\ b \in Blocks /\ b \notin free /\ b \notin held /\ b \notin Registered
      /\ \A u \in Threads : u # t => b \notin InFlight(u)
  BY <1>1, <1>4 DEF OnePlace
<1>6. /\ c \in Categories /\ c \in Lists /\ b \in Elems /\ Apart(content) /\ m \in Memory
      /\ s \in Seq(Elems) /\ Injective(s)
      /\ \A d \in Categories : b \notin Members(content[d])
  BY <1>1, <1>5, ThreadTypes DEF OnePlace, Apart, TypeOK, Categories, Blocks, Registered
<1> HIDE DEF b, c, s
<1>7. /\ w \in Seq(Elems) /\ Injective(w) /\ Members(w) = Members(s) \union {b}
  BY <1>6, ConsProperties DEF s
<1>8. m' \in Memory
  BY <1>1, <1>6, HeadPrependParts
<1> HIDE DEF w
<1>9. TypeOK'
  <2>1. category' \in [Blocks -> Categories]
    BY <1>1, <1>5, <1>6 DEF TypeOK
  <2>2. content' \in [Categories -> Seq(Blocks)]
    BY <1>1, <1>6, <1>7 DEF TypeOK, Blocks
  <2>3. pc' \in [Threads -> Steps]
    BY <1>1 DEF TypeOK, Steps
  <2>4. \A u \in Threads : pc'[u] = "call" => cursor'[u] # Nil
    BY <1>1, <1>2 DEF TypeOK
  <2>5. QED
    BY <1>1, <1>8, <2>1, <2>2, <2>3, <2>4 DEF TypeOK
<1>10. KindsOk'
  BY <1>1, <1>2 DEF KindsOk
<1>11. Registered' = Registered \union {b}
  BY <1>1, <1>6, <1>7, RegisteredGrows DEF s
<1>12. Apart(content')
  BY <1>1, <1>6, <1>7, ApartStep DEF s, Categories
<1>13. OnePlace'
  <2>1. free' \subseteq Blocks /\ held' \subseteq Blocks
    BY <1>9 DEF TypeOK
  <2>2. /\ InFlight(t) \ {b} = InFlight(t)' \ {b} /\ Registered \ {b} = Registered' \ {b}
        /\ free \ {b} = free' \ {b} /\ held \ {b} = held' \ {b}
    BY <1>1, <1>4, <1>11
  <2>3. b \in Registered' /\ b \notin InFlight(t)' \union free' \union held'
    BY <1>1, <1>4, <1>5, <1>11
  <2>4. QED
    BY <1>1, <1>3, <1>5, <1>12, <2>1, <2>2, <2>3, PlacesMove
<1>14. RegisteredOk'
  <2>1. ASSUME NEW d \in Categories, NEW e \in Members(content'[d])
        PROVE  category'[e] = d
    <3>1. content'[c] = w /\ (d # c => content'[d] = content[d])
      BY <1>1, <1>6 DEF TypeOK
    <3>2. CASE e = b
      <4>1. d = c
        BY <1>6, <2>1, <3>1, <3>2
      <4>2. QED
        BY <1>1, <1>5, <3>2, <4>1 DEF TypeOK
    <3>3. CASE e # b
      <4>1. e \in Members(content[d])
        BY <1>7, <2>1, <3>1, <3>3 DEF s
      <4>2. e \in Blocks /\ category[e] = d
        BY <1>1, <1>6, <4>1, MembersOf DEF RegisteredOk, Apart, Categories, Blocks
      <4>3. QED
        BY <1>1, <3>3, <4>2 DEF TypeOK
    <3>4. QED
      BY <3>2, <3>3
  <2>2. \A u \in Threads : Deregisters(u)' => Deregisters(u)
    BY <1>1, <1>2 DEF Deregisters
  <2>3. QED
    BY <1>1, <1>11, <2>1, <2>2 DEF RegisteredOk
<1>15. ClosedOk'
  BY <1>1 DEF ClosedOk, AllIdle
<1>16. ASSUME ~intruded' PROVE Guarded'
  <2>1. Guarded
    BY <1>1, <1>16 DEF NotifierInv
  <2>2. HeldByHead(m, c, s) /\ Loose(m, b)
    BY <1>1, <1>6, <2>1 DEF Guarded, s, b
  <2>3. b \notin Members(s)
    BY <1>6 DEF s
  <2>4. /\ HeldByHead(m', c, w) /\ LinksKept(m, m', Members(s) \union {b})
        /\ PointersKept(m, m', c)
    BY <1>1, <1>6, <2>2, <2>3, HeadPrependHolds DEF w
  <2>5. Inside(t) /\ op[t].kind # "post"
    BY <1>1 DEF Inside
  <2>6. QED
    BY <1>1, <1>5, <1>6, <1>8, <2>1, <2>4, <2>5, TableStep DEF s
<1>17. QED
  BY <1>9, <1>10, <1>13, <1>14, <1>15, <1>16 DEF NotifierInv

\* The head is popped or another block unlinked: a stale prev is never followed.
LEMMA DeregisterHolds ==
  ASSUME NEW u \in Memory, NEW l \in Lists, NEW s \in Seq(Elems), NEW x \in Members(s),
         HeldByHead(u, l, s), Injective(s)
  PROVE  LET v == IF u.head[l] = x THEN HeadPop(u, l) ELSE RemoveElem(u, x)
         IN  /\ v \in Memory /\ HeldByHead(v, l, Without(s, x))
             /\ LinksKept(u, v, Members(s)) /\ PointersKept(u, v, l)
<1>1. s # <<>> /\ u.head[l] = s[1] /\ s[1] \in Members(s) /\ Linked(u, s)
  BY MembersOf DEF HeldByHead, First
<1>2. CASE u.head[l] = x
  <2> DEFINE v == HeadPop(u, l)
  <2>1. /\ v \in Memory /\ HeldByHead(v, l, Tail(s)) /\ LinksKept(u, v, {s[1]})
        /\ PointersKept(u, v, l)
    BY <1>1, HeadPopHolds
  <2> HIDE DEF v
  <2>2. Without(s, x) = Tail(s)
    BY <1>1, <1>2, WithoutFirst
  <2>3. LinksKept(u, v, Members(s))
    BY <1>1, <2>1 DEF LinksKept
  <2>4. QED
    BY <1>2, <2>1, <2>2, <2>3 DEF v
<1>3. CASE u.head[l] # x
  <2> DEFINE v == RemoveElem(u, x)
             w == Without(s, x)
  <2>1. /\ v \in Memory /\ Linked(v, w) /\ LinksKept(u, v, Members(s))
        /\ v.head = u.head /\ v.tail = u.tail
        /\ First(w) = IF x = s[1] THEN u.next[x] ELSE s[1]
    BY <1>1, <1>3, RemoveElemHolds
  <2> HIDE DEF v, w
  <2>2. HeldByHead(v, l, w) /\ PointersKept(u, v, l)
    BY <1>1, <1>3, <2>1 DEF HeldByHead, PointersKept
  <2>3. QED
    BY <1>3, <2>1, <2>2 DEF v, w
<1>4. QED
  BY <1>2, <1>3

\* The body of notifier_deregister_notification_block.
LEMMA DeregisterStep ==
  ASSUME NotifierInv, NEW t \in Threads, Deregister(t)
  PROVE  NotifierInv'
<1> DEFINE b == op[t].blk
           c == category[b]
           s == content[c]
           w == Without(s, b)
<1>1. /\ TypeOK /\ KindsOk /\ OnePlace /\ RegisteredOk /\ ClosedOk
      /\ pc[t] = "body" /\ pc' = [pc EXCEPT ![t] = "unlock"] /\ op[t].kind = "deregister"
      /\ m' = IF m.head[c] = b THEN HeadPop(m, c) ELSE RemoveElem(m, b)
      /\ content' = [content EXCEPT ![c] = w] /\ free' = free \union {b}
      /\ UNCHANGED <<open, mtx, category, held, op, cursor, pNext, called, crashed, intruded>>
  BY DEF NotifierInv, Deregister, Body, At, Goto, walk
<1>2. pc'[t] = "unlock" /\ \A u \in Threads : u # t => pc'[u] = pc[u]
  BY <1>1 DEF TypeOK
<1>3. \A u \in Threads : u # t => InFlight(u)' = InFlight(u)
  BY <1>1, <1>2, FlightKept
<1>4. InFlight(t) = {} /\ InFlight(t)' = {}
  BY <1>1, <1>2 DEF InFlight
<1>5. b \in Registered
  BY <1>1 DEF RegisteredOk, Deregisters
<1>6. PICK d \in Categories : b \in Members(content[d])
  BY <1>5 DEF Registered
<1>7. c = d
  BY <1>1, <1>6 DEF RegisteredOk
<1>8. /\ c \in Categories /\ c \in Lists /\ b \in Elems /\ b \in Blocks /\ Apart(content)
      /\ m \in Memory /\ s \in Seq(Elems) /\ Injective(s) /\ b \in Members(s)
  BY <1>1, <1>6, <1>7, MembersOf DEF OnePlace, Apart, TypeOK, Categories, Blocks
<1>9. \A k \in Categories : k # c => b \notin Members(content[k])
  BY <1>8 DEF Apart, Categories
<1>10. b \notin free /\ b \notin held /\ \A u \in Threads : b \notin InFlight(u)
  BY <1>1, <1>5 DEF OnePlace
<1> HIDE DEF b, c, s
<1>11. w \in Seq(Elems) /\ Injective(w) /\ Members(w) = Members(s) \ {b}
  BY <1>8, WithoutProperties
<1> HIDE DEF w
<1>12. m' \in Memory
  <2>1. m.head[c] = b => HeadPop(m, c) \in Memory
    BY <1>8, HeadPopParts
  <2>2. QED
    BY <1>1, <1>8, <2>1, RemoveElemParts
<1>13. TypeOK'
  <2>1. content' \in [Categories -> Seq(Blocks)]
    BY <1>1, <1>8, <1>11 DEF TypeOK, Blocks
  <2>2. pc' \in [Threads -> Steps] /\ free' \subseteq Blocks
    BY <1>1, <1>8 DEF TypeOK, Steps
  <2>3. \A u \in Threads : pc'[u] = "call" => cursor'[u] # Nil
    BY <1>1, <1>2 DEF TypeOK
  <2>4. QED
    BY <1>1, <1>12, <2>1, <2>2, <2>3 DEF TypeOK
<1>14. KindsOk'
  BY <1>1, <1>2 DEF KindsOk
<1>15. Registered' = Registered \ {b}
  BY <1>1, <1>8, <1>11, RegisteredShrinks DEF s
<1>16. Apart(content')
  <2>1. Members(w) \subseteq Members(content[c]) \union {b}
    BY <1>11 DEF s
  <2>2. \A k \in Lists \ {c} : b \notin Members(content[k])
    BY <1>9 DEF Categories
  <2>3. QED
    BY <1>1, <1>8, <1>11, <2>1, <2>2, ApartStep
<1>17. OnePlace'
  <2>1. free' \subseteq Blocks /\ held' \subseteq Blocks
    BY <1>13 DEF TypeOK
  <2>2. /\ InFlight(t) \ {b} = InFlight(t)' \ {b} /\ Registered \ {b} = Registered' \ {b}
        /\ free \ {b} = free' \ {b} /\ held \ {b} = held' \ {b}
    BY <1>1, <1>4, <1>15
  <2>3. b \in free' /\ b \notin InFlight(t)' \union held' \union Registered'
    BY <1>1, <1>4, <1>10, <1>15
  <2>4. QED
    BY <1>1, <1>3, <1>8, <1>10, <1>16, <2>1, <2>2, <2>3, PlacesMove
<1>18. RegisteredOk'
  <2>1. ASSUME NEW k \in Categories, NEW e \in Members(content'[k])
        PROVE  category'[e] = k
    <3>1. content'[c] = w /\ (k # c => content'[k] = content[k])
      BY <1>1, <1>8 DEF TypeOK
    <3>2. e \in Members(content[k])
      BY <1>11, <2>1, <3>1 DEF s
    <3>3. QED
      BY <1>1, <3>2 DEF RegisteredOk
  <2>2. /\ ~Deregisters(t)' /\ Deregisters(t)
        /\ \A u \in Threads : u # t => (Deregisters(u)' <=> Deregisters(u))
    BY <1>1, <1>2 DEF Deregisters
  <2>3. ASSUME NEW u \in Threads, Deregisters(u)' PROVE op'[u].blk \in Registered'
    <3>1. u # t /\ Deregisters(u) /\ op[u].blk \in Registered
      BY <1>1, <2>2, <2>3 DEF RegisteredOk
    <3>2. op[u].blk # b
      BY <1>1, <2>2, <3>1 DEF RegisteredOk, b
    <3>3. QED
      BY <1>1, <1>15, <3>1, <3>2
  <2>4. \A u, v \in Threads :
          u # v /\ Deregisters(u)' /\ Deregisters(v)' => op'[u].blk # op'[v].blk
    BY <1>1, <2>2 DEF RegisteredOk
  <2>5. QED
    BY <2>1, <2>3, <2>4 DEF RegisteredOk
<1>19. ClosedOk'
  BY <1>1 DEF ClosedOk, AllIdle
<1>20. ASSUME ~intruded' PROVE Guarded'
  <2>1. Guarded
    BY <1>1, <1>20 DEF NotifierInv
  <2>2. HeldByHead(m, c, s)
    BY <1>8, <2>1 DEF Guarded, s
  <2>3. HeldByHead(m', c, w) /\ LinksKept(m, m', Members(s)) /\ PointersKept(m, m', c)
    BY <1>1, <1>8, <2>2, DeregisterHolds DEF w
  <2>4. LinksKept(m, m', Members(s) \union {b})
    BY <2>3 DEF LinksKept
  <2>5. Inside(t) /\ op[t].kind # "post"
    BY <1>1 DEF Inside
  <2>6. QED
    BY <1>1, <1>8, <1>9, <1>10, <1>12, <2>1, <2>3, <2>4, <2>5, TableStep DEF s
<1>21. QED
  BY <1>13, <1>14, <1>17, <1>18, <1>19, <1>20 DEF NotifierInv
\* KLIST_HEAD_FOREACH is entered.
LEMMA PostStartStep ==
  ASSUME NotifierInv, NEW t \in Threads, PostStart(t)
  PROVE  NotifierInv'
<1> DEFINE c == op[t].cat
<1>1. /\ TypeOK /\ KindsOk /\ op[t].kind = "post"
      /\ pc[t] = "body" /\ pc' = [pc EXCEPT ![t] = "walk"]
      /\ cursor' = [cursor EXCEPT ![t] = m.head[c]]
      /\ UNCHANGED <<open, mtx, m, category, content, free, held, op, pNext, called,
                     crashed, intruded>>
  BY DEF NotifierInv, PostStart, Body, At, Goto, table
<1>2. pc'[t] = "walk" /\ \A u \in Threads : u # t => pc'[u] = pc[u]
  BY <1>1 DEF TypeOK
<1>3. cursor'[t] = m.head[c] /\ \A u \in Threads : u # t => cursor'[u] = cursor[u]
  BY <1>1 DEF TypeOK
<1>4. c \in Categories /\ m.head[c] \in Blocks \union {Nil}
  BY <1>1, ThreadTypes DEF TypeOK, Memory, Pointers, Categories, Blocks
<1> HIDE DEF c
<1>5. TypeOK'
  <2>1. cursor' \in [Threads -> Blocks \union {Nil}] /\ pc' \in [Threads -> Steps]
    BY <1>1, <1>4 DEF TypeOK, Steps
  <2>2. \A u \in Threads : pc'[u] = "call" => cursor'[u] # Nil
    BY <1>1, <1>2, <1>3 DEF TypeOK
  <2>3. QED
    BY <1>1, <2>1, <2>2 DEF TypeOK
<1>6. KindsOk'
  BY <1>1, <1>2 DEF KindsOk
<1>7. InFlight(t)' = InFlight(t) /\ ~Deregisters(t)'
  BY <1>1, <1>2 DEF InFlight, Deregisters
<1>8. OnePlace' /\ RegisteredOk' /\ ClosedOk'
  BY <1>1, <1>2, <1>7, QuietStep
<1>9. ASSUME ~intruded' PROVE Guarded'
  <2>1. Guarded /\ WalkOk(t) /\ called[t] = <<>> /\ HeldByHead(m, c, content[c])
    BY <1>1, <1>4, <1>9 DEF NotifierInv, Guarded, WalkOk
  <2>2. \A u \in Threads : Inside(u)' => mtx' = u
    BY <1>1, <1>2, <2>1 DEF Guarded, Inside
  <2>3. \A u \in Threads :
          op'[u].kind = "register" /\ pc'[u] \in {"lock", "body"} => Loose(m', op'[u].blk)
    BY <1>1, <1>2, <2>1 DEF Guarded
  <2>4. content[c] \in Seq(Blocks)
    BY <1>1, <1>4 DEF TypeOK
  <2>5. m.head[c] = Element(content[c], 1)
    BY <2>1, <2>4 DEF HeldByHead, First, Element
  <2>6. WalkOk(t)'
    BY <1>1, <1>2, <1>3, <2>1, <2>4, <2>5 DEF WalkOk, CalledPrefix, c
  <2>7. \A u \in Threads : u # t => WalkOk(u)'
    BY <1>1, <1>2, <1>3, <2>1, OthersWalk
  <2>8. QED
    BY <1>1, <2>1, <2>2, <2>3, <2>6, <2>7 DEF Guarded
<1>10. QED
  BY <1>5, <1>6, <1>8, <1>9 DEF NotifierInv

\* The end of the loop, or the successor of the block that is called next.
LEMMA WalkStep ==
  ASSUME NotifierInv, NEW t \in Threads, Walk(t)
  PROVE  NotifierInv'
<1> DEFINE c == op[t].cat
           e == cursor[t]
           next == IF e = Nil THEN "unlock" ELSE "call"
<1>1. /\ TypeOK /\ KindsOk
      /\ pc[t] = "walk" /\ pc' = [pc EXCEPT ![t] = next]
      /\ pNext' = IF e = Nil THEN pNext ELSE [pNext EXCEPT ![t] = m.next[e]]
      /\ UNCHANGED <<open, mtx, m, category, content, free, held, op, cursor, called,
                     crashed, intruded>>
  BY DEF NotifierInv, Walk, At, Goto, table
<1>2. pc'[t] = next /\ \A u \in Threads : u # t => pc'[u] = pc[u]
  BY <1>1 DEF TypeOK
<1>3. /\ \A u \in Threads : u # t => pNext'[u] = pNext[u]
      /\ e # Nil => pNext'[t] = m.next[e]
  BY <1>1 DEF TypeOK
<1>4. c \in Categories /\ (e # Nil => e \in Blocks /\ m.next[e] \in Blocks \union {Nil})
  BY <1>1, ThreadTypes DEF TypeOK, Memory, Pointers, Categories, Blocks
<1>5. op[t].kind = "post"
  BY <1>1 DEF KindsOk
<1>6. TypeOK'
  <2>1. pNext' \in [Threads -> Blocks \union {Nil}] /\ pc' \in [Threads -> Steps]
    BY <1>1, <1>4 DEF TypeOK, Steps
  <2>2. \A u \in Threads : pc'[u] = "call" => cursor'[u] # Nil
    BY <1>1, <1>2 DEF TypeOK
  <2>3. QED
    BY <1>1, <2>1, <2>2 DEF TypeOK
<1>7. KindsOk'
  BY <1>1, <1>2, <1>5 DEF KindsOk
<1>8. InFlight(t)' = InFlight(t) /\ ~Deregisters(t)'
  BY <1>1, <1>2, <1>5 DEF InFlight, Deregisters
<1>9. OnePlace' /\ RegisteredOk' /\ ClosedOk'
  BY <1>1, <1>2, <1>8, QuietStep
<1>10. ASSUME ~intruded' PROVE Guarded'
  <2> DEFINE s == content[c]
             k == Len(called[t])
  <2>1. /\ Guarded /\ CalledPrefix(t) /\ e = Element(s, k + 1) /\ HeldByHead(m, c, s)
    BY <1>1, <1>4, <1>5, <1>10 DEF NotifierInv, Guarded, WalkOk
  <2>2. \A u \in Threads : Inside(u)' => mtx' = u
    BY <1>1, <1>2, <2>1 DEF Guarded, Inside
  <2>3. \A u \in Threads :
          op'[u].kind = "register" /\ pc'[u] \in {"lock", "body"} => Loose(m', op'[u].blk)
    BY <1>1, <1>2, <1>5, <2>1 DEF Guarded
  <2>4. s \in Seq(Blocks) /\ called[t] \in Seq(Blocks) /\ k \in Nat /\ k <= Len(s)
    BY <1>1, <1>4, <2>1 DEF TypeOK, CalledPrefix
  <2>5. ASSUME e = Nil PROVE WalkOk(t)'
    <3>1. k = Len(s)
      <4>1. ASSUME k < Len(s) PROVE FALSE
        <5>1. e = s[k + 1] /\ s[k + 1] \in Blocks
          BY <2>1, <2>4, <4>1 DEF Element
        <5>2. QED
          BY <2>5, <5>1, ListAssumption DEF Blocks
      <4>2. QED
        BY <2>4, <4>1
    <3>2. called[t] = s
      BY <2>1, <2>4, <3>1 DEF CalledPrefix
    <3>3. QED
      BY <1>1, <1>2, <2>5, <3>2 DEF WalkOk
  <2>6. ASSUME e # Nil PROVE WalkOk(t)'
    <3>1. k < Len(s) /\ e = s[k + 1] /\ k + 1 \in 1..Len(s)
      BY <2>1, <2>4, <2>6 DEF Element
    <3>2. m.next[s[k + 1]] = IF k + 1 = Len(s) THEN Nil ELSE s[k + 1 + 1]
      BY <2>1, <3>1 DEF HeldByHead, Linked
    <3>3. m.next[e] = Element(s, k + 2)
      BY <2>4, <3>1, <3>2 DEF Element
    <3>4. CalledPrefix(t)'
      BY <1>1, <2>1 DEF CalledPrefix
    <3>5. QED
      BY <1>1, <1>2, <1>3, <2>6, <3>1, <3>3, <3>4 DEF WalkOk
  <2>7. WalkOk(t)'
    BY <2>5, <2>6
  <2>8. \A u \in Threads : u # t => WalkOk(u)'
    BY <1>1, <1>2, <1>3, <2>1, OthersWalk
  <2>9. QED
    BY <1>1, <2>1, <2>2, <2>3, <2>7, <2>8 DEF Guarded
<1>11. QED
  BY <1>6, <1>7, <1>9, <1>10 DEF NotifierInv
\* A list has no more elements than there are.
LEMMA ListBound ==
  ASSUME NEW s \in Seq(Elems), Injective(s)
  PROVE  Len(s) <= Cardinality(Elems)
<1> DEFINE n == Len(s)
<1>1. n \in Nat /\ s \in [1..n -> Elems]
  OBVIOUS
<1>2. IsFiniteSet(1..n) /\ Cardinality(1..n) = n
  BY <1>1, FS_Interval
<1>3. IsFiniteSet(Elems) /\ Cardinality(Elems) \in Nat
  BY ListAssumption, FS_CardinalityType
<1>4. ASSUME Cardinality(Elems) < n PROVE FALSE
  <2> DEFINE S == 1..n
  <2>1. IsFiniteSet(S) /\ Cardinality(Elems) < Cardinality(S) /\ s \in [S -> Elems]
    BY <1>1, <1>2, <1>4
  <2> HIDE DEF S
  <2>2. \E x, y \in S : x # y /\ s[x] = s[y]
    BY <1>3, <2>1, FS_PigeonHole
  <2>3. QED
    BY <2>2 DEF Injective, S
<1>5. QED
  BY <1>1, <1>3, <1>4

\* execute_f is run on a block, and the loop goes on to its successor.
LEMMA CallStep ==
  ASSUME NotifierInv, NEW t \in Threads, Call(t)
  PROVE  NotifierInv'
<1> DEFINE c == op[t].cat
           e == cursor[t]
           q == Log(called[t], e)
<1>1. /\ TypeOK /\ KindsOk /\ OnePlace
      /\ pc[t] = "call" /\ pc' = [pc EXCEPT ![t] = "walk"]
      /\ called' = [called EXCEPT ![t] = q]
      /\ cursor' = [cursor EXCEPT ![t] = pNext[t]]
      /\ UNCHANGED <<open, mtx, m, category, content, free, held, op, pNext,
                     crashed, intruded>>
  BY DEF NotifierInv, Call, At, Goto, table
<1>2. pc'[t] = "walk" /\ \A u \in Threads : u # t => pc'[u] = pc[u]
  BY <1>1 DEF TypeOK
<1>3. /\ called'[t] = q /\ cursor'[t] = pNext[t]
      /\ \A u \in Threads : u # t => called'[u] = called[u] /\ cursor'[u] = cursor[u]
  BY <1>1 DEF TypeOK
<1>4. /\ c \in Categories /\ e \in Blocks /\ called[t] \in Seq(Blocks)
      /\ pNext[t] \in Blocks \union {Nil}
  BY <1>1, ThreadTypes DEF TypeOK
<1>5. op[t].kind = "post"
  BY <1>1 DEF KindsOk
<1>6. q \in Seq(Blocks)
  BY <1>4 DEF Log
<1> HIDE DEF q
<1>7. TypeOK'
  <2>1. cursor' \in [Threads -> Blocks \union {Nil}] /\ pc' \in [Threads -> Steps]
    BY <1>1, <1>4 DEF TypeOK, Steps
  <2>2. called' \in [Threads -> Seq(Blocks)]
    BY <1>1, <1>6 DEF TypeOK
  <2>3. \A u \in Threads : pc'[u] = "call" => cursor'[u] # Nil
    BY <1>1, <1>2, <1>3 DEF TypeOK
  <2>4. QED
    BY <1>1, <2>1, <2>2, <2>3 DEF TypeOK
<1>8. KindsOk'
  BY <1>1, <1>2, <1>5 DEF KindsOk
<1>9. InFlight(t)' = InFlight(t) /\ ~Deregisters(t)'
  BY <1>1, <1>2, <1>5 DEF InFlight, Deregisters
<1>10. OnePlace' /\ RegisteredOk' /\ ClosedOk'
  BY <1>1, <1>2, <1>9, QuietStep
<1>11. ASSUME ~intruded' PROVE Guarded'
  <2> DEFINE s == content[c]
             k == Len(called[t])
  <2>1. /\ Guarded /\ CalledPrefix(t) /\ k < Len(s) /\ e = s[k + 1]
        /\ pNext[t] = Element(s, k + 2)
    BY <1>1, <1>4, <1>5, <1>11 DEF NotifierInv, Guarded, WalkOk
  <2>2. \A u \in Threads : Inside(u)' => mtx' = u
    BY <1>1, <1>2, <2>1 DEF Guarded, Inside
  <2>3. \A u \in Threads :
          op'[u].kind = "register" /\ pc'[u] \in {"lock", "body"} => Loose(m', op'[u].blk)
    BY <1>1, <1>2, <1>5, <2>1 DEF Guarded
  <2>4. s \in Seq(Elems) /\ Injective(s)
    BY <1>1, <1>4 DEF OnePlace, Apart, Categories
  <2>5. Len(s) <= Cardinality(Blocks) /\ Cardinality(Blocks) \in Nat
    BY <2>4, ListBound, ListAssumption, FS_CardinalityType DEF Blocks
  <2>6. q = Append(called[t], e)
    BY <1>4, <2>1, <2>4, <2>5 DEF q, Log
  <2>7. Len(q) = k + 1 /\ q[k + 1] = s[k + 1] /\ \A i \in 1..k : q[i] = s[i]
    BY <1>4, <2>1, <2>6 DEF CalledPrefix
  <2>8. Len(q) <= Len(s) /\ \A i \in 1..Len(q) : q[i] = s[i]
    BY <1>4, <2>1, <2>4, <2>7
  <2>9. CalledPrefix(t)'
    BY <1>1, <1>3, <2>8 DEF CalledPrefix
  <2>10. cursor'[t] = Element(s, Len(q) + 1)
    BY <1>3, <1>4, <2>1, <2>7
  <2>11. WalkOk(t)'
    BY <1>1, <1>2, <1>3, <2>9, <2>10 DEF WalkOk
  <2>12. \A u \in Threads : u # t => WalkOk(u)'
    BY <1>1, <1>2, <1>3, <2>1, OthersWalk
  <2>13. QED
    BY <1>1, <2>1, <2>2, <2>3, <2>11, <2>12 DEF Guarded
<1>12. QED
  BY <1>7, <1>8, <1>10, <1>11 DEF NotifierInv

\* A table of empty lists.
LEMMA EmptyTable ==
  ASSUME content = [c \in Categories |-> <<>>]
  PROVE  Registered = {} /\ Apart(content)
<1>1. \A c \in Lists : content[c] = <<>> /\ Members(content[c]) = {} /\ Injective(content[c])
  BY DEF Categories, Members, Injective
<1>2. QED
  BY <1>1 DEF Registered, Apart, Categories

\* The notifier is open, and no call has been made.
Opened ==
    /\ TypeOK /\ AllIdle /\ held = {} /\ free = Blocks /\ open
    /\ content = [c \in Categories |-> <<>>]
    /\ \A c \in Categories : m.head[c] = Nil

\* A notifier just opened satisfies the invariant.
LEMMA OpenedInv == Opened => NotifierInv
<1> SUFFICES ASSUME Opened PROVE NotifierInv
  OBVIOUS
<1> USE DEF Opened
<1>1. \A t \in Threads : pc[t] = "idle" /\ InFlight(t) = {}
  BY Flight DEF AllIdle
<1>2. Registered = {} /\ Apart(content)
  BY EmptyTable
<1>3. \A c \in Categories : content[c] = <<>> /\ Members(content[c]) = {}
  BY DEF Members
<1>4. KindsOk /\ ClosedOk
  BY <1>1 DEF KindsOk, ClosedOk
<1>5. OnePlace
  BY <1>1, <1>2 DEF OnePlace
<1>6. RegisteredOk
  BY <1>1, <1>3 DEF RegisteredOk, Deregisters
<1>7. \A c \in Categories : HeldByHead(m, c, content[c])
  BY <1>3 DEF HeldByHead, First, Linked
<1>8. Guarded
  BY <1>1, <1>7 DEF Guarded, Inside, WalkOk
<1>9. QED
  BY <1>4, <1>5, <1>6, <1>8 DEF NotifierInv

\* The initial states satisfy the invariant.
LEMMA NotifierInitInv == Init => NotifierInv
<1> SUFFICES ASSUME Init PROVE NotifierInv
  OBVIOUS
<1>1. Cleared \in Memory
  BY DEF Cleared, Memory, Pointers
<1>2. [kind |-> "post", cat |-> 0, blk |-> Nil] \in Calls
  BY NotifierAssumption DEF Calls
<1>3. TypeOK
  <2>1. category \in [Blocks -> Categories] /\ content \in [Categories -> Seq(Blocks)]
    BY NotifierAssumption DEF Init
  <2>2. pc \in [Threads -> Steps] /\ op \in [Threads -> Calls]
    BY <1>2 DEF Init, Steps
  <2>3. /\ cursor \in [Threads -> Blocks \union {Nil}] /\ pNext \in [Threads -> Blocks \union {Nil}]
        /\ called \in [Threads -> Seq(Blocks)]
    BY DEF Init
  <2>4. \A t \in Threads : pc[t] # "call"
    BY DEF Init
  <2>5. QED
    BY <1>1, <2>1, <2>2, <2>3, <2>4 DEF Init, TypeOK
<1>4. \A c \in Categories : m.head[c] = Nil
  BY DEF Init, Cleared, Categories
<1>5. QED
  BY <1>3, <1>4, OpenedInv DEF Init, AllIdle, Opened

\* notifier_init
LEMMA OpenStep ==
  ASSUME NotifierInv, notifier_init
  PROVE  NotifierInv'
<1>1. /\ TypeOK /\ AllIdle /\ held = {} /\ open' = TRUE /\ free' = Blocks
      /\ content' = [c \in Categories |-> <<>>]
      /\ m' = [Cleared EXCEPT !.next = m.next, !.prev = m.prev]
      /\ UNCHANGED <<mtx, category, held, pc, op, cursor, pNext, called, crashed, intruded>>
  BY DEF NotifierInv, ClosedOk, notifier_init, Fresh, walk
<1>2. m' \in Memory /\ m'.head = [l \in Lists |-> Nil]
  BY <1>1 DEF TypeOK, Memory, Cleared, Pointers
<1>3. content' \in [Categories -> Seq(Blocks)]
  BY <1>1
<1>4. TypeOK'
  BY <1>1, <1>2, <1>3 DEF TypeOK
<1>5. Opened'
  BY <1>1, <1>2, <1>4 DEF Opened, AllIdle, Categories
<1>6. QED
  BY <1>5, OpenedInv, PTL

\* notifier_deinit
LEMMA CloseStep ==
  ASSUME NotifierInv, notifier_deinit
  PROVE  NotifierInv'
<1>1. /\ TypeOK /\ KindsOk /\ OnePlace /\ RegisteredOk /\ AllIdle /\ held = {} /\ open' = FALSE
      /\ UNCHANGED <<mtx, m, category, content, free, held, pc, op, cursor, pNext, called,
                     crashed, intruded>>
  BY DEF NotifierInv, notifier_deinit, walk, table
<1>2. \A t \in Threads : InFlight(t)' = InFlight(t) /\ (Deregisters(t)' <=> Deregisters(t))
  BY <1>1, FlightKept DEF Deregisters
<1>3. TypeOK' /\ KindsOk' /\ ClosedOk'
  BY <1>1 DEF TypeOK, KindsOk, ClosedOk, AllIdle
<1>4. OnePlace'
  BY <1>1, <1>2, PlacesKept
<1>5. RegisteredOk'
  BY <1>1, <1>2 DEF RegisteredOk, Registered
<1>6. ~intruded' => Guarded'
  BY <1>1 DEF NotifierInv, Guarded, Inside, WalkOk, CalledPrefix
<1>7. QED
  BY <1>3, <1>4, <1>5, <1>6 DEF NotifierInv

\* The program has ended, or another part of it steps.
LEMMA NotifierRests ==
  ASSUME NotifierInv, UNCHANGED vars
  PROVE  NotifierInv'
<1>1. UNCHANGED <<open, mtx, m, category, free, held, content, pc, op, cursor, pNext, called,
                  crashed, intruded>>
  BY DEF vars
<1>2. \A t \in Threads : InFlight(t)' = InFlight(t) /\ (Deregisters(t)' <=> Deregisters(t))
  BY <1>1, FlightKept DEF Deregisters
<1>3. TypeOK' /\ KindsOk' /\ ClosedOk'
  BY <1>1 DEF NotifierInv, TypeOK, KindsOk, ClosedOk, AllIdle
<1>4. OnePlace'
  BY <1>1, <1>2, PlacesKept DEF NotifierInv
<1>5. RegisteredOk'
  BY <1>1, <1>2 DEF NotifierInv, RegisteredOk, Registered
<1>6. ~intruded' => Guarded'
  BY <1>1 DEF NotifierInv, Guarded, Inside, WalkOk, CalledPrefix
<1>7. QED
  BY <1>3, <1>4, <1>5, <1>6 DEF NotifierInv

\* Every step keeps the invariant.
LEMMA NotifierNextInv == NotifierInv /\ [Next]_vars => NotifierInv'
<1> SUFFICES ASSUME NotifierInv, [Next]_vars PROVE NotifierInv'
  OBVIOUS
<1>1. CASE notifier_init
  BY <1>1, OpenStep
<1>2. CASE notifier_deinit
  BY <1>2, CloseStep
<1>3. CASE Crashed
  BY <1>3, NotifierRests DEF Crashed
<1>4. ASSUME NEW t \in Threads, notifier_allocate_notification_block(t) PROVE NotifierInv'
  <2>1. 0 \in Categories /\ Nil \in Blocks \union {Nil}
    BY NotifierAssumption
  <2>2. Enter(t, "allocate", 0, Nil) /\ held' = held
    BY <1>4 DEF notifier_allocate_notification_block
  <2>3. QED
    BY <2>1, <2>2, EnterStep
<1>5. ASSUME NEW t \in Threads, NEW c \in Categories, NEW b \in Blocks,
             notifier_register_notification_block(t, c, b)
      PROVE  NotifierInv'
  <2>1. b \in Blocks \union {Nil}
    OBVIOUS
  <2>2. Enter(t, "register", c, b) /\ b \in held /\ held' = held \ {b}
    BY <1>5 DEF notifier_register_notification_block
  <2>3. QED
    BY <2>1, <2>2, EnterStep
<1>6. ASSUME NEW t \in Threads, NEW b \in Blocks, notifier_deregister_notification_block(t, b)
      PROVE  NotifierInv'
  <2>1. b \in Blocks \union {Nil} /\ 0 \in Categories
    BY NotifierAssumption
  <2>2. Enter(t, "deregister", 0, b) /\ b \in Registered /\ ~Leaving(b) /\ held' = held
    BY <1>6 DEF notifier_deregister_notification_block
  <2>3. QED
    BY <2>1, <2>2, EnterStep
<1>7. ASSUME NEW t \in Threads, NEW c \in Categories, notifier_post_notification(t, c)
      PROVE  NotifierInv'
  <2>1. Nil \in Blocks \union {Nil}
    OBVIOUS
  <2>2. Enter(t, "post", c, Nil) /\ held' = held
    BY <1>7 DEF notifier_post_notification
  <2>3. QED
    BY <2>1, <2>2, EnterStep
<1>8. ASSUME NEW t \in Threads,
             \/ Lock(t) \/ Unlock(t)
             \/ Allocate(t) \/ ClearBlock(t) \/ Register(t) \/ Deregister(t)
             \/ PostStart(t) \/ Walk(t) \/ Call(t)
      PROVE  NotifierInv'
  BY <1>8, LockStep, UnlockStep, AllocateStep, ClearStep, RegisterStep, DeregisterStep,
     PostStartStep, WalkStep, CallStep
<1>9. CASE UNCHANGED vars
  BY <1>9, NotifierRests
<1>10. QED
  BY <1>1, <1>2, <1>3, <1>4, <1>5, <1>6, <1>7, <1>8, <1>9 DEF Next

\* Two disjoint finite sets together.
LEMMA DisjointSum ==
  ASSUME NEW S, NEW T, IsFiniteSet(S), IsFiniteSet(T), S \intersect T = {}
  PROVE  IsFiniteSet(S \union T) /\ Cardinality(S \union T) = Cardinality(S) + Cardinality(T)
<1>1. /\ IsFiniteSet(S \union T)
      /\ Cardinality(S \union T) = Cardinality(S) + Cardinality(T) - Cardinality(S \intersect T)
  BY FS_Union
<1>2. Cardinality({}) = 0 /\ Cardinality(S) \in Nat /\ Cardinality(T) \in Nat
  BY FS_EmptySet, FS_CardinalityType
<1>3. Cardinality(S \intersect T) = 0
  BY <1>2
<1>4. QED
  BY <1>1, <1>2, <1>3

\* The blocks are counted place by place.
LEMMA PlacesCount ==
  ASSUME NotifierInv
  PROVE  LET F == UNION {InFlight(t) : t \in Threads}
         IN  /\ Blocks = free \union held \union Registered \union F
             /\ Cardinality(free) + Cardinality(held) + Cardinality(Registered)
                  + Cardinality(F) = Cardinality(Blocks)
<1> DEFINE F == UNION {InFlight(t) : t \in Threads}
           R == Registered
           A == free \union held
           B == A \union R
<1>1. OnePlace /\ free \subseteq Blocks /\ held \subseteq Blocks
  BY DEF NotifierInv, TypeOK
<1>2. R \subseteq Blocks
  BY <1>1, MembersOf DEF Registered, OnePlace, Apart, Blocks, Categories
<1>3. F \subseteq Blocks
  BY <1>1 DEF OnePlace
<1>4. /\ free \intersect held = {} /\ A \intersect R = {} /\ B \intersect F = {}
  BY <1>1 DEF OnePlace
<1>5. Blocks \subseteq B \union F
  BY <1>1 DEF OnePlace
<1>6. Blocks = B \union F
  BY <1>1, <1>2, <1>3, <1>5
<1>7. /\ IsFiniteSet(Blocks) /\ IsFiniteSet(free) /\ IsFiniteSet(held) /\ IsFiniteSet(R)
      /\ IsFiniteSet(F)
  BY <1>1, <1>2, <1>3, ListAssumption, FS_Subset DEF Blocks
<1> HIDE DEF F, R
<1>8. /\ Cardinality(free) \in Nat /\ Cardinality(held) \in Nat /\ Cardinality(R) \in Nat
      /\ Cardinality(F) \in Nat
  BY <1>7, FS_CardinalityType
<1>9. IsFiniteSet(A) /\ Cardinality(A) = Cardinality(free) + Cardinality(held)
  BY <1>4, <1>7, DisjointSum
<1> HIDE DEF A
<1>10. IsFiniteSet(B) /\ Cardinality(B) = Cardinality(A) + Cardinality(R)
  BY <1>4, <1>7, <1>9, DisjointSum
<1> HIDE DEF B
<1>11. Cardinality(B \union F) = Cardinality(B) + Cardinality(F)
  BY <1>4, <1>7, <1>10, DisjointSum
<1>12. Cardinality(free) + Cardinality(held) + Cardinality(R) + Cardinality(F) = Cardinality(Blocks)
  BY <1>6, <1>8, <1>9, <1>10, <1>11
<1>13. Blocks = free \union held \union R \union F
  BY <1>6 DEF A, B
<1>14. QED
  BY <1>12, <1>13 DEF F, R

\* The pool, the clients, the table and the calls under way share out the blocks,
\* and the list of every category is linked as its registrations say for as long
\* as no mutex_lock failed: for any number of threads, blocks and categories.
THEOREM TableStaysIntact == Spec => []TableIntact
<1>1. ASSUME NotifierInv PROVE TableIntact
  <2>1. OnePlace /\ RegisteredOk /\ (~intruded => Guarded)
    BY <1>1 DEF NotifierInv
  <2>2. \A c, d \in Categories : c # d => Members(content[c]) \intersect Members(content[d]) = {}
    BY <2>1 DEF OnePlace, Apart, Categories
  <2>3. ~intruded => \A c \in Categories :
            /\ HeldByHead(m, c, content[c])
            /\ \A b \in Members(content[c]) : category[b] = c
    BY <2>1 DEF Guarded, RegisteredOk
  <2>4. QED
    BY <1>1, <2>2, <2>3, PlacesCount DEF TableIntact
<1>2. NotifierInv => TableIntact
  BY <1>1
<1>3. QED
  BY NotifierInitInv, NotifierNextInv, <1>2, PTL DEF Spec

\* A post runs execute_f on the blocks registered in its category, on each of
\* them once and in list order, and on a block only while it is registered, for
\* as long as no mutex_lock failed.
THEOREM PostsCallRegistered == Spec => []PostCallsRegistered
<1>1. ASSUME NotifierInv, ~intruded, NEW t \in Threads
      PROVE  /\ pc[t] = "call" => cursor[t] \in Members(content[op[t].cat])
             /\ pc[t] = "unlock" /\ op[t].kind = "post" => called[t] = content[op[t].cat]
  <2> DEFINE s == content[op[t].cat]
             k == Len(called[t])
  <2>1. TypeOK /\ KindsOk /\ WalkOk(t)
    BY <1>1 DEF NotifierInv, Guarded
  <2>2. s \in Seq(Blocks) /\ called[t] \in Seq(Blocks)
    BY <2>1, ThreadTypes DEF TypeOK
  <2>3. ASSUME pc[t] = "call" PROVE cursor[t] \in Members(s)
    <3>1. k < Len(s) /\ cursor[t] = s[k + 1]
      BY <2>1, <2>3 DEF KindsOk, WalkOk
    <3>2. k + 1 \in 1..Len(s)
      BY <2>2, <3>1
    <3>3. QED
      BY <3>1, <3>2 DEF Members
  <2>4. QED
    BY <2>1, <2>3 DEF WalkOk
<1>2. NotifierInv => PostCallsRegistered
  BY <1>1 DEF PostCallsRegistered
<1>3. QED
  BY NotifierInitInv, NotifierNextInv, <1>2, PTL DEF Spec
=============================================================================
