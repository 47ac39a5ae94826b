------------------------------ MODULE PoolProofs ------------------------------
(***************************************************************************)
(* Proofs about Pool, for every finite number of handles and blocks.       *)
(***************************************************************************)
EXTENDS Pool, FiniteSetTheorems, TLAPS

\* Type correctness of every call of the pool (inc/cutils/pool.h).
THEOREM TypeCorrect == Spec => []TypeOK
<1>1. Init => TypeOK
  <2>1. Cardinality(Blocks) \in Nat
    BY PoolAssumption, FS_CardinalityType
  <2>2. QED
    BY <2>1 DEF Init, TypeOK, Transit, Destructors
<1>2. TypeOK /\ [Next]_vars => TypeOK'
  <2> SUFFICES ASSUME TypeOK, [Next]_vars PROVE TypeOK'
    OBVIOUS
  <2> USE DEF TypeOK, Goto, Transit
  <2>1. ASSUME NEW h \in Handles, pool_alloc_blocking(h) PROVE TypeOK'
    BY <2>1 DEF pool_alloc_blocking, Destructors
  <2>2. ASSUME NEW h \in Handles, AllocFails(h) PROVE TypeOK'
    BY <2>2 DEF AllocFails
  <2>3. ASSUME NEW h \in Handles, AllocDequeue(h) PROVE TypeOK'
    BY <2>3 DEF AllocDequeue
  <2>4. ASSUME NEW h \in Handles, AllocClaim(h) PROVE TypeOK'
    BY <2>4 DEF AllocClaim
  <2>5. ASSUME NEW h \in Handles, NEW g \in Handles, pool_retain(h, g)
        PROVE  TypeOK'
    BY <2>5 DEF pool_retain
  <2>6. ASSUME NEW h \in Handles, pool_set_destructor(h) PROVE TypeOK'
    BY <2>6 DEF pool_set_destructor, Destructors
  <2>7. ASSUME NEW h \in Handles, pool_free(h) PROVE TypeOK'
    <3>1. pc' \in [Handles -> {"null", "dequeue", "held", "crashed"} \cup Transit]
      BY <2>7 DEF pool_free
    <3>2. at' \in [Handles -> Blocks \cup {NoBlock}]
      BY <2>7 DEF pool_free
    <3>3. retain' \in [Blocks -> Int]
      BY <2>7 DEF pool_free
    <3>4. \A g \in Handles : pc'[g] \in {"held"} \cup Transit => at'[g] \in Blocks
      BY <2>7 DEF pool_free
    <3>5. QED
      BY <2>7, <3>1, <3>2, <3>3, <3>4 DEF pool_free
  <2>8. ASSUME NEW h \in Handles, FreeDestroy(h) PROVE TypeOK'
    BY <2>8 DEF FreeDestroy
  <2>9. ASSUME NEW h \in Handles, FreeEnqueue(h) PROVE TypeOK'
    BY <2>9 DEF FreeEnqueue
  <2>10. CASE UNCHANGED vars
    BY <2>10 DEF vars
  <2>11. QED
    BY <2>1, <2>2, <2>3, <2>4, <2>5, <2>6, <2>7, <2>8, <2>9, <2>10
    DEF Next, Step
<1>3. QED
  BY <1>1, <1>2, PTL DEF Spec

-----------------------------------------------------------------------------
(* The reference count.                                                    *)

\* A block has finitely many holders.
LEMMA HoldersFinite ==
  ASSUME NEW b
  PROVE  IsFiniteSet(Holders(b)) /\ Cardinality(Holders(b)) \in Nat
<1>1. Holders(b) \in SUBSET Handles
  BY DEF Holders
<1>2. QED
  BY <1>1, PoolAssumption, FS_Subset, FS_CardinalityType

\* The count is at least one where pool_free takes a reference away, so the
\* call neither fails its assertion nor leaves another holder behind when it
\* was the last.
LEMMA HeldIsCounted ==
  ASSUME TypeOK, CountsReferences, NEW h \in Handles, pc[h] = "held"
  PROVE  /\ retain[at[h]] >= 1
         /\ retain[at[h]] = 1 => Holders(at[h]) = {h}
         /\ retain[at[h]] # 1 =>
                \E g \in Handles : g # h /\ pc[g] = "held" /\ at[g] = at[h]
<1> DEFINE b == at[h]
<1>1. b \in Blocks /\ retain[b] = Cardinality(Holders(b)) /\ h \in Holders(b)
  BY DEF TypeOK, CountsReferences, Holders
<1>2. Holders(b) # {}
  BY <1>1
<1>3. Cardinality(Holders(b)) # 0
  BY <1>2, HoldersFinite, FS_EmptySet
<1>4. Cardinality(Holders(b)) = 1 => Holders(b) = {h}
  <2>1. Cardinality(Holders(b)) = 1 => \E x : Holders(b) = {x}
    BY HoldersFinite, FS_Singleton
  <2>2. QED
    BY <1>1, <2>1
<1>5. Cardinality(Holders(b)) # 1 => Holders(b) # {h}
  BY FS_Singleton
<1>6. Cardinality(Holders(b)) # 1 =>
            \E g \in Handles : g # h /\ pc[g] = "held" /\ at[g] = b
  BY <1>1, <1>5 DEF Holders
<1>7. QED
  BY <1>1, <1>3, <1>4, <1>6, HoldersFinite

\* A step that leaves the counts and the holders alone.
LEMMA CountsFrame ==
  ASSUME TypeOK, CountsReferences, UNCHANGED retain,
         \A b \in Blocks : Holders(b)' = Holders(b),
         \A h \in Handles : pc'[h] # "crashed"
  PROVE  CountsReferences'
  BY DEF CountsReferences

\* A step that counts one reference more.
LEMMA CountsAdd ==
  ASSUME TypeOK, CountsReferences, NEW b \in Blocks, NEW g \in Handles,
         g \notin Holders(b), Holders(b)' = Holders(b) \cup {g},
         \A c \in Blocks \ {b} : Holders(c)' = Holders(c),
         retain' = [retain EXCEPT ![b] = @ + 1],
         \A h \in Handles : pc'[h] # "crashed"
  PROVE  CountsReferences'
<1>1. Cardinality(Holders(b) \cup {g}) = Cardinality(Holders(b)) + 1
  BY HoldersFinite, FS_AddElement
<1>2. retain'[b] = Cardinality(Holders(b)')
  BY <1>1 DEF TypeOK, CountsReferences
<1>3. \A c \in Blocks \ {b} : retain'[c] = Cardinality(Holders(c)')
  BY DEF TypeOK, CountsReferences
<1>4. QED
  BY <1>2, <1>3 DEF CountsReferences

\* Every step keeps the counts: claiming and retaining add a holder and one to
\* the count, pool_free takes both away, no other step touches either.
LEMMA CountsStep ==
  ASSUME TypeOK, CountsReferences, [Next]_vars
  PROVE  CountsReferences'
<1> USE DEF TypeOK, Goto, Transit
<1>a. \A h \in Handles : pc[h] # "crashed"
  BY DEF CountsReferences
<1>1. ASSUME NEW h \in Handles, pool_alloc_blocking(h) PROVE CountsReferences'
  BY <1>1, <1>a, CountsFrame DEF pool_alloc_blocking, Holders
<1>2. ASSUME NEW h \in Handles, AllocFails(h) PROVE CountsReferences'
  BY <1>2, <1>a, CountsFrame DEF AllocFails, Holders
<1>3. ASSUME NEW h \in Handles, AllocDequeue(h) PROVE CountsReferences'
  BY <1>3, <1>a, CountsFrame DEF AllocDequeue, Holders
<1>4. ASSUME NEW h \in Handles, AllocClaim(h) PROVE CountsReferences'
  <2>1. PICK b \in Blocks : b = at[h] /\ h \notin Holders(b)
    BY <1>4 DEF AllocClaim, Holders
  <2>2. Holders(b)' = Holders(b) \cup {h}
    BY <1>4, <2>1 DEF AllocClaim, Holders
  <2>3. \A c \in Blocks \ {b} : Holders(c)' = Holders(c)
    BY <1>4, <2>1 DEF AllocClaim, Holders
  <2>4. \A g \in Handles : pc'[g] # "crashed"
    BY <1>4, <1>a DEF AllocClaim
  <2>5. retain' = [retain EXCEPT ![b] = @ + 1]
    BY <1>4, <2>1 DEF AllocClaim
  <2>6. QED
    BY <2>1, <2>2, <2>3, <2>4, <2>5, CountsAdd
<1>5. ASSUME NEW h \in Handles, NEW g \in Handles, pool_retain(h, g)
      PROVE  CountsReferences'
  <2>1. PICK b \in Blocks : b = at[h] /\ g \notin Holders(b)
    BY <1>5 DEF pool_retain, Holders
  <2>2. Holders(b)' = Holders(b) \cup {g}
    BY <1>5, <2>1 DEF pool_retain, Holders
  <2>3. \A c \in Blocks \ {b} : Holders(c)' = Holders(c)
    BY <1>5, <2>1 DEF pool_retain, Holders
  <2>4. \A k \in Handles : pc'[k] # "crashed"
    BY <1>5, <1>a DEF pool_retain
  <2>5. retain' = [retain EXCEPT ![b] = @ + 1]
    BY <1>5, <2>1 DEF pool_retain
  <2>6. QED
    BY <2>1, <2>2, <2>3, <2>4, <2>5, CountsAdd
<1>6. ASSUME NEW h \in Handles, pool_set_destructor(h) PROVE CountsReferences'
  BY <1>6, <1>a, CountsFrame DEF pool_set_destructor, Holders
<1>7. ASSUME NEW h \in Handles, pool_free(h) PROVE CountsReferences'
  <2>1. PICK b \in Blocks : b = at[h] /\ h \in Holders(b) /\ retain[b] >= 1
    BY <1>7, HeldIsCounted DEF pool_free, Holders
  <2>2. pc'[h] \in {"destroy", "null"}
    BY <1>7, <2>1 DEF pool_free
  <2>3. Holders(b)' = Holders(b) \ {h}
    BY <1>7, <2>1, <2>2 DEF pool_free, Holders
  <2>4. \A c \in Blocks \ {b} : Holders(c)' = Holders(c)
    BY <1>7, <2>1, <2>2 DEF pool_free, Holders
  <2>5. Cardinality(Holders(b) \ {h}) = Cardinality(Holders(b)) - 1
    BY <2>1, HoldersFinite, FS_RemoveElement
  <2>6. retain'[b] = Cardinality(Holders(b)')
    BY <1>7, <2>1, <2>3, <2>5 DEF pool_free, CountsReferences
  <2>7. \A c \in Blocks \ {b} : retain'[c] = Cardinality(Holders(c)')
    BY <1>7, <2>1, <2>4 DEF pool_free, CountsReferences
  <2>8. \A g \in Handles : pc'[g] # "crashed"
    BY <1>7, <1>a, <2>2 DEF pool_free
  <2>9. QED
    BY <2>6, <2>7, <2>8 DEF CountsReferences
<1>8. ASSUME NEW h \in Handles, FreeDestroy(h) PROVE CountsReferences'
  BY <1>8, <1>a, CountsFrame DEF FreeDestroy, Holders
<1>9. ASSUME NEW h \in Handles, FreeEnqueue(h) PROVE CountsReferences'
  BY <1>9, <1>a, CountsFrame DEF FreeEnqueue, Holders
<1>10. CASE UNCHANGED vars
  BY <1>10, <1>a, CountsFrame DEF vars, Holders
<1>11. QED
  BY <1>1, <1>2, <1>3, <1>4, <1>5, <1>6, <1>7, <1>8, <1>9, <1>10
  DEF Next, Step

\* retain_count in a block's header is the number of handles that hold it,
\* whatever the interleaving of pool_alloc_blocking, pool_retain and
\* pool_free, so the assertion in pool_free never fails.
THEOREM ReferenceCounting == Spec => []CountsReferences
<1>1. Init => CountsReferences
  <2> SUFFICES ASSUME Init PROVE CountsReferences
    OBVIOUS
  <2>1. \A b \in Blocks : Holders(b) = {}
    BY DEF Init, Holders
  <2>2. \A b \in Blocks : retain[b] = Cardinality(Holders(b))
    BY <2>1, FS_EmptySet DEF Init
  <2>3. QED
    BY <2>2 DEF Init, CountsReferences
<1>2. TypeOK /\ CountsReferences /\ [Next]_vars => CountsReferences'
  BY CountsStep
<1>3. QED
  BY <1>1, <1>2, TypeCorrect, PTL DEF Spec

-----------------------------------------------------------------------------
(* Conservation. It speaks of each block; the inductive form speaks of     *)
(* pairs of handles instead, which is what a step disturbs.                *)

\* Handle h has its block to itself or shares it with other holders.
Uses(h) == pc[h] \in {"held"} \cup Transit

\* The queue has each block once.
QueueInjective == \A i, j \in 1..Len(free) : free[i] = free[j] => i = j

\* A used block is not in the queue.
UsedNotFree == \A h \in Handles : Uses(h) => ~InQueue(at[h])

\* A call that carries a block is alone with it.
CarriedAlone ==
    \A h, g \in Handles :
        h # g /\ pc[h] \in Transit /\ Uses(g) => at[h] # at[g]

\* No block is lost.
NoneLost ==
    \A b \in Blocks : InQueue(b) \/ \E h \in Handles : Uses(h) /\ at[h] = b

\* The inductive form of Conservation.
PoolInv == QueueInjective /\ UsedNotFree /\ CarriedAlone /\ NoneLost

\* The queue has room for a block that is not in it. pool_free ignores the
\* result of ts_queue_enqueue, which would drop the block otherwise.
LEMMA RoomForBlock ==
  ASSUME TypeOK, QueueInjective, NEW b \in Blocks, ~InQueue(b)
  PROVE  Len(free) < Cardinality(Blocks)
<1>1. free \in Injection(1..Len(free), Blocks \ {b})
  <2>1. free \in [1..Len(free) -> Blocks \ {b}]
    BY DEF TypeOK, InQueue
  <2>2. QED
    BY <2>1 DEF QueueInjective, Injection, IsInjective
<1>2. IsFiniteSet(Blocks \ {b}) /\ Cardinality(Blocks \ {b}) = Cardinality(Blocks) - 1
  BY PoolAssumption, FS_RemoveElement
<1>3. Cardinality(1..Len(free)) = Len(free)
  <2>1. Len(free) \in Nat
    BY DEF TypeOK
  <2>2. Cardinality(1..Len(free)) =
            IF 1 > Len(free) THEN 0 ELSE Len(free) - 1 + 1
    BY <2>1, FS_Interval
  <2>3. QED
    BY <2>1, <2>2
<1>4. Cardinality(1..Len(free)) <= Cardinality(Blocks \ {b})
  BY <1>1, <1>2, FS_Injection
<1>5. Cardinality(Blocks) \in Nat
  BY PoolAssumption, FS_CardinalityType
<1>6. QED
  BY <1>2, <1>3, <1>4, <1>5 DEF TypeOK

\* pool_create fills the queue with every block.
LEMMA AllFreeAtFirst == Init => PoolInv
<1> SUFFICES ASSUME Init PROVE PoolInv
  OBVIOUS
<1> DEFINE N == Cardinality(Blocks)
<1>1. N \in Nat
  BY PoolAssumption, FS_CardinalityType
<1>2. free \in [1..N -> Blocks] /\ Len(free) = N
  BY <1>1 DEF Init
<1>3. QueueInjective
  BY <1>1, <1>2 DEF Init, QueueInjective
<1>4. free \in Injection(1..N, Blocks)
  BY <1>2, <1>3 DEF QueueInjective, Injection, IsInjective
<1>5. Cardinality(1..N) = N
  BY <1>1, FS_Interval
<1>6. free \in Surjection(1..N, Blocks)
  BY <1>4, <1>5, PoolAssumption, FS_Injection
<1>7. \A b \in Blocks : InQueue(b)
  BY <1>2, <1>6 DEF Surjection, InQueue
<1>8. \A h \in Handles : ~Uses(h)
  BY DEF Init, Uses, Transit
<1>9. QED
  BY <1>3, <1>7, <1>8 DEF PoolInv, UsedNotFree, CarriedAlone, NoneLost, Transit, Uses

\* A step that leaves the queue and every handle's use alone, but for moving a
\* call along.
LEMMA PoolInvFrame ==
  ASSUME PoolInv, UNCHANGED free,
         \A h \in Handles : Uses(h)' <=> Uses(h),
         \A h \in Handles : Uses(h) => at'[h] = at[h],
         \A h \in Handles : pc'[h] \in Transit => pc[h] \in Transit
  PROVE  PoolInv'
<1>1. \A b : InQueue(b)' <=> InQueue(b)
  BY DEF InQueue
<1>2. QueueInjective'
  BY DEF PoolInv, QueueInjective
<1>3. UsedNotFree'
  BY <1>1 DEF PoolInv, UsedNotFree, InQueue
<1>4. CarriedAlone'
  BY DEF PoolInv, CarriedAlone, Uses, Transit
<1>5. NoneLost'
  BY <1>1 DEF PoolInv, NoneLost
<1>6. QED
  BY <1>2, <1>3, <1>4, <1>5 DEF PoolInv

\* Every step keeps blocks apart and loses none. The last pool_free is the
\* delicate one: only the reference count tells it that no other handle is
\* left.
LEMMA PoolInvStep ==
  ASSUME TypeOK, CountsReferences, PoolInv, [Next]_vars
  PROVE  PoolInv'
<1> USE DEF TypeOK, Goto, Transit
<1>1. ASSUME NEW h \in Handles, pool_alloc_blocking(h) PROVE PoolInv'
  BY <1>1, PoolInvFrame DEF pool_alloc_blocking, Uses
<1>2. ASSUME NEW h \in Handles, AllocFails(h) PROVE PoolInv'
  BY <1>2, PoolInvFrame DEF AllocFails, Uses
<1>3. ASSUME NEW h \in Handles, AllocDequeue(h) PROVE PoolInv'
  <2>1. PICK b \in Blocks : b = Head(free) /\ b = free[1] /\ Len(free) >= 1
    BY <1>3 DEF AllocDequeue
  <2>2. /\ Len(free') = Len(free) - 1
        /\ \A i \in 1..Len(free') : free'[i] = free[i + 1]
    BY <1>3, <2>1 DEF AllocDequeue
  <2>3. QueueInjective'
    BY <2>1, <2>2, SMTT(60) DEF PoolInv, QueueInjective
  <2>4. \A c : InQueue(c)' <=> InQueue(c) /\ c # b
    <3>1. ASSUME NEW c, InQueue(c)' PROVE InQueue(c) /\ c # b
      <4>1. PICK i \in 1..Len(free') : free'[i] = c
        BY <3>1 DEF InQueue
      <4>2. i + 1 \in 1..Len(free) /\ i + 1 # 1 /\ free[i + 1] = c
        BY <2>1, <2>2, <4>1
      <4>3. QED
        BY <2>1, <4>2 DEF InQueue, PoolInv, QueueInjective
    <3>2. ASSUME NEW c, InQueue(c), c # b PROVE InQueue(c)'
      <4>1. PICK i \in 1..Len(free) : free[i] = c
        BY <3>2 DEF InQueue
      <4>2. i - 1 \in 1..Len(free') /\ free'[i - 1] = c
        BY <2>1, <2>2, <3>2, <4>1
      <4>3. QED
        BY <4>2 DEF InQueue
    <3>3. QED
      BY <3>1, <3>2
  <2>5. InQueue(b)
    BY <2>1 DEF InQueue
  <2>6. \A g \in Handles : Uses(g) => at[g] # b
    BY <2>5 DEF PoolInv, UsedNotFree
  <2>7. /\ at'[h] = b /\ Uses(h)' /\ ~Uses(h) /\ pc'[h] = "alloc"
        /\ \A g \in Handles \ {h} : at'[g] = at[g] /\ pc'[g] = pc[g]
        /\ \A g \in Handles \ {h} : Uses(g)' <=> Uses(g)
    BY <1>3, <2>1 DEF AllocDequeue, Uses
  <2>8. UsedNotFree'
    <3>1. ~InQueue(at[h])'
      BY <2>4, <2>7 DEF InQueue
    <3>2. ASSUME NEW g \in Handles \ {h}, Uses(g)' PROVE ~InQueue(at[g])'
      BY <2>4, <2>7, <3>2, ZenonT(60) DEF InQueue, PoolInv, UsedNotFree
    <3>3. QED
      BY <3>1, <3>2 DEF UsedNotFree
  <2>9. CarriedAlone'
    BY <2>6, <2>7 DEF PoolInv, CarriedAlone, Uses
  <2>10. NoneLost'
    BY <2>4, <2>7 DEF PoolInv, NoneLost
  <2>11. QED
    BY <2>3, <2>8, <2>9, <2>10 DEF PoolInv
<1>4. ASSUME NEW h \in Handles, AllocClaim(h) PROVE PoolInv'
  BY <1>4, PoolInvFrame DEF AllocClaim, Uses
<1>5. ASSUME NEW h \in Handles, NEW g \in Handles, pool_retain(h, g)
      PROVE  PoolInv'
  <2>1. /\ at'[g] = at[h] /\ pc'[g] = "held" /\ ~Uses(g) /\ Uses(h) /\ g # h
        /\ pc[h] = "held" /\ Uses(g)'
        /\ \A k \in Handles \ {g} : at'[k] = at[k] /\ pc'[k] = pc[k]
        /\ \A k \in Handles \ {g} : Uses(k)' <=> Uses(k)
        /\ free' = free
    BY <1>5 DEF pool_retain, Uses
  <2>2. \A c : InQueue(c)' <=> InQueue(c)
    BY <2>1 DEF InQueue
  <2>3. QueueInjective'
    BY <2>1 DEF PoolInv, QueueInjective
  <2>4. UsedNotFree'
    BY <2>1, ZenonT(60) DEF PoolInv, UsedNotFree, InQueue
  <2>5. CarriedAlone'
    BY <2>1 DEF PoolInv, CarriedAlone, Uses
  <2>6. NoneLost'
    BY <2>1, <2>2 DEF PoolInv, NoneLost
  <2>7. QED
    BY <2>3, <2>4, <2>5, <2>6 DEF PoolInv
<1>6. ASSUME NEW h \in Handles, pool_set_destructor(h) PROVE PoolInv'
  BY <1>6, PoolInvFrame DEF pool_set_destructor, Uses
<1>7. ASSUME NEW h \in Handles, pool_free(h) PROVE PoolInv'
  <2>1. PICK b \in Blocks : b = at[h] /\ retain[b] >= 1
    BY <1>7, HeldIsCounted DEF pool_free
  <2>2. /\ free' = free /\ pc[h] = "held" /\ Uses(h)
        /\ \A g \in Handles \ {h} : at'[g] = at[g] /\ pc'[g] = pc[g]
        /\ \A g \in Handles \ {h} : Uses(g)' <=> Uses(g)
    BY <1>7 DEF pool_free, Uses
  <2>3. \A c : InQueue(c)' <=> InQueue(c)
    BY <2>2 DEF InQueue
  <2>4. QueueInjective'
    BY <2>2 DEF PoolInv, QueueInjective
  <2>5. CASE retain[b] = 1
    <3>1. pc'[h] = "destroy" /\ at'[h] = b /\ Uses(h)'
      BY <1>7, <2>1, <2>5 DEF pool_free, Uses
    <3>2. \A g \in Handles \ {h} : Uses(g) => at[g] # b
      <4>1. \A g \in Handles \ {h} : pc[g] = "held" => at[g] # b
        BY <2>1, <2>2, <2>5, HeldIsCounted DEF Holders
      <4>2. \A g \in Handles \ {h} : pc[g] \in Transit => at[g] # b
        BY <2>1, <2>2 DEF PoolInv, CarriedAlone
      <4>3. QED
        BY <4>1, <4>2 DEF Uses
    <3>3. UsedNotFree'
      BY <2>1, <2>2, <3>1 DEF PoolInv, UsedNotFree, InQueue
    <3>4. CarriedAlone'
      BY <2>2, <3>1, <3>2 DEF PoolInv, CarriedAlone, Uses
    <3>5. NoneLost'
      BY <2>1, <2>2, <2>3, <3>1 DEF PoolInv, NoneLost
    <3>6. QED
      BY <2>4, <3>3, <3>4, <3>5 DEF PoolInv
  <2>6. CASE retain[b] # 1
    <3>1. pc'[h] = "null" /\ ~Uses(h)'
      BY <1>7, <2>1, <2>6 DEF pool_free, Uses
    <3>2. PICK g \in Handles \ {h} : pc[g] = "held" /\ at[g] = b
      BY <2>1, <2>2, <2>6, HeldIsCounted
    <3>3. Uses(g)' /\ at'[g] = b
      BY <2>2, <3>2 DEF Uses
    <3>4. UsedNotFree'
      BY <2>2, <3>1 DEF PoolInv, UsedNotFree, InQueue
    <3>5. CarriedAlone'
      <4> SUFFICES ASSUME NEW x \in Handles, NEW y \in Handles,
                          x # y, pc'[x] \in Transit, Uses(y)'
                   PROVE  at'[x] # at'[y]
        BY DEF CarriedAlone, Uses
      <4>1. y # h
        BY <3>1
      <4>2. x # h
        BY <3>1 DEF Transit
      <4>3. pc[x] \in Transit /\ Uses(y) /\ at'[x] = at[x] /\ at'[y] = at[y]
        BY <2>2, <4>1, <4>2
      <4>4. QED
        BY <4>3 DEF PoolInv, CarriedAlone
    <3>6. NoneLost'
      BY <2>1, <2>2, <2>3, <3>3 DEF PoolInv, NoneLost
    <3>7. QED
      BY <2>4, <3>4, <3>5, <3>6 DEF PoolInv
  <2>7. QED
    BY <2>5, <2>6
<1>8. ASSUME NEW h \in Handles, FreeDestroy(h) PROVE PoolInv'
  BY <1>8, PoolInvFrame DEF FreeDestroy, Uses
<1>9. ASSUME NEW h \in Handles, FreeEnqueue(h) PROVE PoolInv'
  <2>1. PICK b \in Blocks : b = at[h] /\ ~InQueue(b)
    BY <1>9 DEF FreeEnqueue, PoolInv, UsedNotFree, Uses
  <2>2. Len(free) < Cardinality(Blocks)
    BY <2>1, RoomForBlock DEF PoolInv
  <2>3. free' = Append(free, b)
    BY <1>9, <2>1, <2>2 DEF FreeEnqueue
  <2>4. /\ Len(free') = Len(free) + 1 /\ free'[Len(free) + 1] = b
        /\ \A i \in 1..Len(free) : free'[i] = free[i]
    BY <2>3
  <2>5. QueueInjective'
    <3>1. \A i \in 1..Len(free) : free[i] # b
      BY <2>1 DEF InQueue
    <3>2. \A i \in 1..Len(free') : i \in 1..Len(free) \/ i = Len(free) + 1
      BY <2>4
    <3>3. \A i, j \in 1..Len(free) : free[i] = free[j] => i = j
      BY DEF PoolInv, QueueInjective
    <3>4. \A i, j \in 1..Len(free') : free'[i] = free'[j] => i = j
      BY <2>4, <3>1, <3>2, <3>3
    <3>5. QED
      BY <3>4 DEF QueueInjective
  <2>6. \A c : InQueue(c)' <=> InQueue(c) \/ c = b
    <3>1. \A i \in 1..Len(free') : i \in 1..Len(free) \/ i = Len(free) + 1
      BY <2>4
    <3>2. 1..Len(free) \subseteq 1..Len(free') /\ Len(free) + 1 \in 1..Len(free')
      BY <2>4
    <3>3. QED
      BY <2>4, <3>1, <3>2 DEF InQueue
  <2>7. /\ pc[h] = "enqueue" /\ Uses(h) /\ ~Uses(h)' /\ pc'[h] = "null"
        /\ \A g \in Handles \ {h} : at'[g] = at[g] /\ pc'[g] = pc[g]
        /\ \A g \in Handles \ {h} : Uses(g)' <=> Uses(g)
    BY <1>9 DEF FreeEnqueue, Uses
  <2>8. \A g \in Handles \ {h} : Uses(g) => at[g] # b
    BY <2>1, <2>7 DEF PoolInv, CarriedAlone
  <2>9. UsedNotFree'
    <3>1. ASSUME NEW g \in Handles, Uses(g)' PROVE ~InQueue(at[g])'
      <4>1. g # h /\ Uses(g) /\ at'[g] = at[g] /\ at[g] # b /\ ~InQueue(at[g])
        BY <2>7, <2>8, <3>1 DEF PoolInv, UsedNotFree
      <4>2. PICK c : c = at[g]
        OBVIOUS
      <4>3. ~InQueue(c)'
        BY <2>6, <4>1, <4>2
      <4>4. QED
        BY <4>1, <4>2, <4>3 DEF InQueue
    <3>2. QED
      BY <3>1 DEF UsedNotFree
  <2>10. CarriedAlone'
    BY <2>7 DEF PoolInv, CarriedAlone, Uses
  <2>11. NoneLost'
    BY <2>1, <2>6, <2>7 DEF PoolInv, NoneLost
  <2>12. QED
    BY <2>5, <2>9, <2>10, <2>11 DEF PoolInv
<1>10. CASE UNCHANGED vars
  BY <1>10, PoolInvFrame DEF vars, Uses
<1>11. QED
  BY <1>1, <1>2, <1>3, <1>4, <1>5, <1>6, <1>7, <1>8, <1>9, <1>10
  DEF Next, Step

\* From pairs of handles to the sets Conservation speaks of.
LEMMA PoolInvImpliesConservation ==
  ASSUME TypeOK, PoolInv
  PROVE  Conservation
<1> USE DEF TypeOK, PoolInv, Uses, Carriers, Holders
<1>1. ASSUME NEW b \in Blocks
      PROVE  \/ InQueue(b) /\ Carriers(b) = {} /\ Holders(b) = {}
             \/ ~InQueue(b) /\ Holders(b) = {} /\ \E h \in Handles : Carriers(b) = {h}
             \/ ~InQueue(b) /\ Carriers(b) = {} /\ Holders(b) # {}
  <2>1. CASE InQueue(b)
    BY <2>1 DEF UsedNotFree
  <2>2. CASE ~InQueue(b) /\ \E h \in Handles : pc[h] \in Transit /\ at[h] = b
    <3>1. PICK h \in Handles : pc[h] \in Transit /\ at[h] = b
      BY <2>2
    <3>2. Carriers(b) = {h}
      BY <3>1 DEF CarriedAlone
    <3>3. pc[h] # "held"
      BY <3>1 DEF Transit
    <3>4. Holders(b) = {}
      BY <3>1, <3>3 DEF CarriedAlone
    <3>5. QED
      BY <2>2, <3>1, <3>2, <3>4
  <2>3. CASE ~InQueue(b) /\ \A h \in Handles : ~(pc[h] \in Transit /\ at[h] = b)
    BY <2>3 DEF NoneLost
  <2>4. QED
    BY <2>1, <2>2, <2>3
<1>2. QED
  BY <1>1 DEF Conservation, QueueInjective

\* No block of the pool is lost, handed out twice or free while it is used, and
\* the enqueue in pool_free, whose result is ignored, always finds room: for
\* every number of blocks and handles.
THEOREM BlockConservation == Spec => []Conservation
<1>1. Init => PoolInv
  BY AllFreeAtFirst
<1>2. TypeOK /\ CountsReferences /\ PoolInv /\ [Next]_vars => PoolInv'
  BY PoolInvStep
<1>3. TypeOK /\ PoolInv => Conservation
  BY PoolInvImpliesConservation
<1>4. QED
  BY <1>1, <1>2, <1>3, TypeCorrect, ReferenceCounting, PTL DEF Spec

-----------------------------------------------------------------------------
\* What the client asked for is in the header from the time it asked.
HeaderHasAsked ==
    \A b \in Blocks : asked[b] # NoDestructor => destructor[b] = asked[b]

\* A destructor the client asked for, at the allocation or by
\* pool_set_destructor, is the one the last pool_free runs.
THEOREM DestructorRuns == Spec => []AskedDestructorRuns
<1>1. Init => HeaderHasAsked
  BY DEF Init, HeaderHasAsked
<1>2. TypeOK /\ HeaderHasAsked /\ [Next]_vars => HeaderHasAsked'
  <2> SUFFICES ASSUME TypeOK, HeaderHasAsked, [Next]_vars PROVE HeaderHasAsked'
    OBVIOUS
  <2> USE DEF TypeOK, HeaderHasAsked, Goto, Transit
  <2>1. ASSUME NEW h \in Handles, AllocClaim(h) PROVE HeaderHasAsked'
    BY <2>1 DEF AllocClaim
  <2>2. ASSUME NEW h \in Handles, pool_set_destructor(h) PROVE HeaderHasAsked'
    BY <2>2 DEF pool_set_destructor
  <2>3. CASE UNCHANGED <<destructor, asked>>
    BY <2>3
  <2>4. QED
    BY <2>1, <2>2, <2>3
    DEF Next, Step, vars, pool_alloc_blocking, AllocFails, AllocDequeue,
        pool_retain, pool_free, FreeDestroy, FreeEnqueue
<1>3. TypeOK /\ HeaderHasAsked => AskedDestructorRuns
  BY DEF TypeOK, HeaderHasAsked, AskedDestructorRuns, Transit
<1>4. QED
  BY <1>1, <1>2, <1>3, TypeCorrect, PTL DEF Spec
=============================================================================
