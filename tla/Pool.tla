-------------------------------- MODULE Pool ---------------------------------
(***************************************************************************)
(* The reference-counted block pool (inc/cutils/pool.h).                   *)
(*                                                                         *)
(* The actors are handles: client variables that hold a reference to a     *)
(* block, or hold none. A handle gets one from pool_alloc_blocking or, as  *)
(* a copy of another handle, from pool_retain, and gives it up with        *)
(* pool_free. That is the client's side of the contract; handles are used  *)
(* by any number of threads, so the steps of their calls interleave.       *)
(*                                                                         *)
(* The free blocks are in a ts_queue, used here through what BoundedFifo   *)
(* promises of it.                                                         *)
(***************************************************************************)
EXTENDS Integers, Sequences, FiniteSets

CONSTANTS
    Handles,        \* client variables that may hold a reference
    Blocks,         \* the elements of the pool
    NoBlock,        \* what a handle without a reference holds
    NoDestructor,   \* the NULL destructor
    AllocAsks,      \* the destructors, or NoDestructor, clients allocate with
    SetAsks         \* those they pass to pool_set_destructor

Destructors == AllocAsks \cup SetAsks \cup {NoDestructor}

ASSUME PoolAssumption ==
    /\ IsFiniteSet(Blocks)
    /\ IsFiniteSet(Handles)
    /\ NoBlock \notin Blocks

VARIABLES
    free,       \* the blocks in p_pool->q, next one to allocate first
    retain,     \* retain[b]: retain_count in the header of b
    destructor, \* destructor[b]: the destructor in the header of b
    pc,         \* pc[h]: where handle h is in the call that concerns it
    at,         \* at[h]: the block handle h refers to
    ask,        \* ask[h]: the destructor h's allocation asks for
    asked       \* asked[b]: the destructor the current user of b asked for

vars == <<free, retain, destructor, pc, at, ask, asked>>

InQueue(b) == \E i \in 1..Len(free) : free[i] = b

Holders(b) == {h \in Handles : pc[h] = "held" /\ at[h] = b}

Goto(h, from, to) == pc[h] = from /\ pc' = [pc EXCEPT ![h] = to]

-----------------------------------------------------------------------------
(* pool_create: every block is free; the queue holds them in some order.   *)
Init ==
    /\ free \in {s \in [1..Cardinality(Blocks) -> Blocks] :
                    \A i, j \in DOMAIN s : s[i] = s[j] => i = j}
    /\ retain = [b \in Blocks |-> 0]
    /\ destructor = [b \in Blocks |-> NoDestructor]
    /\ pc = [h \in Handles |-> "null"]
    /\ at = [h \in Handles |-> NoBlock]
    /\ ask = [h \in Handles |-> NoDestructor]
    /\ asked = [b \in Blocks |-> NoDestructor]

\* pool_alloc_blocking: first the block is dequeued, or the call blocks.
\* pool_alloc is the case of a NULL destructor and no wait.
pool_alloc_blocking(h) ==
    /\ Goto(h, "null", "dequeue")
    /\ \E d \in AllocAsks : ask' = [ask EXCEPT ![h] = d]
    /\ UNCHANGED <<free, retain, destructor, at, asked>>

AllocDequeue(h) ==
    /\ Goto(h, "dequeue", "alloc")
    /\ free # <<>>
    /\ at' = [at EXCEPT ![h] = Head(free)]
    /\ free' = Tail(free)
    /\ UNCHANGED <<retain, destructor, ask, asked>>

\* ts_queue_dequeue timed out: the call returns NULL.
AllocFails(h) ==
    /\ Goto(h, "dequeue", "null")
    /\ UNCHANGED <<free, retain, destructor, at, ask, asked>>

\* Mutations: the reference is not counted; a destructor is kept if there is one.
AllocClaimNoCount(h) ==
    LET b == at[h]
    IN  /\ Goto(h, "alloc", "held")
        /\ destructor' = [destructor EXCEPT
                            ![b] = IF ask[h] = NoDestructor THEN @ ELSE ask[h]]
        /\ asked' = [asked EXCEPT ![b] = ask[h]]
        /\ UNCHANGED <<free, retain, at, ask>>

AllocClaimKeep(h) ==
    LET b == at[h]
    IN  /\ Goto(h, "alloc", "held")
        /\ retain' = [retain EXCEPT ![b] = @ + 1]
        /\ destructor' = [destructor EXCEPT
                            ![b] = IF @ # NoDestructor THEN @ ELSE ask[h]]
        /\ asked' = [asked EXCEPT ![b] = ask[h]]
        /\ UNCHANGED <<free, at, ask>>

\* The header is claimed. A NULL destructor is not written to it.
AllocClaim(h) ==
    LET b == at[h]
    IN  /\ Goto(h, "alloc", "held")
        /\ retain' = [retain EXCEPT ![b] = @ + 1]
        /\ destructor' = [destructor EXCEPT
                            ![b] = IF ask[h] = NoDestructor THEN @ ELSE ask[h]]
        /\ asked' = [asked EXCEPT ![b] = ask[h]]
        /\ UNCHANGED <<free, at, ask>>

\* The holder of h passes a copy of its reference on in g.
pool_retain(h, g) ==
    /\ pc[h] = "held"
    /\ Goto(g, "null", "held")
    /\ at' = [at EXCEPT ![g] = at[h]]
    /\ retain' = [retain EXCEPT ![at[h]] = @ + 1]
    /\ UNCHANGED <<free, destructor, ask, asked>>

pool_set_destructor(h) ==
    /\ pc[h] = "held"
    /\ \E d \in SetAsks :
        /\ destructor' = [destructor EXCEPT ![at[h]] = d]
        /\ asked' = [asked EXCEPT ![at[h]] = d]
    /\ UNCHANGED <<free, retain, pc, at, ask>>

\* Mutation: every release returns the block.
pool_freeAlways(h) ==
    /\ Goto(h, "held", "destroy")
    /\ retain' = [retain EXCEPT ![at[h]] = @ - 1]
    /\ UNCHANGED <<free, destructor, at, ask, asked>>

\* pool_free: the atomic decrement decides who returns the block.
pool_free(h) ==
    LET old == retain[at[h]]
    IN  /\ pc[h] = "held"
        /\ retain' = [retain EXCEPT ![at[h]] = old - 1]
        /\ pc' = [pc EXCEPT ![h] = CASE old = 0 -> "crashed"
                                     [] old = 1 -> "destroy"
                                     [] OTHER   -> "null"]
        /\ at' = [at EXCEPT ![h] = IF old = 1 THEN @ ELSE NoBlock]
        /\ UNCHANGED <<free, destructor, ask, asked>>

\* The header's destructor runs, if there is one. It stays in the header.
FreeDestroy(h) ==
    /\ Goto(h, "destroy", "enqueue")
    /\ UNCHANGED <<free, retain, destructor, at, ask, asked>>

\* ts_queue_enqueue with NO_SLEEP: a full queue would drop the block.
FreeEnqueue(h) ==
    /\ Goto(h, "enqueue", "null")
    /\ free' = IF Len(free) < Cardinality(Blocks)
               THEN Append(free, at[h]) ELSE free
    /\ at' = [at EXCEPT ![h] = NoBlock]
    /\ UNCHANGED <<retain, destructor, ask, asked>>

Step(h) ==
    \/ AllocDequeue(h) \/ AllocClaim(h) \/ FreeDestroy(h) \/ FreeEnqueue(h)

Next ==
    \/ \E h \in Handles :
        \/ pool_alloc_blocking(h) \/ AllocFails(h)
        \/ pool_set_destructor(h) \/ pool_free(h)
        \/ Step(h)
    \/ \E h, g \in Handles : pool_retain(h, g)

Spec == Init /\ [][Next]_vars

-----------------------------------------------------------------------------
Transit == {"alloc", "destroy", "enqueue"}

TypeOK ==
    /\ free \in Seq(Blocks)
    /\ retain \in [Blocks -> Int]
    /\ destructor \in [Blocks -> Destructors]
    /\ pc \in [Handles -> {"null", "dequeue", "held", "crashed"} \cup Transit]
    /\ at \in [Handles -> Blocks \cup {NoBlock}]
    /\ \A h \in Handles : pc[h] \in {"held"} \cup Transit => at[h] \in Blocks
    /\ ask \in [Handles -> Destructors]
    /\ asked \in [Blocks -> Destructors]

\* The reference count is the number of handles that hold the block, so
\* pool_free's assertion that it was not zero never fails.
CountsReferences ==
    /\ \A b \in Blocks : retain[b] = Cardinality(Holders(b))
    /\ \A h \in Handles : pc[h] # "crashed"

\* The handles whose call has taken b out of the queue, or is about to put it
\* back.
Carriers(b) == {h \in Handles : pc[h] \in Transit /\ at[h] = b}

\* No block is lost, handed out twice or free while it is used: it is in the
\* queue once, or one call carries it, or handles hold it. In particular the
\* enqueue in pool_free, whose result is ignored, always finds room.
Conservation ==
    /\ \A i, j \in 1..Len(free) : free[i] = free[j] => i = j
    /\ \A b \in Blocks :
        \/ InQueue(b) /\ Carriers(b) = {} /\ Holders(b) = {}
        \/ ~InQueue(b) /\ Holders(b) = {} /\ \E h \in Handles : Carriers(b) = {h}
        \/ ~InQueue(b) /\ Carriers(b) = {} /\ Holders(b) # {}

\* An allocation that asked for a destructor, when it was made or later, gets
\* that one when its last reference goes, not what an earlier allocation of
\* the block left in the header.
AskedDestructorRuns ==
    \A h \in Handles :
        pc[h] = "destroy" /\ asked[at[h]] # NoDestructor =>
            destructor[at[h]] = asked[at[h]]

\* The destructor belongs to the allocation: one that asked for none runs
\* none ("An optional destructor  to be used with the allocation",
\* inc/cutils/pool.h, line 183).
DestructorPerAllocation ==
    \A h \in Handles :
        pc[h] = "destroy" => destructor[at[h]] = asked[at[h]]

=============================================================================
