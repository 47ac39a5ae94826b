------------------------------ MODULE Notifier -------------------------------
(***************************************************************************)
(* The notifier (src/notifier.c): a table of lists of registered blocks,   *)
(* one list per category, changed and walked by threads under one mutex.   *)
(* The lists are those of KList, one per category; blocks come from a pool *)
(* (module Pool), here the set of its free blocks.                         *)
(*                                                                         *)
(* A call is the run of one thread through                                 *)
(*                                                                         *)
(*    idle -> lock -> body -> unlock -> idle                               *)
(*                                                                         *)
(* where an allocation goes on to clear its block outside the mutex, and   *)
(* the body of a post is walk -> call -> walk ... A failed assertion       *)
(* writes through address 0 and ends the program.                          *)
(*                                                                         *)
(* Clients register a block they allocated, once, and deregister a block   *)
(* that is registered, once; they close the notifier when no call is under *)
(* way and no block is in their hands.                                     *)
(***************************************************************************)
EXTENDS KList

CONSTANTS
    Threads,
    NoThread        \* "owner" of a free mutex

Categories == Lists
Blocks == Elems

ASSUME NotifierAssumption ==
    /\ NoThread \notin Threads
    /\ 0 \in Categories

VARIABLES
    open,       \* between notifier_init and notifier_deinit
    mtx,        \* the thread that owns the mutex, or NoThread
    m,          \* the blocks' links, and notif_array as m.head
    category,   \* category[b]: the category field of block b
    free,       \* the free blocks of the pool
    held,       \* blocks clients have allocated and not yet registered
    content,    \* content[c]: the blocks registered in category c
    pc,         \* pc[t]: the step thread t is at
    op,         \* op[t]: the call thread t is in
    cursor,     \* cursor[t]: pElem of KLIST_HEAD_FOREACH
    pNext,      \* pNext[t]: pNext of KLIST_HEAD_FOREACH
    called,     \* called[t]: the blocks thread t's post ran execute_f on
    crashed,    \* an assertion has failed
    intruded    \* a call has gone on without the mutex

table == <<m, category, content>>
walk == <<cursor, pNext, called>>
vars == <<open, mtx, m, category, free, held, content, pc, op, cursor, pNext,
          called, crashed, intruded>>

Calls ==
    [kind : {"allocate", "register", "deregister", "post"},
     cat : Categories, blk : Blocks \cup {Nil}]

Registered == UNION {Members(content[c]) : c \in Categories}

\* notifier_init: the table is cleared and the pool has all its blocks. The
\* blocks' own memory is not touched.
Fresh(links) ==
    /\ open' = TRUE
    /\ m' = [Cleared EXCEPT !.next = links.next, !.prev = links.prev]
    /\ free' = Blocks
    /\ content' = [c \in Categories |-> <<>>]

Init ==
    /\ open = TRUE
    /\ mtx = NoThread
    /\ m = Cleared
    /\ category = [b \in Blocks |-> 0]
    /\ free = Blocks
    /\ held = {}
    /\ content = [c \in Categories |-> <<>>]
    /\ pc = [t \in Threads |-> "idle"]
    /\ op = [t \in Threads |-> [kind |-> "post", cat |-> 0, blk |-> Nil]]
    /\ cursor = [t \in Threads |-> Nil]
    /\ pNext = [t \in Threads |-> Nil]
    /\ called = [t \in Threads |-> <<>>]
    /\ crashed = FALSE
    /\ intruded = FALSE

AllIdle == \A t \in Threads : pc[t] = "idle"

notifier_deinit ==
    /\ open /\ AllIdle /\ held = {} /\ ~crashed
    /\ open' = FALSE
    /\ UNCHANGED <<mtx, table, free, held, pc, op, walk, crashed, intruded>>

notifier_init ==
    /\ ~open
    /\ Fresh(m)
    /\ UNCHANGED <<mtx, category, held, pc, op, walk, crashed, intruded>>

-----------------------------------------------------------------------------
At(t, step) == pc[t] = step /\ ~crashed

Goto(t, step) == pc' = [pc EXCEPT ![t] = step]

Enter(t, kind, c, b) ==
    /\ open
    /\ At(t, "idle")
    /\ op' = [op EXCEPT ![t] = [kind |-> kind, cat |-> c, blk |-> b]]
    /\ called' = [called EXCEPT ![t] = <<>>]
    /\ Goto(t, "lock")
    /\ UNCHANGED <<open, mtx, table, free, cursor, pNext, crashed, intruded>>

notifier_allocate_notification_block(t) ==
    Enter(t, "allocate", 0, Nil) /\ UNCHANGED held

notifier_register_notification_block(t, c, b) ==
    /\ b \in held
    /\ Enter(t, "register", c, b)
    /\ held' = held \ {b}

Leaving(b) ==
    \E u \in Threads : pc[u] # "idle" /\ op[u].kind = "deregister" /\ op[u].blk = b

notifier_deregister_notification_block(t, b) ==
    /\ b \in Registered /\ ~Leaving(b)
    /\ Enter(t, "deregister", 0, b)
    /\ UNCHANGED held

notifier_post_notification(t, c) ==
    Enter(t, "post", c, Nil) /\ UNCHANGED held

\* mutex_lock, whose result is not looked at: when the nanoseconds of its
\* deadline exceed 10^9 it fails instead of waiting, and the call goes on
\* without the mutex.
Lock(t) ==
    /\ At(t, "lock")
    /\ \/ mtx = NoThread /\ mtx' = t /\ UNCHANGED intruded
       \/ mtx # NoThread /\ UNCHANGED mtx /\ intruded' = TRUE
    /\ Goto(t, "body")
    /\ UNCHANGED <<open, table, free, held, op, walk, crashed>>

\* mutex_unlock: a mutex of this type is freed whoever owns it.
Unlock(t) ==
    /\ At(t, "unlock")
    /\ mtx' = NoThread
    /\ Goto(t, IF op[t].kind = "allocate" THEN "clear" ELSE "idle")
    /\ UNCHANGED <<open, table, free, held, op, walk, crashed, intruded>>

Body(t, kind) == At(t, "body") /\ op[t].kind = kind

\* pool_alloc of any free block; the assertion fails if there is none.
Allocate(t) ==
    /\ Body(t, "allocate")
    /\ \/ /\ free = {}
          /\ crashed' = TRUE
          /\ UNCHANGED <<free, op, pc>>
       \/ /\ \E b \in free :
                /\ free' = free \ {b}
                /\ op' = [op EXCEPT ![t].blk = b]
          /\ Goto(t, "unlock")
          /\ UNCHANGED crashed
    /\ UNCHANGED <<open, mtx, table, held, walk, intruded>>

\* Mutation: the block is handed out as it comes from the pool.
ClearBlockNot(t) ==
    /\ At(t, "clear")
    /\ held' = held \cup {op[t].blk}
    /\ Goto(t, "idle")
    /\ UNCHANGED <<open, mtx, free, m, category, content, op, walk, crashed, intruded>>

\* memset of the block, after the unlock; the client has it from here on.
ClearBlock(t) ==
    /\ At(t, "clear")
    /\ LET b == op[t].blk
       IN  /\ m' = [m EXCEPT !.next[b] = Nil, !.prev[b] = Nil]
           /\ category' = [category EXCEPT ![b] = 0]
           /\ held' = held \cup {b}
    /\ Goto(t, "idle")
    /\ UNCHANGED <<open, mtx, free, content, op, walk, crashed, intruded>>

Register(t) ==
    /\ Body(t, "register")
    /\ LET b == op[t].blk
           c == op[t].cat
       IN  /\ category' = [category EXCEPT ![b] = c]
           /\ m' = HeadPrepend(m, c, b)
           /\ content' = [content EXCEPT ![c] = <<b>> \o @]
    /\ Goto(t, "unlock")
    /\ UNCHANGED <<open, mtx, free, held, op, walk, crashed, intruded>>

\* The head of the list is popped, another block unlinked; then pool_free. The
\* test and the pop are one step, so the assertion in between holds.
Deregister(t) ==
    /\ Body(t, "deregister")
    /\ LET b == op[t].blk
           c == category[b]
       IN  /\ m' = IF m.head[c] = b THEN HeadPop(m, c) ELSE RemoveElem(m, b)
           /\ content' = [content EXCEPT ![c] = Without(@, b)]
           /\ free' = free \cup {b}
    /\ Goto(t, "unlock")
    /\ UNCHANGED <<open, mtx, category, held, op, walk, crashed, intruded>>

\* KLIST_HEAD_FOREACH starts at the head of the category's list ...
PostStart(t) ==
    /\ Body(t, "post")
    /\ cursor' = [cursor EXCEPT ![t] = m.head[op[t].cat]]
    /\ Goto(t, "walk")
    /\ UNCHANGED <<open, mtx, table, free, held, op, pNext, called, crashed, intruded>>

\* Mutation: the loop looks at the next element to find its end.
WalkEndsEarly(t) ==
    /\ At(t, "walk")
    /\ IF cursor[t] = Nil \/ m.next[cursor[t]] = Nil
       THEN Goto(t, "unlock") /\ UNCHANGED pNext
       ELSE /\ pNext' = [pNext EXCEPT ![t] = m.next[cursor[t]]]
            /\ Goto(t, "call")
    /\ UNCHANGED <<open, mtx, table, free, held, op, cursor, called, crashed, intruded>>

\* ... reads the successor of an element before the callback on it ...
Walk(t) ==
    /\ At(t, "walk")
    /\ IF cursor[t] = Nil
       THEN Goto(t, "unlock") /\ UNCHANGED pNext
       ELSE /\ pNext' = [pNext EXCEPT ![t] = m.next[cursor[t]]]
            /\ Goto(t, "call")
    /\ UNCHANGED <<open, mtx, table, free, held, op, cursor, called, crashed, intruded>>

\* Bound: called is cut when it is longer than any list can be.
Log(s, b) == IF Len(s) > Cardinality(Blocks) THEN s ELSE Append(s, b)

\* ... and goes on to it after Poster has run execute_f.
Call(t) ==
    /\ At(t, "call")
    /\ called' = [called EXCEPT ![t] = Log(@, cursor[t])]
    /\ cursor' = [cursor EXCEPT ![t] = pNext[t]]
    /\ Goto(t, "walk")
    /\ UNCHANGED <<open, mtx, table, free, held, op, pNext, crashed, intruded>>

\* The program has ended.
Crashed == crashed /\ UNCHANGED vars

Next ==
    \/ notifier_init
    \/ notifier_deinit
    \/ Crashed
    \/ \E t \in Threads :
          \/ notifier_allocate_notification_block(t)
          \/ \E c \in Categories, b \in Blocks :
                notifier_register_notification_block(t, c, b)
          \/ \E b \in Blocks : notifier_deregister_notification_block(t, b)
          \/ \E c \in Categories : notifier_post_notification(t, c)
          \/ Lock(t) \/ Unlock(t)
          \/ Allocate(t) \/ ClearBlock(t) \/ Register(t) \/ Deregister(t)
          \/ PostStart(t) \/ Walk(t) \/ Call(t)

Spec == Init /\ [][Next]_vars

-----------------------------------------------------------------------------
Steps == {"idle", "lock", "body", "unlock", "clear", "walk", "call"}

\* The type of every variable. A thread about to call execute_f has an element
\* to call it on.
TypeOK ==
    /\ open \in BOOLEAN /\ crashed \in BOOLEAN /\ intruded \in BOOLEAN
    /\ mtx \in Threads \cup {NoThread}
    /\ m \in Memory
    /\ category \in [Blocks -> Categories]
    /\ free \subseteq Blocks /\ held \subseteq Blocks
    /\ content \in [Categories -> Seq(Blocks)]
    /\ pc \in [Threads -> Steps]
    /\ op \in [Threads -> Calls]
    /\ cursor \in [Threads -> Blocks \cup {Nil}]
    /\ pNext \in [Threads -> Blocks \cup {Nil}]
    /\ called \in [Threads -> Seq(Blocks)]
    /\ \A t \in Threads : pc[t] = "call" => cursor[t] # Nil

\* A block on its way from or to the pool, in the hands of one thread's call.
InFlight(t) ==
    CASE op[t].kind = "allocate" /\ pc[t] \in {"unlock", "clear"} -> {op[t].blk}
      [] op[t].kind = "register" /\ pc[t] \in {"lock", "body"} -> {op[t].blk}
      [] OTHER -> {}

\* Every block is in exactly one place: free, in a client's hands, registered
\* in one category, or inside one call; the pool sees to this by itself, with
\* or without the mutex. As long as mutex_lock has not failed, the list of every
\* category holds the blocks registered in it, newest first. Deregistering pops
\* the head, which leaves the prev of the new head behind, and unlinks any other
\* block by its prev and next: the stale prev must have been overwritten by the
\* time it is used.
TableIntact ==
    /\ open =>
        /\ Blocks = free \cup held \cup Registered \cup UNION {InFlight(t) : t \in Threads}
        /\ Cardinality(free) + Cardinality(held) + Cardinality(Registered)
             + Cardinality(UNION {InFlight(t) : t \in Threads}) = Cardinality(Blocks)
        /\ \A c, d \in Categories : c # d => Members(content[c]) \cap Members(content[d]) = {}
    /\ ~intruded =>
        \A c \in Categories :
            /\ HeldByHead(m, c, content[c])
            /\ \A b \in Members(content[c]) : category[b] = c

\* As long as mutex_lock has not failed, execute_f runs only on a block that is
\* registered, in the posted category, while it runs: a block whose
\* deregistration returned is never called again ("Note that this uses a mutex
\* to synchronize entries into the callback table", docs/notifier.md, line 5).
\* And a post has called every block of its category exactly once, in list
\* order, when it gives the mutex back.
PostCallsRegistered ==
    ~intruded =>
        \A t \in Threads :
            /\ pc[t] = "call" => cursor[t] \in Members(content[op[t].cat])
            /\ pc[t] = "unlock" /\ op[t].kind = "post" => called[t] = content[op[t].cat]
=============================================================================
