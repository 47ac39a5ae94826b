------------------------------- MODULE KQueue --------------------------------
(***************************************************************************)
(* The intrusive queue (inc/cutils/kqueue.h) fed from a free list          *)
(* (inc/cutils/free_list.h): both are built on the macros of klist.h. An   *)
(* element moves between them through the client's hands, and on its way   *)
(* may be in two lists the client keeps with the macros themselves: list,  *)
(* held by its first element, and log, held by its last. The library       *)
(* calls are not thread safe, so the client is sequential; a call that     *)
(* drops elements runs the client's callback between two dequeues, and the *)
(* callback puts the element back into the free list or inserts it again.  *)
(*                                                                         *)
(* lists holds what the four lists should hold, as sequences.              *)
(***************************************************************************)
EXTENDS KList

CONSTANTS
    Order,      \* the items of the free list's data_store, in memory order
    Callbacks,  \* what the registered f_drop does: "put" the element into the
                \* free list, "insert" it into the queue; "none" is NULL
    MaxInserts  \* bound: elements a callback inserts during one call

ASSUME QueueAssumption ==
    /\ {"queue", "free", "list", "log"} \subseteq Lists
    /\ Order \in Seq(Elems) /\ Members(Order) = Elems
    /\ \A i, j \in 1..Len(Order) : Order[i] = Order[j] => i = j
    /\ Callbacks \subseteq {"none", "put", "insert"}
    /\ MaxInserts \in Nat

VARIABLES
    mem,        \* the memory: links and list pointers
    count,      \* item_count of the queue
    available,  \* current_available of the free list
    f_drop,     \* the queue's callback
    dropping,   \* the drop in progress: "no", "all", or the element to stop at
    inCallback, \* the dequeued element f_drop is running on, or Nil
    inserts,    \* inserts by the callback during the drop
    failed,     \* NULL was called
    lists       \* lists[l]: what list l should hold

queuevars ==
    <<mem, count, available, f_drop, dropping, inCallback, inserts, failed,
      lists>>

\* The elements in the client's hands.
InHand == Elems \ ({inCallback} \cup UNION {Members(lists[l]) : l \in Lists})

\* kqueue_init, and free_list_init, which prepends the items one by one. Their
\* storage is static and holds zeroes: the first prepend writes no link.
QueueInit ==
    /\ mem = [Cleared EXCEPT
              !.head["free"] = Last(Order),
              !.next = [e \in Elems |->
                          LET i == CHOOSE j \in 1..Len(Order) : Order[j] = e
                          IN  IF i = 1 THEN Nil ELSE Order[i - 1]],
              !.prev = [e \in Elems |->
                          LET i == CHOOSE j \in 1..Len(Order) : Order[j] = e
                          IN  IF i = Len(Order) THEN Nil ELSE Order[i + 1]]]
    /\ lists = [l \in Lists |->
                  IF l = "free"
                  THEN [i \in 1..Len(Order) |-> Order[Len(Order) + 1 - i]]
                  ELSE <<>>]
    /\ count = 0
    /\ available = Len(Order)
    /\ f_drop = "none"
    /\ dropping = "no" /\ inCallback = Nil /\ inserts = 0
    /\ failed = FALSE

kqueue_is_empty == mem.head["queue"] = Nil \/ mem.tail["queue"] = Nil

ClientRuns == dropping = "no" /\ ~failed

-----------------------------------------------------------------------------
(* The functions on the two lists, as operators on memory.                  *)

\* kqueue_insert's memory: the tail append, then the head of an empty queue.
Inserted(x) ==
    LET a == TailAppend(mem, "queue", x)
    IN  IF a.head["queue"] = Nil THEN [a EXCEPT !.head["queue"] = a.tail["queue"]] ELSE a

\* kqueue_dequeue's memory: tail of the only element, head, then the links.
Dequeued ==
    LET x == mem.head["queue"]
        t == IF x = mem.tail["queue"] THEN [mem EXCEPT !.tail["queue"] = Nil] ELSE mem
    IN  RemoveElem([t EXCEPT !.head["queue"] = mem.next[x]], x)

Insert(x) ==
    /\ mem' = Inserted(x)
    /\ count' = count + 1
    /\ lists' = [lists EXCEPT !["queue"] = Append(@, x)]

Dequeue ==
    /\ ~kqueue_is_empty
    /\ mem' = Dequeued
    /\ count' = count - 1
    /\ lists' = [lists EXCEPT !["queue"] = Tail(@)]

\* free_list_put: refused when the list already has all its items.
Put(x) ==
    /\ available < Len(Order)
    /\ mem' = HeadPrepend(mem, "free", x)
    /\ available' = available + 1
    /\ lists' = [lists EXCEPT !["free"] = <<x>> \o @]

-----------------------------------------------------------------------------
(* The client's calls.                                                      *)

kqueue_insert(x) ==
    /\ ClientRuns
    /\ x \in InHand
    /\ Insert(x)
    /\ UNCHANGED <<available, f_drop, dropping, inCallback, inserts, failed>>

kqueue_dequeue ==
    /\ ClientRuns
    /\ Dequeue
    /\ UNCHANGED <<available, f_drop, dropping, inCallback, inserts, failed>>

kqueue_register_drop_all_cb(cb) ==
    /\ ClientRuns
    /\ f_drop' = cb
    /\ UNCHANGED <<mem, count, available, dropping, inCallback, inserts, failed, lists>>

free_list_get ==
    /\ ClientRuns
    /\ mem.head["free"] # Nil /\ available > 0
    /\ mem' = HeadPop(mem, "free")
    /\ available' = available - 1
    /\ lists' = [lists EXCEPT !["free"] = Tail(@)]
    /\ UNCHANGED <<count, f_drop, dropping, inCallback, inserts, failed>>

free_list_put(x) ==
    /\ ClientRuns
    /\ x \in InHand
    /\ Put(x)
    /\ UNCHANGED <<count, f_drop, dropping, inCallback, inserts, failed>>

Relink(links, l, s) ==
    /\ ClientRuns
    /\ mem' = links
    /\ lists' = [lists EXCEPT ![l] = s]
    /\ UNCHANGED <<count, available, f_drop, dropping, inCallback, inserts, failed>>

KLIST_HEAD_PREPEND(x) ==
    x \in InHand /\ Relink(HeadPrepend(mem, "list", x), "list", <<x>> \o lists["list"])

KLIST_HEAD_REMOVE_ELEM(x) ==
    /\ x \in Members(lists["list"])
    /\ Relink(HeadRemoveElem(mem, "list", x), "list", Without(lists["list"], x))

KLIST_TAIL_APPEND(x) ==
    x \in InHand /\ Relink(TailAppend(mem, "log", x), "log", Append(lists["log"], x))

KLIST_TAIL_REMOVE_ELEM(x) ==
    /\ x \in Members(lists["log"])
    /\ Relink(TailRemoveElem(mem, "log", x), "log", Without(lists["log"], x))

StartDrop(what) ==
    /\ ClientRuns
    /\ dropping' = what
    /\ inserts' = 0
    /\ UNCHANGED <<mem, count, available, f_drop, inCallback, failed, lists>>

kqueue_drop_all == StartDrop("all")

kqueue_drop_all_through_elem(x) == StartDrop(x)

\* One turn of either loop up to the callback. drop_all tests f_drop before
\* the call, drop_all_through_elem does not.
DropNext ==
    /\ dropping # "no" /\ inCallback = Nil /\ ~failed
    /\ Dequeue
    /\ LET x == mem.head["queue"]
       IN  /\ inCallback' = IF f_drop = "none" THEN Nil ELSE x
           /\ dropping' = IF f_drop = "none" /\ dropping = x THEN "no" ELSE dropping
    /\ failed' = (f_drop = "none" /\ dropping # "all")
    /\ UNCHANGED <<available, f_drop, inserts>>

\* The loop ends on an empty queue.
DropEnds ==
    /\ dropping # "no" /\ inCallback = Nil /\ ~failed
    /\ kqueue_is_empty
    /\ dropping' = "no"
    /\ UNCHANGED <<mem, count, available, f_drop, inCallback, inserts, failed, lists>>

\* The client's callback; the loop that drops through an element stops after
\* the callback on it.
Callback ==
    /\ inCallback # Nil
    /\ \/ /\ f_drop = "put"
          /\ Put(inCallback)
          /\ UNCHANGED <<count, inserts>>
       \/ /\ f_drop = "insert" /\ inserts < MaxInserts
          /\ Insert(inCallback)
          /\ inserts' = inserts + 1
          /\ UNCHANGED available
       \/ /\ f_drop = "insert" /\ inserts = MaxInserts
          /\ UNCHANGED <<mem, count, available, inserts, lists>>
    /\ inCallback' = Nil
    /\ dropping' = IF dropping = inCallback THEN "no" ELSE dropping
    /\ UNCHANGED <<f_drop, failed>>

\* The program has ended.
Ended == failed /\ UNCHANGED queuevars

QueueNext ==
    \/ Ended
    \/ \E x \in Elems :
          \/ kqueue_insert(x)
          \/ free_list_put(x)
          \/ kqueue_drop_all_through_elem(x)
          \/ KLIST_HEAD_PREPEND(x) \/ KLIST_HEAD_REMOVE_ELEM(x)
          \/ KLIST_TAIL_APPEND(x) \/ KLIST_TAIL_REMOVE_ELEM(x)
    \/ kqueue_dequeue
    \/ \E cb \in Callbacks : kqueue_register_drop_all_cb(cb)
    \/ free_list_get
    \/ kqueue_drop_all
    \/ DropNext
    \/ DropEnds
    \/ Callback

QueueSpec == QueueInit /\ [][QueueNext]_queuevars

-----------------------------------------------------------------------------
\* item_count and current_available are the lengths of the two lists (what
\* kqueue_get_item_count returns, and what free_list_get and free_list_put
\* decide on).
CountsAgree ==
    /\ count = Len(lists["queue"])
    /\ available = Len(lists["free"])

\* Every list holds what was put into it and not taken out, in order, and no
\* operation on one disturbs another, whatever the drop callbacks do in between.
\* A pop leaves a stale prev in the new head, and an insert into an empty list
\* does not write the element's links: every way out of a list must have
\* cleared them, and nothing may follow the stale prev. The counts agree.
ListsIntact ==
    /\ HeldByHead(mem, "queue", lists["queue"])
    /\ HeldByTail(mem, "queue", lists["queue"])
    /\ HeldByHead(mem, "free", lists["free"])
    /\ HeldByHead(mem, "list", lists["list"])
    /\ HeldByTail(mem, "log", lists["log"])
    /\ CountsAgree
=============================================================================
