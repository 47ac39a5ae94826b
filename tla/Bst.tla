--------------------------------- MODULE Bst ---------------------------------
(***************************************************************************)
(* The binary search tree (src/bst.c, inc/cutils/bst.h), made of the list  *)
(* elements of klist.h: prev is the left child, next the right one. It has *)
(* no removal; elements with equal keys may be inserted.                   *)
(***************************************************************************)
EXTENDS Integers, Sequences

CONSTANTS
    Nodes,      \* the elements
    KeyOf,      \* what f_less compares, by element
    Null

VARIABLES
    root,
    prev,       \* of the elements
    next,
    inserted    \* history: the elements in the order they were inserted

treevars == <<root, prev, next, inserted>>

f_less(e, f) == KeyOf[e] - KeyOf[f]

\* The elements hold what an earlier use has left in them.
Init ==
    /\ root = Null
    /\ prev \in {[e \in Nodes |-> p] : p \in {Null, CHOOSE n \in Nodes : TRUE}}
    /\ next = prev
    /\ inserted = <<>>

bst_init == root' = Null /\ inserted' = <<>> /\ UNCHANGED <<prev, next>>

\* Mutation: equal keys go to the left.
GoesLeftEqual(e, current) == f_less(e, current) <= 0

GoesLeft(e, current) == f_less(e, current) < 0

\* The last element on the way down from current.
RECURSIVE ParentOf(_, _)
ParentOf(e, current) ==
    LET child == IF GoesLeft(e, current) THEN prev[current] ELSE next[current]
    IN  IF child = Null THEN current ELSE ParentOf(e, child)

bst_insert(e) ==
    /\ \A i \in DOMAIN inserted : inserted[i] # e
    /\ inserted' = Append(inserted, e)
    /\ IF root = Null
       THEN /\ root' = e
            /\ prev' = [prev EXCEPT ![e] = Null]
            /\ next' = [next EXCEPT ![e] = Null]
       ELSE LET parent == ParentOf(e, root)
                left == GoesLeft(e, parent)
            IN  /\ prev' = [n \in Nodes |-> IF n = e THEN Null
                               ELSE IF n = parent /\ left THEN e ELSE prev[n]]
                /\ next' = [n \in Nodes |-> IF n = e THEN Null
                               ELSE IF n = parent /\ ~left THEN e ELSE next[n]]
                /\ UNCHANGED root

\* bst_search_inner
RECURSIVE bst_search(_, _)
bst_search(n, key) ==
    IF n = Null \/ f_less(key, n) = 0 THEN n
    ELSE bst_search(IF f_less(key, n) < 0 THEN prev[n] ELSE next[n], key)

\* bst_traverse_inner: the elements in the order fn is called with them.
RECURSIVE bst_traverse(_)
bst_traverse(n) ==
    IF n = Null THEN <<>>
    ELSE bst_traverse(prev[n]) \o <<n>> \o bst_traverse(next[n])

Next == bst_init \/ \E e \in Nodes : bst_insert(e)

Spec == Init /\ [][Next]_treevars

-----------------------------------------------------------------------------
\* In whatever order elements are inserted, bst_traverse visits each of them
\* once, by key and among equal keys in the order of insertion, and bst_search
\* finds the first inserted of a key, or nothing when there is none.
TreeSound ==
    LET visited == bst_traverse(root)
        At(e) == CHOOSE i \in DOMAIN inserted : inserted[i] = e
        Elements(s) == {s[i] : i \in DOMAIN s}
        Same(key) == {e \in Elements(inserted) : KeyOf[e] = KeyOf[key]}
    IN  /\ Len(visited) = Len(inserted)
        /\ Elements(visited) = Elements(inserted)
        /\ \A i, j \in DOMAIN visited : i < j =>
            \/ KeyOf[visited[i]] < KeyOf[visited[j]]
            \/ /\ KeyOf[visited[i]] = KeyOf[visited[j]]
               /\ At(visited[i]) < At(visited[j])
        /\ \A key \in Nodes :
            LET found == bst_search(root, key)
            IN  IF Same(key) = {} THEN found = Null
                ELSE found \in Same(key) /\ \A e \in Same(key) : At(found) <= At(e)
=============================================================================
