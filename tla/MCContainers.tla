---------------------------- MODULE MCContainers -----------------------------
(***************************************************************************)
(* The containers of the library, for TLC: intrusive lists, the pool, the  *)
(* search tree and the two byte rings that overwrite. They share nothing,  *)
(* so a behaviour is one of any of them, chosen at the start, while the    *)
(* others rest. Each is small enough to wrap around, to fill and to be     *)
(* emptied: the log buffer holds four and a half lines of two characters,  *)
(* and its strings are chosen so that escape sequences are cut in two and  *)
(* every notice is given.                                                  *)
(***************************************************************************)
EXTENDS KQueue, Pool, Accumulator

CONSTANTS e1, e2, e3, e4, t1, t2, b1

VARIABLES
    subject,                                                \* which of them
    root, prev, next, inserted,                             \* Bst
    lb, alive, fn, private, pushes, calling, text, shown, last, popped  \* TsLogBuffer

treevars == <<root, prev, next, inserted>>
logvars == <<lb, alive, fn, private, pushes, calling, text, shown, last, popped>>

FourItems == <<e1, e2, e3, e4>>

Strings ==
    {<<"1">>, <<"a", "1", "b">>, <<"esc", "1">>, <<"nul">>,
     <<"1", "b", "cr", "1", "1", "a">>, [i \in 1..10 |-> "1"]}

Tree == INSTANCE Bst WITH Nodes <- 1..5, KeyOf <- <<1, 2, 2, 3, 2>>, Null <- 0

Log == INSTANCE TsLogBuffer
        WITH BufferSize <- 10, MaxLineLength <- 2, Word <- 64,
             Threads <- {t1, t2}, MaxPushes <- 3,
             Hooks <- {<<"f", "x">>, <<"g", "y">>}

MCInit ==
    /\ QueueInit /\ Init /\ Tree!Init /\ AccInit /\ Log!Init
    /\ subject \in {"queue", "pool", "tree", "accumulator", "log"}
    /\ subject # "accumulator" => buf[0] = 0
    /\ subject # "tree" => prev[1] = 0
    /\ subject # "pool" => free[1] = b1

MCNext ==
    /\ \/ subject = "queue" /\ QueueNext /\ UNCHANGED <<vars, treevars, avars, logvars>>
       \/ subject = "pool" /\ Next /\ UNCHANGED <<queuevars, treevars, avars, logvars>>
       \/ subject = "tree" /\ Tree!Next /\ UNCHANGED <<queuevars, vars, avars, logvars>>
       \/ subject = "accumulator" /\ AccNext /\ UNCHANGED <<queuevars, vars, treevars, logvars>>
       \/ subject = "log" /\ Log!Next /\ UNCHANGED <<queuevars, vars, treevars, avars>>
    /\ UNCHANGED subject

MCSpec == MCInit /\ [][MCNext]_<<subject, queuevars, vars, treevars, avars, logvars>>

\* The tree of src/bst.c is ordered and searched rightly.
TreeSound == Tree!TreeSound

NoticeSound == Log!NoticeSound
=============================================================================
