-------------------------------- MODULE Task --------------------------------
(***************************************************************************)
(* Tasks in static storage, on the three ports: src/pthread/task.c,        *)
(* src/c11/task.c over inc/cutils/c11/c11threads.h, src/freertos/task.c.   *)
(* A client creates and destroys tasks, one after the other, in the same   *)
(* storage. The new task runs, and asks for its name, while                *)
(* task_new_static is still filling in the control block.                  *)
(***************************************************************************)
EXTENDS Integers

CONSTANT MaxLives   \* bound: the tasks created in the storage

VARIABLES
    port,       \* the port the library is built for
    life,       \* which task of the storage this is: its label, in effect
    client,     \* where the client is
    tcb,        \* sanity, label and handle of the control block
    thread      \* where the task is, and the name it was told

taskvars == <<port, life, client, tcb, thread>>

Ports == {"pthread", "c11", "freertos"}

\* The label of a life, of which none, a part or all has been copied.
NoLabel == [of |-> 0, whole |-> TRUE]
Unknown == [of |-> -1, whole |-> TRUE]

Zeroed == [sanity |-> FALSE, label |-> NoLabel, handle |-> FALSE]

\* returned: func has. since: the name was asked for after task_new_static.
NotRunning == [pc |-> "none", returned |-> FALSE, since |-> FALSE, name |-> Unknown]

TaskInit ==
    /\ port \in Ports
    /\ life = 0
    /\ client = "idle"
    /\ tcb = Zeroed
    /\ thread = NotRunning

-----------------------------------------------------------------------------
\* Mutation: the storage is not zeroed first.
TaskNewNoMemset ==
    /\ client = "idle" /\ life < MaxLives
    /\ life' = life + 1
    /\ client' = "attributes"
    /\ UNCHANGED <<port, tcb, thread>>

\* task_new_static up to the attributes: on FreeRTOS nothing is zeroed.
task_new_static ==
    /\ client = "idle" /\ life < MaxLives
    /\ life' = life + 1
    /\ client' = "attributes"
    /\ tcb' = IF port = "freertos" THEN tcb ELSE Zeroed
    /\ UNCHANGED <<port, thread>>

\* An attribute is refused: the pthread port returns at once, thrd_create_ex
\* only to its caller, which goes on as after a creation that failed.
AttributesFail ==
    /\ client = "attributes" /\ port # "freertos"
    /\ client' = IF port = "pthread" THEN "idle" ELSE "failed"
    /\ UNCHANGED <<port, life, tcb, thread>>

\* pthread_create, thrd_create_ex, xTaskCreateStatic: the task may run.
Create ==
    /\ client = "attributes"
    /\ client' = "created"
    /\ thread' = [NotRunning EXCEPT !.pc = "start"]
    /\ UNCHANGED <<port, life, tcb>>

CreateFail ==
    /\ client = "attributes" /\ port # "freertos"
    /\ client' = "failed"
    /\ UNCHANGED <<port, life, tcb, thread>>

\* sanity and label are plain stores that the task may read meanwhile: they
\* arrive in any order.
StoreSanity ==
    /\ client \in {"created", "failed"} /\ port # "freertos"
    /\ ~tcb.sanity
    /\ tcb' = [tcb EXCEPT !.sanity = TRUE]
    /\ UNCHANGED <<port, life, client, thread>>

\* strncpy, in two parts.
StoreLabel ==
    /\ client \in {"created", "failed"} /\ port # "freertos"
    /\ tcb.label # [of |-> life, whole |-> TRUE]
    /\ tcb' = [tcb EXCEPT !.label = [of |-> life, whole |-> @.of = life]]
    /\ UNCHANGED <<port, life, client, thread>>

\* The task, or NULL, is returned; on FreeRTOS the handle has been stored.
NewEnd ==
    /\ client \in {"created", "failed"}
    /\ port # "freertos" => tcb.sanity /\ tcb.label = [of |-> life, whole |-> TRUE]
    /\ client' = IF client = "created" THEN "has task" ELSE "idle"
    /\ tcb' = [tcb EXCEPT !.handle = (client = "created")]
    /\ UNCHANGED <<port, life, thread>>

\* task_destroy_static: a join, or on FreeRTOS the end of the task wherever it
\* is.
task_destroy_static ==
    /\ client = "has task"
    /\ IF port = "freertos" THEN tcb.handle ELSE thread.pc = "none"
    /\ thread' = [thread EXCEPT !.pc = "none"]
    /\ tcb' = IF port = "freertos" THEN [tcb EXCEPT !.handle = FALSE] ELSE tcb
    /\ client' = "idle"
    /\ UNCHANGED <<port, life>>

-----------------------------------------------------------------------------
\* task_runner, thread_runner_f, task_wrapper: the task is noted as the current
\* one before func is called,
RunnerBegin ==
    /\ thread.pc = "start"
    /\ thread' = [thread EXCEPT !.pc = "func"]
    /\ UNCHANGED <<port, life, client, tcb>>

\* and no more after it. On FreeRTOS it then waits to be deleted.
RunnerEnd ==
    /\ thread.pc = "func"
    /\ thread' = [thread EXCEPT !.returned = TRUE,
                                !.pc = IF port = "freertos" THEN "suspended" ELSE "none"]
    /\ UNCHANGED <<port, life, client, tcb>>

\* task_get_current_name looks at sanity first; the kernel of FreeRTOS has had
\* the name since the task was created.
GetNameBegin ==
    /\ thread.pc = "func"
    /\ thread' = CASE port = "freertos" ->
                        [thread EXCEPT !.name = [of |-> life, whole |-> TRUE],
                                       !.since = (client = "has task")]
                   [] port # "freertos" /\ tcb.sanity ->
                        [thread EXCEPT !.pc = "name", !.since = (client = "has task")]
                   [] OTHER ->
                        [thread EXCEPT !.name = Unknown, !.since = (client = "has task")]
    /\ UNCHANGED <<port, life, client, tcb>>

GetNameEnd ==
    /\ thread.pc = "name"
    /\ thread' = [thread EXCEPT !.pc = "func", !.name = tcb.label]
    /\ UNCHANGED <<port, life, client, tcb>>

TaskNext ==
    \/ task_new_static \/ AttributesFail \/ Create \/ CreateFail
    \/ StoreSanity \/ StoreLabel \/ NewEnd
    \/ task_destroy_static
    \/ RunnerBegin \/ RunnerEnd
    \/ GetNameBegin \/ GetNameEnd

TaskSpec == TaskInit /\ [][TaskNext]_taskvars

-----------------------------------------------------------------------------
\* The tasks that follow each other in one storage keep apart. When the storage
\* is the client's again no task runs in it, and where task_destroy_static joins
\* the task func has returned. A task is told its own label, or a part of it, or
\* that it is unknown, and never what an earlier task has left in the storage;
\* asked for after task_new_static has returned, it is the label.
LivesApart ==
    /\ client \in {"idle", "attributes"} =>
        /\ thread.pc = "none"
        /\ port # "freertos" => thread.returned \/ thread = NotRunning
    /\ thread.pc = "func" =>
        /\ thread.name \in {Unknown, NoLabel} \union [of : {life}, whole : BOOLEAN]
        /\ thread.since => thread.name = [of |-> life, whole |-> TRUE]
=============================================================================
