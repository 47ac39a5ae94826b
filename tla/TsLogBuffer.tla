----------------------------- MODULE TsLogBuffer -----------------------------
(***************************************************************************)
(* The thread-safe log buffer (src/ts_log_buffer.c): pushes of several     *)
(* threads under the buffer's mutex, each followed, after the mutex is     *)
(* released, by a call of the client's function about the room that is     *)
(* left. The characters are taken out with the functions of the log buffer *)
(* itself, which do not lock: the client makes these calls while no push   *)
(* is in its critical section. The mutex is taken whenever it is asked for *)
(* (TsQueue has the lock that fails).                                      *)
(***************************************************************************)
EXTENDS LogBuffer

CONSTANTS
    Threads,    \* the threads that log
    Hooks,      \* <<fn, private>> pairs a client installs
    Strings,    \* what is logged
    MaxPushes   \* bound: the pushes of a run

VARIABLES
    lb,         \* the log buffer
    alive,      \* between ts_log_buffer_init and ts_log_buffer_deinit
    fn,         \* the client's function, or "null"
    private,    \* and its argument
    pushes,     \* bounded by MaxPushes
    calling,    \* the call a thread has yet to make after its unlock
    text,       \* history: all the characters of the strings that were accepted
    shown,      \* what the last call, if it was a push, added to what they show
    last,       \* and what is known of that push
    popped      \* what the last call took out

logvars == <<lb, alive, fn, private, pushes, calling, text, shown, last, popped>>

NoCall == [fn |-> "null", private |-> "null", notice |-> "none"]
NoPush == [by |-> "none", hooked |-> FALSE, lost |-> FALSE]

Init ==
    /\ lb = [buf |-> [i \in 0..BufferSize-1 |-> "1"], head |-> 0, tail |-> 0, esc |-> FALSE]
    /\ alive = TRUE /\ pushes = 0
    /\ fn = "null" /\ private = "null"
    /\ calling = [t \in Threads |-> NoCall]
    /\ text = <<>> /\ shown = <<>> /\ last = NoPush /\ popped = <<>>

\* The characters from tail up to head, by the definition of a ring.
Logged ==
    [k \in 1..((lb.head + BufferSize - lb.tail) % BufferSize) |->
        lb.buf[(lb.tail + k - 1) % BufferSize]]

\* A counter of 32 bits read as int32_t.
Signed(n) == IF n % Word >= Word \div 2 THEN (n % Word) - Word ELSE n % Word

\* Mutation: the line that is begun counts as free.
NoticeLate(size) ==
    LET diff == Signed(log_buffer_lines_from_size(BufferSize)
                        - log_buffer_lines_from_size(size))
    IN  CASE diff > 0 /\ diff < 3 -> "LB_ALMOST_FULL"
          [] diff <= 0 -> "LB_FULL"
          [] OTHER -> "none"

Notice(size) ==
    LET max_lines == log_buffer_lines_from_size(BufferSize) - 1
        diff == Signed(max_lines - log_buffer_lines_from_size(size))
    IN  CASE diff > 0 /\ diff < 3 -> "LB_ALMOST_FULL"
          [] diff <= 0 -> "LB_FULL"
          [] OTHER -> "none"

\* The history of a push: what the string adds to what the whole text shows.
Record(t, s) ==
    /\ text' = IF Len(s) < BufferSize THEN text \o s ELSE text
    /\ shown' = SubSeq(Visible(text'), Len(Visible(text)) + 1, Len(Visible(text')))
    /\ last' = [by |-> t, hooked |-> fn # "null",
                lost |-> Len(Logged) + Len(shown') > BufferSize - 1]
    /\ popped' = <<>>

\* Any other call.
NotAPush == shown' = <<>> /\ last' = NoPush /\ UNCHANGED text

\* The critical section of ts_log_buffer_push, with what it captures.
ts_log_buffer_push(t, s) ==
    /\ alive /\ calling[t] = NoCall
    /\ pushes < MaxPushes /\ pushes' = pushes + 1
    /\ lb' = log_buffer_push(lb, s)
    /\ LET notice == Notice(log_buffer_current_size(lb'))
       IN  calling' = [calling EXCEPT ![t] =
                IF fn = "null" \/ notice = "none" THEN NoCall
                ELSE [fn |-> fn, private |-> private, notice |-> notice]]
    /\ Record(t, s)
    /\ UNCHANGED <<alive, fn, private>>

\* fn(p_ts_log, notice, private); what it takes out are CharPop steps.
CallHook(t) ==
    /\ calling[t] # NoCall
    /\ calling' = [calling EXCEPT ![t] = NoCall]
    /\ popped' = <<>> /\ NotAPush
    /\ UNCHANGED <<lb, alive, fn, private, pushes>>

ts_log_buffer_install_notifications(hook) ==
    /\ alive
    /\ fn' = hook[1] /\ private' = hook[2]
    /\ popped' = <<>> /\ NotAPush
    /\ UNCHANGED <<lb, alive, calling, pushes>>

CharPop ==
    /\ alive /\ ~log_buffer_is_empty(lb)
    /\ popped' = <<CharPopped(lb)>>
    /\ lb' = log_buffer_char_pop(lb)
    /\ NotAPush
    /\ UNCHANGED <<alive, fn, private, calling, pushes>>

Clear ==
    /\ alive
    /\ lb' = log_buffer_clear(lb)
    /\ popped' = <<>> /\ NotAPush
    /\ UNCHANGED <<alive, fn, private, calling, pushes>>

\* The client makes no call while the buffer is down. The function stays.
ts_log_buffer_deinit ==
    /\ alive /\ \A t \in Threads : calling[t] = NoCall
    /\ alive' = FALSE
    /\ popped' = <<>> /\ NotAPush
    /\ UNCHANGED <<lb, fn, private, calling, pushes>>

ts_log_buffer_init ==
    /\ ~alive
    /\ alive' = TRUE
    /\ lb' = log_buffer_init(lb)
    /\ popped' = <<>> /\ NotAPush
    /\ UNCHANGED <<fn, private, calling, pushes>>

Next ==
    \/ \E t \in Threads, s \in Strings : ts_log_buffer_push(t, s)
    \/ \E t \in Threads : CallHook(t)
    \/ \E h \in Hooks : ts_log_buffer_install_notifications(h)
    \/ CharPop
    \/ Clear
    \/ ts_log_buffer_deinit
    \/ ts_log_buffer_init

Spec == Init /\ [][Next]_logvars

-----------------------------------------------------------------------------
Log ==
    INSTANCE SlidingWindow
        WITH Capacity <- BufferSize - 1, window <- Logged,
             put <- shown, took <- popped, broken <- FALSE


\* n more lines of MaxLineLength characters fit behind what is logged.
Fits(n) == Len(Logged) + n * MaxLineLength <= BufferSize - 1

\* What each push tells the client's function, if there is one. A push that
\* overwrites characters says LB_FULL; one that says nothing leaves room for
\* three lines; LB_ALMOST_FULL says that there is room for one line and not for
\* four, LB_FULL that there is none for two. (A line that is begun counts as
\* used, so the two limits are one line wide.) A log without any character is
\* left out: its number of lines wraps around, and a push that shows nothing
\* says LB_FULL of it. Whatever is installed between the unlock and the call,
\* the function gets the argument it was installed with.
NoticeSound ==
    /\ last.hooked /\ Logged # <<>> =>
        CASE calling[last.by].notice = "none" -> ~last.lost /\ Fits(3)
          [] calling[last.by].notice = "LB_ALMOST_FULL" -> ~last.lost /\ Fits(1) /\ ~Fits(4)
          [] calling[last.by].notice = "LB_FULL" -> ~Fits(2)
    /\ \A t \in Threads :
        calling[t] # NoCall => <<calling[t].fn, calling[t].private>> \in Hooks
=============================================================================
