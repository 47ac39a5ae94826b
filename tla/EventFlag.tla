------------------------------ MODULE EventFlag ------------------------------
(***************************************************************************)
(* Event flags (inc/cutils/pthread/event_flag.h; the c11 port has the same *)
(* control) and, with one bit and WAIT_OR_CLEAR, the signal of             *)
(* inc/cutils/signal.h.                                                    *)
(*                                                                         *)
(*   event_flag_wait:  idle -> lock -> check -> idle                       *)
(*                                     |  ^                                *)
(*                                     v  |                                *)
(*                               blocked -> woken -> (timed out) idle      *)
(*   event_flag_send:  idle -> slock -> set -> broadcast -> unlock -> idle *)
(*   event_flag_clear: idle -> clock -> clear -> unlock -> idle            *)
(***************************************************************************)
EXTENDS Integers, FiniteSets

CONSTANTS
    Waiters,    \* threads that call event_flag_wait
    Setters,    \* threads that call event_flag_send and event_flag_clear
    Bits,       \* the bits of the flag word
    Requests,   \* the waits clients ask for: mask, wait type and timeout
    Clears,     \* whether anybody calls event_flag_clear
    NoThread    \* "owner" of a free mutex

Threads == Waiters \cup Setters

ASSUME FlagAssumption ==
    /\ IsFiniteSet(Bits)
    /\ Requests \subseteq
         [mask : SUBSET Bits,
          type : {"OR", "OR_CLEAR", "AND", "AND_CLEAR"},
          wait : {"forever", "timed", "nosleep"}]
    /\ Waiters \cap Setters = {}
    /\ NoThread \notin Threads
    /\ Clears \in BOOLEAN

VARIABLES
    val,    \* the bits that are set
    mtx,    \* the owner of p_flags->mtx
    pc,     \* pc[t]: where thread t is
    req,    \* req[w]: the arguments of w's wait
    late,   \* late[w]: w's condition wait timed out
    arg,    \* arg[s]: the bits s sends or clears
    result, \* result[w]: what w's last wait returned
    act     \* act[w]: the flags it reported

vars == <<val, mtx, pc, req, late, arg, result, act>>

-----------------------------------------------------------------------------
Init ==
    /\ val = {}
    /\ mtx = NoThread
    /\ pc = [t \in Threads |-> "idle"]
    /\ req \in {[w \in Waiters |-> r] : r \in Requests}
    /\ late = [w \in Waiters |-> FALSE]
    /\ arg = [s \in Setters |-> {}]
    /\ result = [w \in Waiters |-> "none"]
    /\ act = [w \in Waiters |-> {}]

Goto(t, from, to) == pc[t] = from /\ pc' = [pc EXCEPT ![t] = to]

Acquire(t) == mtx = NoThread /\ mtx' = t
Release == mtx' = NoThread

event_flag_wait(w) ==
    /\ Goto(w, "idle", "lock")
    /\ \E r \in Requests : req' = [req EXCEPT ![w] = r]
    /\ late' = [late EXCEPT ![w] = FALSE]
    /\ result' = [result EXCEPT ![w] = "none"]
    /\ act' = [act EXCEPT ![w] = {}]
    /\ UNCHANGED <<val, mtx, arg>>

WaitLock(w) ==
    /\ Goto(w, "lock", "check")
    /\ Acquire(w)
    /\ UNCHANGED <<val, req, late, arg, result, act>>

\* The mutex is taken: pthread_mutex_trylock says EBUSY at once, and so does
\* pthread_mutex_timedlock ETIMEDOUT with the zero deadline of WAIT_FOREVER;
\* a timed call's deadline may pass, or be invalid.
WaitLockFails(w) ==
    /\ mtx # NoThread
    /\ Goto(w, "lock", "idle")
    /\ result' = [result EXCEPT ![w] = "false"]
    /\ UNCHANGED <<val, mtx, req, late, arg, act>>

\* check_flags
Actual(r) == val \cap r.mask
Met(r) ==
    IF r.type \in {"OR", "OR_CLEAR"} THEN Actual(r) # {} ELSE Actual(r) = r.mask

\* Mutation: the wait clears flags it did not ask for.
KeptNone(r) == IF r.type \in {"OR_CLEAR", "AND_CLEAR"} THEN {} ELSE val

Kept(r) == IF r.type \in {"OR_CLEAR", "AND_CLEAR"} THEN val \ Actual(r) ELSE val

WaitMet(w) ==
    /\ Met(req[w])
    /\ Goto(w, "check", "idle")
    /\ val' = Kept(req[w])
    /\ act' = [act EXCEPT ![w] = Actual(req[w])]
    /\ result' = [result EXCEPT ![w] = "true"]
    /\ Release
    /\ UNCHANGED <<req, late, arg>>

\* pthread_cond_wait, or pthread_cond_timedwait with a new deadline.
WaitBlock(w) ==
    /\ ~Met(req[w])
    /\ Goto(w, "check", "blocked")
    /\ Release
    /\ UNCHANGED <<val, req, late, arg, result, act>>

\* The new deadline is not carried: with a wait_ms that is no multiple of
\* 1000 it may be invalid, and the wait fails at once.
WaitInvalid(w) ==
    /\ ~Met(req[w])
    /\ req[w].wait = "timed"
    /\ Goto(w, "check", "idle")
    /\ result' = [result EXCEPT ![w] = "false"]
    /\ Release
    /\ UNCHANGED <<val, req, late, arg, act>>

Timeout(w) ==
    /\ req[w].wait \in {"timed", "nosleep"}
    /\ Goto(w, "blocked", "woken")
    /\ late' = [late EXCEPT ![w] = TRUE]
    /\ UNCHANGED <<val, mtx, req, arg, result, act>>

SpuriousWakeup(w) ==
    /\ Goto(w, "blocked", "woken")
    /\ UNCHANGED <<val, mtx, req, late, arg, result, act>>

\* The condition wait takes the mutex again. After a timeout the call returns
\* false without another look at the flags.
WaitRelock(w) ==
    /\ ~late[w]
    /\ Goto(w, "woken", "check")
    /\ Acquire(w)
    /\ UNCHANGED <<val, req, late, arg, result, act>>

WaitTimedOut(w) ==
    /\ late[w]
    /\ mtx = NoThread
    /\ Goto(w, "woken", "idle")
    /\ result' = [result EXCEPT ![w] = "false"]
    /\ UNCHANGED <<val, mtx, req, late, arg, act>>

-----------------------------------------------------------------------------
Begin(s, to) ==
    /\ Goto(s, "idle", to)
    /\ \E bits \in SUBSET Bits \ {{}} : arg' = [arg EXCEPT ![s] = bits]
    /\ UNCHANGED <<val, mtx, req, late, result, act>>

event_flag_send(s) == Begin(s, "slock")

event_flag_clear(s) == Clears /\ Begin(s, "clock")

SetterLock(s) ==
    /\ Goto(s, "slock", "set") \/ Goto(s, "clock", "clear")
    /\ Acquire(s)
    /\ UNCHANGED <<val, req, late, arg, result, act>>

SendSet(s) ==
    /\ Goto(s, "set", "broadcast")
    /\ val' = val \cup arg[s]
    /\ UNCHANGED <<mtx, req, late, arg, result, act>>

\* Mutations: one blocked thread is woken instead of all; none is.
SendBroadcastOne(s) ==
    /\ pc[s] = "broadcast"
    /\ \/ /\ \A w \in Waiters : pc[w] # "blocked"
          /\ pc' = [pc EXCEPT ![s] = "unlock"]
       \/ \E w \in Waiters :
            /\ pc[w] = "blocked"
            /\ pc' = [pc EXCEPT ![s] = "unlock", ![w] = "woken"]
    /\ UNCHANGED <<val, mtx, req, late, arg, result, act>>

SendBroadcastNone(s) ==
    /\ Goto(s, "broadcast", "unlock")
    /\ UNCHANGED <<val, mtx, req, late, arg, result, act>>

SendBroadcast(s) ==
    /\ pc[s] = "broadcast"
    /\ pc' = [t \in Threads |->
                IF t = s THEN "unlock"
                ELSE IF pc[t] = "blocked" THEN "woken" ELSE pc[t]]
    /\ UNCHANGED <<val, mtx, req, late, arg, result, act>>

ClearBits(s) ==
    /\ Goto(s, "clear", "unlock")
    /\ val' = val \ arg[s]
    /\ UNCHANGED <<mtx, req, late, arg, result, act>>

SetterUnlock(s) ==
    /\ Goto(s, "unlock", "idle")
    /\ Release
    /\ arg' = [arg EXCEPT ![s] = {}]
    /\ UNCHANGED <<val, req, late, result, act>>

-----------------------------------------------------------------------------
WaitStep(w) ==
    \/ WaitLock(w) \/ WaitLockFails(w) \/ WaitMet(w) \/ WaitBlock(w)
    \/ WaitInvalid(w) \/ WaitRelock(w) \/ WaitTimedOut(w)

SetterStep(s) ==
    \/ SetterLock(s) \/ SendSet(s) \/ SendBroadcast(s) \/ ClearBits(s)
    \/ SetterUnlock(s)

Next ==
    \/ \E w \in Waiters :
        event_flag_wait(w) \/ WaitStep(w) \/ Timeout(w) \/ SpuriousWakeup(w)
    \/ \E s \in Setters :
        event_flag_send(s) \/ event_flag_clear(s) \/ SetterStep(s)

Spec == Init /\ [][Next]_vars

\* A thread that can run does, and gets the mutex in the end. A timed wait
\* that nothing disturbs times out; each wakeup gives it a new deadline.
FairSpec ==
    /\ Spec
    /\ \A w \in Waiters : SF_vars(WaitStep(w)) /\ WF_vars(Timeout(w))
    /\ \A s \in Setters : SF_vars(SetterStep(s))

-----------------------------------------------------------------------------
Critical == {"check", "set", "broadcast", "clear", "unlock"}

\* The type of every variable; a wait reports only flags it asked for.
TypeOK ==
    /\ val \in SUBSET Bits
    /\ mtx \in Threads \cup {NoThread}
    /\ pc \in [Threads -> {"idle", "lock", "blocked", "woken", "slock", "clock"}
                            \cup Critical]
    /\ req \in [Waiters -> Requests]
    /\ late \in [Waiters -> BOOLEAN]
    /\ arg \in [Setters -> SUBSET Bits]
    /\ result \in [Waiters -> {"none", "true", "false"}]
    /\ act \in [Waiters -> SUBSET Bits]
    /\ \A w \in Waiters : act[w] \subseteq req[w].mask

\* The mutex is held by the thread that looks at or changes the flags.
HoldsMutex == \A t \in Threads : pc[t] \in Critical => mtx = t

\* No wakeup is lost: a thread stays blocked only while its flags are not
\* there, or while the sender that has set them is about to broadcast.
BlockedUnmet ==
    \A w \in Waiters :
        pc[w] = "blocked" /\ Met(req[w]) =>
            \E s \in Setters : pc[s] = "broadcast"

\* Flags are consumed at most once: a bit that no sender is setting is taken
\* out of the word only by the one wait that reports it, or by a clear.
ConsumedOnce ==
    [][\A b \in val \ val' :
        \/ \E w \in Waiters :
            /\ req[w].type \in {"OR_CLEAR", "AND_CLEAR"}
            /\ result[w] = "none" /\ result'[w] = "true" /\ b \in act'[w]
            /\ act'[w] \cap val' = {}
        \/ \E s \in Setters : pc[s] = "clear" /\ b \in arg[s]]_vars

\* A blocked wait whose flags are set returns, unless they are gone again.
MetWaitReturns ==
    \A w \in Waiters :
        (pc[w] = "blocked" /\ Met(req[w])) ~> (pc[w] = "idle" \/ ~Met(req[w]))
=============================================================================
