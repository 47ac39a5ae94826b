---------------------------- MODULE AsyncioProofs ----------------------------
(***************************************************************************)
(* The proofs of module Asyncio, for any number of tokens, buffers,        *)
(* clients, starts and sends. The inductive invariant has four parts,      *)
(* proved one after the other: the types, the handshake of the controller  *)
(* with the workers, the chain of rx_f, and the tokens.                    *)
(***************************************************************************)
EXTENDS Asyncio, FiniteSetTheorems, TLAPS

-----------------------------------------------------------------------------
(* Types.                                                                  *)

StarterSteps ==
    {"create", "ready", "post", "started_rx", "started_tx", "started", "send_started"}

TailSteps == {"destroy", "stopped_rx", "stopped_tx", "stopped", "send_stopped"}

BufferSteps == {"reading", "callback", "repost", "rx_free"}

ReceiverSteps == {"rx", "alloc"} \union BufferSteps

TransmitSteps == {"tx", "write", "tx_free"}

\* What the worker of side s runs when it is at step pc of action act.
Runs(s, pc, act) ==
    /\ pc \in StarterSteps => act = "start"
    /\ pc \in TailSteps \union {"finish"} => act = "finish"
    /\ pc \in ReceiverSteps \union {"post"} => s = "rx"
    /\ pc \in TransmitSteps => s = "tx" /\ act \in Tokens

\* What can be posted to a side.
ActionsOf(s) == {"start", "finish"} \union (IF s = "rx" THEN {"rx"} ELSE Tokens)

QueuesOk ==
    /\ queue \in [Sides -> Seq(Actions)]
    /\ \A s \in Sides : \A i \in 1..Len(queue[s]) : queue[s][i] \in ActionsOf(s)

WorkInv ==
    /\ WorkType /\ QueuesOk
    /\ \A s \in Sides : Runs(s, wpc[s], wact[s])
    /\ wpc["rx"] \in BufferSteps => wbuf \in Buffers

\* A caller that is about to use a token has one; one that allocates may do so.
UsesOk(a) ==
    /\ apc[a] \in {"send", "release"} => tok[a] # None
    /\ apc[a] = "alloc" => tok[a] = None /\ sends[a] < MaxSends

CallersInv == CallersType /\ \A a \in Callers : UsesOk(a)

EndedType == ended \in {"no", "double_free", "unexpected_state", "timeout"}

TypeInv ==
    /\ InstanceType /\ workers # {}
    /\ PoolsType /\ WorkInv /\ ControlType /\ CallersInv /\ EndedType
    /\ \A a \in Callers : tlife[a] <= life

-----------------------------------------------------------------------------
(* The handshake.                                                          *)

Has(s, a) == \E i \in 1..Len(queue[s]) : queue[s][i] = a

\* At most one of the actions posted to s is in A.
Once(s, A) ==
    \A i, j \in 1..Len(queue[s]) : queue[s][i] \in A /\ queue[s][j] \in A => i = j

\* No action of A is posted behind a starter.
Ordered(s, A) ==
    \A i, j \in 1..Len(queue[s]) : i < j /\ queue[s][i] = "start" => queue[s][j] \notin A

Posted(s) == Has(s, "start") \/ Has(s, "finish")

\* Where starter_f and finisher_f of a side are, by the state of the side.
UninitializedOk(s) ==
    /\ ~Posted(s) /\ wpc[s] \notin StarterSteps \union {"finish"}
    /\ plive[s] => wpc[s] = "destroy"

InitializingOk(s) ==
    /\ ~Has(s, "finish") /\ wpc[s] \notin (StarterSteps \ {"create", "ready"}) \union {"finish"}
    /\ \/ Has(s, "start") /\ wpc[s] \notin StarterSteps
       \/ ~Has(s, "start") /\ wpc[s] \in {"create", "ready"}
       \/ ~Has(s, "start") /\ wpc[s] \notin StarterSteps /\ cpc = "dispatch" /\ cside = s
    /\ wpc[s] = "ready" => plive[s]

InitializedOk(s) ==
    /\ ~Posted(s) /\ wpc[s] \notin {"create", "ready", "finish"} \union TailSteps
    /\ plive[s]

UninitializingOk(s) ==
    /\ ~Has(s, "start") /\ wpc[s] \notin {"create", "ready"} \union TailSteps
    /\ plive[s]
    /\ \/ Has(s, "finish") /\ wpc[s] # "finish"
       \/ ~Has(s, "finish") /\ wpc[s] = "finish"
       \/ ~Has(s, "finish") /\ wpc[s] # "finish" /\ cpc = "finish" /\ cside = s

SideOk(s) ==
    /\ Once(s, {"start", "finish"})
    /\ side[s] # "Uninitialized" \/ InTail(s) => s \in workers
    /\ side[s] = "Uninitialized" => UninitializedOk(s)
    /\ side[s] = "Initializing" => InitializingOk(s)
    /\ side[s] = "Initialized" => InitializedOk(s)
    /\ side[s] = "Uninitializing" => UninitializingOk(s)
    /\ cpc = "dispatch" /\ cside = s =>
        side[s] = "Initializing" /\ ~Has(s, "start") /\ wpc[s] \notin StarterSteps
    /\ cpc = "finish" /\ cside = s =>
        side[s] = "Uninitializing" /\ ~Has(s, "finish") /\ wpc[s] # "finish"

Starting == {"clear_started", "store", "dispatch", "run", "await_started"}
Stopping == {"test_stopped", "clear_stopped", "set_stopped", "claim", "finish", "await_stopped"}

AllUp == \A s \in workers : side[s] = "Initialized"
AllDown == \A s \in Sides : side[s] = "Uninitialized"

GoingUp(s) == s \in workers => side[s] \in {"Initializing", "Initialized"}
Up(s) == s \in workers => side[s] = "Initialized"
GoingDown(s) == side[s] \in {"Uninitializing", "Uninitialized"}
Down(s) == side[s] = "Uninitialized"

\* How far the controller has got, and the states of the sides then.
PhaseOk ==
    /\ phase = "starting" <=> cpc \in Starting
    /\ phase = "stopping" <=> cpc \in Stopping
    /\ cpc \in {"free_flag", "gone"} => phase = "stopped"
    /\ stopped <=> \/ phase = "stopped"
                   \/ cpc \in {"clear_started", "store", "dispatch", "run"}
                   \/ cpc \in {"claim", "finish", "await_stopped"}
    /\ phase = "stopped" \/ cpc = "clear_started" => Down("rx") /\ Down("tx")
    /\ cpc = "store" /\ cside = "rx" => Down("rx") /\ Down("tx")
    /\ cpc = "store" /\ cside = "tx" => GoingUp("rx") /\ Down("tx")
    /\ cpc = "dispatch" /\ cside = "rx" => GoingUp("rx") /\ Down("tx")
    /\ cpc = "dispatch" /\ cside = "tx" => GoingUp("rx") /\ GoingUp("tx")
    /\ cpc \in {"run", "await_started"} => GoingUp("rx") /\ GoingUp("tx")
    /\ phase = "running" \/ cpc \in {"test_stopped", "clear_stopped", "set_stopped"} =>
        Up("rx") /\ Up("tx")
    /\ cpc = "claim" /\ cside = "rx" => Up("rx") /\ Up("tx")
    /\ cpc = "claim" /\ cside = "tx" => GoingDown("rx") /\ Up("tx")
    /\ cpc = "finish" /\ cside = "rx" => GoingDown("rx") /\ Up("tx")
    /\ cpc = "finish" /\ cside = "tx" => GoingDown("rx") /\ GoingDown("tx")
    /\ cpc = "await_stopped" => GoingDown("rx") /\ GoingDown("tx")

\* The worker of s is in what is left of starter_f after its state change.
InCompletion(s) == wpc[s] \in StarterSteps \ {"create", "ready"}

OneTail == ~(InTail("rx") /\ InTail("tx"))

\* What the loads, the stores and the flag of a start mean while it is under way.
StartOk ==
    phase = "starting" =>
        /\ \A s \in Sides :
            /\ wpc[s] = "started_tx" => Up("rx")
            /\ wpc[s] \in {"started", "send_started"} => AllUp
            /\ wpc[s] = "send_started" => init_state = "Initialized"
        /\ cpc # "clear_started" =>
            /\ "started" \in flags => AllUp /\ init_state = "Initialized"
            /\ "started" \notin flags /\ AllUp => \E s \in workers : InCompletion(s)

\* The same for a stop.
StopOk ==
    phase = "stopping" =>
        /\ \A s \in Sides :
            /\ wpc[s] = "stopped_tx" => Down("rx")
            /\ wpc[s] \in {"stopped", "send_stopped"} => AllDown
            /\ wpc[s] = "send_stopped" => init_state = "Uninitialized"
        /\ cpc \notin {"test_stopped", "clear_stopped"} =>
            /\ "stopped" \in flags => AllDown /\ init_state = "Uninitialized" /\ OneTail
            /\ "stopped" \notin flags /\ AllDown => \E s \in workers : InTail(s)

RestOk ==
    /\ phase = "running" => init_state = "Initialized"
    /\ phase = "stopped" => init_state = "Uninitialized" /\ OneTail

ControlInv ==
    /\ \A s \in Sides : SideOk(s)
    /\ PhaseOk /\ StartOk /\ StopOk /\ RestOk
    /\ ended # "unexpected_state"

-----------------------------------------------------------------------------
(* The chain of rx_f.                                                      *)

ChainSteps == {"post", "rx", "alloc", "reading", "callback", "repost"}

ChainOk ==
    /\ Once("rx", {"rx"})
    /\ ~(Has("rx", "rx") /\ wpc["rx"] \in ChainSteps)
    /\ side["rx"] = "Initialized" => Has("rx", "rx") \/ wpc["rx"] \in ChainSteps
    /\ wpc["rx"] \in {"alloc"} \union BufferSteps =>
        side["rx"] \in {"Initialized", "Uninitializing"}
    /\ wpc["rx"] \in {"create", "ready"} => ~Has("rx", "rx")
    /\ Ordered("rx", {"rx"})

BuffersOk ==
    /\ \A b \in Buffers : b \in free => refs[b] = 0
    /\ plive["rx"] /\ wpc["rx"] \notin BufferSteps => Buffers \subseteq free
    /\ wpc["rx"] \in BufferSteps =>
        /\ Buffers \ {wbuf} \subseteq free
        /\ refs[wbuf] = 1 \/ (refs[wbuf] = 0 /\ wbuf \in free)

ReceiverInv == ChainOk /\ BuffersOk

-----------------------------------------------------------------------------
(* The tokens.                                                             *)

\* Caller a has token t of the present life.
Current(a, t) == tok[a] = t /\ tlife[a] = life

\* The worker runs tx_f on t.
Sending(t) == wact["tx"] = t /\ wpc["tx"] \in TransmitSteps

Owned(t) == Has("tx", t) \/ Sending(t) \/ \E a \in Callers : Current(a, t)

\* No token has two owners.
OwnersOk ==
    /\ \A t \in Tokens : Once("tx", {t})
    /\ \A t \in Tokens : ~(Has("tx", t) /\ Sending(t))
    /\ \A t \in Tokens, a \in Callers : Current(a, t) =>
        ~Has("tx", t) /\ ~Sending(t) /\ \A b \in Callers : Current(b, t) => a = b

CountsOk ==
    /\ \A t \in Tokens :
        /\ refs[t] \in {0, 1}
        /\ t \in free => refs[t] = 0
        /\ Owned(t) => refs[t] = 1
    /\ side["tx"] \in {"Initialized", "Uninitializing"} =>
        \A t \in Tokens : (refs[t] = 1 => Owned(t)) /\ (refs[t] = 0 => t \in free)
    /\ wpc["tx"] = "ready" => \A t \in Tokens : refs[t] = 0 /\ t \in free

\* No message is behind a starter.
OrderOk ==
    /\ wpc["tx"] \in {"create", "ready"} => \A t \in Tokens : ~Has("tx", t)
    /\ Ordered("tx", Tokens)

\* While the instance starts, a call of the present life is one that has found the
\* transmit side up.
CallsOk ==
    \A a \in Callers :
        tlife[a] = life /\ phase = "starting" /\ (apc[a] = "alloc" \/ tok[a] # None) =>
            side["tx"] = "Initialized"

TokensOk == OwnersOk /\ CountsOk /\ OrderOk /\ CallsOk

TokenInv == ~stale => TokensOk

\* A token is freed twice only in the excepted case, a buffer only by the callback.
EndOk == ended = "double_free" => stale \/ \E b \in Buffers : wbuf = b /\ refs[b] = 0
-----------------------------------------------------------------------------
(* Queues.                                                                 *)

\* Append, index by index.
LEMMA AppendSeq ==
  ASSUME NEW S, NEW q \in Seq(S), NEW a \in S
  PROVE  /\ Len(q) \in Nat /\ Append(q, a) \in Seq(S) /\ Len(Append(q, a)) = Len(q) + 1
         /\ Append(q, a)[Len(q) + 1] = a /\ \A i \in 1..Len(q) : Append(q, a)[i] = q[i]
  OBVIOUS

\* The same for Tail.
LEMMA TailSeq ==
  ASSUME NEW S, NEW q \in Seq(S), q # <<>>
  PROVE  /\ Len(q) \in Nat \ {0} /\ Tail(q) \in Seq(S) /\ Len(Tail(q)) = Len(q) - 1
         /\ Head(q) = q[1] /\ \A i \in 1..Len(Tail(q)) : Tail(q)[i] = q[i + 1] /\ i + 1 \in 1..Len(q)
<1>1. Len(q) \in Nat \ {0}
  OBVIOUS
<1>2. Tail(q) \in Seq(S) /\ Len(Tail(q)) = Len(q) - 1
  BY <1>1
<1>3. \A i \in 1..Len(Tail(q)) : Tail(q)[i] = q[i + 1] /\ i + 1 \in 1..Len(q)
  BY <1>1, <1>2
<1>4. QED
  BY <1>1, <1>2, <1>3

\* A queue that does not change.
LEMMA QueueKept ==
  ASSUME NEW s \in Sides, queue'[s] = queue[s], NEW a, NEW A
  PROVE  (Has(s, a)' <=> Has(s, a)) /\ (Once(s, A)' <=> Once(s, A))
  BY DEF Has, Once

\* All queues.
LEMMA QueuesKept == QueuesOk /\ queue' = queue => QueuesOk'
  BY DEF QueuesOk

\* An action is posted.
LEMMA Appended ==
  ASSUME QueuesOk, NEW s \in Sides, NEW a \in ActionsOf(s), Post(s, a)
  PROVE  /\ QueuesOk'
         /\ \A o \in Sides : o # s => queue'[o] = queue[o]
         /\ queue'[s] = Append(queue[s], a) /\ queue[s] \in Seq(Actions)
<1>1. /\ a \in Actions /\ queue[s] \in Seq(Actions)
      /\ queue'[s] = Append(queue[s], a) /\ \A o \in Sides : o # s => queue'[o] = queue[o]
  BY DEF QueuesOk, Post, Actions, ActionsOf
<1>2. queue' \in [Sides -> Seq(Actions)]
  BY <1>1 DEF QueuesOk, Post
<1>3. ASSUME NEW o \in Sides, NEW i \in 1..Len(queue'[o]) PROVE queue'[o][i] \in ActionsOf(o)
  <2>1. CASE o # s
    BY <1>1, <1>3, <2>1 DEF QueuesOk
  <2>2. CASE o = s
    <3>1. /\ Len(queue[s]) \in Nat /\ Len(queue'[s]) = Len(queue[s]) + 1
          /\ queue'[s][Len(queue[s]) + 1] = a
          /\ \A k \in 1..Len(queue[s]) : queue'[s][k] = queue[s][k]
      BY <1>1, AppendSeq
    <3>2. i = Len(queue[s]) + 1 \/ i \in 1..Len(queue[s])
      BY <1>3, <2>2, <3>1
    <3>3. \A k \in 1..Len(queue[s]) : queue[s][k] \in ActionsOf(s)
      BY DEF QueuesOk
    <3>4. QED
      BY <2>2, <3>1, <3>2, <3>3
  <2>3. QED
    BY <2>1, <2>2
<1>4. QED
  BY <1>1, <1>2, <1>3 DEF QueuesOk

\* What is in the queue then.
LEMMA AppendedHas ==
  ASSUME NEW s \in Sides, queue[s] \in Seq(Actions), NEW a \in Actions,
         queue'[s] = Append(queue[s], a)
  PROVE  /\ \A b : Has(s, b)' <=> Has(s, b) \/ b = a
         /\ \A A : Once(s, A) /\ a \notin A => Once(s, A)'
         /\ \A A : (\A b \in A : ~Has(s, b)) => Once(s, A)'
<1> DEFINE n == Len(queue[s])
<1>1. /\ n \in Nat /\ Len(queue'[s]) = n + 1 /\ queue'[s][n + 1] = a
      /\ \A i \in 1..n : queue'[s][i] = queue[s][i]
  OBVIOUS
<1>2. \A i \in 1..n + 1 : i = n + 1 \/ i \in 1..n
  BY <1>1
<1>3. n + 1 \in 1..n + 1 /\ \A i \in 1..n : i \in 1..n + 1
  BY <1>1
<1> HIDE DEF n
<1>4. \A b : Has(s, b)' <=> Has(s, b) \/ b = a
  BY <1>1, <1>2, <1>3 DEF Has, n
<1>5. \A A : Once(s, A) /\ a \notin A => Once(s, A)'
  BY <1>1, <1>2, <1>3 DEF Once, n
<1>6. \A A : (\A b \in A : ~Has(s, b)) => Once(s, A)'
  BY <1>1, <1>2, <1>3 DEF Has, Once, n
<1>7. QED
  BY <1>4, <1>5, <1>6

\* The first action is taken.
LEMMA Taken ==
  ASSUME QueuesOk, NEW s \in Sides, queue[s] # <<>>, queue' = [queue EXCEPT ![s] = Tail(@)]
  PROVE  /\ QueuesOk' /\ Head(queue[s]) \in ActionsOf(s)
         /\ \A o \in Sides : o # s => queue'[o] = queue[o]
         /\ Len(queue[s]) \in Nat \ {0} /\ Head(queue[s]) = queue[s][1]
         /\ Len(queue'[s]) = Len(queue[s]) - 1
         /\ \A i \in 1..Len(queue'[s]) : queue'[s][i] = queue[s][i + 1] /\ i + 1 \in 1..Len(queue[s])
<1>1. /\ queue[s] \in Seq(Actions) /\ queue'[s] = Tail(queue[s])
      /\ \A o \in Sides : o # s => queue'[o] = queue[o]
  BY DEF QueuesOk
<1>2. /\ Len(queue[s]) \in Nat \ {0} /\ Len(Tail(queue[s])) = Len(queue[s]) - 1
      /\ Head(queue[s]) = queue[s][1]
      /\ \A i \in 1..Len(Tail(queue[s])) :
            Tail(queue[s])[i] = queue[s][i + 1] /\ i + 1 \in 1..Len(queue[s])
  BY <1>1, TailSeq
<1>3. /\ 1 \in 1..Len(queue[s]) /\ Len(queue'[s]) = Len(queue[s]) - 1
      /\ \A i \in 1..Len(queue'[s]) :
            queue'[s][i] = queue[s][i + 1] /\ i + 1 \in 1..Len(queue[s])
  <2>1. 1 \in 1..Len(queue[s])
    BY <1>2
  <2>2. queue'[s] = Tail(queue[s])
    BY <1>1
  <2>3. QED
    BY <1>2, <2>1, <2>2, Zenon
<1>4. queue' \in [Sides -> Seq(Actions)]
  BY <1>1 DEF QueuesOk
<1>5. ASSUME NEW o \in Sides, NEW i \in 1..Len(queue'[o]) PROVE queue'[o][i] \in ActionsOf(o)
  <2>1. CASE o # s
    BY <1>1, <1>5, <2>1 DEF QueuesOk
  <2>2. CASE o = s
    BY <1>3, <1>5, <2>2 DEF QueuesOk
  <2>3. QED
    BY <2>1, <2>2
<1>6. QED
  BY <1>1, <1>2, <1>3, <1>4, <1>5 DEF QueuesOk

\* What is left in the queue then.
LEMMA TakenHas ==
  ASSUME NEW s \in Sides, Len(queue[s]) \in Nat \ {0}, NEW a, a = queue[s][1],
         Len(queue'[s]) = Len(queue[s]) - 1,
         \A i \in 1..Len(queue'[s]) : queue'[s][i] = queue[s][i + 1] /\ i + 1 \in 1..Len(queue[s])
  PROVE  /\ \A b : Has(s, b) <=> Has(s, b)' \/ b = a
         /\ \A A : Once(s, A) => Once(s, A)'
         /\ \A A : Once(s, A) /\ a \in A => \A b \in A : ~Has(s, b)'
<1> DEFINE n == Len(queue[s])
<1>1. 1 \in 1..n
  OBVIOUS
<1>2. \A i \in 1..n : i = 1 \/ \E j \in 1..Len(queue'[s]) : i = j + 1
  <2>1. ASSUME NEW i \in 1..n, i # 1 PROVE i - 1 \in 1..Len(queue'[s]) /\ i = (i - 1) + 1
    BY <2>1
  <2>2. QED
    BY <2>1
<1>3. \A i, j \in 1..Len(queue'[s]) : i + 1 = j + 1 => i = j
  OBVIOUS
<1>4. \A i \in 1..Len(queue'[s]) : i + 1 # 1
  OBVIOUS
<1> HIDE DEF n
<1>5. ASSUME NEW b PROVE Has(s, b) <=> Has(s, b)' \/ b = a
  <2>1. Has(s, b)' => Has(s, b)
    BY DEF Has
  <2>2. b = a => Has(s, b)
    BY <1>1 DEF Has, n
  <2>3. ASSUME NEW i \in 1..n, queue[s][i] = b PROVE Has(s, b)' \/ b = a
    BY <1>2, <2>3 DEF Has
  <2>4. QED
    BY <2>1, <2>2, <2>3 DEF Has, n
<1>6. \A A : Once(s, A) => Once(s, A)'
  BY <1>3 DEF Once
<1>7. \A A : Once(s, A) /\ a \in A => \A b \in A : ~Has(s, b)'
  BY <1>1, <1>4 DEF Once, Has, n
<1>8. QED
  BY <1>5, <1>6, <1>7

-----------------------------------------------------------------------------
(* Steps keep the types.                                                   *)

\* What a step does not touch keeps its type.
LEMMA TypesKept ==
  /\ InstanceType /\ workers # {} /\ UNCHANGED instance => InstanceType' /\ workers' # {}
  /\ PoolsType /\ UNCHANGED pools => PoolsType'
  /\ WorkInv /\ UNCHANGED work => WorkInv'
  /\ ControlType /\ UNCHANGED control => ControlType'
  /\ CallersInv /\ UNCHANGED callers => CallersInv'
  /\ EndedType /\ UNCHANGED ended => EndedType'
<1>1. InstanceType /\ workers # {} /\ UNCHANGED instance => InstanceType' /\ workers' # {}
  BY DEF InstanceType, instance
<1>2. PoolsType /\ UNCHANGED pools => PoolsType'
  BY DEF PoolsType, pools
<1>3. WorkInv /\ UNCHANGED work => WorkInv'
  BY DEF WorkInv, WorkType, QueuesOk, work
<1>4. ControlType /\ UNCHANGED control => ControlType'
  BY DEF ControlType, control
<1>5. CallersInv /\ UNCHANGED callers => CallersInv'
  BY DEF CallersInv, CallersType, UsesOk, callers
<1>6. EndedType /\ UNCHANGED ended => EndedType'
  BY DEF EndedType
<1>7. QED
  BY <1>1, <1>2, <1>3, <1>4, <1>5, <1>6

\* A step of the controller.
LEMMA ControllerTypes ==
  ASSUME TypeInv, UNCHANGED <<plive, free, refs, wpc, wact, wbuf>>, UNCHANGED callers,
         InstanceType', workers' = workers, QueuesOk', ControlType', EndedType', life' >= life
  PROVE  TypeInv'
<1>1. PoolsType'
  BY TypesKept DEF TypeInv, pools
<1>2. WorkInv'
  BY DEF TypeInv, WorkInv, WorkType, QueuesOk
<1>3. CallersInv'
  BY TypesKept DEF TypeInv
<1>4. \A a \in Callers : tlife'[a] <= life'
  BY DEF TypeInv, callers, CallersInv, CallersType, ControlType
<1>5. QED
  BY <1>1, <1>2, <1>3, <1>4 DEF TypeInv

\* asyncio_start, asyncio_stop, asyncio_destroy_instance and their steps.
LEMMA ControllerKeepsTypes ==
  ASSUME TypeInv, asyncio_start \/ asyncio_stop \/ asyncio_destroy_instance \/ ControllerStep \/ Timeout
  PROVE  TypeInv'
<1>1. InstanceType /\ ControlType /\ EndedType /\ WorkInv /\ QueuesOk
  BY DEF TypeInv, WorkInv
<1> DEFINE Limited == life \in 0..MaxStarts /\ MaxStarts \in Nat
<1>a. Limited
  BY <1>1, AsyncioAssumption DEF ControlType
<1>2. CASE asyncio_start
  <2>1. /\ UNCHANGED <<workers, plive, free, refs, wpc, wact, wbuf, queue>> /\ UNCHANGED callers
    BY <1>2 DEF asyncio_start, instance, pools, work, control
  <2>2. InstanceType'
    BY <1>1, <1>2 DEF asyncio_start, InstanceType, States, Sides, instance
  <2>3. life' \in 0..MaxStarts /\ life' >= life
    BY <1>a, <1>2 DEF asyncio_start, control
  <2>4. ControlType'
    <3>1. cpc' \in ControllerSteps /\ cside' \in Sides /\ closing' \in BOOLEAN
      BY <1>1, <1>2 DEF asyncio_start, ControlType, ControllerSteps, Sides, control
    <3>2. phase' \in {"starting", "running", "stopping", "stopped"}
      BY <1>1, <1>2 DEF asyncio_start, ControlType, control
    <3>3. QED
      BY <2>3, <3>1, <3>2 DEF ControlType
  <2>5. EndedType' /\ QueuesOk'
    BY <1>1, <1>2, <2>1 DEF asyncio_start, EndedType, QueuesOk
  <2>6. QED
    BY <2>1, <2>2, <2>3, <2>4, <2>5, ControllerTypes
<1>3. CASE asyncio_stop
  <2>1. /\ UNCHANGED <<workers, plive, free, refs, wpc, wact, wbuf, queue>> /\ UNCHANGED callers
    BY <1>3 DEF asyncio_stop, instance, pools, work, control
  <2>2. InstanceType'
    BY <1>1, <1>3 DEF asyncio_stop, InstanceType, States, Sides, instance, StopBegin, StopOver
  <2>3. life' \in 0..MaxStarts /\ life' >= life
    BY <1>a, <1>3 DEF asyncio_stop, control
  <2>4. ControlType'
    <3>1. cpc' \in ControllerSteps /\ cside' \in Sides /\ closing' \in BOOLEAN
      BY <1>1, <1>3 DEF asyncio_stop, ControlType, ControllerSteps, Sides, control, StopBegin, StopOver
    <3>2. phase' \in {"starting", "running", "stopping", "stopped"}
      BY <1>1, <1>3 DEF asyncio_stop, ControlType, control, StopBegin, StopOver
    <3>3. QED
      BY <2>3, <3>1, <3>2 DEF ControlType
  <2>5. EndedType' /\ QueuesOk'
    BY <1>1, <1>3, <2>1 DEF asyncio_stop, EndedType, QueuesOk, StopBegin, StopOver
  <2>6. QED
    BY <2>1, <2>2, <2>3, <2>4, <2>5, ControllerTypes
<1>4. CASE asyncio_destroy_instance
  <2>1. /\ UNCHANGED <<workers, plive, free, refs, wpc, wact, wbuf, queue>> /\ UNCHANGED callers
    BY <1>4 DEF asyncio_destroy_instance, instance, pools, work, control
  <2>2. InstanceType'
    BY <1>1, <1>4 DEF asyncio_destroy_instance, InstanceType, States, Sides, instance, StopBegin, StopOver
  <2>3. life' \in 0..MaxStarts /\ life' >= life
    BY <1>a, <1>4 DEF asyncio_destroy_instance, control
  <2>4. ControlType'
    <3>1. cpc' \in ControllerSteps /\ cside' \in Sides /\ closing' \in BOOLEAN
      BY <1>1, <1>4 DEF asyncio_destroy_instance, ControlType, ControllerSteps, Sides, control, StopBegin, StopOver
    <3>2. phase' \in {"starting", "running", "stopping", "stopped"}
      BY <1>1, <1>4 DEF asyncio_destroy_instance, ControlType, control, StopBegin, StopOver
    <3>3. QED
      BY <2>3, <3>1, <3>2 DEF ControlType
  <2>5. EndedType' /\ QueuesOk'
    BY <1>1, <1>4, <2>1 DEF asyncio_destroy_instance, EndedType, QueuesOk, StopBegin, StopOver
  <2>6. QED
    BY <2>1, <2>2, <2>3, <2>4, <2>5, ControllerTypes
<1>5. CASE StartClear
  <2>1. /\ UNCHANGED <<workers, plive, free, refs, wpc, wact, wbuf, queue>> /\ UNCHANGED callers
    BY <1>5 DEF StartClear, instance, pools, work, control
  <2>2. InstanceType'
    BY <1>1, <1>5 DEF StartClear, InstanceType, States, Sides, instance
  <2>3. life' \in 0..MaxStarts /\ life' >= life
    BY <1>a, <1>5 DEF StartClear, control
  <2>4. ControlType'
    <3>1. cpc' \in ControllerSteps /\ cside' \in Sides /\ closing' \in BOOLEAN
      BY <1>1, <1>5 DEF StartClear, ControlType, ControllerSteps, Sides, control
    <3>2. phase' \in {"starting", "running", "stopping", "stopped"}
      BY <1>1, <1>5 DEF StartClear, ControlType, control
    <3>3. QED
      BY <2>3, <3>1, <3>2 DEF ControlType
  <2>5. EndedType' /\ QueuesOk'
    BY <1>1, <1>5, <2>1 DEF StartClear, EndedType, QueuesOk
  <2>6. QED
    BY <2>1, <2>2, <2>3, <2>4, <2>5, ControllerTypes
<1>6. CASE StartStore
  <2>1. /\ UNCHANGED <<workers, plive, free, refs, wpc, wact, wbuf, queue>> /\ UNCHANGED callers
    BY <1>6 DEF StartStore, instance, pools, work, control
  <2>2. InstanceType'
    BY <1>1, <1>6 DEF StartStore, InstanceType, States, Sides, instance, AfterSide
  <2>3. life' \in 0..MaxStarts /\ life' >= life
    BY <1>a, <1>6 DEF StartStore, control
  <2>4. ControlType'
    <3>1. cpc' \in ControllerSteps /\ cside' \in Sides /\ closing' \in BOOLEAN
      BY <1>1, <1>6 DEF StartStore, ControlType, ControllerSteps, Sides, control, AfterSide
    <3>2. phase' \in {"starting", "running", "stopping", "stopped"}
      BY <1>1, <1>6 DEF StartStore, ControlType, control, AfterSide
    <3>3. QED
      BY <2>3, <3>1, <3>2 DEF ControlType
  <2>5. EndedType' /\ QueuesOk'
    BY <1>1, <1>6, <2>1 DEF StartStore, EndedType, QueuesOk, AfterSide
  <2>6. QED
    BY <2>1, <2>2, <2>3, <2>4, <2>5, ControllerTypes
<1>7. CASE StartRun
  <2>1. /\ UNCHANGED <<workers, plive, free, refs, wpc, wact, wbuf, queue>> /\ UNCHANGED callers
    BY <1>7 DEF StartRun, instance, pools, work, control
  <2>2. InstanceType'
    BY <1>1, <1>7 DEF StartRun, InstanceType, States, Sides, instance
  <2>3. life' \in 0..MaxStarts /\ life' >= life
    BY <1>a, <1>7 DEF StartRun, control
  <2>4. ControlType'
    <3>1. cpc' \in ControllerSteps /\ cside' \in Sides /\ closing' \in BOOLEAN
      BY <1>1, <1>7 DEF StartRun, ControlType, ControllerSteps, Sides, control
    <3>2. phase' \in {"starting", "running", "stopping", "stopped"}
      BY <1>1, <1>7 DEF StartRun, ControlType, control
    <3>3. QED
      BY <2>3, <3>1, <3>2 DEF ControlType
  <2>5. EndedType' /\ QueuesOk'
    BY <1>1, <1>7, <2>1 DEF StartRun, EndedType, QueuesOk
  <2>6. QED
    BY <2>1, <2>2, <2>3, <2>4, <2>5, ControllerTypes
<1>8. CASE StartReturn
  <2>1. /\ UNCHANGED <<workers, plive, free, refs, wpc, wact, wbuf, queue>> /\ UNCHANGED callers
    BY <1>8 DEF StartReturn, instance, pools, work, control
  <2>2. InstanceType'
    BY <1>1, <1>8 DEF StartReturn, InstanceType, States, Sides, instance
  <2>3. life' \in 0..MaxStarts /\ life' >= life
    BY <1>a, <1>8 DEF StartReturn, control
  <2>4. ControlType'
    <3>1. cpc' \in ControllerSteps /\ cside' \in Sides /\ closing' \in BOOLEAN
      BY <1>1, <1>8 DEF StartReturn, ControlType, ControllerSteps, Sides, control
    <3>2. phase' \in {"starting", "running", "stopping", "stopped"}
      BY <1>1, <1>8 DEF StartReturn, ControlType, control
    <3>3. QED
      BY <2>3, <3>1, <3>2 DEF ControlType
  <2>5. EndedType' /\ QueuesOk'
    BY <1>1, <1>8, <2>1 DEF StartReturn, EndedType, QueuesOk
  <2>6. QED
    BY <2>1, <2>2, <2>3, <2>4, <2>5, ControllerTypes
<1>9. CASE StopTest
  <2>1. /\ UNCHANGED <<workers, plive, free, refs, wpc, wact, wbuf, queue>> /\ UNCHANGED callers
    BY <1>9 DEF StopTest, instance, pools, work, control
  <2>2. InstanceType'
    BY <1>1, <1>9 DEF StopTest, InstanceType, States, Sides, instance, StopOver
  <2>3. life' \in 0..MaxStarts /\ life' >= life
    BY <1>a, <1>9 DEF StopTest, control
  <2>4. ControlType'
    <3>1. cpc' \in ControllerSteps /\ cside' \in Sides /\ closing' \in BOOLEAN
      BY <1>1, <1>9 DEF StopTest, ControlType, ControllerSteps, Sides, control, StopOver
    <3>2. phase' \in {"starting", "running", "stopping", "stopped"}
      BY <1>1, <1>9 DEF StopTest, ControlType, control, StopOver
    <3>3. QED
      BY <2>3, <3>1, <3>2 DEF ControlType
  <2>5. EndedType' /\ QueuesOk'
    BY <1>1, <1>9, <2>1 DEF StopTest, EndedType, QueuesOk, StopOver
  <2>6. QED
    BY <2>1, <2>2, <2>3, <2>4, <2>5, ControllerTypes
<1>10. CASE StopClear
  <2>1. /\ UNCHANGED <<workers, plive, free, refs, wpc, wact, wbuf, queue>> /\ UNCHANGED callers
    BY <1>10 DEF StopClear, instance, pools, work, control
  <2>2. InstanceType'
    BY <1>1, <1>10 DEF StopClear, InstanceType, States, Sides, instance
  <2>3. life' \in 0..MaxStarts /\ life' >= life
    BY <1>a, <1>10 DEF StopClear, control
  <2>4. ControlType'
    <3>1. cpc' \in ControllerSteps /\ cside' \in Sides /\ closing' \in BOOLEAN
      BY <1>1, <1>10 DEF StopClear, ControlType, ControllerSteps, Sides, control
    <3>2. phase' \in {"starting", "running", "stopping", "stopped"}
      BY <1>1, <1>10 DEF StopClear, ControlType, control
    <3>3. QED
      BY <2>3, <3>1, <3>2 DEF ControlType
  <2>5. EndedType' /\ QueuesOk'
    BY <1>1, <1>10, <2>1 DEF StopClear, EndedType, QueuesOk
  <2>6. QED
    BY <2>1, <2>2, <2>3, <2>4, <2>5, ControllerTypes
<1>11. CASE StopSet
  <2>1. /\ UNCHANGED <<workers, plive, free, refs, wpc, wact, wbuf, queue>> /\ UNCHANGED callers
    BY <1>11 DEF StopSet, instance, pools, work, control
  <2>2. InstanceType'
    BY <1>1, <1>11 DEF StopSet, InstanceType, States, Sides, instance
  <2>3. life' \in 0..MaxStarts /\ life' >= life
    BY <1>a, <1>11 DEF StopSet, control
  <2>4. ControlType'
    <3>1. cpc' \in ControllerSteps /\ cside' \in Sides /\ closing' \in BOOLEAN
      BY <1>1, <1>11 DEF StopSet, ControlType, ControllerSteps, Sides, control
    <3>2. phase' \in {"starting", "running", "stopping", "stopped"}
      BY <1>1, <1>11 DEF StopSet, ControlType, control
    <3>3. QED
      BY <2>3, <3>1, <3>2 DEF ControlType
  <2>5. EndedType' /\ QueuesOk'
    BY <1>1, <1>11, <2>1 DEF StopSet, EndedType, QueuesOk
  <2>6. QED
    BY <2>1, <2>2, <2>3, <2>4, <2>5, ControllerTypes
<1>12. CASE StopClaim
  <2>1. /\ UNCHANGED <<workers, plive, free, refs, wpc, wact, wbuf, queue>> /\ UNCHANGED callers
    BY <1>12 DEF StopClaim, instance, pools, work, control
  <2>2. InstanceType'
    BY <1>1, <1>12 DEF StopClaim, InstanceType, States, Sides, instance, AfterSide, End
  <2>3. life' \in 0..MaxStarts /\ life' >= life
    BY <1>a, <1>12 DEF StopClaim, control
  <2>4. ControlType'
    <3>1. cpc' \in ControllerSteps /\ cside' \in Sides /\ closing' \in BOOLEAN
      BY <1>1, <1>12 DEF StopClaim, ControlType, ControllerSteps, Sides, control, AfterSide, End
    <3>2. phase' \in {"starting", "running", "stopping", "stopped"}
      BY <1>1, <1>12 DEF StopClaim, ControlType, control, AfterSide, End
    <3>3. QED
      BY <2>3, <3>1, <3>2 DEF ControlType
  <2>5. EndedType' /\ QueuesOk'
    BY <1>1, <1>12, <2>1 DEF StopClaim, EndedType, QueuesOk, AfterSide, End
  <2>6. QED
    BY <2>1, <2>2, <2>3, <2>4, <2>5, ControllerTypes
<1>13. CASE StopReturn
  <2>1. /\ UNCHANGED <<workers, plive, free, refs, wpc, wact, wbuf, queue>> /\ UNCHANGED callers
    BY <1>13 DEF StopReturn, instance, pools, work, control
  <2>2. InstanceType'
    BY <1>1, <1>13 DEF StopReturn, InstanceType, States, Sides, instance, StopOver
  <2>3. life' \in 0..MaxStarts /\ life' >= life
    BY <1>a, <1>13 DEF StopReturn, control
  <2>4. ControlType'
    <3>1. cpc' \in ControllerSteps /\ cside' \in Sides /\ closing' \in BOOLEAN
      BY <1>1, <1>13 DEF StopReturn, ControlType, ControllerSteps, Sides, control, StopOver
    <3>2. phase' \in {"starting", "running", "stopping", "stopped"}
      BY <1>1, <1>13 DEF StopReturn, ControlType, control, StopOver
    <3>3. QED
      BY <2>3, <3>1, <3>2 DEF ControlType
  <2>5. EndedType' /\ QueuesOk'
    BY <1>1, <1>13, <2>1 DEF StopReturn, EndedType, QueuesOk, StopOver
  <2>6. QED
    BY <2>1, <2>2, <2>3, <2>4, <2>5, ControllerTypes
<1>14. CASE DestroyFlag
  <2>1. /\ UNCHANGED <<workers, plive, free, refs, wpc, wact, wbuf, queue>> /\ UNCHANGED callers
    BY <1>14 DEF DestroyFlag, instance, pools, work, control
  <2>2. InstanceType'
    BY <1>1, <1>14 DEF DestroyFlag, InstanceType, States, Sides, instance
  <2>3. life' \in 0..MaxStarts /\ life' >= life
    BY <1>a, <1>14 DEF DestroyFlag, control
  <2>4. ControlType'
    <3>1. cpc' \in ControllerSteps /\ cside' \in Sides /\ closing' \in BOOLEAN
      BY <1>1, <1>14 DEF DestroyFlag, ControlType, ControllerSteps, Sides, control
    <3>2. phase' \in {"starting", "running", "stopping", "stopped"}
      BY <1>1, <1>14 DEF DestroyFlag, ControlType, control
    <3>3. QED
      BY <2>3, <3>1, <3>2 DEF ControlType
  <2>5. EndedType' /\ QueuesOk'
    BY <1>1, <1>14, <2>1 DEF DestroyFlag, EndedType, QueuesOk
  <2>6. QED
    BY <2>1, <2>2, <2>3, <2>4, <2>5, ControllerTypes
<1>15. CASE Timeout
  <2>1. /\ UNCHANGED <<workers, plive, free, refs, wpc, wact, wbuf, queue>> /\ UNCHANGED callers
    BY <1>15 DEF Timeout, instance, pools, work, control
  <2>2. InstanceType'
    BY <1>1, <1>15 DEF Timeout, InstanceType, States, Sides, instance, End
  <2>3. life' \in 0..MaxStarts /\ life' >= life
    BY <1>a, <1>15 DEF Timeout, control
  <2>4. ControlType'
    <3>1. cpc' \in ControllerSteps /\ cside' \in Sides /\ closing' \in BOOLEAN
      BY <1>1, <1>15 DEF Timeout, ControlType, ControllerSteps, Sides, control, End
    <3>2. phase' \in {"starting", "running", "stopping", "stopped"}
      BY <1>1, <1>15 DEF Timeout, ControlType, control, End
    <3>3. QED
      BY <2>3, <3>1, <3>2 DEF ControlType
  <2>5. EndedType' /\ QueuesOk'
    BY <1>1, <1>15, <2>1 DEF Timeout, EndedType, QueuesOk, End
  <2>6. QED
    BY <2>1, <2>2, <2>3, <2>4, <2>5, ControllerTypes
<1>16. CASE StartDispatch
  <2>1. /\ UNCHANGED <<plive, free, refs, wpc, wact, wbuf, ended>> /\ UNCHANGED callers
        /\ UNCHANGED instance /\ workers' = workers
    BY <1>16 DEF StartDispatch, instance, pools, work, control
  <2>2. InstanceType' /\ EndedType'
    BY <2>1, TypesKept DEF TypeInv
  <2>3. ControlType' /\ life' >= life
    BY <1>1, <1>16 DEF StartDispatch, ControlType, ControllerSteps, Sides, AfterSide
  <2>4. QueuesOk'
    BY <1>1, <1>16, Appended DEF StartDispatch, ControlType, ActionsOf
  <2>5. QED
    BY <2>1, <2>2, <2>3, <2>4, ControllerTypes
<1>17. CASE StopDispatch
  <2>1. /\ UNCHANGED <<plive, free, refs, wpc, wact, wbuf, ended>> /\ UNCHANGED callers
        /\ UNCHANGED instance /\ workers' = workers
    BY <1>17 DEF StopDispatch, instance, pools, work, control
  <2>2. InstanceType' /\ EndedType'
    BY <2>1, TypesKept DEF TypeInv
  <2>3. ControlType' /\ life' >= life
    BY <1>1, <1>17 DEF StopDispatch, ControlType, ControllerSteps, Sides, AfterSide
  <2>4. QueuesOk'
    BY <1>1, <1>17, Appended DEF StopDispatch, ControlType, ActionsOf
  <2>5. QED
    BY <2>1, <2>2, <2>3, <2>4, ControllerTypes
<1>18. QED
  BY <1>2, <1>3, <1>4, <1>5, <1>6, <1>7, <1>8, <1>9, <1>10, <1>11, <1>12, <1>13, <1>14, <1>15, <1>16, <1>17 DEF ControllerStep

\* A step of a worker.
LEMMA WorkerTypes ==
  ASSUME TypeInv, UNCHANGED control, UNCHANGED callers,
         InstanceType', workers' = workers, PoolsType', WorkInv', EndedType'
  PROVE  TypeInv'
<1>1. ControlType' /\ CallersInv'
  BY TypesKept DEF TypeInv
<1>2. \A a \in Callers : tlife'[a] <= life'
  BY DEF TypeInv, callers, control
<1>3. QED
  BY <1>1, <1>2 DEF TypeInv

\* The worker of s goes to step pc of its action.
LEMMA WorkerGoes ==
  ASSUME WorkInv, NEW s \in Sides, NEW pc \in WorkerSteps, WorkerGo(s, pc), Runs(s, pc, wact[s]),
         UNCHANGED wact, QueuesOk', wbuf' \in Buffers \union {None},
         wpc'["rx"] \in BufferSteps => wbuf' \in Buffers
  PROVE  WorkInv'
<1>1. wpc' \in [Sides -> WorkerSteps]
  BY DEF WorkerGo, WorkInv, WorkType
<1>2. wpc'[s] = pc /\ \A o \in Sides : o # s => wpc'[o] = wpc[o]
  BY DEF WorkerGo, WorkInv, WorkType
<1>3. \A o \in Sides : Runs(o, wpc'[o], wact'[o])
  BY <1>2 DEF WorkInv
<1>4. QED
  BY <1>1, <1>3 DEF WorkInv, WorkType, QueuesOk

\* A step that only moves the worker keeps the types.
LEMMA WorkerOnlyTypes ==
  ASSUME TypeInv, NEW s \in Sides, NEW pc \in WorkerSteps, WorkerOnly(s, pc), Runs(s, pc, wact[s]),
         pc \in BufferSteps => wpc[s] \in BufferSteps
  PROVE  TypeInv'
<1>1. /\ UNCHANGED instance /\ UNCHANGED pools /\ UNCHANGED control /\ UNCHANGED callers
      /\ UNCHANGED <<queue, wact, wbuf, ended>> /\ WorkerGo(s, pc) /\ workers' = workers
  BY DEF WorkerOnly, instance
<1>2. InstanceType' /\ PoolsType' /\ EndedType'
  BY <1>1, TypesKept DEF TypeInv
<1>3. WorkInv /\ QueuesOk'
  BY <1>1 DEF TypeInv, WorkInv, QueuesOk
<1>4. wbuf' \in Buffers \union {None}
  BY <1>1, <1>3 DEF WorkInv, WorkType
<1>5. wpc'["rx"] \in BufferSteps => wbuf' \in Buffers
  BY <1>1, <1>3 DEF WorkerGo, WorkInv, WorkType, Sides
<1>6. WorkInv'
  BY <1>1, <1>3, <1>4, <1>5, WorkerGoes
<1>7. QED
  BY <1>1, <1>2, <1>6, WorkerTypes

\* The steps of a worker that test something, or call a function of the client.
LEMMA WorkerTestTypes ==
  ASSUME TypeInv, NEW s \in Sides,
         \/ StartedRx(s) \/ StartedTx(s) \/ StoppedRx(s) \/ StoppedTx(s)
         \/ Receive(s) \/ ReceiveRead(s) \/ ReceiveCallback(s)
         \/ Transmit(s) \/ TransmitWrite(s)
  PROVE  TypeInv'
<1>1. Runs(s, wpc[s], wact[s])
  BY DEF TypeInv, WorkInv
<1> USE DEF Runs, StarterSteps, TailSteps, ReceiverSteps, BufferSteps, TransmitSteps, WorkerSteps
<1>2. CASE StartedRx(s)
  BY <1>1, <1>2, WorkerOnlyTypes DEF StartedRx
<1>3. CASE StartedTx(s)
  BY <1>1, <1>3, WorkerOnlyTypes DEF StartedTx
<1>4. CASE StoppedRx(s)
  BY <1>1, <1>4, WorkerOnlyTypes DEF StoppedRx
<1>5. CASE StoppedTx(s)
  BY <1>1, <1>5, WorkerOnlyTypes DEF StoppedTx
<1>6. CASE Receive(s)
  BY <1>1, <1>6, WorkerOnlyTypes DEF Receive
<1>7. CASE ReceiveRead(s)
  BY <1>1, <1>7, WorkerOnlyTypes DEF ReceiveRead
<1>8. CASE ReceiveCallback(s)
  BY <1>1, <1>8, WorkerOnlyTypes DEF ReceiveCallback
<1>9. CASE Transmit(s)
  BY <1>1, <1>9, WorkerOnlyTypes DEF Transmit
<1>10. CASE TransmitWrite(s)
  BY <1>1, <1>10, WorkerOnlyTypes DEF TransmitWrite
<1>11. QED
  BY <1>2, <1>3, <1>4, <1>5, <1>6, <1>7, <1>8, <1>9, <1>10

\* pool_free keeps the types.
LEMMA PoolFreeTypes ==
  ASSUME PoolsType, EndedType, NEW s \in Sides, NEW b \in Blocks, PoolFree(s, b), plive' = plive
  PROVE  PoolsType' /\ EndedType'
<1>1. CASE refs[b] = 0
  BY <1>1 DEF PoolFree, End, PoolsType, EndedType
<1>2. CASE refs[b] # 0
  <2>1. refs[b] \in Nat /\ refs[b] - 1 \in Nat
    BY <1>2 DEF PoolsType
  <2>2. refs' \in [Blocks -> Nat] /\ free' \subseteq Blocks /\ ended' = ended
    BY <1>2, <2>1 DEF PoolFree, PoolsType
  <2>3. QED
    BY <2>2 DEF PoolsType, EndedType
<1>3. QED
  BY <1>1, <1>2

\* The other steps of a worker.
LEMMA WorkerKeepsTypes ==
  ASSUME TypeInv, NEW s \in Sides, WorkerStep(s) \/ asyncio_release_rx_buffer(s)
  PROVE  TypeInv'
<1>1. /\ Runs(s, wpc[s], wact[s]) /\ InstanceType /\ PoolsType /\ WorkInv /\ EndedType /\ QueuesOk
      /\ workers # {} /\ wbuf \in Buffers \union {None} /\ s \in {"rx", "tx"}
      /\ (wpc["rx"] \in BufferSteps => wbuf \in Buffers)
  BY DEF TypeInv, WorkInv, WorkType, Sides
<1> USE DEF Runs, StarterSteps, TailSteps, ReceiverSteps, BufferSteps, TransmitSteps, WorkerSteps
<1>2. CASE WorkerTake(s)
  <2> DEFINE a == Head(queue[s])
             pc == IF a = "start" THEN "create" ELSE IF a = "finish" THEN "finish"
                   ELSE IF a = "rx" THEN "rx" ELSE "tx"
  <2>1. /\ queue[s] # <<>> /\ queue' = [queue EXCEPT ![s] = Tail(@)]
        /\ wact' = [wact EXCEPT ![s] = a] /\ wpc' = [wpc EXCEPT ![s] = pc]
        /\ UNCHANGED instance /\ UNCHANGED pools /\ UNCHANGED control /\ UNCHANGED callers
        /\ UNCHANGED <<wbuf, ended>> /\ wpc[s] = "wait" /\ workers' = workers
    BY <1>2 DEF WorkerTake, WorkerGo, instance
  <2>2. QueuesOk' /\ a \in ActionsOf(s)
    BY <1>1, <2>1, Taken
  <2>3. a \in Actions /\ pc \in WorkerSteps /\ Runs(s, pc, a) /\ pc \notin BufferSteps
    BY <1>1, <2>2, AsyncioAssumption DEF ActionsOf, Actions
  <2> HIDE DEF a, pc
  <2>4. /\ wpc' \in [Sides -> WorkerSteps] /\ wact' \in [Sides -> Actions \union {None}]
        /\ wpc'[s] = pc /\ wact'[s] = a
        /\ \A o \in Sides : o # s => wpc'[o] = wpc[o] /\ wact'[o] = wact[o]
    BY <1>1, <2>1, <2>3 DEF WorkInv, WorkType
  <2>5. \A o \in Sides : Runs(o, wpc'[o], wact'[o])
    BY <1>1, <2>3, <2>4 DEF WorkInv
  <2>6. wpc'["rx"] \in BufferSteps => wbuf' \in Buffers
    BY <1>1, <2>1, <2>3, <2>4 DEF Sides
  <2>7. WorkInv'
    BY <1>1, <2>1, <2>2, <2>4, <2>5, <2>6 DEF WorkInv, WorkType, QueuesOk
  <2>8. InstanceType' /\ PoolsType' /\ EndedType'
    BY <1>1, <2>1, TypesKept
  <2>9. QED
    BY <2>1, <2>7, <2>8, WorkerTypes
<1>3. CASE WorkerDone(s)
  <2>1. /\ wact' = [wact EXCEPT ![s] = None] /\ wpc' = [wpc EXCEPT ![s] = "wait"]
        /\ UNCHANGED instance /\ UNCHANGED pools /\ UNCHANGED control /\ UNCHANGED callers
        /\ UNCHANGED <<queue, wbuf, ended>> /\ workers' = workers
    BY <1>3 DEF WorkerDone, WorkerGo, instance
  <2>2. /\ wpc' \in [Sides -> WorkerSteps] /\ wact' \in [Sides -> Actions \union {None}]
        /\ wpc'[s] = "wait" /\ \A o \in Sides : o # s => wpc'[o] = wpc[o] /\ wact'[o] = wact[o]
    BY <1>1, <2>1 DEF WorkInv, WorkType
  <2>3. \A o \in Sides : Runs(o, wpc'[o], wact'[o])
    BY <1>1, <2>2 DEF WorkInv
  <2>4. wpc'["rx"] \in BufferSteps => wbuf' \in Buffers
    BY <1>1, <2>1, <2>2 DEF Sides
  <2>5. WorkInv'
    BY <1>1, <2>1, <2>2, <2>3, <2>4 DEF WorkInv, WorkType, QueuesOk
  <2>6. InstanceType' /\ PoolsType' /\ EndedType'
    BY <1>1, <2>1, TypesKept
  <2>7. QED
    BY <2>1, <2>5, <2>6, WorkerTypes
<1>4. CASE StarterCreate(s)
  <2>1. /\ UNCHANGED control /\ UNCHANGED callers /\ UNCHANGED wact /\ workers' = workers
    BY <1>4 DEF StarterCreate, WorkerOnly, instance, pools, work
  <2>2. InstanceType'
    BY <1>1, <1>4, TypesKept DEF StarterCreate
  <2>3. PoolsType' /\ EndedType'
    <3>1. plive' \in [Sides -> BOOLEAN] /\ free' \subseteq Blocks
      BY <1>1, <1>4 DEF StarterCreate, PoolsType, BlocksOf, Blocks
    <3>2. refs' \in [Blocks -> Nat]
      BY <1>1, <1>4 DEF StarterCreate, PoolsType
    <3>3. QED
      BY <1>1, <1>4, <3>1, <3>2 DEF StarterCreate, PoolsType, EndedType
  <2>4. QueuesOk'
    BY <1>1, <1>4, QueuesKept DEF StarterCreate, work
  <2>5. WorkInv'
    BY <1>1, <1>4, <2>1, <2>4, WorkerGoes DEF StarterCreate, WorkerGo, WorkInv, WorkType, Sides, work
  <2>6. QED
    BY <2>1, <2>2, <2>3, <2>5, WorkerTypes
<1>5. CASE StarterReady(s)
  <2>1. /\ UNCHANGED control /\ UNCHANGED callers /\ UNCHANGED wact /\ workers' = workers
    BY <1>5 DEF StarterReady, WorkerOnly, instance, pools, work
  <2>2. InstanceType'
    BY <1>1, <1>5 DEF StarterReady, InstanceType, States
  <2>3. PoolsType' /\ EndedType'
    BY <1>1, <1>5, TypesKept DEF StarterReady
  <2>4. QueuesOk'
    BY <1>1, <1>5, QueuesKept DEF StarterReady, work
  <2>5. WorkInv'
    BY <1>1, <1>5, <2>1, <2>4, WorkerGoes DEF StarterReady, WorkerGo, WorkInv, WorkType, Sides, work
  <2>6. QED
    BY <2>1, <2>2, <2>3, <2>5, WorkerTypes
<1>6. CASE StarterPost(s)
  <2>1. /\ UNCHANGED control /\ UNCHANGED callers /\ UNCHANGED wact /\ workers' = workers
    BY <1>6 DEF StarterPost, WorkerOnly, instance, pools, work
  <2>2. InstanceType'
    BY <1>1, <1>6, TypesKept DEF StarterPost
  <2>3. PoolsType' /\ EndedType'
    BY <1>1, <1>6, TypesKept DEF StarterPost
  <2>4. QueuesOk'
    BY <1>1, <1>6, Appended DEF StarterPost, Sides, ActionsOf, QueuesOk
  <2>5. WorkInv'
    BY <1>1, <1>6, <2>1, <2>4, WorkerGoes DEF StarterPost, WorkerGo, WorkInv, WorkType, Sides, work
  <2>6. QED
    BY <2>1, <2>2, <2>3, <2>5, WorkerTypes
<1>7. CASE StartedStore(s)
  <2>1. /\ UNCHANGED control /\ UNCHANGED callers /\ UNCHANGED wact /\ workers' = workers
    BY <1>7 DEF StartedStore, WorkerOnly, instance, pools, work
  <2>2. InstanceType'
    BY <1>1, <1>7 DEF StartedStore, InstanceType, States
  <2>3. PoolsType' /\ EndedType'
    BY <1>1, <1>7, TypesKept DEF StartedStore
  <2>4. QueuesOk'
    BY <1>1, <1>7, QueuesKept DEF StartedStore, work
  <2>5. WorkInv'
    BY <1>1, <1>7, <2>1, <2>4, WorkerGoes DEF StartedStore, WorkerGo, WorkInv, WorkType, Sides, work
  <2>6. QED
    BY <2>1, <2>2, <2>3, <2>5, WorkerTypes
<1>8. CASE StartedSend(s)
  <2>1. /\ UNCHANGED control /\ UNCHANGED callers /\ UNCHANGED wact /\ workers' = workers
    BY <1>8 DEF StartedSend, WorkerOnly, instance, pools, work
  <2>2. InstanceType'
    BY <1>1, <1>8 DEF StartedSend, InstanceType, States
  <2>3. PoolsType' /\ EndedType'
    BY <1>1, <1>8, TypesKept DEF StartedSend
  <2>4. QueuesOk'
    BY <1>1, <1>8, QueuesKept DEF StartedSend, work
  <2>5. WorkInv'
    BY <1>1, <1>8, <2>1, <2>4, WorkerGoes DEF StartedSend, WorkerGo, WorkInv, WorkType, Sides, work
  <2>6. QED
    BY <2>1, <2>2, <2>3, <2>5, WorkerTypes
<1>9. CASE Finisher(s)
  <2>1. /\ UNCHANGED control /\ UNCHANGED callers /\ UNCHANGED wact /\ workers' = workers
    BY <1>9 DEF Finisher, WorkerOnly, instance, pools, work
  <2>2. InstanceType'
    BY <1>1, <1>9 DEF Finisher, InstanceType, States
  <2>3. PoolsType' /\ EndedType'
    BY <1>1, <1>9, TypesKept DEF Finisher
  <2>4. QueuesOk'
    BY <1>1, <1>9, QueuesKept DEF Finisher, work
  <2>5. WorkInv'
    BY <1>1, <1>9, <2>1, <2>4, WorkerGoes DEF Finisher, WorkerGo, WorkInv, WorkType, Sides, work
  <2>6. QED
    BY <2>1, <2>2, <2>3, <2>5, WorkerTypes
<1>10. CASE FinisherDestroy(s)
  <2>1. /\ UNCHANGED control /\ UNCHANGED callers /\ UNCHANGED wact /\ workers' = workers
    BY <1>10 DEF FinisherDestroy, WorkerOnly, instance, pools, work
  <2>2. InstanceType'
    BY <1>1, <1>10, TypesKept DEF FinisherDestroy
  <2>3. PoolsType' /\ EndedType'
    <3>1. plive' \in [Sides -> BOOLEAN] /\ free' \subseteq Blocks
      BY <1>1, <1>10 DEF FinisherDestroy, PoolsType, BlocksOf, Blocks
    <3>2. refs' \in [Blocks -> Nat]
      BY <1>1, <1>10 DEF FinisherDestroy, PoolsType
    <3>3. QED
      BY <1>1, <1>10, <3>1, <3>2 DEF FinisherDestroy, PoolsType, EndedType
  <2>4. QueuesOk'
    BY <1>1, <1>10, QueuesKept DEF FinisherDestroy, work
  <2>5. WorkInv'
    BY <1>1, <1>10, <2>1, <2>4, WorkerGoes DEF FinisherDestroy, WorkerGo, WorkInv, WorkType, Sides, work
  <2>6. QED
    BY <2>1, <2>2, <2>3, <2>5, WorkerTypes
<1>11. CASE StoppedStore(s)
  <2>1. /\ UNCHANGED control /\ UNCHANGED callers /\ UNCHANGED wact /\ workers' = workers
    BY <1>11 DEF StoppedStore, WorkerOnly, instance, pools, work
  <2>2. InstanceType'
    BY <1>1, <1>11 DEF StoppedStore, InstanceType, States
  <2>3. PoolsType' /\ EndedType'
    BY <1>1, <1>11, TypesKept DEF StoppedStore
  <2>4. QueuesOk'
    BY <1>1, <1>11, QueuesKept DEF StoppedStore, work
  <2>5. WorkInv'
    BY <1>1, <1>11, <2>1, <2>4, WorkerGoes DEF StoppedStore, WorkerGo, WorkInv, WorkType, Sides, work
  <2>6. QED
    BY <2>1, <2>2, <2>3, <2>5, WorkerTypes
<1>12. CASE StoppedSend(s)
  <2>1. /\ UNCHANGED control /\ UNCHANGED callers /\ UNCHANGED wact /\ workers' = workers
    BY <1>12 DEF StoppedSend, WorkerOnly, instance, pools, work
  <2>2. InstanceType'
    BY <1>1, <1>12 DEF StoppedSend, InstanceType, States
  <2>3. PoolsType' /\ EndedType'
    BY <1>1, <1>12, TypesKept DEF StoppedSend
  <2>4. QueuesOk'
    BY <1>1, <1>12, QueuesKept DEF StoppedSend, work
  <2>5. WorkInv'
    BY <1>1, <1>12, <2>1, <2>4, WorkerGoes DEF StoppedSend, WorkerGo, WorkInv, WorkType, Sides, work
  <2>6. QED
    BY <2>1, <2>2, <2>3, <2>5, WorkerTypes
<1>13. CASE ReceiveAlloc(s)
  <2>1. /\ UNCHANGED control /\ UNCHANGED callers /\ UNCHANGED wact /\ workers' = workers
    BY <1>13 DEF ReceiveAlloc, WorkerOnly, instance, pools, work
  <2>2. InstanceType'
    BY <1>1, <1>13, TypesKept DEF ReceiveAlloc
  <2>3. PoolsType' /\ EndedType'
    <3>1. plive' \in [Sides -> BOOLEAN] /\ free' \subseteq Blocks
      BY <1>1, <1>13 DEF ReceiveAlloc, PoolsType, BlocksOf, Blocks
    <3>2. refs' \in [Blocks -> Nat]
      BY <1>1, <1>13 DEF ReceiveAlloc, PoolsType
    <3>3. QED
      BY <1>1, <1>13, <3>1, <3>2 DEF ReceiveAlloc, PoolsType, EndedType
  <2>4. QueuesOk'
    BY <1>1, <1>13, Appended DEF ReceiveAlloc, Sides, ActionsOf, QueuesOk
  <2>5. WorkInv'
    BY <1>1, <1>13, <2>1, <2>4, WorkerGoes DEF ReceiveAlloc, WorkerGo, WorkInv, WorkType, Sides, work
  <2>6. QED
    BY <2>1, <2>2, <2>3, <2>5, WorkerTypes
<1>14. CASE ReceiveRepost(s)
  <2>1. /\ UNCHANGED control /\ UNCHANGED callers /\ UNCHANGED wact /\ workers' = workers
    BY <1>14 DEF ReceiveRepost, WorkerOnly, instance, pools, work
  <2>2. InstanceType'
    BY <1>1, <1>14, TypesKept DEF ReceiveRepost
  <2>3. PoolsType' /\ EndedType'
    BY <1>1, <1>14, TypesKept DEF ReceiveRepost
  <2>4. QueuesOk'
    BY <1>1, <1>14, Appended DEF ReceiveRepost, Sides, ActionsOf, QueuesOk
  <2>5. WorkInv'
    BY <1>1, <1>14, <2>1, <2>4, WorkerGoes DEF ReceiveRepost, WorkerGo, WorkInv, WorkType, Sides, work
  <2>6. QED
    BY <2>1, <2>2, <2>3, <2>5, WorkerTypes
<1>15. CASE ReceiveFree(s)
  <2>1. /\ UNCHANGED control /\ UNCHANGED callers /\ UNCHANGED wact /\ workers' = workers
    BY <1>15 DEF ReceiveFree, WorkerOnly, instance, pools, work
  <2>2. InstanceType'
    BY <1>1, <1>15, TypesKept DEF ReceiveFree
  <2>3. PoolsType' /\ EndedType'
    <3>1. wbuf \in Blocks /\ "rx" \in Sides /\ PoolFree("rx", wbuf) /\ plive' = plive
      BY <1>1, <1>15 DEF ReceiveFree, Blocks, Sides
    <3>2. QED
      BY <1>1, <3>1, PoolFreeTypes
  <2>4. QueuesOk'
    BY <1>1, <1>15, QueuesKept DEF ReceiveFree, work
  <2>5. WorkInv'
    BY <1>1, <1>15, <2>1, <2>4, WorkerGoes DEF ReceiveFree, WorkerGo, WorkInv, WorkType, Sides, work
  <2>6. QED
    BY <2>1, <2>2, <2>3, <2>5, WorkerTypes
<1>16. CASE TransmitFree(s)
  <2>1. /\ UNCHANGED control /\ UNCHANGED callers /\ UNCHANGED wact /\ workers' = workers
    BY <1>16 DEF TransmitFree, WorkerOnly, instance, pools, work
  <2>2. InstanceType'
    BY <1>1, <1>16, TypesKept DEF TransmitFree
  <2>3. PoolsType' /\ EndedType'
    <3>1. wact[s] \in Blocks /\ "tx" \in Sides /\ PoolFree("tx", wact[s]) /\ plive' = plive
      BY <1>1, <1>16 DEF TransmitFree, Blocks, Sides
    <3>2. QED
      BY <1>1, <3>1, PoolFreeTypes
  <2>4. QueuesOk'
    BY <1>1, <1>16, QueuesKept DEF TransmitFree, work
  <2>5. WorkInv'
    BY <1>1, <1>16, <2>1, <2>4, WorkerGoes DEF TransmitFree, WorkerGo, WorkInv, WorkType, Sides, work
  <2>6. QED
    BY <2>1, <2>2, <2>3, <2>5, WorkerTypes
<1>17. CASE asyncio_release_rx_buffer(s)
  <2>1. /\ UNCHANGED control /\ UNCHANGED callers /\ UNCHANGED wact /\ workers' = workers
    BY <1>17 DEF asyncio_release_rx_buffer, WorkerOnly, instance, pools, work
  <2>2. InstanceType'
    BY <1>1, <1>17, TypesKept DEF asyncio_release_rx_buffer
  <2>3. PoolsType' /\ EndedType'
    <3>1. wbuf \in Blocks /\ "rx" \in Sides /\ PoolFree("rx", wbuf) /\ plive' = plive
      BY <1>1, <1>17 DEF asyncio_release_rx_buffer, Blocks, Sides
    <3>2. QED
      BY <1>1, <3>1, PoolFreeTypes
  <2>4. QueuesOk'
    BY <1>1, <1>17, QueuesKept DEF asyncio_release_rx_buffer, work
  <2>5. WorkInv'
    BY <1>1, <1>17, <2>1, <2>4, WorkerGoes DEF asyncio_release_rx_buffer, WorkerGo, WorkInv, WorkType, Sides, work
  <2>6. QED
    BY <2>1, <2>2, <2>3, <2>5, WorkerTypes
<1>18. QED
  BY <1>2, <1>3, <1>4, <1>5, <1>6, <1>7, <1>8, <1>9, <1>10, <1>11, <1>12, <1>13, <1>14, <1>15, <1>16, <1>17, WorkerTestTypes DEF WorkerStep

\* The steps of a caller.
LEMMA CallerKeepsTypes ==
  ASSUME TypeInv, NEW a \in Callers,
         \/ asyncio_allocate_tx_token(a) \/ asyncio_send_buffer(a)
         \/ asyncio_release_tx_token(a) \/ Forget(a) \/ CallerStep(a)
  PROVE  TypeInv'
<1>1. /\ InstanceType /\ workers # {} /\ PoolsType /\ WorkInv /\ ControlType /\ CallersInv
      /\ EndedType /\ QueuesOk /\ CallersType /\ \A c \in Callers : UsesOk(c) /\ tlife[c] <= life
  BY DEF TypeInv, WorkInv, CallersInv
<1>2. /\ tok[a] \in Tokens \union {None} /\ None \notin Tokens /\ life \in 0..MaxStarts
      /\ sends[a] \in 0..MaxSends /\ MaxSends \in Nat /\ MaxStarts \in Nat
  BY <1>1, AsyncioAssumption DEF CallersType, ControlType, Blocks
<1>3. CASE asyncio_allocate_tx_token(a)
  <2>1. UNCHANGED instance /\ UNCHANGED control /\ workers' = workers
    BY <1>3 DEF asyncio_allocate_tx_token, instance
  <2>2. InstanceType' /\ workers' # {} /\ ControlType'
    BY <1>1, <2>1, TypesKept
  <2>3. PoolsType' /\ EndedType'
    BY <1>1, <1>3, TypesKept DEF asyncio_allocate_tx_token
  <2>4. WorkInv'
    BY <1>1, <1>3, TypesKept DEF asyncio_allocate_tx_token
  <2>5. /\ apc' \in [Callers -> {"idle", "alloc", "send", "release"}]
        /\ tok' \in [Callers -> Tokens \union {None}] /\ stale' \in BOOLEAN
    BY <1>1, <1>3 DEF asyncio_allocate_tx_token, CallersType
  <2>6. /\ tlife' \in [Callers -> 0..MaxStarts] /\ sends' \in [Callers -> 0..MaxSends]
        /\ \A c \in Callers : tlife'[c] <= life'
    BY <1>1, <1>2, <1>3 DEF asyncio_allocate_tx_token, CallersType, control
  <2>7. \A c \in Callers : UsesOk(c)'
    BY <1>1, <1>2, <1>3 DEF asyncio_allocate_tx_token, CallersType, UsesOk, Fresh, MayCall
  <2>8. QED
    BY <2>2, <2>3, <2>4, <2>5, <2>6, <2>7 DEF TypeInv, CallersInv, CallersType
<1>4. CASE asyncio_send_buffer(a)
  <2>1. UNCHANGED instance /\ UNCHANGED control /\ workers' = workers
    BY <1>4 DEF asyncio_send_buffer, instance, CallerOnly
  <2>2. InstanceType' /\ workers' # {} /\ ControlType'
    BY <1>1, <2>1, TypesKept
  <2>3. PoolsType' /\ EndedType'
    BY <1>1, <1>4, TypesKept DEF asyncio_send_buffer, CallerOnly
  <2>4. WorkInv'
    BY <1>1, <1>4, TypesKept DEF asyncio_send_buffer, CallerOnly
  <2>5. /\ apc' \in [Callers -> {"idle", "alloc", "send", "release"}]
        /\ tok' \in [Callers -> Tokens \union {None}] /\ stale' \in BOOLEAN
    BY <1>1, <1>4 DEF asyncio_send_buffer, CallersType, CallerOnly
  <2>6. /\ tlife' \in [Callers -> 0..MaxStarts] /\ sends' \in [Callers -> 0..MaxSends]
        /\ \A c \in Callers : tlife'[c] <= life'
    BY <1>1, <1>2, <1>4 DEF asyncio_send_buffer, CallersType, control, CallerOnly
  <2>7. \A c \in Callers : UsesOk(c)'
    BY <1>1, <1>2, <1>4 DEF asyncio_send_buffer, CallersType, UsesOk, Fresh, MayCall, CallerOnly
  <2>8. QED
    BY <2>2, <2>3, <2>4, <2>5, <2>6, <2>7 DEF TypeInv, CallersInv, CallersType
<1>5. CASE asyncio_release_tx_token(a)
  <2>1. UNCHANGED instance /\ UNCHANGED control /\ workers' = workers
    BY <1>5 DEF asyncio_release_tx_token, instance, CallerOnly
  <2>2. InstanceType' /\ workers' # {} /\ ControlType'
    BY <1>1, <2>1, TypesKept
  <2>3. PoolsType' /\ EndedType'
    BY <1>1, <1>5, TypesKept DEF asyncio_release_tx_token, CallerOnly
  <2>4. WorkInv'
    BY <1>1, <1>5, TypesKept DEF asyncio_release_tx_token, CallerOnly
  <2>5. /\ apc' \in [Callers -> {"idle", "alloc", "send", "release"}]
        /\ tok' \in [Callers -> Tokens \union {None}] /\ stale' \in BOOLEAN
    BY <1>1, <1>5 DEF asyncio_release_tx_token, CallersType, CallerOnly
  <2>6. /\ tlife' \in [Callers -> 0..MaxStarts] /\ sends' \in [Callers -> 0..MaxSends]
        /\ \A c \in Callers : tlife'[c] <= life'
    BY <1>1, <1>2, <1>5 DEF asyncio_release_tx_token, CallersType, control, CallerOnly
  <2>7. \A c \in Callers : UsesOk(c)'
    BY <1>1, <1>2, <1>5 DEF asyncio_release_tx_token, CallersType, UsesOk, Fresh, MayCall, CallerOnly
  <2>8. QED
    BY <2>2, <2>3, <2>4, <2>5, <2>6, <2>7 DEF TypeInv, CallersInv, CallersType
<1>6. CASE Forget(a)
  <2>1. UNCHANGED instance /\ UNCHANGED control /\ workers' = workers
    BY <1>6 DEF Forget, instance
  <2>2. InstanceType' /\ workers' # {} /\ ControlType'
    BY <1>1, <2>1, TypesKept
  <2>3. PoolsType' /\ EndedType'
    BY <1>1, <1>6, TypesKept DEF Forget
  <2>4. WorkInv'
    BY <1>1, <1>6, TypesKept DEF Forget
  <2>5. /\ apc' \in [Callers -> {"idle", "alloc", "send", "release"}]
        /\ tok' \in [Callers -> Tokens \union {None}] /\ stale' \in BOOLEAN
    BY <1>1, <1>6 DEF Forget, CallersType
  <2>6. /\ tlife' \in [Callers -> 0..MaxStarts] /\ sends' \in [Callers -> 0..MaxSends]
        /\ \A c \in Callers : tlife'[c] <= life'
    BY <1>1, <1>2, <1>6 DEF Forget, CallersType, control
  <2>7. \A c \in Callers : UsesOk(c)'
    BY <1>1, <1>2, <1>6 DEF Forget, CallersType, UsesOk, Fresh, MayCall
  <2>8. QED
    BY <2>2, <2>3, <2>4, <2>5, <2>6, <2>7 DEF TypeInv, CallersInv, CallersType
<1>7. CASE TokenAlloc(a)
  <2>1. UNCHANGED instance /\ UNCHANGED control /\ workers' = workers
    BY <1>7 DEF TokenAlloc, instance
  <2>2. InstanceType' /\ workers' # {} /\ ControlType'
    BY <1>1, <2>1, TypesKept
  <2>3. PoolsType' /\ EndedType'
    <3>1. plive' \in [Sides -> BOOLEAN] /\ free' \subseteq Blocks
      BY <1>1, <1>7 DEF TokenAlloc, PoolsType
    <3>2. refs' \in [Blocks -> Nat]
      BY <1>1, <1>7 DEF TokenAlloc, PoolsType
    <3>3. QED
      BY <1>1, <1>7, <3>1, <3>2 DEF TokenAlloc, PoolsType, EndedType
  <2>4. WorkInv'
    BY <1>1, <1>7, TypesKept DEF TokenAlloc
  <2>5. /\ apc' \in [Callers -> {"idle", "alloc", "send", "release"}]
        /\ tok' \in [Callers -> Tokens \union {None}] /\ stale' \in BOOLEAN
    BY <1>1, <1>7 DEF TokenAlloc, CallersType
  <2>6. /\ tlife' \in [Callers -> 0..MaxStarts] /\ sends' \in [Callers -> 0..MaxSends]
        /\ \A c \in Callers : tlife'[c] <= life'
    BY <1>1, <1>2, <1>7 DEF TokenAlloc, CallersType, UsesOk, control
  <2>7. \A c \in Callers : UsesOk(c)'
    BY <1>1, <1>2, <1>7 DEF TokenAlloc, CallersType, UsesOk, Fresh, MayCall
  <2>8. QED
    BY <2>2, <2>3, <2>4, <2>5, <2>6, <2>7 DEF TypeInv, CallersInv, CallersType
<1>8. CASE SendDispatch(a)
  <2>1. UNCHANGED instance /\ UNCHANGED control /\ workers' = workers
    BY <1>8 DEF SendDispatch, instance
  <2>2. InstanceType' /\ workers' # {} /\ ControlType'
    BY <1>1, <2>1, TypesKept
  <2>3. PoolsType' /\ EndedType'
    BY <1>1, <1>8, TypesKept DEF SendDispatch
  <2>4. WorkInv'
    <3>1. "tx" \in Sides /\ tok[a] \in ActionsOf("tx")
      BY <1>1, <1>2, <1>8 DEF SendDispatch, UsesOk, Sides, ActionsOf
    <3>2. Post("tx", tok[a]) /\ UNCHANGED <<wpc, wact, wbuf>>
      BY <1>8 DEF SendDispatch
    <3>3. QueuesOk'
      BY <1>1, <3>1, <3>2, Appended
    <3>4. QED
      BY <1>1, <3>2, <3>3 DEF WorkInv, WorkType, QueuesOk
  <2>5. /\ apc' \in [Callers -> {"idle", "alloc", "send", "release"}]
        /\ tok' \in [Callers -> Tokens \union {None}] /\ stale' \in BOOLEAN
    BY <1>1, <1>8 DEF SendDispatch, CallersType
  <2>6. /\ tlife' \in [Callers -> 0..MaxStarts] /\ sends' \in [Callers -> 0..MaxSends]
        /\ \A c \in Callers : tlife'[c] <= life'
    BY <1>1, <1>2, <1>8 DEF SendDispatch, CallersType, control
  <2>7. \A c \in Callers : UsesOk(c)'
    BY <1>1, <1>2, <1>8 DEF SendDispatch, CallersType, UsesOk, Fresh, MayCall
  <2>8. QED
    BY <2>2, <2>3, <2>4, <2>5, <2>6, <2>7 DEF TypeInv, CallersInv, CallersType
<1>9. CASE ReleaseFree(a)
  <2>1. UNCHANGED instance /\ UNCHANGED control /\ workers' = workers
    BY <1>9 DEF ReleaseFree, instance
  <2>2. InstanceType' /\ workers' # {} /\ ControlType'
    BY <1>1, <2>1, TypesKept
  <2>3. PoolsType' /\ EndedType'
    <3>1. tok[a] \in Blocks /\ "tx" \in Sides /\ PoolFree("tx", tok[a]) /\ plive' = plive
      BY <1>1, <1>2, <1>9 DEF ReleaseFree, UsesOk, Blocks, Sides
    <3>2. QED
      BY <1>1, <3>1, PoolFreeTypes
  <2>4. WorkInv'
    BY <1>1, <1>9, TypesKept DEF ReleaseFree
  <2>5. /\ apc' \in [Callers -> {"idle", "alloc", "send", "release"}]
        /\ tok' \in [Callers -> Tokens \union {None}] /\ stale' \in BOOLEAN
    BY <1>1, <1>9 DEF ReleaseFree, CallersType
  <2>6. /\ tlife' \in [Callers -> 0..MaxStarts] /\ sends' \in [Callers -> 0..MaxSends]
        /\ \A c \in Callers : tlife'[c] <= life'
    BY <1>1, <1>2, <1>9 DEF ReleaseFree, CallersType, control
  <2>7. \A c \in Callers : UsesOk(c)'
    BY <1>1, <1>2, <1>9 DEF ReleaseFree, CallersType, UsesOk, Fresh, MayCall
  <2>8. QED
    BY <2>2, <2>3, <2>4, <2>5, <2>6, <2>7 DEF TypeInv, CallersInv, CallersType
<1>10. QED
  BY <1>3, <1>4, <1>5, <1>6, <1>7, <1>8, <1>9 DEF CallerStep

\* The types, of the initial states ...
LEMMA TypeInit == Init => TypeInv
<1> SUFFICES ASSUME Init PROVE TypeInv
  OBVIOUS
<1> USE DEF Init
<1>1. InstanceType /\ workers # {} /\ PoolsType /\ EndedType
  BY DEF InstanceType, PoolsType, EndedType, States
<1>2. WorkInv
  <2>1. \A s \in Sides : queue[s] = <<>> /\ wpc[s] = "wait"
    OBVIOUS
  <2>2. QueuesOk
    BY <2>1 DEF QueuesOk
  <2>3. QED
    BY <2>1, <2>2 DEF WorkInv, WorkType, Runs, WorkerSteps, StarterSteps, TailSteps,
                       ReceiverSteps, BufferSteps, TransmitSteps, Sides
<1>3. 0 \in 0..MaxStarts /\ 0 \in 0..MaxSends /\ 0 <= 0
  BY AsyncioAssumption
<1>4. ControlType
  BY <1>3 DEF ControlType, ControllerSteps, Sides
<1>5. CallersInv /\ \A a \in Callers : tlife[a] <= life
  BY <1>3 DEF CallersInv, CallersType, UsesOk
<1>6. QED
  BY <1>1, <1>2, <1>4, <1>5 DEF TypeInv

\* ... and of every step.
LEMMA TypeNext == TypeInv /\ [Next]_vars => TypeInv'
<1> SUFFICES ASSUME TypeInv, [Next]_vars PROVE TypeInv'
  OBVIOUS
<1>1. CASE UNCHANGED vars
  <2>1. /\ UNCHANGED instance /\ UNCHANGED pools /\ UNCHANGED work /\ UNCHANGED control
        /\ UNCHANGED callers /\ UNCHANGED ended
    BY <1>1 DEF vars, instance, pools, work, control, callers
  <2>2. \A a \in Callers : tlife'[a] <= life'
    BY <2>1 DEF TypeInv, callers, control
  <2>3. QED
    BY <2>1, <2>2, TypesKept DEF TypeInv
<1>2. CASE Running
  BY <1>2, ControllerKeepsTypes, WorkerKeepsTypes, CallerKeepsTypes DEF Running
<1>3. QED
  BY <1>1, <1>2 DEF Next, Finished

-----------------------------------------------------------------------------
(* The handshake, step by step.                                            *)

\* Steps of a worker that are in no starter and in no finisher.
PlainSteps == {"wait", "done"} \union ReceiverSteps \union TransmitSteps

\* The starters and finishers posted to side s stay as they are.
SamePosted(s) ==
    /\ Has(s, "start")' <=> Has(s, "start")
    /\ Has(s, "finish")' <=> Has(s, "finish")
    /\ Once(s, {"start", "finish"}) => Once(s, {"start", "finish"})'

\* A queue that does not change.
LEMMA SameQueue ==
  ASSUME NEW s \in Sides, queue'[s] = queue[s]
  PROVE  SamePosted(s)
  BY QueueKept DEF SamePosted

\* A side that a step does not touch.
LEMMA SideKept ==
  ASSUME NEW s \in Sides, SideOk(s), SamePosted(s), workers' = workers, side'[s] = side[s],
         plive'[s] = plive[s],
         wpc'[s] = wpc[s] \/ (wpc[s] \in PlainSteps /\ wpc'[s] \in PlainSteps),
         \/ cpc' = cpc /\ cside' = cside
         \/ /\ cpc \notin {"dispatch", "finish"} \/ cside # s
            /\ cpc' \notin {"dispatch", "finish"} \/ cside' # s
  PROVE  SideOk(s)'
<1>1. InTail(s)' <=> InTail(s)
  BY DEF InTail, PlainSteps, ReceiverSteps, BufferSteps, TransmitSteps
<1>2. Once(s, {"start", "finish"})'
  BY DEF SideOk, SamePosted
<1> USE DEF SamePosted, Posted, PlainSteps, ReceiverSteps, BufferSteps, TransmitSteps, StarterSteps, TailSteps
<1>3. side[s] = "Uninitialized" => UninitializedOk(s)'
  BY DEF SideOk, UninitializedOk
<1>4. side[s] = "Initializing" => InitializingOk(s)'
  BY DEF SideOk, InitializingOk
<1>5. side[s] = "Initialized" => InitializedOk(s)'
  BY DEF SideOk, InitializedOk
<1>6. side[s] = "Uninitializing" => UninitializingOk(s)'
  BY DEF SideOk, UninitializingOk
<1>7. /\ (cpc = "dispatch" /\ cside = s =>
            side[s] = "Initializing" /\ ~Has(s, "start") /\ wpc[s] \notin StarterSteps)'
      /\ (cpc = "finish" /\ cside = s =>
            side[s] = "Uninitializing" /\ ~Has(s, "finish") /\ wpc[s] # "finish")'
  BY DEF SideOk
<1>8. QED
  BY <1>1, <1>2, <1>3, <1>4, <1>5, <1>6, <1>7 DEF SideOk

\* The state of a side, by the step of its worker.
LEMMA StateAt ==
  ASSUME TypeInv, NEW s \in Sides, SideOk(s)
  PROVE  /\ wpc[s] \in {"create", "ready"} => side[s] = "Initializing" /\ InitializingOk(s)
         /\ wpc[s] = "finish" => side[s] = "Uninitializing" /\ UninitializingOk(s)
         /\ InCompletion(s) => side[s] \in {"Initialized", "Uninitializing"}
         /\ InTail(s) => side[s] \in {"Uninitialized", "Initializing"}
         /\ wpc[s] \in {"create", "ready", "finish"} \/ InCompletion(s) \/ InTail(s) => s \in workers
<1>1. side[s] \in States
  BY DEF TypeInv, InstanceType
<1>2. QED
  BY <1>1 DEF States, SideOk, UninitializedOk, InitializingOk, InitializedOk, UninitializingOk,
              InCompletion, InTail, StarterSteps, TailSteps

\* The phase, when no side and nothing of the controller changes.
LEMMA PhaseKept ==
  ASSUME PhaseOk, UNCHANGED <<workers, side, stopped, cpc, cside, phase>>
  PROVE  PhaseOk'
  BY DEF PhaseOk, Down, Up, GoingUp, GoingDown

\* A starter or a finisher changes the state of its side.
LEMMA PhaseMoves ==
  ASSUME PhaseOk, NEW s \in Sides, s \in workers, UNCHANGED <<workers, stopped, cpc, cside, phase>>,
         \/ side[s] = "Initializing" /\ side'[s] = "Initialized"
         \/ side[s] = "Uninitializing" /\ side'[s] = "Uninitialized",
         \A o \in Sides : o # s => side'[o] = side[o]
  PROVE  PhaseOk'
<1>1. s \in {"rx", "tx"} /\ "rx" \in Sides /\ "tx" \in Sides
  BY DEF Sides
<1>2. \A o \in Sides : /\ GoingUp(o) => GoingUp(o)'
                       /\ GoingDown(o) => GoingDown(o)'
                       /\ Up(o) => Up(o)'
                       /\ Down(o) => Down(o)'
  BY DEF Up, Down, GoingUp, GoingDown
<1>3. QED
  BY <1>1, <1>2 DEF PhaseOk

\* A step outside the starters and the finishers.
LEMMA PlainStep ==
  ASSUME TypeInv, ControlInv, \A s \in Sides : SamePosted(s),
         UNCHANGED <<workers, init_state, side, stopped, flags, plive, cpc, cside, phase>>,
         \A s \in Sides : wpc'[s] = wpc[s] \/ (wpc[s] \in PlainSteps /\ wpc'[s] \in PlainSteps),
         ended' # "unexpected_state"
  PROVE  ControlInv'
<1>1. \A s \in Sides : SideOk(s)'
  BY SideKept DEF ControlInv
<1>2. PhaseOk /\ StartOk /\ StopOk /\ RestOk /\ cside \in Sides /\ workers \subseteq Sides
  BY DEF ControlInv, TypeInv, ControlType, InstanceType
<1> USE DEF PlainSteps, ReceiverSteps, BufferSteps, TransmitSteps, StarterSteps, TailSteps
<1>3. /\ \A s \in Sides : (InTail(s)' <=> InTail(s)) /\ (InCompletion(s)' <=> InCompletion(s))
      /\ "rx" \in Sides /\ "tx" \in Sides
  BY DEF InTail, InCompletion, Sides
<1>4. PhaseOk'
  BY <1>2, PhaseKept
<1>5. StartOk'
  BY <1>2, <1>3 DEF StartOk, AllUp, Up
<1>6. StopOk'
  BY <1>2, <1>3 DEF StopOk, AllDown, Down, OneTail
<1>7. RestOk'
  BY <1>2, <1>3 DEF RestOk, OneTail
<1>8. QED
  BY <1>1, <1>4, <1>5, <1>6, <1>7 DEF ControlInv

\* The states a side can be in, by phase.
LEMMA StateIn ==
  ASSUME TypeInv, PhaseOk, NEW s \in Sides
  PROVE  /\ phase = "starting" => side[s] # "Uninitializing" \/ s \notin workers
         /\ phase = "stopping" => side[s] # "Initializing" \/ s \notin workers
         /\ phase = "running" => Up(s)
         /\ phase = "stopped" => Down(s)
<1>1. /\ s \in {"rx", "tx"} /\ cside \in {"rx", "tx"}
  BY DEF TypeInv, ControlType, Sides
<1>2. /\ phase = "starting" <=> cpc \in Starting
      /\ phase = "stopping" <=> cpc \in Stopping
  BY DEF PhaseOk
<1>3. phase = "starting" => Down(s) \/ GoingUp(s)
  BY <1>1, <1>2 DEF PhaseOk, Starting
<1>4. phase = "stopping" => Up(s) \/ GoingDown(s)
  BY <1>1, <1>2 DEF PhaseOk, Stopping
<1>5. (phase = "running" => Up(s)) /\ (phase = "stopped" => Down(s))
  BY <1>1 DEF PhaseOk
<1>6. QED
  BY <1>3, <1>4, <1>5 DEF Up, Down, GoingUp, GoingDown

\* A step of the worker of s leaves the other side alone.
LEMMA OtherSide ==
  ASSUME ControlInv, NEW s \in Sides,
         UNCHANGED <<workers, cpc, cside>>,
         \A o \in Sides : o # s =>
            side'[o] = side[o] /\ plive'[o] = plive[o] /\ wpc'[o] = wpc[o] /\ queue'[o] = queue[o]
  PROVE  \A o \in Sides : o # s => SideOk(o)'
<1> SUFFICES ASSUME NEW o \in Sides, o # s PROVE SideOk(o)'
  OBVIOUS
<1>1. SideOk(o) /\ SamePosted(o)
  BY SameQueue DEF ControlInv
<1>2. QED
  BY <1>1, SideKept

\* The steps of starter_f, of finisher_f and of the completion functions.
LEMMA HandshakeStep ==
  ASSUME TypeInv, ControlInv, NEW s \in Sides,
         \/ StarterCreate(s) \/ StarterReady(s) \/ StarterPost(s)
         \/ StartedRx(s) \/ StartedTx(s) \/ StartedStore(s) \/ StartedSend(s)
         \/ Finisher(s) \/ FinisherDestroy(s)
         \/ StoppedRx(s) \/ StoppedTx(s) \/ StoppedStore(s) \/ StoppedSend(s)
  PROVE  ControlInv'
<1>1. /\ wpc \in [Sides -> WorkerSteps] /\ side \in [Sides -> States] /\ plive \in [Sides -> BOOLEAN]
      /\ queue \in [Sides -> Seq(Actions)] /\ cside \in Sides /\ workers \subseteq Sides
      /\ workers # {} /\ flags \subseteq {"started", "stopped"}
  BY DEF TypeInv, WorkInv, WorkType, InstanceType, PoolsType, ControlType
<1>2. /\ SideOk(s) /\ PhaseOk /\ StartOk /\ StopOk /\ RestOk /\ ended # "unexpected_state"
  BY DEF ControlInv
<1>3. /\ UNCHANGED <<workers, stopped, cpc, cside, phase, ended>>
      /\ \A o \in Sides : o # s =>
            side'[o] = side[o] /\ plive'[o] = plive[o] /\ wpc'[o] = wpc[o] /\ queue'[o] = queue[o]
  BY <1>1 DEF StarterCreate, StarterReady, StarterPost, StartedRx, StartedTx, StartedStore,
       StartedSend, Finisher, FinisherDestroy, StoppedRx, StoppedTx, StoppedStore, StoppedSend,
       WorkerOnly, WorkerGo, Post, instance, pools, control
<1>4. \A o \in Sides : o # s => SideOk(o)'
  BY <1>3, OtherSide
<1>5. s \in {"rx", "tx"} /\ "rx" \in Sides /\ "tx" \in Sides
  BY DEF Sides
<1>6. \A o \in Sides :
        /\ wpc[o] \in {"create", "ready"} => side[o] = "Initializing" /\ InitializingOk(o)
        /\ wpc[o] = "finish" => side[o] = "Uninitializing" /\ UninitializingOk(o)
        /\ InCompletion(o) => side[o] \in {"Initialized", "Uninitializing"}
        /\ InTail(o) => side[o] \in {"Uninitialized", "Initializing"}
        /\ wpc[o] \in {"create", "ready", "finish"} \/ InCompletion(o) \/ InTail(o) => o \in workers
  BY StateAt DEF ControlInv
<1>7. \A o \in Sides :
        /\ phase = "starting" => side[o] # "Uninitializing" \/ o \notin workers
        /\ phase = "stopping" => side[o] # "Initializing" \/ o \notin workers
        /\ phase = "running" => Up(o)
        /\ phase = "stopped" => Down(o)
  BY <1>2, StateIn
<1> USE DEF StarterSteps, TailSteps, ReceiverSteps, BufferSteps, TransmitSteps
<1>8. CASE StarterCreate(s)
  <2>1. /\ wpc'[s] = "ready" /\ wpc[s] = "create"
        /\ side' = side /\ plive'[s] = TRUE /\ UNCHANGED <<init_state, flags>>
    BY <1>1, <1>8 DEF StarterCreate, WorkerOnly, WorkerGo, instance, pools, control
  <2>2. SamePosted(s)
    BY <1>8, SameQueue DEF StarterCreate, WorkerOnly
  <2>3. SideOk(s)'
    BY <1>2, <1>3, <1>6, <2>1, <2>2 DEF SideOk, SamePosted, Posted, InTail, InCompletion, UninitializedOk, InitializingOk, InitializedOk, UninitializingOk
  <2>4. PhaseOk'
    BY <1>2, <1>3, <2>1, PhaseKept
  <2>5. StartOk'
    BY <1>1, <1>2, <1>3, <1>5, <1>6, <1>7, <2>1 DEF StartOk, AllUp, Up, InCompletion, InTail
  <2>6. StopOk'
    BY <1>1, <1>2, <1>3, <1>5, <1>6, <1>7, <2>1 DEF StopOk, AllDown, Down, OneTail, InCompletion, InTail
  <2>7. RestOk'
    BY <1>2, <1>3, <1>5, <1>6, <1>7, <2>1 DEF RestOk, Down, Up, OneTail, InTail, InCompletion
  <2>8. QED
    BY <1>2, <1>3, <1>4, <2>3, <2>4, <2>5, <2>6, <2>7 DEF ControlInv
<1>9. CASE StarterReady(s)
  <2>1. /\ wpc'[s] = (IF s = "rx" THEN "post" ELSE "started_rx") /\ wpc[s] = "ready"
        /\ side'[s] = "Initialized" /\ plive' = plive /\ UNCHANGED <<init_state, flags>>
    BY <1>1, <1>9 DEF StarterReady, WorkerOnly, WorkerGo, instance, pools, control
  <2>2. SamePosted(s)
    BY <1>9, SameQueue DEF StarterReady, WorkerOnly
  <2>3. SideOk(s)'
    BY <1>2, <1>3, <1>6, <2>1, <2>2 DEF SideOk, SamePosted, Posted, InTail, InCompletion, UninitializedOk, InitializingOk, InitializedOk, UninitializingOk
  <2>4. PhaseOk'
    <3>1. s \in workers
      BY <1>6, <2>1
    <3>2. QED
      BY <1>2, <1>3, <1>6, <2>1, <3>1, PhaseMoves
  <2>5. StartOk'
    <3>1. s \in workers /\ side[s] # "Initialized" /\ InCompletion(s)'
      BY <1>5, <1>6, <2>1 DEF InCompletion
    <3>2. ~AllUp /\ (Up("rx") => Up("rx")')
      BY <1>1, <1>3, <1>5, <2>1, <3>1 DEF AllUp, Up
    <3>3. \A o \in Sides : wpc'[o] \in {"started_tx", "started", "send_started"} => wpc'[o] = wpc[o]
      BY <1>3, <2>1
    <3>4. QED
      BY <1>2, <1>3, <2>1, <3>1, <3>2, <3>3 DEF StartOk
  <2>6. StopOk'
    BY <1>1, <1>2, <1>3, <1>5, <1>6, <1>7, <2>1 DEF StopOk, AllDown, Down, OneTail, InCompletion, InTail
  <2>7. RestOk'
    BY <1>2, <1>3, <1>5, <1>6, <1>7, <2>1 DEF RestOk, Down, Up, OneTail, InTail, InCompletion
  <2>8. QED
    BY <1>2, <1>3, <1>4, <2>3, <2>4, <2>5, <2>6, <2>7 DEF ControlInv
<1>10. CASE StarterPost(s)
  <2>1. /\ wpc'[s] = "started_rx" /\ wpc[s] = "post"
        /\ side' = side /\ plive' = plive /\ UNCHANGED <<init_state, flags>>
    BY <1>1, <1>10 DEF StarterPost, WorkerOnly, WorkerGo, instance, pools, control
  <2>2. SamePosted(s)
    <3>1. "rx" \in Actions /\ queue[s] \in Seq(Actions) /\ queue'[s] = Append(queue[s], "rx")
      BY <1>1, <1>10 DEF StarterPost, Post, Actions
    <3>2. QED
      BY <3>1, AppendedHas DEF SamePosted
  <2>3. SideOk(s)'
    BY <1>2, <1>3, <1>6, <2>1, <2>2 DEF SideOk, SamePosted, Posted, InTail, InCompletion, UninitializedOk, InitializingOk, InitializedOk, UninitializingOk
  <2>4. PhaseOk'
    BY <1>2, <1>3, <2>1, PhaseKept
  <2>5. StartOk'
    BY <1>1, <1>2, <1>3, <1>5, <1>6, <1>7, <2>1 DEF StartOk, AllUp, Up, InCompletion, InTail
  <2>6. StopOk'
    BY <1>1, <1>2, <1>3, <1>5, <1>6, <1>7, <2>1 DEF StopOk, AllDown, Down, OneTail, InCompletion, InTail
  <2>7. RestOk'
    BY <1>2, <1>3, <1>5, <1>6, <1>7, <2>1 DEF RestOk, Down, Up, OneTail, InTail, InCompletion
  <2>8. QED
    BY <1>2, <1>3, <1>4, <2>3, <2>4, <2>5, <2>6, <2>7 DEF ControlInv
<1>11. CASE StartedRx(s)
  <2>1. /\ wpc'[s] = (IF SideStarted("rx") THEN "started_tx" ELSE "done") /\ wpc[s] = "started_rx"
        /\ side' = side /\ plive' = plive /\ UNCHANGED <<init_state, flags>>
    BY <1>1, <1>11 DEF StartedRx, WorkerOnly, WorkerGo, instance, pools, control, SideStarted
  <2>2. SamePosted(s)
    BY <1>11, SameQueue DEF StartedRx, WorkerOnly
  <2>3. SideOk(s)'
    BY <1>2, <1>3, <1>6, <2>1, <2>2 DEF SideOk, SamePosted, Posted, InTail, InCompletion, UninitializedOk, InitializingOk, InitializedOk, UninitializingOk, SideStarted
  <2>4. PhaseOk'
    BY <1>2, <1>3, <2>1, PhaseKept
  <2>5. StartOk'
    BY <1>1, <1>2, <1>3, <1>5, <1>6, <1>7, <2>1 DEF StartOk, AllUp, Up, InCompletion, InTail, SideStarted
  <2>6. StopOk'
    BY <1>1, <1>2, <1>3, <1>5, <1>6, <1>7, <2>1 DEF StopOk, AllDown, Down, OneTail, InCompletion, InTail, SideStarted
  <2>7. RestOk'
    BY <1>2, <1>3, <1>5, <1>6, <1>7, <2>1 DEF RestOk, Down, Up, OneTail, InTail, InCompletion, SideStarted
  <2>8. QED
    BY <1>2, <1>3, <1>4, <2>3, <2>4, <2>5, <2>6, <2>7 DEF ControlInv
<1>12. CASE StartedTx(s)
  <2>1. /\ wpc'[s] = (IF SideStarted("tx") THEN "started" ELSE "done") /\ wpc[s] = "started_tx"
        /\ side' = side /\ plive' = plive /\ UNCHANGED <<init_state, flags>>
    BY <1>1, <1>12 DEF StartedTx, WorkerOnly, WorkerGo, instance, pools, control, SideStarted
  <2>2. SamePosted(s)
    BY <1>12, SameQueue DEF StartedTx, WorkerOnly
  <2>3. SideOk(s)'
    BY <1>2, <1>3, <1>6, <2>1, <2>2 DEF SideOk, SamePosted, Posted, InTail, InCompletion, UninitializedOk, InitializingOk, InitializedOk, UninitializingOk, SideStarted
  <2>4. PhaseOk'
    BY <1>2, <1>3, <2>1, PhaseKept
  <2>5. StartOk'
    <3>1. phase = "starting" => Up("rx")
      BY <1>2, <1>5, <2>1 DEF StartOk
    <3>2. phase = "starting" /\ SideStarted("tx") => AllUp
      BY <1>1, <3>1 DEF AllUp, SideStarted, Up, Sides
    <3>3. AllUp => wpc'[s] = "started"
      BY <1>5, <2>1 DEF AllUp, SideStarted
    <3>4. s \in workers /\ InCompletion(s) /\ (AllUp => InCompletion(s)')
      BY <1>6, <2>1, <3>3 DEF InCompletion
    <3>5. (AllUp' <=> AllUp) /\ (Up("rx")' <=> Up("rx"))
      BY <1>3, <2>1 DEF AllUp, Up
    <3>6. QED
      BY <1>2, <1>3, <2>1, <3>1, <3>2, <3>4, <3>5 DEF StartOk
  <2>6. StopOk'
    BY <1>1, <1>2, <1>3, <1>5, <1>6, <1>7, <2>1 DEF StopOk, AllDown, Down, OneTail, InCompletion, InTail, SideStarted
  <2>7. RestOk'
    BY <1>2, <1>3, <1>5, <1>6, <1>7, <2>1 DEF RestOk, Down, Up, OneTail, InTail, InCompletion, SideStarted
  <2>8. QED
    BY <1>2, <1>3, <1>4, <2>3, <2>4, <2>5, <2>6, <2>7 DEF ControlInv
<1>13. CASE StartedStore(s)
  <2>1. /\ wpc'[s] = "send_started" /\ wpc[s] = "started"
        /\ side' = side /\ plive' = plive /\ init_state' = "Initialized" /\ flags' = flags
    BY <1>1, <1>13 DEF StartedStore, WorkerOnly, WorkerGo, instance, pools, control
  <2>2. SamePosted(s)
    BY <1>13, SameQueue DEF StartedStore, WorkerOnly
  <2>3. SideOk(s)'
    BY <1>2, <1>3, <1>6, <2>1, <2>2 DEF SideOk, SamePosted, Posted, InTail, InCompletion, UninitializedOk, InitializingOk, InitializedOk, UninitializingOk
  <2>4. PhaseOk'
    BY <1>2, <1>3, <2>1, PhaseKept
  <2>5. StartOk'
    BY <1>1, <1>2, <1>3, <1>5, <1>6, <1>7, <2>1 DEF StartOk, AllUp, Up, InCompletion, InTail
  <2>6. StopOk'
    <3>1. ~AllDown /\ ~AllDown'
      BY <1>6, <2>1 DEF AllDown, InCompletion
    <3>2. \A o \in Sides : wpc'[o] \in {"stopped_tx", "stopped", "send_stopped"} => wpc'[o] = wpc[o]
      BY <1>3, <2>1
    <3>3. QED
      BY <1>2, <1>3, <1>5, <2>1, <3>1, <3>2 DEF StopOk, Down
  <2>7. RestOk'
    BY <1>2, <1>3, <1>5, <1>6, <1>7, <2>1 DEF RestOk, Down, Up, OneTail, InTail, InCompletion
  <2>8. QED
    BY <1>2, <1>3, <1>4, <2>3, <2>4, <2>5, <2>6, <2>7 DEF ControlInv
<1>14. CASE StartedSend(s)
  <2>1. /\ wpc'[s] = "done" /\ wpc[s] = "send_started"
        /\ side' = side /\ plive' = plive /\ init_state' = init_state /\ flags' = flags \union {"started"}
    BY <1>1, <1>14 DEF StartedSend, WorkerOnly, WorkerGo, instance, pools, control
  <2>2. SamePosted(s)
    BY <1>14, SameQueue DEF StartedSend, WorkerOnly
  <2>3. SideOk(s)'
    BY <1>2, <1>3, <1>6, <2>1, <2>2 DEF SideOk, SamePosted, Posted, InTail, InCompletion, UninitializedOk, InitializingOk, InitializedOk, UninitializingOk
  <2>4. PhaseOk'
    BY <1>2, <1>3, <2>1, PhaseKept
  <2>5. StartOk'
    BY <1>1, <1>2, <1>3, <1>5, <1>6, <1>7, <2>1 DEF StartOk, AllUp, Up, InCompletion, InTail
  <2>6. StopOk'
    BY <1>1, <1>2, <1>3, <1>5, <1>6, <1>7, <2>1 DEF StopOk, AllDown, Down, OneTail, InCompletion, InTail
  <2>7. RestOk'
    BY <1>2, <1>3, <1>5, <1>6, <1>7, <2>1 DEF RestOk, Down, Up, OneTail, InTail, InCompletion
  <2>8. QED
    BY <1>2, <1>3, <1>4, <2>3, <2>4, <2>5, <2>6, <2>7 DEF ControlInv
<1>15. CASE Finisher(s)
  <2>1. /\ wpc'[s] = "destroy" /\ wpc[s] = "finish"
        /\ side'[s] = "Uninitialized" /\ plive' = plive /\ UNCHANGED <<init_state, flags>>
    BY <1>1, <1>6, <1>15 DEF Finisher, WorkerOnly, WorkerGo, instance, pools, control
  <2>2. SamePosted(s)
    BY <1>15, SameQueue DEF Finisher, WorkerOnly
  <2>3. SideOk(s)'
    BY <1>2, <1>3, <1>6, <2>1, <2>2 DEF SideOk, SamePosted, Posted, InTail, InCompletion, UninitializedOk, InitializingOk, InitializedOk, UninitializingOk
  <2>4. PhaseOk'
    <3>1. s \in workers
      BY <1>6, <2>1
    <3>2. QED
      BY <1>2, <1>3, <1>6, <2>1, <3>1, PhaseMoves
  <2>5. StartOk'
    BY <1>1, <1>2, <1>3, <1>5, <1>6, <1>7, <2>1 DEF StartOk, AllUp, Up, InCompletion, InTail
  <2>6. StopOk'
    BY <1>1, <1>2, <1>3, <1>5, <1>6, <1>7, <2>1 DEF StopOk, AllDown, Down, OneTail, InCompletion, InTail
  <2>7. RestOk'
    BY <1>2, <1>3, <1>5, <1>6, <1>7, <2>1 DEF RestOk, Down, Up, OneTail, InTail, InCompletion
  <2>8. QED
    BY <1>2, <1>3, <1>4, <2>3, <2>4, <2>5, <2>6, <2>7 DEF ControlInv
<1>16. CASE FinisherDestroy(s)
  <2>1. /\ wpc'[s] = "stopped_rx" /\ wpc[s] = "destroy"
        /\ side' = side /\ plive'[s] = FALSE /\ UNCHANGED <<init_state, flags>>
    BY <1>1, <1>16 DEF FinisherDestroy, WorkerOnly, WorkerGo, instance, pools, control
  <2>2. SamePosted(s)
    BY <1>16, SameQueue DEF FinisherDestroy, WorkerOnly
  <2>3. SideOk(s)'
    BY <1>2, <1>3, <1>6, <2>1, <2>2 DEF SideOk, SamePosted, Posted, InTail, InCompletion, UninitializedOk, InitializingOk, InitializedOk, UninitializingOk
  <2>4. PhaseOk'
    BY <1>2, <1>3, <2>1, PhaseKept
  <2>5. StartOk'
    BY <1>1, <1>2, <1>3, <1>5, <1>6, <1>7, <2>1 DEF StartOk, AllUp, Up, InCompletion, InTail
  <2>6. StopOk'
    BY <1>1, <1>2, <1>3, <1>5, <1>6, <1>7, <2>1 DEF StopOk, AllDown, Down, OneTail, InCompletion, InTail
  <2>7. RestOk'
    BY <1>2, <1>3, <1>5, <1>6, <1>7, <2>1 DEF RestOk, Down, Up, OneTail, InTail, InCompletion
  <2>8. QED
    BY <1>2, <1>3, <1>4, <2>3, <2>4, <2>5, <2>6, <2>7 DEF ControlInv
<1>17. CASE StoppedRx(s)
  <2>1. /\ wpc'[s] = (IF SideStopped("rx") THEN "stopped_tx" ELSE "done") /\ wpc[s] = "stopped_rx"
        /\ side' = side /\ plive' = plive /\ UNCHANGED <<init_state, flags>>
    BY <1>1, <1>17 DEF StoppedRx, WorkerOnly, WorkerGo, instance, pools, control, SideStopped
  <2>2. SamePosted(s)
    BY <1>17, SameQueue DEF StoppedRx, WorkerOnly
  <2>3. SideOk(s)'
    BY <1>2, <1>3, <1>6, <2>1, <2>2 DEF SideOk, SamePosted, Posted, InTail, InCompletion, UninitializedOk, InitializingOk, InitializedOk, UninitializingOk, SideStopped
  <2>4. PhaseOk'
    BY <1>2, <1>3, <2>1, PhaseKept
  <2>5. StartOk'
    BY <1>1, <1>2, <1>3, <1>5, <1>6, <1>7, <2>1 DEF StartOk, AllUp, Up, InCompletion, InTail, SideStopped
  <2>6. StopOk'
    <3>1. AllDown => wpc'[s] = "stopped_tx"
      BY <1>5, <2>1 DEF AllDown, SideStopped
    <3>2. s \in workers /\ InTail(s) /\ (AllDown => InTail(s)') /\ (OneTail => OneTail')
      BY <1>3, <1>5, <1>6, <2>1, <3>1 DEF InTail, OneTail
    <3>3. (AllDown' <=> AllDown) /\ (Down("rx")' <=> Down("rx"))
      BY <2>1 DEF AllDown, Down
    <3>4. wpc'[s] = "stopped_tx" => Down("rx")
      BY <2>1 DEF SideStopped, Down
    <3>5. QED
      BY <1>2, <1>3, <2>1, <3>2, <3>3, <3>4 DEF StopOk
  <2>7. RestOk'
    BY <1>2, <1>3, <1>5, <1>6, <1>7, <2>1 DEF RestOk, Down, Up, OneTail, InTail, InCompletion, SideStopped
  <2>8. QED
    BY <1>2, <1>3, <1>4, <2>3, <2>4, <2>5, <2>6, <2>7 DEF ControlInv
<1>18. CASE StoppedTx(s)
  <2>1. /\ wpc'[s] = (IF SideStopped("tx") THEN "stopped" ELSE "done") /\ wpc[s] = "stopped_tx"
        /\ side' = side /\ plive' = plive /\ UNCHANGED <<init_state, flags>>
    BY <1>1, <1>18 DEF StoppedTx, WorkerOnly, WorkerGo, instance, pools, control, SideStopped
  <2>2. SamePosted(s)
    BY <1>18, SameQueue DEF StoppedTx, WorkerOnly
  <2>3. SideOk(s)'
    BY <1>2, <1>3, <1>6, <2>1, <2>2 DEF SideOk, SamePosted, Posted, InTail, InCompletion, UninitializedOk, InitializingOk, InitializedOk, UninitializingOk, SideStopped
  <2>4. PhaseOk'
    BY <1>2, <1>3, <2>1, PhaseKept
  <2>5. StartOk'
    BY <1>1, <1>2, <1>3, <1>5, <1>6, <1>7, <2>1 DEF StartOk, AllUp, Up, InCompletion, InTail, SideStopped
  <2>6. StopOk'
    <3>1. phase = "stopping" => Down("rx")
      BY <1>2, <1>5, <2>1 DEF StopOk
    <3>2. phase = "stopping" /\ SideStopped("tx") => AllDown
      BY <3>1 DEF AllDown, SideStopped, Down, Sides
    <3>3. AllDown => wpc'[s] = "stopped"
      BY <1>5, <2>1 DEF AllDown, SideStopped
    <3>4. s \in workers /\ InTail(s) /\ (AllDown => InTail(s)') /\ (OneTail => OneTail')
      BY <1>3, <1>5, <1>6, <2>1, <3>3 DEF InTail, OneTail
    <3>5. (AllDown' <=> AllDown) /\ (Down("rx")' <=> Down("rx"))
      BY <2>1 DEF AllDown, Down
    <3>6. QED
      BY <1>2, <1>3, <2>1, <3>1, <3>2, <3>4, <3>5 DEF StopOk
  <2>7. RestOk'
    BY <1>2, <1>3, <1>5, <1>6, <1>7, <2>1 DEF RestOk, Down, Up, OneTail, InTail, InCompletion, SideStopped
  <2>8. QED
    BY <1>2, <1>3, <1>4, <2>3, <2>4, <2>5, <2>6, <2>7 DEF ControlInv
<1>19. CASE StoppedStore(s)
  <2>1. /\ wpc'[s] = "send_stopped" /\ wpc[s] = "stopped"
        /\ side' = side /\ plive' = plive /\ init_state' = "Uninitialized" /\ flags' = flags
    BY <1>1, <1>19 DEF StoppedStore, WorkerOnly, WorkerGo, instance, pools, control
  <2>2. SamePosted(s)
    BY <1>19, SameQueue DEF StoppedStore, WorkerOnly
  <2>3. SideOk(s)'
    BY <1>2, <1>3, <1>6, <2>1, <2>2 DEF SideOk, SamePosted, Posted, InTail, InCompletion, UninitializedOk, InitializingOk, InitializedOk, UninitializingOk
  <2>4. PhaseOk'
    BY <1>2, <1>3, <2>1, PhaseKept
  <2>5. StartOk'
    <3>1. ~AllUp /\ ~AllUp'
      BY <1>3, <1>6, <2>1 DEF AllUp, InTail
    <3>2. \A o \in Sides : wpc'[o] \in {"started_tx", "started", "send_started"} => wpc'[o] = wpc[o]
      BY <1>3, <2>1
    <3>3. QED
      BY <1>2, <1>3, <1>5, <2>1, <3>1, <3>2 DEF StartOk, Up
  <2>6. StopOk'
    BY <1>1, <1>2, <1>3, <1>5, <1>6, <1>7, <2>1 DEF StopOk, AllDown, Down, OneTail, InCompletion, InTail
  <2>7. RestOk'
    BY <1>2, <1>3, <1>5, <1>6, <1>7, <2>1 DEF RestOk, Down, Up, OneTail, InTail, InCompletion
  <2>8. QED
    BY <1>2, <1>3, <1>4, <2>3, <2>4, <2>5, <2>6, <2>7 DEF ControlInv
<1>20. CASE StoppedSend(s)
  <2>1. /\ wpc'[s] = "done" /\ wpc[s] = "send_stopped"
        /\ side' = side /\ plive' = plive /\ init_state' = init_state /\ flags' = flags \union {"stopped"}
    BY <1>1, <1>20 DEF StoppedSend, WorkerOnly, WorkerGo, instance, pools, control
  <2>2. SamePosted(s)
    BY <1>20, SameQueue DEF StoppedSend, WorkerOnly
  <2>3. SideOk(s)'
    BY <1>2, <1>3, <1>6, <2>1, <2>2 DEF SideOk, SamePosted, Posted, InTail, InCompletion, UninitializedOk, InitializingOk, InitializedOk, UninitializingOk
  <2>4. PhaseOk'
    BY <1>2, <1>3, <2>1, PhaseKept
  <2>5. StartOk'
    BY <1>1, <1>2, <1>3, <1>5, <1>6, <1>7, <2>1 DEF StartOk, AllUp, Up, InCompletion, InTail
  <2>6. StopOk'
    BY <1>1, <1>2, <1>3, <1>5, <1>6, <1>7, <2>1 DEF StopOk, AllDown, Down, OneTail, InCompletion, InTail
  <2>7. RestOk'
    BY <1>2, <1>3, <1>5, <1>6, <1>7, <2>1 DEF RestOk, Down, Up, OneTail, InTail, InCompletion
  <2>8. QED
    BY <1>2, <1>3, <1>4, <2>3, <2>4, <2>5, <2>6, <2>7 DEF ControlInv
<1>21. QED
  BY <1>8, <1>9, <1>10, <1>11, <1>12, <1>13, <1>14, <1>15, <1>16, <1>17, <1>18, <1>19, <1>20

\* An action that is no starter and no finisher is posted.
LEMMA OtherPosted ==
  ASSUME TypeInv, NEW s \in Sides, NEW a \in ActionsOf(s), a \notin {"start", "finish"}, Post(s, a)
  PROVE  \A o \in Sides : SamePosted(o)
<1>1. /\ \A o \in Sides : o # s => queue'[o] = queue[o]
      /\ queue'[s] = Append(queue[s], a) /\ queue[s] \in Seq(Actions)
  BY Appended DEF TypeInv, WorkInv
<1>2. a \in Actions
  BY DEF ActionsOf, Actions
<1>3. SamePosted(s)
  BY <1>1, <1>2, AppendedHas DEF SamePosted
<1>4. QED
  BY <1>1, <1>3, SameQueue

\* rx_f, tx_f, and the end of an action.
LEMMA PlainWorkerStep ==
  ASSUME TypeInv, ControlInv, NEW s \in Sides,
         \/ WorkerDone(s)
         \/ Receive(s) \/ ReceiveAlloc(s) \/ ReceiveRead(s) \/ asyncio_release_rx_buffer(s)
         \/ ReceiveCallback(s) \/ ReceiveRepost(s) \/ ReceiveFree(s)
         \/ Transmit(s) \/ TransmitWrite(s) \/ TransmitFree(s)
  PROVE  ControlInv'
<1>1. /\ wpc \in [Sides -> WorkerSteps] /\ ended # "unexpected_state" /\ "rx" \in Sides
      /\ "rx" \in ActionsOf("rx") /\ "rx" \notin {"start", "finish"}
  BY DEF TypeInv, WorkInv, WorkType, ControlInv, Sides, ActionsOf
<1>2. UNCHANGED <<workers, init_state, side, stopped, flags, plive, cpc, cside, phase>>
  BY DEF WorkerDone, Receive, ReceiveAlloc, ReceiveRead, asyncio_release_rx_buffer,
         ReceiveCallback, ReceiveRepost, ReceiveFree, Transmit, TransmitWrite, TransmitFree,
         WorkerOnly, instance, pools, control
<1>3. ended' # "unexpected_state"
  BY <1>1 DEF WorkerDone, Receive, ReceiveAlloc, ReceiveRead, asyncio_release_rx_buffer,
         ReceiveCallback, ReceiveRepost, ReceiveFree, Transmit, TransmitWrite, TransmitFree,
         WorkerOnly, PoolFree, End
<1>4. \A o \in Sides : wpc'[o] = wpc[o] \/ (wpc[o] \in PlainSteps /\ wpc'[o] \in PlainSteps)
  BY <1>1 DEF WorkerDone, Receive, ReceiveAlloc, ReceiveRead, asyncio_release_rx_buffer,
         ReceiveCallback, ReceiveRepost, ReceiveFree, Transmit, TransmitWrite, TransmitFree,
         WorkerOnly, WorkerGo, work, PlainSteps, ReceiverSteps, BufferSteps, TransmitSteps
<1>5. queue' = queue \/ Post("rx", "rx")
  BY DEF WorkerDone, Receive, ReceiveAlloc, ReceiveRead, asyncio_release_rx_buffer,
         ReceiveCallback, ReceiveRepost, ReceiveFree, Transmit, TransmitWrite, TransmitFree,
         WorkerOnly, work
<1>6. \A o \in Sides : SamePosted(o)
  BY <1>1, <1>5, OtherPosted, SameQueue
<1>7. QED
  BY <1>2, <1>3, <1>4, <1>6, PlainStep

\* The steps of a caller.
LEMMA PlainCallerStep ==
  ASSUME TypeInv, ControlInv, NEW a \in Callers,
         \/ asyncio_allocate_tx_token(a) \/ asyncio_send_buffer(a)
         \/ asyncio_release_tx_token(a) \/ Forget(a) \/ CallerStep(a)
  PROVE  ControlInv'
<1>1. /\ ended # "unexpected_state" /\ "tx" \in Sides
  BY DEF ControlInv, Sides
<1>2. UNCHANGED <<workers, init_state, side, stopped, flags, plive, cpc, cside, phase, wpc>>
  BY DEF asyncio_allocate_tx_token, asyncio_send_buffer, asyncio_release_tx_token, Forget,
         CallerStep, TokenAlloc, SendDispatch, ReleaseFree, CallerOnly, instance, pools, control, work
<1>3. ended' # "unexpected_state"
  BY <1>1 DEF asyncio_allocate_tx_token, asyncio_send_buffer, asyncio_release_tx_token, Forget,
         CallerStep, TokenAlloc, SendDispatch, ReleaseFree, CallerOnly, PoolFree, End
<1>4. CASE SendDispatch(a)
  <2>1. /\ tok[a] \in ActionsOf("tx") /\ tok[a] \notin {"start", "finish"}
        /\ Post("tx", tok[a])
    BY <1>4, AsyncioAssumption DEF SendDispatch, TypeInv, CallersInv, CallersType, UsesOk, ActionsOf
  <2>2. \A o \in Sides : SamePosted(o)
    BY <1>1, <2>1, OtherPosted
  <2>3. QED
    BY <1>2, <1>3, <2>2, PlainStep
<1>5. CASE ~SendDispatch(a)
  <2>1. queue' = queue
    BY <1>5 DEF asyncio_allocate_tx_token, asyncio_send_buffer, asyncio_release_tx_token, Forget,
         CallerStep, TokenAlloc, ReleaseFree, CallerOnly, work
  <2>2. \A o \in Sides : SamePosted(o)
    BY <2>1, SameQueue
  <2>3. QED
    BY <1>2, <1>3, <2>2, PlainStep
<1>6. QED
  BY <1>4, <1>5

\* The worker takes an action.
LEMMA TakeStep ==
  ASSUME TypeInv, ControlInv, NEW s \in Sides, WorkerTake(s)
  PROVE  ControlInv'
<1> DEFINE a == Head(queue[s])
<1>1. /\ wpc \in [Sides -> WorkerSteps] /\ queue \in [Sides -> Seq(Actions)] /\ QueuesOk
      /\ side[s] \in States
  BY DEF TypeInv, WorkInv, WorkType, InstanceType
<1>2. /\ queue[s] # <<>> /\ queue' = [queue EXCEPT ![s] = Tail(@)] /\ wpc[s] = "wait"
      /\ wpc'[s] = (IF a = "start" THEN "create" ELSE IF a = "finish" THEN "finish"
                    ELSE IF a = "rx" THEN "rx" ELSE "tx")
      /\ \A o \in Sides : o # s => wpc'[o] = wpc[o] /\ queue'[o] = queue[o]
      /\ UNCHANGED <<workers, init_state, side, stopped, flags, plive, cpc, cside, phase, ended>>
  BY <1>1 DEF WorkerTake, WorkerGo, instance, pools, control
<1>3. /\ a \in ActionsOf(s) /\ Len(queue[s]) \in Nat \ {0} /\ a = queue[s][1]
      /\ Len(queue'[s]) = Len(queue[s]) - 1
      /\ \A i \in 1..Len(queue'[s]) :
            queue'[s][i] = queue[s][i + 1] /\ i + 1 \in 1..Len(queue[s])
  BY <1>1, <1>2, Taken
<1>4. PICK h \in ActionsOf(s) : h = a
  BY <1>3
<1>5. /\ \A b : Has(s, b) <=> Has(s, b)' \/ b = h
      /\ \A A : Once(s, A) => Once(s, A)'
      /\ \A A : Once(s, A) /\ h \in A => \A b \in A : ~Has(s, b)'
  BY <1>3, <1>4, TakenHas
<1>6. /\ SideOk(s) /\ PhaseOk /\ StartOk /\ StopOk /\ RestOk /\ ended # "unexpected_state"
      /\ Once(s, {"start", "finish"}) /\ workers \subseteq Sides
  BY DEF ControlInv, SideOk, TypeInv, InstanceType
<1>7. CASE h \notin {"start", "finish"}
  <2>1. \A o \in Sides : SamePosted(o)
    BY <1>2, <1>5, <1>7, SameQueue DEF SamePosted
  <2>2. \A o \in Sides : wpc'[o] = wpc[o] \/ (wpc[o] \in PlainSteps /\ wpc'[o] \in PlainSteps)
    BY <1>2, <1>4, <1>7 DEF PlainSteps, ReceiverSteps, TransmitSteps
  <2>3. QED
    BY <1>2, <1>6, <2>1, <2>2, PlainStep
<1>8. CASE h \in {"start", "finish"}
  <2>1. ~Has(s, "start")' /\ ~Has(s, "finish")' /\ Once(s, {"start", "finish"})' /\ Has(s, h)
    BY <1>5, <1>6, <1>8
  <2>2. wpc'[s] = (IF h = "start" THEN "create" ELSE "finish")
    BY <1>2, <1>4, <1>8
  <2>3. side[s] = IF h = "start" THEN "Initializing" ELSE "Uninitializing"
    BY <1>1, <1>6, <1>8, <2>1 DEF SideOk, States, UninitializedOk, InitializingOk,
         InitializedOk, UninitializingOk, Posted
  <2>4. SideOk(s)'
    BY <1>2, <1>6, <1>8, <2>1, <2>2, <2>3 DEF SideOk, InitializingOk, UninitializingOk, InTail,
         StarterSteps, TailSteps
  <2>5. \A o \in Sides : o # s => SideOk(o)'
    BY <1>2, OtherSide
  <2>6. PhaseOk'
    BY <1>2, <1>6, PhaseKept
  <2>7. \A o \in Sides : (InTail(o)' <=> InTail(o)) /\ (InCompletion(o)' <=> InCompletion(o))
    BY <1>2, <2>2 DEF InTail, InCompletion, StarterSteps
  <2>8. "rx" \in Sides /\ "tx" \in Sides
    BY DEF Sides
  <2>9. StartOk'
    BY <1>2, <1>6, <2>2, <2>7 DEF StartOk, AllUp, Up
  <2>10. StopOk' /\ RestOk'
    BY <1>2, <1>6, <2>2, <2>7, <2>8 DEF StopOk, RestOk, AllDown, Down, OneTail
  <2>11. QED
    BY <1>2, <1>6, <2>4, <2>5, <2>6, <2>9, <2>10 DEF ControlInv
<1>9. QED
  BY <1>7, <1>8

-----------------------------------------------------------------------------
(* The controller's steps.                                                 *)

\* The controller moves on and leaves the sides as they are.
LEMMA SidesKept ==
  ASSUME ControlInv, UNCHANGED <<workers, side, plive, queue, wpc>>,
         cpc \notin {"dispatch", "finish"}, cpc' \notin {"dispatch", "finish"}
  PROVE  \A s \in Sides : SideOk(s)'
<1> SUFFICES ASSUME NEW s \in Sides PROVE SideOk(s)'
  OBVIOUS
<1>1. SideOk(s) /\ SamePosted(s)
  BY SameQueue DEF ControlInv
<1>2. QED
  BY <1>1, SideKept

\* asyncio_start, asyncio_stop, asyncio_destroy_instance and the steps of their calls.
LEMMA ControllerControl ==
  ASSUME TypeInv, ControlInv,
         asyncio_start \/ asyncio_stop \/ asyncio_destroy_instance \/ ControllerStep \/ Timeout
  PROVE  ControlInv'
<1>1. /\ wpc \in [Sides -> WorkerSteps] /\ side \in [Sides -> States] /\ plive \in [Sides -> BOOLEAN]
      /\ queue \in [Sides -> Seq(Actions)] /\ cside \in Sides /\ workers \subseteq Sides
      /\ workers # {} /\ cside \in {"rx", "tx"} /\ QueuesOk
      /\ phase \in {"starting", "running", "stopping", "stopped"}
  BY DEF TypeInv, WorkInv, WorkType, InstanceType, PoolsType, ControlType, Sides
<1>2. PhaseOk /\ StartOk /\ StopOk /\ RestOk /\ ended # "unexpected_state" /\ SideOk(cside)
  BY <1>1 DEF ControlInv
<1>3. "rx" \in Sides /\ "tx" \in Sides /\ \A s \in Sides : s \in {"rx", "tx"}
  BY DEF Sides
<1>4. \A s \in Sides :
        /\ wpc[s] \in {"create", "ready"} => side[s] = "Initializing" /\ InitializingOk(s)
        /\ wpc[s] = "finish" => side[s] = "Uninitializing" /\ UninitializingOk(s)
        /\ InCompletion(s) => side[s] \in {"Initialized", "Uninitializing"}
        /\ InTail(s) => side[s] \in {"Uninitialized", "Initializing"}
        /\ wpc[s] \in {"create", "ready", "finish"} \/ InCompletion(s) \/ InTail(s) => s \in workers
  BY StateAt DEF ControlInv
<1>5. AllUp <=> Up("rx") /\ Up("tx")
  BY <1>1, <1>3 DEF AllUp, Up
<1>6. AllDown <=> Down("rx") /\ Down("tx")
  BY <1>3 DEF AllDown, Down
<1>7. /\ AllUp => \A s \in Sides : ~InTail(s)
      /\ AllDown => ~AllUp /\ \A s \in Sides : ~InCompletion(s)
  BY <1>1, <1>4 DEF AllUp, AllDown
<1>8. CASE asyncio_start
  <2>1. /\ cpc = "idle" /\ init_state = "Uninitialized" /\ cpc' = "clear_started"
        /\ phase' = "starting"
        /\ UNCHANGED <<workers, side, stopped, flags, plive, queue, wpc, cside, ended>>
    BY <1>8 DEF asyncio_start, instance, pools, work, control
  <2>2. phase = "stopped" /\ AllDown
    BY <1>1, <1>2, <1>5, <1>6, <2>1 DEF PhaseOk, RestOk, Starting, Stopping
  <2>3. \A s \in Sides : SideOk(s)'
    BY <2>1, <2>2, SidesKept
  <2>4. PhaseOk'
    BY <1>1, <1>2, <1>5, <1>6, <2>1, <2>2 DEF PhaseOk, Starting, Stopping, Up, Down, GoingUp, GoingDown
  <2>5. StartOk'
    BY <1>1, <1>2, <1>3, <1>5, <1>6, <1>7, <2>1, <2>2 DEF StartOk, PhaseOk, Starting, Stopping, AllUp, Up, InCompletion, StarterSteps
  <2>6. StopOk'
    BY <1>1, <1>2, <1>3, <1>5, <1>6, <1>7, <2>1, <2>2 DEF StopOk, PhaseOk, Starting, Stopping, AllDown, Down, OneTail, InTail
  <2>7. RestOk' /\ ended' # "unexpected_state"
    BY <1>1, <1>2, <1>3, <1>5, <1>6, <1>7, <2>1, <2>2 DEF RestOk, StartOk, StopOk, PhaseOk, Starting, Stopping, AllUp, AllDown, Up, Down, OneTail, InTail
  <2>8. QED
    BY <2>3, <2>4, <2>5, <2>6, <2>7 DEF ControlInv
<1>9. CASE StartClear
  <2>1. /\ cpc = "clear_started" /\ cpc' = "store" /\ cside' = "rx"
        /\ flags' = flags \ {"started"}
        /\ UNCHANGED <<workers, init_state, side, stopped, plive, queue, wpc, phase, ended>>
    BY <1>9 DEF StartClear, instance, pools, work, control
  <2>2. phase = "starting" /\ AllDown
    BY <1>1, <1>2, <1>5, <1>6, <2>1 DEF PhaseOk, Starting
  <2>3. \A s \in Sides : SideOk(s)'
    BY <2>1, <2>2, SidesKept
  <2>4. PhaseOk'
    BY <1>1, <1>2, <1>5, <1>6, <2>1, <2>2 DEF PhaseOk, Starting, Stopping, Up, Down, GoingUp, GoingDown
  <2>5. StartOk'
    BY <1>1, <1>2, <1>3, <1>5, <1>6, <1>7, <2>1, <2>2 DEF StartOk, PhaseOk, Starting, Stopping, AllUp, Up, InCompletion, StarterSteps
  <2>6. StopOk'
    BY <1>1, <1>2, <1>3, <1>5, <1>6, <1>7, <2>1, <2>2 DEF StopOk, PhaseOk, Starting, Stopping, AllDown, Down, OneTail, InTail
  <2>7. RestOk' /\ ended' # "unexpected_state"
    BY <1>1, <1>2, <1>3, <1>5, <1>6, <1>7, <2>1, <2>2 DEF RestOk, StartOk, StopOk, PhaseOk, Starting, Stopping, AllUp, AllDown, Up, Down, OneTail, InTail
  <2>8. QED
    BY <2>3, <2>4, <2>5, <2>6, <2>7 DEF ControlInv
<1>10. CASE StartRun
  <2>1. /\ cpc = "run" /\ cpc' = "await_started" /\ stopped' = FALSE
        /\ UNCHANGED <<workers, init_state, side, flags, plive, queue, wpc, cside, phase, ended>>
    BY <1>10 DEF StartRun, instance, pools, work, control
  <2>2. \A s \in Sides : SideOk(s)'
    BY <2>1, SidesKept
  <2>3. PhaseOk'
    BY <1>1, <1>2, <1>5, <1>6, <2>1 DEF PhaseOk, Starting, Stopping, Up, Down, GoingUp, GoingDown
  <2>4. StartOk'
    BY <1>1, <1>2, <1>3, <1>5, <1>6, <1>7, <2>1 DEF StartOk, PhaseOk, Starting, Stopping, AllUp, Up, InCompletion, StarterSteps
  <2>5. StopOk'
    BY <1>1, <1>2, <1>3, <1>5, <1>6, <1>7, <2>1 DEF StopOk, PhaseOk, Starting, Stopping, AllDown, Down, OneTail, InTail
  <2>6. RestOk' /\ ended' # "unexpected_state"
    BY <1>1, <1>2, <1>3, <1>5, <1>6, <1>7, <2>1 DEF RestOk, StartOk, StopOk, PhaseOk, Starting, Stopping, AllUp, AllDown, Up, Down, OneTail, InTail
  <2>7. QED
    BY <2>2, <2>3, <2>4, <2>5, <2>6 DEF ControlInv
<1>11. CASE StartReturn
  <2>1. /\ cpc = "await_started" /\ cpc' = "idle" /\ "started" \in flags /\ phase' = "running"
        /\ UNCHANGED <<workers, init_state, side, stopped, flags, plive, queue, wpc, cside, ended>>
    BY <1>11 DEF StartReturn, instance, pools, work, control
  <2>2. phase = "starting" /\ AllUp /\ init_state = "Initialized" /\ ~stopped
    BY <1>1, <1>2, <1>5, <1>6, <2>1 DEF PhaseOk, StartOk, Starting, Stopping
  <2>3. \A s \in Sides : SideOk(s)'
    BY <2>1, <2>2, SidesKept
  <2>4. PhaseOk'
    BY <1>1, <1>2, <1>5, <1>6, <2>1, <2>2 DEF PhaseOk, Starting, Stopping, Up, Down, GoingUp, GoingDown
  <2>5. StartOk'
    BY <1>1, <1>2, <1>3, <1>5, <1>6, <1>7, <2>1, <2>2 DEF StartOk, PhaseOk, Starting, Stopping, AllUp, Up, InCompletion, StarterSteps
  <2>6. StopOk'
    BY <1>1, <1>2, <1>3, <1>5, <1>6, <1>7, <2>1, <2>2 DEF StopOk, PhaseOk, Starting, Stopping, AllDown, Down, OneTail, InTail
  <2>7. RestOk' /\ ended' # "unexpected_state"
    BY <1>1, <1>2, <1>3, <1>5, <1>6, <1>7, <2>1, <2>2 DEF RestOk, StartOk, StopOk, PhaseOk, Starting, Stopping, AllUp, AllDown, Up, Down, OneTail, InTail
  <2>8. QED
    BY <2>3, <2>4, <2>5, <2>6, <2>7 DEF ControlInv
<1>12. CASE asyncio_stop
  <2>1. /\ cpc = "idle" /\ cpc' = "test_stopped" /\ init_state = "Initialized" /\ phase' = "stopping"
        /\ UNCHANGED <<workers, side, stopped, flags, plive, queue, wpc, cside, ended>>
    BY <1>12 DEF asyncio_stop, instance, pools, work, control, StopBegin
  <2>2. phase = "running" /\ AllUp
    BY <1>1, <1>2, <1>5, <1>6, <2>1 DEF PhaseOk, RestOk, Starting, Stopping
  <2>3. \A s \in Sides : SideOk(s)'
    BY <2>1, <2>2, SidesKept
  <2>4. PhaseOk'
    BY <1>1, <1>2, <1>5, <1>6, <2>1, <2>2 DEF PhaseOk, Starting, Stopping, Up, Down, GoingUp, GoingDown
  <2>5. StartOk'
    BY <1>1, <1>2, <1>3, <1>5, <1>6, <1>7, <2>1, <2>2 DEF StartOk, PhaseOk, Starting, Stopping, AllUp, Up, InCompletion, StarterSteps
  <2>6. StopOk'
    BY <1>1, <1>2, <1>3, <1>5, <1>6, <1>7, <2>1, <2>2 DEF StopOk, PhaseOk, Starting, Stopping, AllDown, Down, OneTail, InTail
  <2>7. RestOk' /\ ended' # "unexpected_state"
    BY <1>1, <1>2, <1>3, <1>5, <1>6, <1>7, <2>1, <2>2 DEF RestOk, StartOk, StopOk, PhaseOk, Starting, Stopping, AllUp, AllDown, Up, Down, OneTail, InTail
  <2>8. QED
    BY <2>3, <2>4, <2>5, <2>6, <2>7 DEF ControlInv
<1>13. CASE StopTest
  <2>1. /\ cpc = "test_stopped" /\ cpc' = (IF stopped THEN StopOver ELSE "clear_stopped")
        /\ UNCHANGED <<workers, init_state, side, stopped, flags, plive, queue, wpc, cside, phase, ended>>
    BY <1>13 DEF StopTest, instance, pools, work, control
  <2>2. phase = "stopping" /\ AllUp /\ ~stopped
    BY <1>1, <1>2, <1>5, <1>6, <2>1 DEF PhaseOk, Starting, Stopping
  <2>3. \A s \in Sides : SideOk(s)'
    BY <2>1, <2>2, SidesKept
  <2>4. PhaseOk'
    BY <1>1, <1>2, <1>5, <1>6, <2>1, <2>2 DEF PhaseOk, Starting, Stopping, Up, Down, GoingUp, GoingDown
  <2>5. StartOk'
    BY <1>1, <1>2, <1>3, <1>5, <1>6, <1>7, <2>1, <2>2 DEF StartOk, PhaseOk, Starting, Stopping, AllUp, Up, InCompletion, StarterSteps
  <2>6. StopOk'
    BY <1>1, <1>2, <1>3, <1>5, <1>6, <1>7, <2>1, <2>2 DEF StopOk, PhaseOk, Starting, Stopping, AllDown, Down, OneTail, InTail
  <2>7. RestOk' /\ ended' # "unexpected_state"
    BY <1>1, <1>2, <1>3, <1>5, <1>6, <1>7, <2>1, <2>2 DEF RestOk, StartOk, StopOk, PhaseOk, Starting, Stopping, AllUp, AllDown, Up, Down, OneTail, InTail
  <2>8. QED
    BY <2>3, <2>4, <2>5, <2>6, <2>7 DEF ControlInv
<1>14. CASE StopClear
  <2>1. /\ cpc = "clear_stopped" /\ cpc' = "set_stopped"
        /\ flags' = flags \ {"stopped"}
        /\ UNCHANGED <<workers, init_state, side, stopped, plive, queue, wpc, cside, phase, ended>>
    BY <1>14 DEF StopClear, instance, pools, work, control
  <2>2. phase = "stopping" /\ AllUp
    BY <1>1, <1>2, <1>5, <1>6, <2>1 DEF PhaseOk, Stopping
  <2>3. \A s \in Sides : SideOk(s)'
    BY <2>1, <2>2, SidesKept
  <2>4. PhaseOk'
    BY <1>1, <1>2, <1>5, <1>6, <2>1, <2>2 DEF PhaseOk, Starting, Stopping, Up, Down, GoingUp, GoingDown
  <2>5. StartOk'
    BY <1>1, <1>2, <1>3, <1>5, <1>6, <1>7, <2>1, <2>2 DEF StartOk, PhaseOk, Starting, Stopping, AllUp, Up, InCompletion, StarterSteps
  <2>6. StopOk'
    BY <1>1, <1>2, <1>3, <1>5, <1>6, <1>7, <2>1, <2>2 DEF StopOk, PhaseOk, Starting, Stopping, AllDown, Down, OneTail, InTail
  <2>7. RestOk' /\ ended' # "unexpected_state"
    BY <1>1, <1>2, <1>3, <1>5, <1>6, <1>7, <2>1, <2>2 DEF RestOk, StartOk, StopOk, PhaseOk, Starting, Stopping, AllUp, AllDown, Up, Down, OneTail, InTail
  <2>8. QED
    BY <2>3, <2>4, <2>5, <2>6, <2>7 DEF ControlInv
<1>15. CASE StopSet
  <2>1. /\ cpc = "set_stopped" /\ cpc' = "claim" /\ cside' = "rx" /\ stopped' = TRUE
        /\ UNCHANGED <<workers, init_state, side, flags, plive, queue, wpc, phase, ended>>
    BY <1>15 DEF StopSet, instance, pools, work, control
  <2>2. phase = "stopping" /\ AllUp
    BY <1>1, <1>2, <1>5, <1>6, <2>1 DEF PhaseOk, Stopping
  <2>3. \A s \in Sides : SideOk(s)'
    BY <2>1, <2>2, SidesKept
  <2>4. PhaseOk'
    BY <1>1, <1>2, <1>5, <1>6, <2>1, <2>2 DEF PhaseOk, Starting, Stopping, Up, Down, GoingUp, GoingDown
  <2>5. StartOk'
    BY <1>1, <1>2, <1>3, <1>5, <1>6, <1>7, <2>1, <2>2 DEF StartOk, PhaseOk, Starting, Stopping, AllUp, Up, InCompletion, StarterSteps
  <2>6. StopOk'
    BY <1>1, <1>2, <1>3, <1>5, <1>6, <1>7, <2>1, <2>2 DEF StopOk, PhaseOk, Starting, Stopping, AllDown, Down, OneTail, InTail
  <2>7. RestOk' /\ ended' # "unexpected_state"
    BY <1>1, <1>2, <1>3, <1>5, <1>6, <1>7, <2>1, <2>2 DEF RestOk, StartOk, StopOk, PhaseOk, Starting, Stopping, AllUp, AllDown, Up, Down, OneTail, InTail
  <2>8. QED
    BY <2>3, <2>4, <2>5, <2>6, <2>7 DEF ControlInv
<1>16. CASE StopReturn
  <2>1. /\ cpc = "await_stopped" /\ cpc' \in {"free_flag", "idle"} /\ "stopped" \in flags /\ phase' = "stopped"
        /\ UNCHANGED <<workers, init_state, side, stopped, flags, plive, queue, wpc, cside, ended>>
    BY <1>16 DEF StopReturn, instance, pools, work, control, StopOver
  <2>2. phase = "stopping" /\ AllDown /\ init_state = "Uninitialized" /\ stopped /\ OneTail
    BY <1>1, <1>2, <1>5, <1>6, <2>1 DEF PhaseOk, StopOk, Starting, Stopping
  <2>3. \A s \in Sides : SideOk(s)'
    BY <2>1, <2>2, SidesKept
  <2>4. PhaseOk'
    BY <1>1, <1>2, <1>5, <1>6, <2>1, <2>2 DEF PhaseOk, Starting, Stopping, Up, Down, GoingUp, GoingDown
  <2>5. StartOk'
    BY <1>1, <1>2, <1>3, <1>5, <1>6, <1>7, <2>1, <2>2 DEF StartOk, PhaseOk, Starting, Stopping, AllUp, Up, InCompletion, StarterSteps
  <2>6. StopOk'
    BY <1>1, <1>2, <1>3, <1>5, <1>6, <1>7, <2>1, <2>2 DEF StopOk, PhaseOk, Starting, Stopping, AllDown, Down, OneTail, InTail
  <2>7. RestOk' /\ ended' # "unexpected_state"
    BY <1>1, <1>2, <1>3, <1>5, <1>6, <1>7, <2>1, <2>2 DEF RestOk, StartOk, StopOk, PhaseOk, Starting, Stopping, AllUp, AllDown, Up, Down, OneTail, InTail
  <2>8. QED
    BY <2>3, <2>4, <2>5, <2>6, <2>7 DEF ControlInv
<1>17. CASE DestroyFlag
  <2>1. /\ cpc = "free_flag" /\ cpc' = "gone"
        /\ UNCHANGED <<workers, init_state, side, stopped, flags, plive, queue, wpc, cside, phase, ended>>
    BY <1>17 DEF DestroyFlag, instance, pools, work, control
  <2>2. \A s \in Sides : SideOk(s)'
    BY <2>1, SidesKept
  <2>3. PhaseOk'
    BY <1>1, <1>2, <1>5, <1>6, <2>1 DEF PhaseOk, Starting, Stopping, Up, Down, GoingUp, GoingDown
  <2>4. StartOk'
    BY <1>1, <1>2, <1>3, <1>5, <1>6, <1>7, <2>1 DEF StartOk, PhaseOk, Starting, Stopping, AllUp, Up, InCompletion, StarterSteps
  <2>5. StopOk'
    BY <1>1, <1>2, <1>3, <1>5, <1>6, <1>7, <2>1 DEF StopOk, PhaseOk, Starting, Stopping, AllDown, Down, OneTail, InTail
  <2>6. RestOk' /\ ended' # "unexpected_state"
    BY <1>1, <1>2, <1>3, <1>5, <1>6, <1>7, <2>1 DEF RestOk, StartOk, StopOk, PhaseOk, Starting, Stopping, AllUp, AllDown, Up, Down, OneTail, InTail
  <2>7. QED
    BY <2>2, <2>3, <2>4, <2>5, <2>6 DEF ControlInv
<1>18. CASE asyncio_destroy_instance
  <2>1. CASE init_state = "Initialized"
    <3>1. /\ cpc = "idle" /\ cpc' = "test_stopped" /\ phase' = "stopping"
          /\ UNCHANGED <<workers, side, stopped, flags, plive, queue, wpc, cside, ended>>
      BY <1>18, <2>1 DEF asyncio_destroy_instance, StopBegin, instance, pools, work, control
    <3>2. phase = "running" /\ AllUp
      BY <1>1, <1>2, <1>5, <2>1, <3>1 DEF PhaseOk, RestOk, Starting, Stopping
    <3>3. \A s \in Sides : SideOk(s)'
      BY <3>1, SidesKept
    <3>4. PhaseOk'
      BY <1>1, <1>2, <1>5, <3>1, <3>2 DEF PhaseOk, Starting, Stopping, Up, Down, GoingUp, GoingDown
    <3>5. StartOk' /\ RestOk' /\ ended' # "unexpected_state"
      BY <1>2, <3>1 DEF StartOk, RestOk
    <3>6. StopOk'
      BY <1>3, <1>7, <3>1, <3>2 DEF StopOk, InTail
    <3>7. QED
      BY <3>3, <3>4, <3>5, <3>6 DEF ControlInv
  <2>2. CASE init_state # "Initialized"
    <3>1. /\ cpc = "idle" /\ cpc' = "free_flag"
          /\ UNCHANGED <<workers, init_state, side, stopped, flags, plive, queue, wpc, cside, phase,
                         ended>>
      BY <1>18, <2>2 DEF asyncio_destroy_instance, StopBegin, StopOver, instance, pools, work,
           control
    <3>2. phase = "stopped" /\ AllDown
      BY <1>1, <1>2, <1>6, <2>2, <3>1 DEF PhaseOk, RestOk, Starting, Stopping
    <3>3. \A s \in Sides : SideOk(s)'
      BY <3>1, SidesKept
    <3>4. PhaseOk'
      BY <1>1, <1>2, <1>6, <3>1, <3>2 DEF PhaseOk, Starting, Stopping, Up, Down, GoingUp, GoingDown
    <3>5. StartOk' /\ StopOk' /\ ended' # "unexpected_state"
      BY <1>2, <3>1, <3>2 DEF StartOk, StopOk
    <3>6. RestOk'
      BY <1>2, <3>1, <3>2 DEF RestOk, OneTail, InTail
    <3>7. QED
      BY <3>3, <3>4, <3>5, <3>6 DEF ControlInv
  <2>3. QED
    BY <2>1, <2>2
<1>19. CASE StartStore /\ cside \in workers
  <2>1. /\ cpc = "store" /\ cpc' = "dispatch"
        /\ side'[cside] = "Initializing" /\ \A s \in Sides : s # cside => side'[s] = side[s]
        /\ UNCHANGED <<workers, init_state, stopped, flags, plive, queue, wpc, cside, phase, ended>>
    BY <1>1, <1>19 DEF StartStore, instance, pools, work, control
  <2>2. phase = "starting" /\ Down(cside) /\ ~AllUp
    BY <1>1, <1>2, <1>19, <2>1 DEF PhaseOk, Starting, AllUp, Down
  <2>3. \A s \in Sides : SamePosted(s)
    BY <2>1, SameQueue
  <2>4. PICK c \in Sides : c = cside
    BY <1>1
  <2>5. \A s \in Sides : SideOk(s)'
    <3>1. ASSUME NEW s \in Sides, s # c PROVE SideOk(s)'
      BY <2>1, <2>3, <2>4, <3>1, SideKept DEF ControlInv
    <3>2. SideOk(c)'
      BY <1>1, <1>2, <1>19, <2>1, <2>2, <2>3, <2>4 DEF SideOk, UninitializedOk, InitializingOk,
           SamePosted, Posted, Down, InTail, StarterSteps
    <3>3. QED
      BY <3>1, <3>2
  <2>6. PhaseOk'
    BY <1>1, <1>2, <1>3, <1>5, <1>6, <1>19, <2>1, <2>2 DEF PhaseOk, Starting, Stopping, Up, Down, GoingUp, GoingDown
  <2>7. StartOk'
    BY <1>1, <1>2, <1>3, <1>5, <1>6, <1>7, <1>19, <2>1, <2>2 DEF StartOk, PhaseOk, Starting, Stopping, AllUp, AllDown, Up, Down, InCompletion, StarterSteps
  <2>8. StopOk'
    BY <1>1, <1>2, <1>3, <1>5, <1>6, <1>7, <1>19, <2>1, <2>2 DEF StopOk, PhaseOk, Starting, Stopping, AllUp, AllDown, Up, Down, OneTail, InTail
  <2>9. RestOk' /\ ended' # "unexpected_state"
    BY <1>1, <1>2, <1>19, <2>1, <2>2 DEF RestOk, PhaseOk, Starting, Stopping
  <2>10. QED
    BY <2>5, <2>6, <2>7, <2>8, <2>9 DEF ControlInv
<1>20. CASE StartStore /\ cside \notin workers
  <2>1. /\ cpc = "store" /\ AfterSide("store", "run")
        /\ UNCHANGED <<workers, init_state, side, stopped, flags, plive, queue, wpc, phase, ended>>
    BY <1>20 DEF StartStore, instance, pools, work, control
  <2>2. phase = "starting" /\ cpc' \in {"store", "run"}
    BY <1>1, <1>2, <2>1 DEF PhaseOk, Starting, AfterSide
  <2>3. \A s \in Sides : SideOk(s)'
    BY <2>1, <2>2, SidesKept
  <2>4. PhaseOk'
    BY <1>1, <1>2, <1>3, <1>5, <1>6, <1>20, <2>1, <2>2 DEF PhaseOk, Starting, Stopping, Up, Down, GoingUp, GoingDown, AfterSide
  <2>5. StartOk'
    BY <1>1, <1>2, <1>3, <1>5, <1>6, <1>7, <1>20, <2>1, <2>2 DEF StartOk, PhaseOk, Starting, Stopping, AllUp, AllDown, Up, Down, InCompletion, StarterSteps, AfterSide
  <2>6. StopOk'
    BY <1>1, <1>2, <1>3, <1>5, <1>6, <1>7, <1>20, <2>1, <2>2 DEF StopOk, PhaseOk, Starting, Stopping, AllUp, AllDown, Up, Down, OneTail, InTail, AfterSide
  <2>7. RestOk' /\ ended' # "unexpected_state"
    BY <1>1, <1>2, <1>20, <2>1, <2>2 DEF RestOk, PhaseOk, Starting, Stopping
  <2>8. QED
    BY <2>3, <2>4, <2>5, <2>6, <2>7 DEF ControlInv
<1>21. CASE StartDispatch
  <2>1. /\ cpc = "dispatch" /\ AfterSide("store", "run") /\ Post(cside, "start")
        /\ UNCHANGED <<workers, init_state, side, stopped, flags, plive, wpc, phase, ended>>
    BY <1>21 DEF StartDispatch, instance, pools, work, control
  <2>2. phase = "starting" /\ cpc' \in {"store", "run"}
    BY <1>1, <1>2, <2>1 DEF PhaseOk, Starting, Stopping, AfterSide
  <2>3. PICK c \in Sides : c = cside
    BY <1>1
  <2>4. /\ queue[c] \in Seq(Actions) /\ queue'[c] = Append(queue[c], "start")
        /\ \A s \in Sides : s # c => queue'[s] = queue[s]
    BY <1>1, <2>1, <2>3 DEF Post
  <2>5. "start" \in Actions
    BY DEF Actions
  <2>6. /\ \A b : Has(c, b)' <=> Has(c, b) \/ b = "start"
        /\ \A A : (\A b \in A : ~Has(c, b)) => Once(c, A)'
    BY <2>4, <2>5, AppendedHas
  <2>7. SideOk(c) /\ side[c] = "Initializing" /\ ~Has(c, "start") /\ ~Has(c, "finish")
    BY <1>2, <2>1, <2>3 DEF SideOk, InitializingOk, UninitializingOk
  <2>8. Once(c, {"start", "finish"})'
    BY <2>6, <2>7
  <2>9. SideOk(c)'
    BY <2>1, <2>2, <2>3, <2>6, <2>7, <2>8 DEF SideOk, InitializingOk, UninitializingOk,
         Posted, InTail, StarterSteps
  <2>10. \A s \in Sides : SideOk(s)'
    <3>1. ASSUME NEW s \in Sides, s # c PROVE SideOk(s)'
      <4>1. SideOk(s) /\ SamePosted(s)
        BY <2>4, <3>1, SameQueue DEF ControlInv
      <4>2. QED
        BY <2>1, <2>2, <2>3, <3>1, <4>1, SideKept
    <3>2. QED
      BY <2>9, <3>1
  <2>11. PhaseOk'
    BY <1>1, <1>2, <1>3, <1>5, <1>6, <2>1, <2>2, <2>3, <2>7 DEF PhaseOk, Starting, Stopping, Up, Down, GoingUp, GoingDown, AfterSide
  <2>12. StartOk'
    BY <1>1, <1>2, <1>3, <1>5, <1>6, <1>7, <2>1, <2>2, <2>3, <2>7 DEF StartOk, PhaseOk, Starting, Stopping, AllUp, AllDown, Up, Down, InCompletion, StarterSteps, AfterSide
  <2>13. StopOk'
    BY <1>1, <1>2, <1>3, <1>5, <1>6, <1>7, <2>1, <2>2, <2>3, <2>7 DEF StopOk, PhaseOk, Starting, Stopping, AllUp, AllDown, Up, Down, OneTail, InTail, AfterSide
  <2>14. RestOk' /\ ended' # "unexpected_state"
    BY <1>1, <1>2, <2>1, <2>2, <2>3, <2>7 DEF RestOk, PhaseOk, Starting, Stopping
  <2>15. QED
    BY <2>10, <2>11, <2>12, <2>13, <2>14 DEF ControlInv
<1>22. CASE StopDispatch
  <2>1. /\ cpc = "finish" /\ AfterSide("claim", "await_stopped") /\ Post(cside, "finish")
        /\ UNCHANGED <<workers, init_state, side, stopped, flags, plive, wpc, phase, ended>>
    BY <1>22 DEF StopDispatch, instance, pools, work, control
  <2>2. phase = "stopping" /\ cpc' \in {"claim", "await_stopped"}
    BY <1>1, <1>2, <2>1 DEF PhaseOk, Starting, Stopping, AfterSide
  <2>3. PICK c \in Sides : c = cside
    BY <1>1
  <2>4. /\ queue[c] \in Seq(Actions) /\ queue'[c] = Append(queue[c], "finish")
        /\ \A s \in Sides : s # c => queue'[s] = queue[s]
    BY <1>1, <2>1, <2>3 DEF Post
  <2>5. "finish" \in Actions
    BY DEF Actions
  <2>6. /\ \A b : Has(c, b)' <=> Has(c, b) \/ b = "finish"
        /\ \A A : (\A b \in A : ~Has(c, b)) => Once(c, A)'
    BY <2>4, <2>5, AppendedHas
  <2>7. SideOk(c) /\ side[c] = "Uninitializing" /\ ~Has(c, "start") /\ ~Has(c, "finish")
    BY <1>2, <2>1, <2>3 DEF SideOk, InitializingOk, UninitializingOk
  <2>8. Once(c, {"start", "finish"})'
    BY <2>6, <2>7
  <2>9. SideOk(c)'
    BY <2>1, <2>2, <2>3, <2>6, <2>7, <2>8 DEF SideOk, InitializingOk, UninitializingOk,
         Posted, InTail, StarterSteps
  <2>10. \A s \in Sides : SideOk(s)'
    <3>1. ASSUME NEW s \in Sides, s # c PROVE SideOk(s)'
      <4>1. SideOk(s) /\ SamePosted(s)
        BY <2>4, <3>1, SameQueue DEF ControlInv
      <4>2. QED
        BY <2>1, <2>2, <2>3, <3>1, <4>1, SideKept
    <3>2. QED
      BY <2>9, <3>1
  <2>11. PhaseOk'
    BY <1>1, <1>2, <1>3, <1>5, <1>6, <2>1, <2>2, <2>3, <2>7 DEF PhaseOk, Starting, Stopping, Up, Down, GoingUp, GoingDown, AfterSide
  <2>12. StartOk'
    BY <1>1, <1>2, <1>3, <1>5, <1>6, <1>7, <2>1, <2>2, <2>3, <2>7 DEF StartOk, PhaseOk, Starting, Stopping, AllUp, AllDown, Up, Down, InCompletion, StarterSteps, AfterSide
  <2>13. StopOk'
    BY <1>1, <1>2, <1>3, <1>5, <1>6, <1>7, <2>1, <2>2, <2>3, <2>7 DEF StopOk, PhaseOk, Starting, Stopping, AllUp, AllDown, Up, Down, OneTail, InTail, AfterSide
  <2>14. RestOk' /\ ended' # "unexpected_state"
    BY <1>1, <1>2, <2>1, <2>2, <2>3, <2>7 DEF RestOk, PhaseOk, Starting, Stopping
  <2>15. QED
    BY <2>10, <2>11, <2>12, <2>13, <2>14 DEF ControlInv
<1>23. CASE StopClaim
  <2>1. /\ cpc = "claim"
        /\ UNCHANGED <<workers, init_state, stopped, flags, plive, queue, wpc, phase>>
    BY <1>23 DEF StopClaim, instance, pools, work, control
  <2>2. phase = "stopping" /\ Up(cside) /\ side[cside] \in {"Initialized", "Uninitialized"}
    <3>1. phase = "stopping" /\ Up(cside)
      BY <1>1, <1>2, <2>1 DEF PhaseOk, Stopping
    <3>2. QED
      BY <1>2, <3>1 DEF SideOk, Up
  <2>3. CASE side[cside] = "Initialized"
    <3>1. /\ side'[cside] = "Uninitializing" /\ cpc' = "finish" /\ cside' = cside /\ ended' = ended
          /\ \A s \in Sides : s # cside => side'[s] = side[s]
      BY <1>1, <1>23, <2>3 DEF StopClaim
    <3>2. cside \in workers /\ ~AllDown
      BY <1>1, <1>2, <2>3 DEF SideOk, AllDown
    <3>3. \A s \in Sides : SamePosted(s)
      BY <2>1, SameQueue
    <3>4. PICK c \in Sides : c = cside
      BY <1>1
    <3>5. \A s \in Sides : SideOk(s)'
      <4>1. ASSUME NEW s \in Sides, s # c PROVE SideOk(s)'
        BY <2>1, <3>1, <3>3, <3>4, <4>1, SideKept DEF ControlInv
      <4>2. SideOk(c)'
        BY <1>1, <1>2, <2>1, <2>3, <3>1, <3>2, <3>3, <3>4 DEF SideOk, InitializedOk,
             UninitializingOk, SamePosted, Posted, InTail, StarterSteps
      <4>3. QED
        BY <4>1, <4>2
    <3>6. PhaseOk'
      BY <1>1, <1>2, <1>3, <2>1, <2>2, <2>3, <3>1 DEF PhaseOk, Starting, Stopping, Up, Down,
           GoingUp, GoingDown
    <3>7. StartOk'
      BY <2>1, <2>2 DEF StartOk
    <3>8. StopOk'
      BY <1>1, <1>2, <1>3, <1>6, <2>1, <2>2, <2>3, <3>1, <3>2 DEF StopOk, AllDown, Down, OneTail,
           InTail
    <3>9. RestOk' /\ ended' # "unexpected_state"
      BY <1>2, <2>1, <2>2, <3>1 DEF RestOk
    <3>10. QED
      BY <3>5, <3>6, <3>7, <3>8, <3>9 DEF ControlInv
  <2>4. CASE side[cside] = "Uninitialized"
    <3>1. AfterSide("claim", "await_stopped") /\ side' = side /\ ended' = ended
      BY <1>23, <2>4 DEF StopClaim
    <3>2. cpc' \in {"claim", "await_stopped"}
      BY <3>1 DEF AfterSide
    <3>3. \A s \in Sides : SideOk(s)'
      BY <2>1, <3>1, <3>2, SidesKept
    <3>4. PhaseOk'
      BY <1>1, <1>2, <1>3, <2>1, <2>2, <2>4, <3>1 DEF PhaseOk, Starting, Stopping, Up, Down,
           GoingUp, GoingDown, AfterSide
    <3>5. StartOk'
      BY <2>1, <2>2 DEF StartOk
    <3>6. StopOk'
      BY <1>2, <1>3, <2>1, <2>2, <3>1, <3>2 DEF StopOk, AllDown, Down, OneTail, InTail
    <3>7. RestOk' /\ ended' # "unexpected_state"
      BY <1>2, <2>1, <2>2, <3>1 DEF RestOk
    <3>8. QED
      BY <3>3, <3>4, <3>5, <3>6, <3>7 DEF ControlInv
  <2>5. QED
    BY <2>2, <2>3, <2>4
<1>24. CASE Timeout
  <2>1. /\ UNCHANGED <<workers, init_state, side, stopped, flags, plive, cpc, cside, phase, wpc, queue>>
        /\ ended' # "unexpected_state"
    BY <1>24 DEF Timeout, End, instance, pools, work, control
  <2>2. \A s \in Sides : SamePosted(s)
    BY <2>1, SameQueue
  <2>3. QED
    BY <2>1, <2>2, PlainStep
<1>25. QED
  BY <1>8, <1>9, <1>10, <1>11, <1>12, <1>13, <1>14, <1>15, <1>16, <1>17, <1>18, <1>19, <1>20, <1>21,
     <1>22, <1>23, <1>24 DEF ControllerStep

\* The handshake of the first state ...
LEMMA ControlInit == Init => ControlInv
<1> SUFFICES ASSUME Init PROVE ControlInv
  OBVIOUS
<1>1. /\ \A s \in Sides : side[s] = "Uninitialized" /\ queue[s] = <<>> /\ wpc[s] = "wait" /\ ~plive[s]
      /\ cpc = "idle" /\ phase = "stopped" /\ stopped = TRUE /\ init_state = "Uninitialized"
      /\ ended = "no" /\ "rx" \in Sides /\ "tx" \in Sides
  BY DEF Init, Sides
<1>2. \A s \in Sides : ~Has(s, "start") /\ ~Has(s, "finish") /\ Once(s, {"start", "finish"})
  BY <1>1 DEF Has, Once
<1>3. \A s \in Sides : SideOk(s)
  BY <1>1, <1>2 DEF SideOk, UninitializedOk, Posted, InTail, StarterSteps
<1>4. PhaseOk
  BY <1>1 DEF PhaseOk, Starting, Stopping, Down
<1>5. StartOk /\ StopOk /\ RestOk
  BY <1>1 DEF StartOk, StopOk, RestOk, OneTail, InTail
<1>6. QED
  BY <1>1, <1>3, <1>4, <1>5 DEF ControlInv

\* ... and of every step.
LEMMA ControlNext == TypeInv /\ ControlInv /\ [Next]_vars => ControlInv'
<1> SUFFICES ASSUME TypeInv, ControlInv, [Next]_vars PROVE ControlInv'
  OBVIOUS
<1>1. CASE UNCHANGED vars
  <2>1. /\ UNCHANGED <<workers, init_state, side, stopped, flags, plive, cpc, cside, phase, wpc, queue>>
        /\ ended' # "unexpected_state"
    BY <1>1 DEF vars, ControlInv
  <2>2. \A s \in Sides : SamePosted(s)
    BY <2>1, SameQueue
  <2>3. QED
    BY <2>1, <2>2, PlainStep
<1>2. CASE \E s \in Sides : WorkerStep(s) \/ asyncio_release_rx_buffer(s)
  BY <1>2, TakeStep, HandshakeStep, PlainWorkerStep DEF WorkerStep
<1>3. CASE Running
  BY <1>2, <1>3, ControllerControl, PlainCallerStep DEF Running
<1>4. QED
  BY <1>1, <1>3 DEF Next, Finished

-----------------------------------------------------------------------------
(* What the handshake gives.                                               *)

\* The types and the handshake, in every state.
LEMMA ControlAlways == Spec => [](TypeInv /\ ControlInv)
<1>1. Init => TypeInv /\ ControlInv
  BY TypeInit, ControlInit
<1>2. TypeInv /\ ControlInv /\ [Next]_vars => (TypeInv /\ ControlInv)'
  BY TypeNext, ControlNext
<1>3. QED
  BY <1>1, <1>2, PTL DEF Spec

\* Every variable keeps its type.
THEOREM TypesHold == Spec => []TypeOK
<1>1. TypeInv => TypeOK
  BY DEF TypeInv, TypeOK, WorkInv, CallersInv, EndedType
<1>2. QED
  BY <1>1, ControlAlways, PTL

\* What asyncio_start and asyncio_stop have told the controller stays true until
\* its next call, whatever the workers still do.
THEOREM HandshakeAlwaysHolds == Spec => []HandshakeHolds
<1>1. ASSUME TypeInv, ControlInv PROVE HandshakeHolds
  <2>1. /\ PhaseOk /\ RestOk /\ workers \subseteq Sides /\ "rx" \in Sides /\ "tx" \in Sides
        /\ queue \in [Sides -> Seq(Actions)]
    BY <1>1 DEF ControlInv, TypeInv, InstanceType, WorkInv, WorkType, Sides
  <2>2. \A s \in Sides : SideOk(s)
    BY <1>1 DEF ControlInv
  <2>3. ASSUME phase = "running"
        PROVE  /\ init_state = "Initialized" /\ ~stopped
               /\ \A s \in workers : side[s] = "Initialized" /\ plive[s]
    <3>1. init_state = "Initialized" /\ ~stopped
      BY <2>1, <2>3 DEF RestOk, PhaseOk, Starting, Stopping
    <3>2. \A s \in workers : side[s] = "Initialized"
      BY <1>1, <2>1, <2>3, StateIn DEF Up
    <3>3. QED
      BY <2>1, <2>2, <3>1, <3>2 DEF SideOk, InitializedOk
  <2>4. ASSUME phase = "stopped"
        PROVE  /\ init_state = "Uninitialized" /\ stopped
               /\ \A s \in Sides :
                    /\ side[s] = "Uninitialized"
                    /\ \A i \in DOMAIN queue[s] : queue[s][i] \notin {"start", "finish"}
               /\ Cardinality({s \in Sides : InTail(s)}) <= 1
    <3>1. init_state = "Uninitialized" /\ stopped /\ OneTail
      BY <2>1, <2>4 DEF RestOk, PhaseOk
    <3>2. \A s \in Sides : side[s] = "Uninitialized"
      BY <1>1, <2>1, <2>4, StateIn DEF Down
    <3>3. ASSUME NEW s \in Sides, NEW i \in DOMAIN queue[s]
          PROVE  queue[s][i] \notin {"start", "finish"}
      <4>1. i \in 1..Len(queue[s])
        BY <2>1, <3>3
      <4>2. ~Posted(s)
        BY <2>2, <3>2 DEF SideOk, UninitializedOk
      <4>3. QED
        BY <4>1, <4>2 DEF Posted, Has
    <3>4. Cardinality({s \in Sides : InTail(s)}) <= 1
      <4> DEFINE T == {s \in Sides : InTail(s)}
      <4>1. T = {} \/ T = {"rx"} \/ T = {"tx"}
        BY <3>1 DEF OneTail, Sides
      <4>2. /\ Cardinality({}) = 0 /\ Cardinality({"rx"}) = 1 /\ Cardinality({"tx"}) = 1
        BY FS_EmptySet, FS_Singleton
      <4>3. QED
        BY <4>1, <4>2
    <3>5. QED
      BY <3>1, <3>2, <3>3, <3>4
  <2>5. QED
    BY <2>3, <2>4 DEF HandshakeHolds
<1>2. QED
  BY <1>1, ControlAlways, PTL

\* A controller that waits for a flag has a worker that is still to send it, so
\* that only a slow worker makes the wait run into its four seconds.
THEOREM CompletionAlwaysPending == Spec => []CompletionPending
<1>1. ASSUME TypeInv, ControlInv PROVE CompletionPending
  <2>1. /\ PhaseOk /\ StartOk /\ StopOk /\ workers \subseteq Sides /\ "rx" \in Sides /\ "tx" \in Sides
        /\ queue \in [Sides -> Seq(Actions)] /\ side \in [Sides -> States]
    BY <1>1 DEF ControlInv, TypeInv, InstanceType, WorkInv, WorkType, Sides
  <2>2. \A s \in Sides : SideOk(s) /\ Runs(s, wpc[s], wact[s])
    BY <1>1 DEF ControlInv, TypeInv, WorkInv
  <2>3. \A s \in Sides, a \in {"start", "finish"} :
          Has(s, a) \/ (wact[s] = a /\ wpc[s] # "done") => Pending(s, a)
    BY <2>1 DEF Has, Pending
  <2>4. ASSUME cpc = "await_started", "started" \notin flags
        PROVE  \E s \in workers : Pending(s, "start")
    <3>1. phase = "starting" /\ GoingUp("rx") /\ GoingUp("tx")
      BY <2>1, <2>4 DEF PhaseOk, Starting
    <3>2. CASE AllUp
      <4>1. PICK s \in workers : InCompletion(s)
        BY <2>1, <2>4, <3>1, <3>2 DEF StartOk
      <4>2. wact[s] = "start" /\ wpc[s] # "done"
        BY <2>1, <2>2, <4>1 DEF Runs, InCompletion, StarterSteps
      <4>3. QED
        BY <2>1, <2>3, <4>2
    <3>3. CASE ~AllUp
      <4>1. PICK s \in workers : side[s] # "Initialized"
        BY <3>3 DEF AllUp
      <4>2. side[s] = "Initializing"
        BY <2>1, <3>1, <4>1 DEF GoingUp, Sides
      <4>3. Has(s, "start") \/ (wact[s] = "start" /\ wpc[s] # "done")
        BY <2>1, <2>2, <2>4, <4>2 DEF SideOk, InitializingOk, Runs, StarterSteps
      <4>4. QED
        BY <2>1, <2>3, <4>3
    <3>4. QED
      BY <3>2, <3>3
  <2>5. ASSUME cpc = "await_stopped", "stopped" \notin flags
        PROVE  \E s \in workers : Pending(s, "finish")
    <3>1. phase = "stopping" /\ GoingDown("rx") /\ GoingDown("tx")
      BY <2>1, <2>5 DEF PhaseOk, Stopping
    <3>2. CASE AllDown
      <4>1. PICK s \in workers : InTail(s)
        BY <2>1, <2>5, <3>1, <3>2 DEF StopOk
      <4>2. wact[s] = "finish" /\ wpc[s] # "done"
        BY <2>1, <2>2, <4>1 DEF Runs, InTail, TailSteps
      <4>3. QED
        BY <2>1, <2>3, <4>2
    <3>3. CASE ~AllDown
      <4>1. PICK s \in Sides : side[s] # "Uninitialized"
        BY <3>3 DEF AllDown
      <4>2. side[s] = "Uninitializing" /\ s \in workers
        BY <2>2, <3>1, <4>1 DEF GoingDown, Sides, SideOk
      <4>3. Has(s, "finish") \/ (wact[s] = "finish" /\ wpc[s] # "done")
        BY <2>1, <2>2, <2>5, <4>2 DEF SideOk, UninitializingOk, Runs
      <4>4. QED
        BY <2>3, <4>2, <4>3
    <3>4. QED
      BY <3>2, <3>3
  <2>6. QED
    BY <2>4, <2>5 DEF CompletionPending
<1>2. QED
  BY <1>1, ControlAlways, PTL

-----------------------------------------------------------------------------
(* The chain of rx_f, step by step.                                        *)

\* Order in a queue that does not change.
LEMMA SameOrder ==
  ASSUME NEW s \in Sides, queue'[s] = queue[s], NEW A, Ordered(s, A)
  PROVE  Ordered(s, A)'
  BY DEF Ordered

\* An action is posted, behind no starter or outside of A.
LEMMA AppendedOrder ==
  ASSUME NEW s \in Sides, queue[s] \in Seq(Actions), NEW a \in Actions,
         queue'[s] = Append(queue[s], a), NEW A, Ordered(s, A),
         a \notin A \/ ~Has(s, "start")
  PROVE  Ordered(s, A)'
<1> DEFINE n == Len(queue[s])
<1>1. /\ n \in Nat /\ Len(queue'[s]) = n + 1 /\ queue'[s][n + 1] = a
      /\ \A i \in 1..n : queue'[s][i] = queue[s][i]
  BY AppendSeq
<1>2. SUFFICES ASSUME NEW i \in 1..n + 1, NEW j \in 1..n + 1, i < j, queue'[s][i] = "start"
               PROVE  queue'[s][j] \notin A
  BY <1>1 DEF Ordered
<1>3. i \in 1..n /\ (j = n + 1 \/ j \in 1..n)
  BY <1>1, <1>2
<1>4. queue[s][i] = "start" /\ Has(s, "start")
  BY <1>1, <1>2, <1>3 DEF Has
<1>5. QED
  BY <1>1, <1>2, <1>3, <1>4 DEF Ordered

\* The first action is taken: what it was, none of A is behind it if it was a starter.
LEMMA TakenOrder ==
  ASSUME NEW s \in Sides, Len(queue[s]) \in Nat \ {0}, NEW a, a = queue[s][1],
         Len(queue'[s]) = Len(queue[s]) - 1,
         \A i \in 1..Len(queue'[s]) : queue'[s][i] = queue[s][i + 1] /\ i + 1 \in 1..Len(queue[s]),
         NEW A, Ordered(s, A)
  PROVE  Ordered(s, A)' /\ (a = "start" => \A b \in A : ~Has(s, b)')
<1>1. 1 \in 1..Len(queue[s]) /\ \A i \in 1..Len(queue'[s]) : 1 < i + 1
  OBVIOUS
<1>2. \A i, j \in 1..Len(queue'[s]) : i < j => i + 1 < j + 1
  OBVIOUS
<1>3. Ordered(s, A)'
  BY <1>2 DEF Ordered
<1>4. a = "start" => \A b \in A : ~Has(s, b)'
  BY <1>1 DEF Ordered, Has
<1>5. QED
  BY <1>3, <1>4

\* The queue of the receive side is not touched.
LEMMA ChainKept ==
  ASSUME ChainOk, queue'["rx"] = queue["rx"],
         \/ wpc'["rx"] = wpc["rx"]
         \/ /\ wpc["rx"] \notin {"create", "ready"} \union ChainSteps \union BufferSteps
            /\ wpc'["rx"] \notin {"create", "ready"} \union ChainSteps \union BufferSteps,
         side'["rx"] = "Initialized" => side["rx"] = "Initialized",
         \/ side'["rx"] \in {"Initialized", "Uninitializing"}
         \/ side'["rx"] = side["rx"]
         \/ wpc["rx"] \notin {"alloc"} \union BufferSteps
  PROVE  ChainOk'
<1>1. "rx" \in Sides
  BY DEF Sides
<1>2. /\ Has("rx", "rx")' <=> Has("rx", "rx")
      /\ Once("rx", {"rx"})'
  BY <1>1, QueueKept DEF ChainOk
<1>3. Ordered("rx", {"rx"})'
  BY <1>1, SameOrder DEF ChainOk
<1>4. QED
  BY <1>2, <1>3 DEF ChainOk, ChainSteps, BufferSteps

\* The buffers are not touched.
LEMMA BuffersKept ==
  ASSUME TypeInv, BuffersOk, plive'["rx"] = plive["rx"], wbuf' = wbuf,
         \A b \in Buffers : (b \in free' <=> b \in free) /\ refs'[b] = refs[b],
         \/ wpc'["rx"] = wpc["rx"]
         \/ wpc["rx"] \notin BufferSteps /\ wpc'["rx"] \notin BufferSteps
         \/ wpc["rx"] \in BufferSteps /\ wpc'["rx"] \in BufferSteps
  PROVE  BuffersOk'
<1>1. wpc["rx"] \in BufferSteps => wbuf \in Buffers
  BY DEF TypeInv, WorkInv
<1>2. QED
  BY <1>1 DEF BuffersOk

\* A worker moves and may change the state of its side.
LEMMA WorkerFrame ==
  ASSUME TypeInv, NEW s \in Sides, WorkerStep(s) \/ asyncio_release_rx_buffer(s)
  PROVE  /\ \A o \in Sides : o # s =>
              side'[o] = side[o] /\ wpc'[o] = wpc[o] /\ plive'[o] = plive[o] /\ wact'[o] = wact[o]
         /\ UNCHANGED <<workers, cpc, cside, phase, life, apc, tok, tlife, sends, stale>>
<1>1. /\ wpc \in [Sides -> WorkerSteps] /\ side \in [Sides -> States] /\ plive \in [Sides -> BOOLEAN]
      /\ wact \in [Sides -> Actions \cup {None}]
  BY DEF TypeInv, WorkInv, WorkType, InstanceType, PoolsType
<1>2. QED
  BY <1>1 DEF WorkerStep, WorkerTake, WorkerDone, StarterCreate, StarterReady, StarterPost, StartedRx,
     StartedTx, StartedStore, StartedSend, Finisher, FinisherDestroy, StoppedRx, StoppedTx,
     StoppedStore, StoppedSend, Receive, ReceiveAlloc, ReceiveRead, asyncio_release_rx_buffer,
     ReceiveCallback, ReceiveRepost, ReceiveFree, Transmit, TransmitWrite, TransmitFree,
     WorkerOnly, WorkerGo, instance, pools, work, control, callers

\* The transmit worker leaves the receive side alone.
LEMMA TransmitFrame ==
  ASSUME TypeInv, WorkerStep("tx")
  PROVE  /\ queue'["rx"] = queue["rx"] /\ wbuf' = wbuf
         /\ \A b \in Buffers : (b \in free' <=> b \in free) /\ refs'[b] = refs[b]
<1>1. /\ queue \in [Sides -> Seq(Actions)] /\ "rx" \in Sides /\ "tx" \in Sides
      /\ refs \in [Blocks -> Nat] /\ Runs("tx", wpc["tx"], wact["tx"])
  BY DEF TypeInv, WorkInv, WorkType, PoolsType, Sides
<1>2. /\ BlocksOf("tx") = Tokens /\ Tokens \cap Buffers = {} /\ Tokens \subseteq Blocks
      /\ Buffers \subseteq Blocks
  BY AsyncioAssumption DEF BlocksOf, Blocks
<1>3. /\ wpc["tx"] \notin ReceiverSteps \union {"post"}
      /\ wpc["tx"] \in TransmitSteps => wact["tx"] \in Tokens
  BY <1>1 DEF Runs
<1> USE DEF ReceiverSteps, BufferSteps, TransmitSteps
<1>4. queue'["rx"] = queue["rx"] /\ wbuf' = wbuf
  BY <1>1, <1>3 DEF WorkerStep, WorkerTake, WorkerDone, StarterCreate, StarterReady, StarterPost, StartedRx,
     StartedTx, StartedStore, StartedSend, Finisher, FinisherDestroy, StoppedRx, StoppedTx,
     StoppedStore, StoppedSend, Receive, ReceiveAlloc, ReceiveRead,
     ReceiveCallback, ReceiveRepost, ReceiveFree, Transmit, TransmitWrite, TransmitFree,
     WorkerOnly, work
<1>5. CASE StarterCreate("tx")
  BY <1>1, <1>2, <1>4, <1>5 DEF StarterCreate
<1>6. CASE FinisherDestroy("tx")
  BY <1>1, <1>2, <1>4, <1>6 DEF FinisherDestroy
<1>7. CASE TransmitFree("tx")
  <2>1. PICK t \in Tokens : t = wact["tx"]
    BY <1>3, <1>7 DEF TransmitFree
  <2>2. PoolFree("tx", t)
    BY <1>7, <2>1 DEF TransmitFree
  <2>3. QED
    BY <1>1, <1>2, <1>4, <2>2 DEF PoolFree
<1>8. CASE ~StarterCreate("tx") /\ ~FinisherDestroy("tx") /\ ~TransmitFree("tx")
  <2>1. UNCHANGED <<free, refs>>
    BY <1>3, <1>8 DEF WorkerStep, WorkerTake, WorkerDone, StarterReady, StarterPost, StartedRx,
     StartedTx, StartedStore, StartedSend, Finisher, StoppedRx, StoppedTx,
     StoppedStore, StoppedSend, Receive, ReceiveAlloc, ReceiveRead,
     ReceiveCallback, ReceiveRepost, ReceiveFree, Transmit, TransmitWrite,
     WorkerOnly, pools
  <2>2. QED
    BY <1>4, <2>1
<1>9. QED
  BY <1>5, <1>6, <1>7, <1>8

\* So do the callers.
LEMMA CallerFrame ==
  ASSUME TypeInv, NEW a \in Callers,
         \/ asyncio_allocate_tx_token(a) \/ asyncio_send_buffer(a)
         \/ asyncio_release_tx_token(a) \/ Forget(a) \/ CallerStep(a)
  PROVE  /\ queue'["rx"] = queue["rx"]
         /\ UNCHANGED <<workers, side, plive, wpc, wact, wbuf, cpc, cside, phase, life>>
         /\ \A b \in Buffers : (b \in free' <=> b \in free) /\ refs'[b] = refs[b]
<1>1. /\ queue \in [Sides -> Seq(Actions)] /\ "rx" \in Sides /\ "tx" \in Sides
      /\ refs \in [Blocks -> Nat] /\ UsesOk(a) /\ tok[a] \in Tokens \union {None}
  BY DEF TypeInv, WorkInv, WorkType, PoolsType, Sides, CallersInv, CallersType
<1>2. /\ Tokens \cap Buffers = {} /\ Tokens \subseteq Blocks /\ Buffers \subseteq Blocks
  BY AsyncioAssumption DEF Blocks
<1>3. /\ queue'["rx"] = queue["rx"]
      /\ UNCHANGED <<workers, side, plive, wpc, wact, wbuf, cpc, cside, phase, life>>
  BY <1>1 DEF asyncio_allocate_tx_token, asyncio_send_buffer, asyncio_release_tx_token, Forget,
     CallerStep, TokenAlloc, SendDispatch, ReleaseFree, CallerOnly, Post, instance, pools, control, work
<1>4. CASE TokenAlloc(a)
  <2>1. (\E t \in Tokens : free' = free \ {t} /\ refs' = [refs EXCEPT ![t] = @ + 1])
          \/ UNCHANGED <<free, refs>>
    BY <1>4 DEF TokenAlloc
  <2>2. QED
    BY <1>1, <1>2, <1>3, <2>1
<1>5. CASE ReleaseFree(a)
  <2>1. PICK t \in Tokens : t = tok[a]
    BY <1>1, <1>5 DEF ReleaseFree, UsesOk
  <2>2. PoolFree("tx", t)
    BY <1>5, <2>1 DEF ReleaseFree
  <2>3. QED
    BY <1>1, <1>2, <1>3, <2>2 DEF PoolFree
<1>6. CASE ~TokenAlloc(a) /\ ~ReleaseFree(a)
  <2>1. UNCHANGED <<free, refs>>
    BY <1>6 DEF asyncio_allocate_tx_token, asyncio_send_buffer, asyncio_release_tx_token, Forget,
       CallerStep, SendDispatch, CallerOnly, pools
  <2>2. QED
    BY <1>3, <2>1
<1>7. QED
  BY <1>4, <1>5, <1>6

\* The controller changes states and posts starters and finishers.
LEMMA ControllerFrame ==
  ASSUME TypeInv, ControlInv,
         asyncio_start \/ asyncio_stop \/ asyncio_destroy_instance \/ ControllerStep \/ Timeout
  PROVE  /\ UNCHANGED <<workers, plive, free, refs, wpc, wact, wbuf>> /\ UNCHANGED callers
         /\ \A s \in Sides :
              \/ queue'[s] = queue[s]
              \/ /\ queue[s] \in Seq(Actions)
                 /\ \E a \in {"start", "finish"} : queue'[s] = Append(queue[s], a)
         /\ \A s \in Sides :
              \/ side'[s] = side[s]
              \/ side[s] = "Uninitialized" /\ side'[s] = "Initializing"
              \/ side[s] = "Initialized" /\ side'[s] = "Uninitializing"
<1>1. /\ queue \in [Sides -> Seq(Actions)] /\ side \in [Sides -> States] /\ cside \in Sides
      /\ cside \in {"rx", "tx"}
  BY DEF TypeInv, WorkInv, WorkType, InstanceType, ControlType, Sides
<1> USE DEF asyncio_start, asyncio_stop, asyncio_destroy_instance, ControllerStep, Timeout, StartClear,
     StartRun, StartReturn, StopTest, StopClear, StopSet, StopReturn, DestroyFlag, StopBegin
<1>2. UNCHANGED <<workers, plive, free, refs, wpc, wact, wbuf>> /\ UNCHANGED callers
  BY DEF StartStore, StartDispatch, StopClaim, StopDispatch, instance, pools, work
<1>3. queue' = queue \/ Post(cside, "start") \/ Post(cside, "finish")
  BY DEF StartStore, StartDispatch, StopClaim, StopDispatch, work
<1>4. \A s \in Sides :
        \/ queue'[s] = queue[s]
        \/ queue[s] \in Seq(Actions) /\ \E a \in {"start", "finish"} : queue'[s] = Append(queue[s], a)
  BY <1>1, <1>3 DEF Post
<1>5. CASE StartStore
  <2>1. side[cside] = "Uninitialized"
    BY <1>1, <1>5 DEF StartStore, ControlInv, PhaseOk, Down
  <2>2. QED
    BY <1>1, <1>2, <1>4, <1>5, <2>1 DEF StartStore
<1>6. CASE StopClaim
  BY <1>1, <1>2, <1>4, <1>6 DEF StopClaim
<1>7. CASE ~StartStore /\ ~StopClaim
  <2>1. side' = side
    BY <1>7 DEF StartDispatch, StopDispatch, instance
  <2>2. QED
    BY <1>2, <1>4, <2>1
<1>8. QED
  BY <1>5, <1>6, <1>7

\* The controller's steps keep the chain.
LEMMA ControllerChain ==
  ASSUME TypeInv, ControlInv, ReceiverInv,
         asyncio_start \/ asyncio_stop \/ asyncio_destroy_instance \/ ControllerStep \/ Timeout
  PROVE  ReceiverInv'
<1>1. /\ UNCHANGED <<workers, plive, free, refs, wpc, wact, wbuf>>
      /\ \/ queue'["rx"] = queue["rx"]
         \/ /\ queue["rx"] \in Seq(Actions)
            /\ \E a \in {"start", "finish"} : queue'["rx"] = Append(queue["rx"], a)
      /\ \/ side'["rx"] = side["rx"]
         \/ side["rx"] = "Uninitialized" /\ side'["rx"] = "Initializing"
         \/ side["rx"] = "Initialized" /\ side'["rx"] = "Uninitializing"
  BY ControllerFrame DEF Sides
<1>2. ChainOk /\ BuffersOk
  BY DEF ReceiverInv
<1>3. BuffersOk'
  BY <1>1, <1>2, BuffersKept
<1>4. CASE queue'["rx"] = queue["rx"]
  <2>1. ChainOk'
    BY <1>1, <1>2, <1>4, ChainKept DEF ChainOk
  <2>2. QED
    BY <1>3, <2>1 DEF ReceiverInv
<1>5. CASE queue'["rx"] # queue["rx"]
  <2>1. PICK a \in {"start", "finish"} : queue'["rx"] = Append(queue["rx"], a)
    BY <1>1, <1>5
  <2>2. "rx" \in Sides /\ a \in Actions /\ a # "rx" /\ a \notin {"rx"} /\ queue["rx"] \in Seq(Actions)
    BY <1>1, <1>5 DEF Sides, Actions
  <2>3. (Has("rx", "rx")' <=> Has("rx", "rx")) /\ Once("rx", {"rx"})'
    BY <1>2, <2>1, <2>2, AppendedHas DEF ChainOk
  <2>4. Ordered("rx", {"rx"})'
    BY <1>2, <2>1, <2>2, AppendedOrder DEF ChainOk
  <2>5. ChainOk'
    BY <1>1, <1>2, <2>3, <2>4 DEF ChainOk
  <2>6. QED
    BY <1>3, <2>5 DEF ReceiverInv
<1>6. QED
  BY <1>4, <1>5

\* pool_free of a receive buffer that rx_f has.
LEMMA BufferFreed ==
  ASSUME TypeInv, ControlInv, ReceiverInv, wpc["rx"] \in BufferSteps, PoolFree("rx", wbuf)
  PROVE  /\ wbuf \in Buffers
         /\ \A b \in Buffers : b \in free' => refs'[b] = 0
         /\ Buffers \subseteq free' /\ refs'[wbuf] = 0
<1>1. /\ wbuf \in Buffers /\ refs \in [Blocks -> Nat] /\ "rx" \in Sides /\ Buffers \subseteq Blocks
  BY DEF TypeInv, WorkInv, PoolsType, Sides, Blocks
<1>2. /\ side["rx"] \in {"Initialized", "Uninitializing"}
      /\ Buffers \ {wbuf} \subseteq free
      /\ refs[wbuf] = 1 \/ (refs[wbuf] = 0 /\ wbuf \in free)
      /\ \A b \in Buffers : b \in free => refs[b] = 0
  BY DEF ReceiverInv, ChainOk, BuffersOk
<1>3. plive["rx"]
  BY <1>1, <1>2 DEF ControlInv, SideOk, InitializedOk, UninitializingOk
<1>4. CASE refs[wbuf] = 1
  <2>1. /\ refs'[wbuf] = 0 /\ free' = free \cup {wbuf}
        /\ \A b \in Buffers : b # wbuf => refs'[b] = refs[b]
    BY <1>1, <1>3, <1>4 DEF PoolFree
  <2>2. QED
    BY <1>1, <1>2, <2>1
<1>5. CASE refs[wbuf] = 0 /\ wbuf \in free
  <2>1. UNCHANGED <<refs, free>>
    BY <1>5 DEF PoolFree
  <2>2. QED
    BY <1>1, <1>2, <1>5, <2>1
<1>6. QED
  BY <1>2, <1>4, <1>5

\* The receive worker posts rx_f again.
LEMMA ChainPosted ==
  ASSUME TypeInv, ControlInv, ChainOk, wpc["rx"] \in {"post", "alloc", "repost"}, Post("rx", "rx"),
         side' = side, wpc'["rx"] \in {"started_rx", "done", "rx_free"},
         wpc'["rx"] = "rx_free" => wpc["rx"] = "repost"
  PROVE  ChainOk'
<1>1. /\ "rx" \in Sides /\ queue["rx"] \in Seq(Actions) /\ "rx" \in Actions
      /\ queue'["rx"] = Append(queue["rx"], "rx")
  BY DEF TypeInv, WorkInv, WorkType, Sides, Actions, Post
<1>2. ~Has("rx", "rx")
  BY DEF ChainOk, ChainSteps
<1>3. side["rx"] \in {"Initialized", "Uninitializing"}
  <2>1. CASE wpc["rx"] = "post"
    BY <1>1, <2>1, StateAt DEF ControlInv, InCompletion, StarterSteps
  <2>2. QED
    BY <2>1 DEF ChainOk, BufferSteps
<1>4. ~Has("rx", "start")
  BY <1>1, <1>3 DEF ControlInv, SideOk, InitializedOk, UninitializingOk, Posted
<1>5. Has("rx", "rx")' /\ Once("rx", {"rx"})'
  BY <1>1, <1>2, AppendedHas
<1>6. Ordered("rx", {"rx"})'
  BY <1>1, <1>4, AppendedOrder DEF ChainOk
<1>7. QED
  BY <1>3, <1>5, <1>6 DEF ChainOk, ChainSteps, BufferSteps

\* The receive worker takes an action.
LEMMA ChainTaken ==
  ASSUME TypeInv, ReceiverInv, WorkerTake("rx")
  PROVE  ReceiverInv'
<1> DEFINE a == Head(queue["rx"])
<1>1. /\ wpc \in [Sides -> WorkerSteps] /\ QueuesOk /\ "rx" \in Sides /\ ChainOk /\ BuffersOk
  BY DEF TypeInv, WorkInv, WorkType, Sides, ReceiverInv
<1>2. /\ queue["rx"] # <<>> /\ queue' = [queue EXCEPT !["rx"] = Tail(@)] /\ wpc["rx"] = "wait"
      /\ wpc'["rx"] = (IF a = "start" THEN "create" ELSE IF a = "finish" THEN "finish"
                       ELSE IF a = "rx" THEN "rx" ELSE "tx")
      /\ UNCHANGED <<side, plive, free, refs, wbuf>>
  BY <1>1 DEF WorkerTake, WorkerGo, instance, pools
<1>3. /\ a \in ActionsOf("rx") /\ Len(queue["rx"]) \in Nat \ {0} /\ a = queue["rx"][1]
      /\ Len(queue'["rx"]) = Len(queue["rx"]) - 1
      /\ \A i \in 1..Len(queue'["rx"]) :
            queue'["rx"][i] = queue["rx"][i + 1] /\ i + 1 \in 1..Len(queue["rx"])
  BY <1>1, <1>2, Taken
<1>4. PICK h \in {"start", "finish", "rx"} : h = a
  BY <1>3 DEF ActionsOf
<1>5. /\ \A b : Has("rx", b) <=> Has("rx", b)' \/ b = h
      /\ \A A : Once("rx", A) => Once("rx", A)'
      /\ \A A : Once("rx", A) /\ h \in A => \A b \in A : ~Has("rx", b)'
  BY <1>1, <1>3, <1>4, TakenHas
<1>6. Ordered("rx", {"rx"})' /\ (h = "start" => \A b \in {"rx"} : ~Has("rx", b)')
  BY <1>1, <1>3, <1>4, TakenOrder DEF ChainOk
<1>7. wpc'["rx"] = IF h = "start" THEN "create" ELSE IF h = "finish" THEN "finish" ELSE "rx"
  BY <1>2, <1>4
<1>8. ChainOk'
  <2>1. Once("rx", {"rx"})' /\ (h = "rx" => ~Has("rx", "rx")') /\ (h = "start" => ~Has("rx", "rx")')
    BY <1>1, <1>5, <1>6 DEF ChainOk
  <2>2. h # "rx" => (Has("rx", "rx")' <=> Has("rx", "rx"))
    BY <1>5
  <2>3. QED
    BY <1>1, <1>2, <1>6, <1>7, <2>1, <2>2 DEF ChainOk, ChainSteps, BufferSteps
<1>9. BuffersOk'
  BY <1>1, <1>2, <1>7, BuffersKept DEF BufferSteps
<1>10. QED
  BY <1>8, <1>9 DEF ReceiverInv

\* The other steps of the receive worker.
LEMMA ReceiverStep ==
  ASSUME TypeInv, ControlInv, ReceiverInv, WorkerStep("rx") \/ asyncio_release_rx_buffer("rx")
  PROVE  ReceiverInv'
<1>1. /\ wpc \in [Sides -> WorkerSteps] /\ side \in [Sides -> States] /\ plive \in [Sides -> BOOLEAN]
      /\ queue \in [Sides -> Seq(Actions)] /\ refs \in [Blocks -> Nat]
      /\ "rx" \in Sides /\ ChainOk /\ BuffersOk /\ Runs("rx", wpc["rx"], wact["rx"]) /\ SideOk("rx")
  BY DEF TypeInv, WorkInv, WorkType, InstanceType, PoolsType, Sides, ReceiverInv, ControlInv
<1>2. BlocksOf("rx") = Buffers /\ Buffers \subseteq Blocks
  BY DEF BlocksOf, Blocks
<1> USE DEF WorkerOnly, WorkerGo, instance, pools, work
<1>3. CASE WorkerTake("rx")
  BY <1>3, ChainTaken
<1>4. CASE \/ WorkerDone("rx") \/ StartedRx("rx") \/ StartedTx("rx") \/ StartedStore("rx")
           \/ StartedSend("rx") \/ StoppedRx("rx") \/ StoppedTx("rx") \/ StoppedStore("rx")
           \/ StoppedSend("rx")
  <2>1. /\ UNCHANGED <<queue, side, plive, free, refs, wbuf>>
        /\ wpc["rx"] \notin {"create", "ready"} \union ChainSteps \union BufferSteps
        /\ wpc'["rx"] \notin {"create", "ready"} \union ChainSteps \union BufferSteps
    BY <1>1, <1>4 DEF WorkerDone, StartedRx, StartedTx, StartedStore, StartedSend, StoppedRx,
         StoppedTx, StoppedStore, StoppedSend, ChainSteps, BufferSteps
  <2>2. ChainOk'
    BY <1>1, <2>1, ChainKept
  <2>3. BuffersOk'
    BY <1>1, <2>1, BuffersKept
  <2>4. QED
    BY <2>2, <2>3 DEF ReceiverInv
<1>5. CASE StarterCreate("rx")
  <2>1. /\ UNCHANGED <<queue, side, wbuf>> /\ wpc["rx"] = "create" /\ wpc'["rx"] = "ready"
        /\ free' = free \cup Buffers /\ \A b \in Buffers : refs'[b] = 0
    BY <1>1, <1>2, <1>5 DEF StarterCreate
  <2>2. Has("rx", "rx")' <=> Has("rx", "rx")
    BY <1>1, <2>1, QueueKept
  <2>3. Once("rx", {"rx"})' /\ Ordered("rx", {"rx"})'
    BY <1>1, <2>1, QueueKept, SameOrder DEF ChainOk
  <2>4. ChainOk'
    BY <1>1, <2>1, <2>2, <2>3 DEF ChainOk, ChainSteps, BufferSteps
  <2>5. BuffersOk'
    BY <2>1 DEF BuffersOk, BufferSteps
  <2>6. QED
    BY <2>4, <2>5 DEF ReceiverInv
<1>6. CASE StarterReady("rx")
  <2>1. /\ UNCHANGED <<queue, plive, free, refs, wbuf>> /\ wpc["rx"] = "ready" /\ wpc'["rx"] = "post"
        /\ side'["rx"] = "Initialized"
    BY <1>1, <1>6 DEF StarterReady
  <2>2. (Has("rx", "rx")' <=> Has("rx", "rx")) /\ Once("rx", {"rx"})' /\ Ordered("rx", {"rx"})'
    BY <1>1, <2>1, QueueKept, SameOrder DEF ChainOk
  <2>3. ChainOk'
    BY <1>1, <2>1, <2>2 DEF ChainOk, ChainSteps, BufferSteps
  <2>4. BuffersOk'
    BY <1>1, <2>1, BuffersKept DEF BufferSteps
  <2>5. QED
    BY <2>3, <2>4 DEF ReceiverInv
<1>7. CASE StarterPost("rx")
  <2>1. /\ Post("rx", "rx") /\ wpc["rx"] = "post" /\ wpc'["rx"] = "started_rx" /\ side' = side
        /\ UNCHANGED <<plive, free, refs, wbuf>>
    BY <1>1, <1>7 DEF StarterPost
  <2>2. ChainOk'
    BY <1>1, <2>1, ChainPosted
  <2>3. BuffersOk'
    BY <1>1, <2>1, BuffersKept DEF BufferSteps
  <2>4. QED
    BY <2>2, <2>3 DEF ReceiverInv
<1>8. CASE Finisher("rx")
  <2>1. /\ UNCHANGED <<queue, plive, free, refs, wbuf>> /\ wpc["rx"] = "finish"
        /\ wpc'["rx"] \in {"destroy", "stopped_rx"}
        /\ side'["rx"] = side["rx"] \/ side'["rx"] = "Uninitialized"
    BY <1>1, <1>8 DEF Finisher
  <2>2. ChainOk'
    BY <1>1, <2>1, ChainKept DEF ChainSteps, BufferSteps
  <2>3. BuffersOk'
    BY <1>1, <2>1, BuffersKept DEF BufferSteps
  <2>4. QED
    BY <2>2, <2>3 DEF ReceiverInv
<1>9. CASE FinisherDestroy("rx")
  <2>1. /\ UNCHANGED <<queue, side, refs, wbuf>> /\ wpc["rx"] = "destroy" /\ wpc'["rx"] = "stopped_rx"
        /\ free' = free \ Buffers /\ plive'["rx"] = FALSE
    BY <1>1, <1>2, <1>9 DEF FinisherDestroy
  <2>2. ChainOk'
    BY <1>1, <2>1, ChainKept DEF ChainSteps, BufferSteps
  <2>3. BuffersOk'
    BY <2>1 DEF BuffersOk, BufferSteps
  <2>4. QED
    BY <2>2, <2>3 DEF ReceiverInv
<1>10. CASE Receive("rx") \/ ReceiveRead("rx") \/ ReceiveCallback("rx")
  <2>1. /\ UNCHANGED <<queue, side, plive, free, refs, wbuf>>
        /\ \/ wpc["rx"] = "rx" /\ side["rx"] = "Initialized" /\ wpc'["rx"] = "alloc"
           \/ wpc["rx"] = "rx" /\ side["rx"] # "Initialized" /\ wpc'["rx"] = "done"
           \/ wpc["rx"] \in {"reading", "callback"} /\ wpc'["rx"] \in {"callback", "repost"}
    BY <1>1, <1>10 DEF Receive, ReceiveRead, ReceiveCallback
  <2>2. (Has("rx", "rx")' <=> Has("rx", "rx")) /\ Once("rx", {"rx"})' /\ Ordered("rx", {"rx"})'
    BY <1>1, <2>1, QueueKept, SameOrder DEF ChainOk
  <2>3. ChainOk'
    BY <1>1, <2>1, <2>2 DEF ChainOk, ChainSteps, BufferSteps
  <2>4. BuffersOk'
    BY <1>1, <2>1, BuffersKept DEF BufferSteps
  <2>5. QED
    BY <2>3, <2>4 DEF ReceiverInv
<1>11. CASE ReceiveAlloc("rx")
  <2>1. /\ side' = side /\ wpc["rx"] = "alloc" /\ plive' = plive
        /\ side["rx"] \in {"Initialized", "Uninitializing"}
    BY <1>1, <1>11 DEF ReceiveAlloc, ChainOk
  <2>2. plive["rx"]
    BY <1>1, <2>1 DEF SideOk, InitializedOk, UninitializingOk
  <2>3. Buffers \subseteq free /\ free \cap Buffers # {} /\ \A b \in Buffers : refs[b] = 0
    BY <1>1, <2>1, <2>2, AsyncioAssumption DEF BuffersOk, BufferSteps
  <2>4. PICK b \in Buffers : free' = free \ {b} /\ refs' = [refs EXCEPT ![b] = @ + 1] /\ wbuf' = b
    BY <1>11, <2>2, <2>3 DEF ReceiveAlloc
  <2>5. queue' = queue /\ wpc'["rx"] = "reading"
    BY <1>1, <1>11, <2>2, <2>3 DEF ReceiveAlloc
  <2>6. (Has("rx", "rx")' <=> Has("rx", "rx")) /\ Once("rx", {"rx"})' /\ Ordered("rx", {"rx"})'
    BY <1>1, <2>5, QueueKept, SameOrder DEF ChainOk
  <2>7. ChainOk'
    BY <1>1, <2>1, <2>5, <2>6 DEF ChainOk, ChainSteps, BufferSteps
  <2>8. refs'[b] = 1 /\ \A c \in Buffers : c # b => refs'[c] = 0
    BY <1>1, <1>2, <2>3, <2>4
  <2>9. BuffersOk'
    BY <2>3, <2>4, <2>5, <2>8 DEF BuffersOk, BufferSteps
  <2>10. QED
    BY <2>7, <2>9 DEF ReceiverInv
<1>12. CASE asyncio_release_rx_buffer("rx")
  <2>1. /\ UNCHANGED <<queue, side, plive, wbuf>> /\ wpc["rx"] = "callback" /\ wpc' = wpc
        /\ PoolFree("rx", wbuf) /\ wpc["rx"] \in BufferSteps
    BY <1>12 DEF asyncio_release_rx_buffer, BufferSteps
  <2>2. ChainOk'
    BY <1>1, <2>1, ChainKept
  <2>3. /\ wbuf \in Buffers /\ \A b \in Buffers : b \in free' => refs'[b] = 0
        /\ Buffers \subseteq free' /\ refs'[wbuf] = 0
    BY <2>1, BufferFreed
  <2>4. BuffersOk'
    BY <2>1, <2>3 DEF BuffersOk
  <2>5. QED
    BY <2>2, <2>4 DEF ReceiverInv
<1>13. CASE ReceiveRepost("rx")
  <2>1. /\ Post("rx", "rx") /\ wpc["rx"] = "repost" /\ wpc'["rx"] = "rx_free" /\ side' = side
        /\ UNCHANGED <<plive, free, refs, wbuf>>
    BY <1>1, <1>13 DEF ReceiveRepost
  <2>2. ChainOk'
    BY <1>1, <2>1, ChainPosted
  <2>3. BuffersOk'
    BY <1>1, <2>1, BuffersKept DEF BufferSteps
  <2>4. QED
    BY <2>2, <2>3 DEF ReceiverInv
<1>14. CASE ReceiveFree("rx")
  <2>1. /\ UNCHANGED <<queue, side, plive>> /\ wpc["rx"] = "rx_free" /\ wpc'["rx"] = "done"
        /\ PoolFree("rx", wbuf) /\ wpc["rx"] \in BufferSteps
    BY <1>1, <1>14 DEF ReceiveFree, BufferSteps
  <2>2. (Has("rx", "rx")' <=> Has("rx", "rx")) /\ Once("rx", {"rx"})' /\ Ordered("rx", {"rx"})'
    BY <1>1, <2>1, QueueKept, SameOrder DEF ChainOk
  <2>3. ChainOk'
    BY <1>1, <2>1, <2>2 DEF ChainOk, ChainSteps, BufferSteps
  <2>4. /\ \A b \in Buffers : b \in free' => refs'[b] = 0
        /\ Buffers \subseteq free'
    BY <2>1, BufferFreed
  <2>5. BuffersOk'
    BY <2>1, <2>4 DEF BuffersOk, BufferSteps
  <2>6. QED
    BY <2>3, <2>5 DEF ReceiverInv
<1>15. CASE Transmit("rx") \/ TransmitWrite("rx") \/ TransmitFree("rx")
  BY <1>1, <1>15 DEF Transmit, TransmitWrite, TransmitFree, Runs, TransmitSteps
<1>16. QED
  BY <1>3, <1>4, <1>5, <1>6, <1>7, <1>8, <1>9, <1>10, <1>11, <1>12, <1>13, <1>14, <1>15 DEF WorkerStep

\* The chain of the first state ...
LEMMA ReceiverInit == Init => ReceiverInv
<1> SUFFICES ASSUME Init PROVE ReceiverInv
  OBVIOUS
<1>1. /\ side["rx"] = "Uninitialized" /\ queue["rx"] = <<>> /\ wpc["rx"] = "wait" /\ ~plive["rx"]
      /\ free = {}
  BY DEF Init, Sides
<1>2. ~Has("rx", "rx") /\ Once("rx", {"rx"}) /\ Ordered("rx", {"rx"})
  BY <1>1 DEF Has, Once, Ordered
<1>3. QED
  BY <1>1, <1>2 DEF ReceiverInv, ChainOk, BuffersOk, ChainSteps, BufferSteps

\* ... and of every step.
LEMMA ReceiverNext == TypeInv /\ ControlInv /\ ReceiverInv /\ [Next]_vars => ReceiverInv'
<1> SUFFICES ASSUME TypeInv, ControlInv, ReceiverInv, [Next]_vars PROVE ReceiverInv'
  OBVIOUS
<1>1. "rx" \in Sides /\ "tx" \in Sides /\ ChainOk /\ BuffersOk
  BY DEF Sides, ReceiverInv
<1>2. CASE UNCHANGED vars
  <2>1. UNCHANGED <<side, plive, queue, wpc, wbuf, free, refs>>
    BY <1>2 DEF vars
  <2>2. ChainOk'
    BY <1>1, <2>1, ChainKept
  <2>3. BuffersOk'
    BY <1>1, <2>1, BuffersKept
  <2>4. QED
    BY <2>2, <2>3 DEF ReceiverInv
<1>3. CASE WorkerStep("tx")
  <2>1. /\ side'["rx"] = side["rx"] /\ wpc'["rx"] = wpc["rx"] /\ plive'["rx"] = plive["rx"]
    BY <1>1, <1>3, WorkerFrame
  <2>2. /\ queue'["rx"] = queue["rx"] /\ wbuf' = wbuf
        /\ \A b \in Buffers : (b \in free' <=> b \in free) /\ refs'[b] = refs[b]
    BY <1>3, TransmitFrame
  <2>3. ChainOk'
    BY <1>1, <2>1, <2>2, ChainKept
  <2>4. BuffersOk'
    BY <1>1, <2>1, <2>2, BuffersKept
  <2>5. QED
    BY <2>3, <2>4 DEF ReceiverInv
<1>4. ASSUME NEW a \in Callers,
             \/ asyncio_allocate_tx_token(a) \/ asyncio_send_buffer(a)
             \/ asyncio_release_tx_token(a) \/ Forget(a) \/ CallerStep(a)
      PROVE  ReceiverInv'
  <2>1. /\ queue'["rx"] = queue["rx"]
        /\ UNCHANGED <<workers, side, plive, wpc, wact, wbuf, cpc, cside, phase, life>>
        /\ \A b \in Buffers : (b \in free' <=> b \in free) /\ refs'[b] = refs[b]
    BY <1>4, CallerFrame
  <2>2. ChainOk'
    BY <1>1, <2>1, ChainKept
  <2>3. BuffersOk'
    BY <1>1, <2>1, BuffersKept
  <2>4. QED
    BY <2>2, <2>3 DEF ReceiverInv
<1>5. ~asyncio_release_rx_buffer("tx")
  BY <1>1 DEF asyncio_release_rx_buffer, TypeInv, WorkInv, Runs, ReceiverSteps, BufferSteps
<1>6. CASE Running
  BY <1>3, <1>4, <1>5, <1>6, ControllerChain, ReceiverStep DEF Running, Sides
<1>7. QED
  BY <1>2, <1>6 DEF Next, Finished

\* The receive side has exactly one chain of rx_f while it is up, and a receiver
\* that allocates finds its pool whole.
THEOREM ReceiverAlwaysRuns == Spec => []ReceiverRuns
<1>1. Init => ReceiverInv
  BY ReceiverInit
<1>2. TypeInv /\ ControlInv /\ ReceiverInv /\ [Next]_vars => ReceiverInv'
  BY ReceiverNext
<1>3. ASSUME TypeInv, ControlInv, ReceiverInv PROVE ReceiverRuns
  <2> DEFINE R == {i \in DOMAIN queue["rx"] : queue["rx"][i] = "rx"}
  <2>1. /\ "rx" \in Sides /\ queue["rx"] \in Seq(Actions) /\ ChainOk /\ BuffersOk /\ SideOk("rx")
    BY <1>3 DEF TypeInv, WorkInv, WorkType, Sides, ReceiverInv, ControlInv
  <2>2. R = {i \in 1..Len(queue["rx"]) : queue["rx"][i] = "rx"}
    BY <2>1
  <2>3. Cardinality(R) = IF Has("rx", "rx") THEN 1 ELSE 0
    <3>1. CASE Has("rx", "rx")
      <4>1. PICK i \in 1..Len(queue["rx"]) : queue["rx"][i] = "rx"
        BY <3>1 DEF Has
      <4>2. R = {i}
        BY <2>1, <2>2, <4>1 DEF ChainOk, Once
      <4>3. Cardinality({i}) = 1
        BY FS_Singleton
      <4>4. QED
        BY <3>1, <4>2, <4>3
    <3>2. CASE ~Has("rx", "rx")
      <4>1. R = {}
        BY <2>2, <3>2 DEF Has
      <4>2. QED
        BY <3>2, <4>1, FS_EmptySet
    <3>3. QED
      BY <3>1, <3>2
  <2>4. Readers = Cardinality(R) + (IF wpc["rx"] \in ChainSteps THEN 1 ELSE 0)
    BY DEF Readers, ChainSteps
  <2>5. side["rx"] = "Initialized" => Readers = 1
    BY <2>1, <2>3, <2>4 DEF ChainOk
  <2>6. ASSUME wpc["rx"] = "alloc" PROVE plive["rx"] /\ Buffers \subseteq free
    <3>1. side["rx"] \in {"Initialized", "Uninitializing"}
      BY <2>1, <2>6 DEF ChainOk
    <3>2. plive["rx"]
      BY <2>1, <3>1 DEF SideOk, InitializedOk, UninitializingOk
    <3>3. QED
      BY <2>1, <2>6, <3>2 DEF BuffersOk, BufferSteps
  <2>7. QED
    BY <2>5, <2>6 DEF ReceiverRuns
<1>4. QED
  BY <1>1, <1>2, <1>3, ControlAlways, PTL DEF Spec

-----------------------------------------------------------------------------
(* The tokens, step by step.                                               *)

\* Nobody gets a token.
LEMMA OwnersKept ==
  ASSUME OwnersOk,
         \A t \in Tokens : Has("tx", t)' => Has("tx", t),
         \A t \in Tokens : Once("tx", {t})',
         \A t \in Tokens : Sending(t)' => Sending(t),
         \A t \in Tokens, a \in Callers : Current(a, t)' => Current(a, t)
  PROVE  OwnersOk'
  BY DEF OwnersOk

\* The counts stay as they are.
LEMMA CountsKept ==
  ASSUME CountsOk,
         \A t \in Tokens : Owned(t)' <=> Owned(t),
         \A t \in Tokens : (t \in free' <=> t \in free) /\ refs'[t] = refs[t],
         side'["tx"] \in {"Initialized", "Uninitializing"} =>
            side["tx"] \in {"Initialized", "Uninitializing"},
         wpc'["tx"] = "ready" => wpc["tx"] = "ready"
  PROVE  CountsOk'
  BY DEF CountsOk

\* A token that has lost its owner is freed.
LEMMA CountsFreed ==
  ASSUME TypeInv, ControlInv, CountsOk, NEW t \in Tokens, refs[t] = 1, PoolFree("tx", t), ~Owned(t)',
         \A u \in Tokens : u # t => (Owned(u)' <=> Owned(u)),
         side' = side, wpc["tx"] # "ready", wpc'["tx"] # "ready"
  PROVE  CountsOk' /\ UNCHANGED ended
<1>1. refs \in [Blocks -> Nat] /\ Tokens \subseteq Blocks /\ "tx" \in Sides
  BY DEF TypeInv, PoolsType, Blocks, Sides
<1>2. /\ refs'[t] = 0 /\ \A u \in Tokens : u # t => refs'[u] = refs[u]
      /\ free' = IF plive["tx"] THEN free \cup {t} ELSE free
      /\ UNCHANGED ended
  BY <1>1 DEF PoolFree
<1>3. side["tx"] \in {"Initialized", "Uninitializing"} => plive["tx"]
  BY <1>1 DEF ControlInv, SideOk, InitializedOk, UninitializingOk
<1>4. QED
  BY <1>2, <1>3 DEF CountsOk

\* Nothing happens to the tokens.
LEMMA TokensKept ==
  ASSUME OwnersOk, CountsOk, OrderOk,
         \A t \in Tokens : Has("tx", t)' <=> Has("tx", t),
         \A t \in Tokens : Once("tx", {t})',
         Ordered("tx", Tokens)',
         \A t \in Tokens : Sending(t)' <=> Sending(t),
         wpc'["tx"] \in {"create", "ready"} => wpc'["tx"] = wpc["tx"],
         \A t \in Tokens, a \in Callers : Current(a, t)' <=> Current(a, t),
         \A t \in Tokens : (t \in free' <=> t \in free) /\ refs'[t] = refs[t],
         side'["tx"] \in {"Initialized", "Uninitializing"} =>
            side["tx"] \in {"Initialized", "Uninitializing"}
  PROVE  OwnersOk' /\ CountsOk' /\ OrderOk'
<1>1. OwnersOk'
  BY OwnersKept
<1>2. \A t \in Tokens : Owned(t)' <=> Owned(t)
  BY DEF Owned
<1>3. CountsOk'
  BY <1>2, CountsKept
<1>4. OrderOk'
  BY DEF OrderOk
<1>5. QED
  BY <1>1, <1>3, <1>4

\* A queue of messages that does not change.
LEMMA SameMessages ==
  ASSUME OwnersOk, OrderOk, queue'["tx"] = queue["tx"]
  PROVE  /\ \A t \in Tokens : (Has("tx", t)' <=> Has("tx", t)) /\ Once("tx", {t})'
         /\ Ordered("tx", Tokens)'
<1>1. "tx" \in Sides
  BY DEF Sides
<1>2. ASSUME NEW t \in Tokens PROVE (Has("tx", t)' <=> Has("tx", t)) /\ Once("tx", {t})'
  BY <1>1, QueueKept DEF OwnersOk
<1>3. Ordered("tx", Tokens)'
  BY <1>1, SameOrder DEF OrderOk
<1>4. QED
  BY <1>2, <1>3

\* A call of the present life is not made while the transmit side starts.
LEMMA CallInLife ==
  ASSUME TypeInv, ControlInv, CallsOk, NEW a \in Callers, tlife[a] = life,
         apc[a] = "alloc" \/ tok[a] # None
  PROVE  /\ side["tx"] # "Initializing" /\ ~Has("tx", "start")
         /\ wpc["tx"] \notin {"create", "ready"}
<1>1. "tx" \in Sides /\ SideOk("tx") /\ PhaseOk /\ side["tx"] \in States
      /\ phase \in {"starting", "running", "stopping", "stopped"}
  BY DEF Sides, ControlInv, TypeInv, InstanceType, ControlType
<1>2. ASSUME side["tx"] = "Initializing" PROVE FALSE
  <2>1. "tx" \in workers
    BY <1>1, <1>2 DEF SideOk
  <2>2. phase = "starting"
    BY <1>1, <1>2, <2>1, StateIn DEF Up, Down
  <2>3. QED
    BY <1>2, <2>2 DEF CallsOk
<1>3. ~Has("tx", "start")
  BY <1>1, <1>2 DEF SideOk, States, UninitializedOk, InitializedOk, UninitializingOk, Posted
<1>4. wpc["tx"] \notin {"create", "ready"}
  BY <1>1, <1>2, StateAt
<1>5. QED
  BY <1>2, <1>3, <1>4

\* The calls under way, when no caller does anything.
LEMMA CallsKept ==
  ASSUME CallsOk, UNCHANGED <<life, apc, tok, tlife>>, phase' = "starting" => phase = "starting",
         side["tx"] = "Initialized" /\ phase' = "starting" => side'["tx"] = "Initialized"
  PROVE  CallsOk'
  BY DEF CallsOk

\* The receive worker leaves the transmit side alone.
LEMMA ReceiverFrame ==
  ASSUME TypeInv, WorkerStep("rx") \/ asyncio_release_rx_buffer("rx")
  PROVE  /\ queue'["tx"] = queue["tx"]
         /\ \A t \in Tokens : (t \in free' <=> t \in free) /\ refs'[t] = refs[t]
<1>1. /\ queue \in [Sides -> Seq(Actions)] /\ "rx" \in Sides /\ "tx" \in Sides
      /\ refs \in [Blocks -> Nat] /\ Runs("rx", wpc["rx"], wact["rx"])
      /\ wpc["rx"] \in BufferSteps => wbuf \in Buffers
  BY DEF TypeInv, WorkInv, WorkType, PoolsType, Sides
<1>2. /\ BlocksOf("rx") = Buffers /\ Tokens \cap Buffers = {} /\ Tokens \subseteq Blocks
      /\ Buffers \subseteq Blocks
  BY AsyncioAssumption DEF BlocksOf, Blocks
<1>3. wpc["rx"] \notin TransmitSteps
  BY <1>1 DEF Runs
<1> USE DEF BufferSteps, TransmitSteps
<1>4. queue'["tx"] = queue["tx"]
  BY <1>1, <1>3 DEF WorkerStep, WorkerTake, WorkerDone, StarterCreate, StarterReady, StarterPost,
     StartedRx, StartedTx, StartedStore, StartedSend, Finisher, FinisherDestroy, StoppedRx, StoppedTx,
     StoppedStore, StoppedSend, Receive, ReceiveAlloc, ReceiveRead, asyncio_release_rx_buffer,
     ReceiveCallback, ReceiveRepost, ReceiveFree, Transmit, TransmitWrite, TransmitFree,
     WorkerOnly, Post, work
<1>5. CASE StarterCreate("rx")
  BY <1>1, <1>2, <1>4, <1>5 DEF StarterCreate
<1>6. CASE FinisherDestroy("rx")
  BY <1>1, <1>2, <1>4, <1>6 DEF FinisherDestroy
<1>7. CASE ReceiveFree("rx") \/ asyncio_release_rx_buffer("rx")
  <2>1. PICK b \in Buffers : b = wbuf
    BY <1>1, <1>7 DEF ReceiveFree, asyncio_release_rx_buffer
  <2>2. PoolFree("rx", b)
    BY <1>7, <2>1 DEF ReceiveFree, asyncio_release_rx_buffer
  <2>3. QED
    BY <1>1, <1>2, <1>4, <2>2 DEF PoolFree
<1>8. CASE ReceiveAlloc("rx")
  <2>1. (\E b \in Buffers : free' = free \ {b} /\ refs' = [refs EXCEPT ![b] = @ + 1])
          \/ UNCHANGED <<free, refs>>
    BY <1>8 DEF ReceiveAlloc
  <2>2. QED
    BY <1>1, <1>2, <1>4, <2>1
<1>9. CASE ~(\/ StarterCreate("rx") \/ FinisherDestroy("rx") \/ ReceiveFree("rx")
             \/ asyncio_release_rx_buffer("rx") \/ ReceiveAlloc("rx"))
  <2>1. UNCHANGED <<free, refs>>
    BY <1>3, <1>9 DEF WorkerStep, WorkerTake, WorkerDone, StarterReady, StarterPost, StartedRx,
     StartedTx, StartedStore, StartedSend, Finisher, StoppedRx, StoppedTx,
     StoppedStore, StoppedSend, Receive, ReceiveRead, ReceiveCallback, ReceiveRepost, Transmit,
     TransmitWrite, TransmitFree, WorkerOnly, pools
  <2>2. QED
    BY <1>4, <2>1
<1>10. QED
  BY <1>5, <1>6, <1>7, <1>8, <1>9

\* The controller's steps keep the tokens.
LEMMA ControllerTokens ==
  ASSUME TypeInv, ControlInv, TokensOk,
         asyncio_start \/ asyncio_stop \/ asyncio_destroy_instance \/ ControllerStep \/ Timeout
  PROVE  TokensOk'
<1>1. /\ OwnersOk /\ CountsOk /\ OrderOk /\ CallsOk
      /\ "tx" \in Sides /\ {"start", "finish"} \cap Tokens = {} /\ None \notin Tokens
      /\ life \in Int /\ \A a \in Callers : tlife[a] \in Int /\ tlife[a] <= life
  BY AsyncioAssumption DEF TokensOk, Sides, Blocks, TypeInv, ControlType, CallersInv, CallersType
<1>2. /\ UNCHANGED <<workers, plive, free, refs, wpc, wact, wbuf>> /\ UNCHANGED callers
      /\ \/ queue'["tx"] = queue["tx"]
         \/ /\ queue["tx"] \in Seq(Actions)
            /\ \E a \in {"start", "finish"} : queue'["tx"] = Append(queue["tx"], a)
      /\ \/ side'["tx"] = side["tx"]
         \/ side["tx"] = "Uninitialized" /\ side'["tx"] = "Initializing"
         \/ side["tx"] = "Initialized" /\ side'["tx"] = "Uninitializing"
  BY <1>1, ControllerFrame
<1>3. UNCHANGED <<apc, tok, tlife, stale>>
  BY <1>2 DEF callers
<1>4. /\ \A t \in Tokens : (Has("tx", t)' <=> Has("tx", t)) /\ Once("tx", {t})'
      /\ Ordered("tx", Tokens)'
  <2>1. CASE queue'["tx"] = queue["tx"]
    BY <1>1, <2>1, SameMessages
  <2>2. CASE queue'["tx"] # queue["tx"]
    <3>1. PICK a \in {"start", "finish"} : queue'["tx"] = Append(queue["tx"], a)
      BY <1>2, <2>2
    <3>2. a \in Actions /\ a \notin Tokens /\ queue["tx"] \in Seq(Actions)
      BY <1>1, <1>2, <2>2 DEF Actions
    <3>3. /\ \A b : Has("tx", b)' <=> Has("tx", b) \/ b = a
          /\ \A A : Once("tx", A) /\ a \notin A => Once("tx", A)'
      BY <1>1, <3>1, <3>2, AppendedHas
    <3>4. \A t \in Tokens : a \notin {t} /\ Once("tx", {t})
      BY <1>1, <3>2 DEF OwnersOk
    <3>5. Ordered("tx", Tokens)'
      BY <1>1, <3>1, <3>2, AppendedOrder DEF OrderOk
    <3>6. QED
      BY <3>2, <3>3, <3>4, <3>5
  <2>3. QED
    BY <2>1, <2>2
<1>5. \A t \in Tokens : Sending(t)' <=> Sending(t)
  BY <1>2 DEF Sending
<1>6. CASE asyncio_start
  <2>1. /\ life' = life + 1 /\ phase = "stopped" /\ side["tx"] = "Uninitialized" /\ side' = side
    BY <1>6, StateIn DEF asyncio_start, ControlInv, PhaseOk, RestOk, Starting, Stopping, Down, TypeInv,
         ControlType
  <2>2. \A a \in Callers : tlife'[a] # life'
    BY <1>1, <1>3, <2>1
  <2>3. \A t \in Tokens, a \in Callers : ~Current(a, t)'
    BY <2>2 DEF Current
  <2>4. OwnersOk'
    BY <1>1, <1>4, <1>5, <2>3, OwnersKept
  <2>5. \A t \in Tokens : Owned(t)' => Owned(t)
    BY <1>4, <1>5, <2>3 DEF Owned
  <2>6. CountsOk'
    BY <1>1, <1>2, <2>1, <2>5 DEF CountsOk
  <2>7. OrderOk'
    BY <1>1, <1>2, <1>4 DEF OrderOk
  <2>8. CallsOk'
    BY <2>2 DEF CallsOk
  <2>9. QED
    BY <2>4, <2>6, <2>7, <2>8 DEF TokensOk
<1>7. CASE ~asyncio_start
  <2>1. life' = life /\ (phase' = "starting" => phase = "starting")
    BY <1>7 DEF asyncio_stop, asyncio_destroy_instance, ControllerStep, Timeout, StartClear,
     StartRun, StartReturn, StopTest, StopClear, StopSet, StopReturn, DestroyFlag, StopBegin,
     StartStore, StartDispatch, StopClaim, StopDispatch, control
  <2>2. \A t \in Tokens, a \in Callers : Current(a, t)' <=> Current(a, t)
    BY <1>3, <2>1 DEF Current
  <2>3. OwnersOk' /\ CountsOk' /\ OrderOk'
    BY <1>1, <1>2, <1>4, <1>5, <2>2, TokensKept
  <2>4. side["tx"] = "Initialized" /\ phase' = "starting" => side'["tx"] = "Initialized"
    <3>1. ASSUME side["tx"] = "Initialized", phase' = "starting", side'["tx"] # "Initialized"
          PROVE  FALSE
      <4>1. side'["tx"] = "Uninitializing" /\ phase = "starting" /\ cpc \in Starting
        BY <1>2, <2>1, <3>1 DEF ControlInv, PhaseOk
      <4>2. side \in [Sides -> States]
        BY DEF TypeInv, InstanceType
      <4>3. ~StartStore
        BY <1>1, <3>1, <4>1, <4>2 DEF StartStore
      <4>4. StopClaim
        BY <1>7, <3>1, <4>1, <4>3 DEF asyncio_stop, asyncio_destroy_instance, ControllerStep, Timeout,
           StartClear, StartRun, StartReturn, StopTest, StopClear, StopSet, StopReturn, DestroyFlag,
           StopBegin, StartDispatch, StopDispatch, instance
      <4>5. QED
        BY <4>1, <4>4 DEF StopClaim, Starting
    <3>2. QED
      BY <3>1
  <2>5. CallsOk'
    BY <1>1, <1>3, <2>1, <2>4, CallsKept
  <2>6. QED
    BY <2>3, <2>5 DEF TokensOk
<1>8. QED
  BY <1>6, <1>7

\* So do the steps of the receive worker.
LEMMA ReceiverTokens ==
  ASSUME TypeInv, TokensOk, WorkerStep("rx") \/ asyncio_release_rx_buffer("rx")
  PROVE  TokensOk'
<1>1. /\ OwnersOk /\ CountsOk /\ OrderOk /\ CallsOk /\ "tx" \in Sides /\ "rx" \in Sides
  BY DEF TokensOk, Sides
<1>2. /\ side'["tx"] = side["tx"] /\ wpc'["tx"] = wpc["tx"] /\ wact'["tx"] = wact["tx"]
      /\ UNCHANGED <<phase, life, apc, tok, tlife, stale>>
  BY <1>1, WorkerFrame
<1>3. /\ queue'["tx"] = queue["tx"]
      /\ \A t \in Tokens : (t \in free' <=> t \in free) /\ refs'[t] = refs[t]
  BY ReceiverFrame
<1>4. /\ \A t \in Tokens : (Has("tx", t)' <=> Has("tx", t)) /\ Once("tx", {t})'
      /\ Ordered("tx", Tokens)'
  BY <1>1, <1>3, SameMessages
<1>5. /\ \A t \in Tokens : Sending(t)' <=> Sending(t)
      /\ \A t \in Tokens, a \in Callers : Current(a, t)' <=> Current(a, t)
  BY <1>2 DEF Sending, Current
<1>6. OwnersOk' /\ CountsOk' /\ OrderOk'
  BY <1>1, <1>2, <1>3, <1>4, <1>5, TokensKept
<1>7. CallsOk'
  BY <1>1, <1>2, CallsKept
<1>8. QED
  BY <1>6, <1>7 DEF TokensOk

\* The transmit worker takes an action.
LEMMA MessageTaken ==
  ASSUME TypeInv, TokensOk, WorkerTake("tx")
  PROVE  TokensOk'
<1> DEFINE a == Head(queue["tx"])
<1>1. /\ wpc \in [Sides -> WorkerSteps] /\ wact \in [Sides -> Actions \cup {None}]
      /\ QueuesOk /\ "tx" \in Sides /\ OwnersOk /\ CountsOk /\ OrderOk /\ CallsOk
      /\ {"start", "finish", "rx"} \cap Tokens = {}
  BY AsyncioAssumption DEF TypeInv, WorkInv, WorkType, Sides, TokensOk
<1>2. /\ queue["tx"] # <<>> /\ queue' = [queue EXCEPT !["tx"] = Tail(@)] /\ wpc["tx"] = "wait"
      /\ wpc'["tx"] = (IF a = "start" THEN "create" ELSE IF a = "finish" THEN "finish"
                       ELSE IF a = "rx" THEN "rx" ELSE "tx")
      /\ wact'["tx"] = a
      /\ UNCHANGED <<side, plive, free, refs, life, phase, apc, tok, tlife>>
  BY <1>1 DEF WorkerTake, WorkerGo, instance, pools, control, callers
<1>3. /\ a \in ActionsOf("tx") /\ Len(queue["tx"]) \in Nat \ {0} /\ a = queue["tx"][1]
      /\ Len(queue'["tx"]) = Len(queue["tx"]) - 1
      /\ \A i \in 1..Len(queue'["tx"]) :
            queue'["tx"][i] = queue["tx"][i + 1] /\ i + 1 \in 1..Len(queue["tx"])
  BY <1>1, <1>2, Taken
<1>4. PICK h \in {"start", "finish"} \union Tokens : h = a
  BY <1>3 DEF ActionsOf
<1>5. /\ \A b : Has("tx", b) <=> Has("tx", b)' \/ b = h
      /\ \A A : Once("tx", A) => Once("tx", A)'
      /\ \A A : Once("tx", A) /\ h \in A => \A b \in A : ~Has("tx", b)'
  BY <1>1, <1>3, <1>4, TakenHas
<1>6. Ordered("tx", Tokens)' /\ (h = "start" => \A b \in Tokens : ~Has("tx", b)')
  BY <1>1, <1>3, <1>4, TakenOrder DEF OrderOk
<1>7. /\ wpc'["tx"] = IF h = "start" THEN "create" ELSE IF h = "finish" THEN "finish" ELSE "tx"
      /\ wact'["tx"] = h
  BY <1>1, <1>2, <1>4
<1>8. /\ \A t \in Tokens : ~Sending(t)
      /\ \A t \in Tokens : Sending(t)' <=> t = h
  BY <1>1, <1>2, <1>4, <1>7 DEF Sending, TransmitSteps
<1>9. \A t \in Tokens : Once("tx", {t})' /\ (t = h => ~Has("tx", t)')
  BY <1>1, <1>5 DEF OwnersOk
<1>10. \A t \in Tokens, c \in Callers : Current(c, t)' <=> Current(c, t)
  BY <1>2 DEF Current
<1>11. \A t \in Tokens : Has("tx", t) <=> Has("tx", t)' \/ Sending(t)'
  BY <1>5, <1>8
<1>12. OwnersOk'
  BY <1>1, <1>8, <1>9, <1>10, <1>11 DEF OwnersOk
<1>13. CountsOk'
  <2>1. \A t \in Tokens : Owned(t)' <=> Owned(t)
    BY <1>8, <1>10, <1>11 DEF Owned
  <2>2. QED
    BY <1>1, <1>2, <1>7, <2>1, CountsKept
<1>14. OrderOk'
  BY <1>6, <1>7 DEF OrderOk
<1>15. CallsOk'
  BY <1>1, <1>2, CallsKept
<1>16. QED
  BY <1>12, <1>13, <1>14, <1>15 DEF TokensOk

\* The other steps of the transmit worker.
LEMMA TransmitTokens ==
  ASSUME TypeInv, ControlInv, TokensOk, WorkerStep("tx")
  PROVE  TokensOk' /\ (ended' = "double_free" => ended = "double_free")
<1>1. /\ wpc \in [Sides -> WorkerSteps] /\ side \in [Sides -> States]
      /\ wact \in [Sides -> Actions \cup {None}]
      /\ queue \in [Sides -> Seq(Actions)] /\ refs \in [Blocks -> Nat]
      /\ "tx" \in Sides /\ Runs("tx", wpc["tx"], wact["tx"]) /\ SideOk("tx") /\ PhaseOk
      /\ OwnersOk /\ CountsOk /\ OrderOk /\ CallsOk
  BY DEF TypeInv, WorkInv, WorkType, InstanceType, PoolsType, Sides, TokensOk, ControlInv
<1>2. BlocksOf("tx") = Tokens /\ Tokens \subseteq Blocks
  BY DEF BlocksOf, Blocks
<1>3. UNCHANGED <<workers, cpc, cside, phase, life, apc, tok, tlife, sends, stale>>
  BY <1>1, WorkerFrame
<1>4. \A t \in Tokens, a \in Callers : Current(a, t)' <=> Current(a, t)
  BY <1>3 DEF Current
<1>5. wpc["tx"] \notin ReceiverSteps \union {"post"}
  BY <1>1 DEF Runs
<1> USE DEF WorkerOnly, WorkerGo, instance, pools, work
<1>6. CASE WorkerTake("tx")
  BY <1>6, MessageTaken DEF WorkerTake
<1>7. CASE \/ WorkerDone("tx") \/ StartedRx("tx") \/ StartedTx("tx") \/ StartedStore("tx")
           \/ StartedSend("tx") \/ StoppedRx("tx") \/ StoppedTx("tx") \/ StoppedStore("tx")
           \/ StoppedSend("tx") \/ Finisher("tx") \/ Transmit("tx") \/ TransmitWrite("tx")
  <2>1. /\ UNCHANGED <<queue, free, refs, ended>>
        /\ wpc'["tx"] \notin {"create", "ready"}
        /\ \/ wpc["tx"] \in TransmitSteps /\ wpc'["tx"] \in TransmitSteps /\ wact' = wact
           \/ wpc["tx"] \notin TransmitSteps /\ wpc'["tx"] \notin TransmitSteps
    BY <1>1, <1>7 DEF WorkerDone, StartedRx, StartedTx, StartedStore, StartedSend, StoppedRx,
         StoppedTx, StoppedStore, StoppedSend, Finisher, Transmit, TransmitWrite, TransmitSteps
  <2>2. \/ side'["tx"] = side["tx"]
        \/ side["tx"] = "Uninitializing" /\ side'["tx"] = "Uninitialized"
    BY <1>1, <1>7 DEF WorkerDone, StartedRx, StartedTx, StartedStore, StartedSend, StoppedRx,
         StoppedTx, StoppedStore, StoppedSend, Finisher, Transmit, TransmitWrite
  <2>3. \A t \in Tokens : Sending(t)' <=> Sending(t)
    BY <2>1 DEF Sending
  <2>4. /\ \A t \in Tokens : (Has("tx", t)' <=> Has("tx", t)) /\ Once("tx", {t})'
        /\ Ordered("tx", Tokens)'
    BY <1>1, <2>1, SameMessages
  <2>5. OwnersOk' /\ CountsOk' /\ OrderOk'
    BY <1>1, <1>4, <2>1, <2>2, <2>3, <2>4, TokensKept
  <2>6. CallsOk'
    BY <1>1, <1>3, <2>2, CallsKept
  <2>7. QED
    BY <2>1, <2>5, <2>6 DEF TokensOk
<1>8. CASE StarterCreate("tx")
  <2>1. /\ UNCHANGED <<queue, side, ended>> /\ wpc["tx"] = "create" /\ wpc'["tx"] = "ready"
        /\ free' = free \cup Tokens /\ \A t \in Tokens : refs'[t] = 0
    BY <1>1, <1>2, <1>8 DEF StarterCreate
  <2>2. /\ \A t \in Tokens : (Has("tx", t)' <=> Has("tx", t)) /\ Once("tx", {t})'
        /\ Ordered("tx", Tokens)'
    BY <1>1, <2>1, SameMessages
  <2>3. side["tx"] = "Initializing"
    BY <1>1, <2>1, StateAt
  <2>4. \A t \in Tokens : ~Has("tx", t) /\ ~Sending(t)'
    BY <1>1, <2>1 DEF OrderOk, Sending, TransmitSteps
  <2>5. \A t \in Tokens, a \in Callers : ~Current(a, t)
    <3>1. ASSUME NEW t \in Tokens, NEW a \in Callers, Current(a, t) PROVE FALSE
      <4>1. tlife[a] = life /\ tok[a] # None
        BY <3>1, AsyncioAssumption DEF Current, Blocks
      <4>2. QED
        BY <1>1, <2>3, <4>1, CallInLife
    <3>2. QED
      BY <3>1
  <2>6. \A t \in Tokens : ~Owned(t)'
    BY <1>4, <2>2, <2>4, <2>5 DEF Owned
  <2>7. OwnersOk'
    BY <1>4, <2>2, <2>4, <2>5 DEF OwnersOk
  <2>8. CountsOk'
    BY <2>1, <2>3, <2>6 DEF CountsOk
  <2>9. OrderOk'
    BY <2>2, <2>4 DEF OrderOk
  <2>10. CallsOk'
    BY <1>1, <1>3, <2>1, CallsKept
  <2>11. QED
    BY <2>1, <2>7, <2>8, <2>9, <2>10 DEF TokensOk
<1>9. CASE StarterReady("tx")
  <2>1. /\ UNCHANGED <<queue, free, refs, ended>> /\ wpc["tx"] = "ready" /\ wpc'["tx"] = "started_rx"
        /\ side'["tx"] = "Initialized"
    BY <1>1, <1>9 DEF StarterReady
  <2>2. /\ \A t \in Tokens : (Has("tx", t)' <=> Has("tx", t)) /\ Once("tx", {t})'
        /\ Ordered("tx", Tokens)'
    BY <1>1, <2>1, SameMessages
  <2>3. \A t \in Tokens : ~Sending(t) /\ ~Sending(t)'
    BY <2>1 DEF Sending, TransmitSteps
  <2>4. OwnersOk'
    BY <1>1, <1>4, <2>2, <2>3, OwnersKept
  <2>5. \A t \in Tokens : Owned(t)' <=> Owned(t)
    BY <1>4, <2>2, <2>3 DEF Owned
  <2>6. CountsOk'
    BY <1>1, <2>1, <2>5 DEF CountsOk
  <2>7. OrderOk'
    BY <2>1, <2>2 DEF OrderOk
  <2>8. CallsOk'
    BY <1>1, <1>3, <2>1, CallsKept
  <2>9. QED
    BY <2>1, <2>4, <2>6, <2>7, <2>8 DEF TokensOk
<1>10. CASE FinisherDestroy("tx")
  <2>1. /\ UNCHANGED <<queue, side, refs, ended>> /\ wpc["tx"] = "destroy"
        /\ wpc'["tx"] = "stopped_rx" /\ free' = free \ Tokens
    BY <1>1, <1>2, <1>10 DEF FinisherDestroy
  <2>2. /\ \A t \in Tokens : (Has("tx", t)' <=> Has("tx", t)) /\ Once("tx", {t})'
        /\ Ordered("tx", Tokens)'
    BY <1>1, <2>1, SameMessages
  <2>3. \A t \in Tokens : ~Sending(t) /\ ~Sending(t)'
    BY <2>1 DEF Sending, TransmitSteps
  <2>4. side["tx"] \in {"Uninitialized", "Initializing"}
    BY <1>1, <2>1, StateAt DEF InTail
  <2>5. OwnersOk'
    BY <1>1, <1>4, <2>2, <2>3, OwnersKept
  <2>6. \A t \in Tokens : Owned(t)' <=> Owned(t)
    BY <1>4, <2>2, <2>3 DEF Owned
  <2>7. CountsOk'
    BY <1>1, <2>1, <2>4, <2>6 DEF CountsOk
  <2>8. OrderOk'
    BY <2>1, <2>2 DEF OrderOk
  <2>9. CallsOk'
    BY <1>1, <1>3, <2>1, CallsKept
  <2>10. QED
    BY <2>1, <2>5, <2>7, <2>8, <2>9 DEF TokensOk
<1>11. CASE TransmitFree("tx")
  <2>1. PICK t \in Tokens : t = wact["tx"]
    BY <1>1, <1>11 DEF TransmitFree, Runs, TransmitSteps
  <2>2. /\ UNCHANGED <<queue, side, wact>> /\ wpc["tx"] = "tx_free" /\ wpc'["tx"] = "done"
        /\ PoolFree("tx", t)
    BY <1>1, <1>11, <2>1 DEF TransmitFree
  <2>3. /\ \A u \in Tokens : (Has("tx", u)' <=> Has("tx", u)) /\ Once("tx", {u})'
        /\ Ordered("tx", Tokens)'
    BY <1>1, <2>2, SameMessages
  <2>4. \A u \in Tokens : ~Sending(u)' /\ (Sending(u) <=> u = t)
    BY <2>1, <2>2 DEF Sending, TransmitSteps
  <2>5. /\ ~Has("tx", t) /\ \A a \in Callers : ~Current(a, t)
    BY <1>1, <2>4 DEF OwnersOk
  <2>6. OwnersOk'
    BY <1>1, <1>4, <2>3, <2>4, OwnersKept
  <2>7. ~Owned(t)' /\ Owned(t) /\ \A u \in Tokens : u # t => (Owned(u)' <=> Owned(u))
    BY <1>4, <2>3, <2>4, <2>5 DEF Owned
  <2>8. refs[t] = 1
    BY <1>1, <2>7 DEF CountsOk
  <2>9. CountsOk' /\ UNCHANGED ended
    BY <1>1, <2>2, <2>7, <2>8, CountsFreed
  <2>10. OrderOk'
    BY <2>2, <2>3 DEF OrderOk
  <2>11. CallsOk'
    BY <1>1, <1>3, <2>2, CallsKept
  <2>12. QED
    BY <2>6, <2>9, <2>10, <2>11 DEF TokensOk
<1>12. CASE \/ StarterPost("tx") \/ Receive("tx") \/ ReceiveAlloc("tx") \/ ReceiveRead("tx")
            \/ ReceiveCallback("tx") \/ ReceiveRepost("tx") \/ ReceiveFree("tx")
  BY <1>5, <1>12 DEF StarterPost, Receive, ReceiveAlloc, ReceiveRead, ReceiveCallback, ReceiveRepost,
     ReceiveFree, ReceiverSteps, BufferSteps
<1>13. QED
  BY <1>6, <1>7, <1>8, <1>9, <1>10, <1>11, <1>12 DEF WorkerStep

\* The steps of a caller that is in the life it called in.
LEMMA CallerTokens ==
  ASSUME TypeInv, ControlInv, TokensOk, NEW a \in Callers,
         \/ asyncio_allocate_tx_token(a) \/ asyncio_send_buffer(a)
         \/ asyncio_release_tx_token(a) \/ Forget(a) \/ CallerStep(a),
         ~stale'
  PROVE  TokensOk' /\ (ended' = "double_free" => ended = "double_free")
<1>1. /\ queue \in [Sides -> Seq(Actions)] /\ refs \in [Blocks -> Nat]
      /\ apc \in [Callers -> {"idle", "alloc", "send", "release"}]
      /\ tok \in [Callers -> Tokens \cup {None}] /\ tlife \in [Callers -> 0..MaxStarts]
      /\ UsesOk(a) /\ "tx" \in Sides /\ OwnersOk /\ CountsOk /\ OrderOk /\ CallsOk /\ QueuesOk
  BY DEF TypeInv, WorkInv, WorkType, PoolsType, CallersInv, CallersType, Sides, TokensOk
<1>2. Tokens \subseteq Blocks /\ None \notin Tokens /\ "start" \notin Tokens
  BY AsyncioAssumption DEF Blocks
<1>3. UNCHANGED <<workers, side, plive, wpc, wact, wbuf, cpc, cside, phase, life>>
  BY CallerFrame
<1>4. \A t \in Tokens : Sending(t)' <=> Sending(t)
  BY <1>3 DEF Sending
<1>5. CASE asyncio_allocate_tx_token(a) \/ asyncio_send_buffer(a) \/ asyncio_release_tx_token(a)
  <2>1. /\ UNCHANGED <<queue, free, refs, tok, ended>>
        /\ \A c \in Callers : c # a => apc'[c] = apc[c] /\ tlife'[c] = tlife[c]
        /\ side["tx"] = "Initialized"
        /\ tok[a] = None \/ tlife'[a] = tlife[a]
    BY <1>1, <1>5 DEF asyncio_allocate_tx_token, asyncio_send_buffer, asyncio_release_tx_token,
         CallerOnly, pools, work
  <2>2. \A t \in Tokens, c \in Callers : Current(c, t)' <=> Current(c, t)
    BY <1>2, <1>3, <2>1 DEF Current
  <2>3. /\ \A t \in Tokens : (Has("tx", t)' <=> Has("tx", t)) /\ Once("tx", {t})'
        /\ Ordered("tx", Tokens)'
    BY <1>1, <2>1, SameMessages
  <2>4. OwnersOk' /\ CountsOk' /\ OrderOk'
    BY <1>1, <1>3, <1>4, <2>1, <2>2, <2>3, TokensKept
  <2>5. CallsOk'
    BY <1>3, <2>1 DEF CallsOk
  <2>6. QED
    BY <2>1, <2>4, <2>5 DEF TokensOk
<1>6. CASE Forget(a)
  <2>1. /\ UNCHANGED <<queue, free, refs, apc, tlife, ended>> /\ tok' = [tok EXCEPT ![a] = None]
        /\ tlife[a] # life
    BY <1>6 DEF Forget, Fresh, pools, work
  <2>2. \A t \in Tokens, c \in Callers : Current(c, t)' <=> Current(c, t)
    BY <1>1, <1>3, <2>1 DEF Current
  <2>3. /\ \A t \in Tokens : (Has("tx", t)' <=> Has("tx", t)) /\ Once("tx", {t})'
        /\ Ordered("tx", Tokens)'
    BY <1>1, <2>1, SameMessages
  <2>4. OwnersOk' /\ CountsOk' /\ OrderOk'
    BY <1>1, <1>3, <1>4, <2>1, <2>2, <2>3, TokensKept
  <2>5. CallsOk'
    BY <1>1, <1>3, <2>1 DEF CallsOk
  <2>6. QED
    BY <2>1, <2>4, <2>5 DEF TokensOk
<1>7. CASE TokenAlloc(a) /\ UNCHANGED <<free, refs, tok>>
  <2>1. /\ UNCHANGED <<queue, free, refs, tok, tlife, ended>> /\ apc' = [apc EXCEPT ![a] = "idle"]
    BY <1>7 DEF TokenAlloc, work
  <2>2. \A t \in Tokens, c \in Callers : Current(c, t)' <=> Current(c, t)
    BY <1>3, <2>1 DEF Current
  <2>3. /\ \A t \in Tokens : (Has("tx", t)' <=> Has("tx", t)) /\ Once("tx", {t})'
        /\ Ordered("tx", Tokens)'
    BY <1>1, <2>1, SameMessages
  <2>4. OwnersOk' /\ CountsOk' /\ OrderOk'
    BY <1>1, <1>3, <1>4, <2>1, <2>2, <2>3, TokensKept
  <2>5. CallsOk'
    BY <1>1, <1>3, <2>1 DEF CallsOk
  <2>6. QED
    BY <2>1, <2>4, <2>5 DEF TokensOk
<1>8. CASE TokenAlloc(a) /\ ~UNCHANGED <<free, refs, tok>>
  <2>1. /\ UNCHANGED <<queue, tlife, ended>> /\ apc' = [apc EXCEPT ![a] = "idle"] /\ apc[a] = "alloc"
        /\ tlife[a] = life
    BY <1>8 DEF TokenAlloc, work
  <2>2. PICK t \in Tokens : /\ t \in free /\ free' = free \ {t}
                            /\ refs' = [refs EXCEPT ![t] = @ + 1] /\ tok' = [tok EXCEPT ![a] = t]
    BY <1>8 DEF TokenAlloc
  <2>3. refs[t] = 0 /\ ~Owned(t) /\ tok[a] = None
    BY <1>1, <2>1, <2>2 DEF CountsOk, UsesOk
  <2>4. /\ side["tx"] # "Initializing" /\ wpc["tx"] \notin {"create", "ready"}
    BY <1>1, <2>1, CallInLife
  <2>5. /\ \A u \in Tokens : (Has("tx", u)' <=> Has("tx", u)) /\ Once("tx", {u})'
        /\ Ordered("tx", Tokens)'
    BY <1>1, <2>1, SameMessages
  <2>6. \A u \in Tokens, c \in Callers : Current(c, u)' <=> Current(c, u) \/ (c = a /\ u = t)
    BY <1>1, <1>2, <1>3, <2>1, <2>2, <2>3 DEF Current
  <2>7. ~Has("tx", t) /\ ~Sending(t) /\ \A c \in Callers : ~Current(c, t)
    BY <2>3 DEF Owned
  <2>8. OwnersOk'
    <3>1. /\ \A u \in Tokens : Once("tx", {u})'
          /\ \A u \in Tokens : ~(Has("tx", u)' /\ Sending(u)')
      BY <1>1, <1>4, <2>5 DEF OwnersOk
    <3>2. ASSUME NEW u \in Tokens, NEW c \in Callers, Current(c, u)'
          PROVE  ~Has("tx", u)' /\ ~Sending(u)' /\ \A b \in Callers : Current(b, u)' => c = b
      <4>1. CASE u = t
        BY <1>4, <2>5, <2>6, <2>7, <3>2, <4>1
      <4>2. CASE u # t
        BY <1>1, <1>4, <2>5, <2>6, <3>2, <4>2 DEF OwnersOk
      <4>3. QED
        BY <4>1, <4>2
    <3>3. QED
      BY <3>1, <3>2 DEF OwnersOk
  <2>9. \A u \in Tokens : Owned(u)' <=> Owned(u) \/ u = t
    BY <1>4, <2>5, <2>6 DEF Owned
  <2>10. refs'[t] = 1 /\ \A u \in Tokens : u # t => refs'[u] = refs[u]
    BY <1>1, <1>2, <2>2, <2>3
  <2>11. CountsOk'
    BY <1>1, <1>3, <2>2, <2>4, <2>9, <2>10 DEF CountsOk
  <2>12. OrderOk'
    BY <1>1, <1>3, <2>5 DEF OrderOk
  <2>13. CallsOk'
    BY <1>1, <1>3, <2>1, <2>2 DEF CallsOk
  <2>14. QED
    BY <2>1, <2>8, <2>11, <2>12, <2>13 DEF TokensOk
<1>9. CASE SendDispatch(a)
  <2>1. /\ UNCHANGED <<free, refs, tlife, ended>> /\ apc[a] = "send" /\ Fresh(a)
        /\ apc' = [apc EXCEPT ![a] = "idle"] /\ tok' = [tok EXCEPT ![a] = None] /\ Post("tx", tok[a])
    BY <1>9 DEF SendDispatch, pools
  <2>2. PICK t \in Tokens : t = tok[a]
    BY <1>1, <2>1 DEF Fresh
  <2>3. tlife[a] = life /\ tok[a] # None /\ Current(a, t)
    BY <2>1, <2>2 DEF Fresh, Current
  <2>4. ~Has("tx", "start") /\ wpc["tx"] \notin {"create", "ready"}
    BY <1>1, <2>3, CallInLife
  <2>5. /\ ~Has("tx", t) /\ ~Sending(t) /\ \A c \in Callers : Current(c, t) => c = a
    BY <1>1, <2>3 DEF OwnersOk
  <2>6. queue["tx"] \in Seq(Actions) /\ queue'["tx"] = Append(queue["tx"], t) /\ t \in Actions
    BY <1>1, <2>1, <2>2 DEF Post, Actions
  <2>7. /\ \A b : Has("tx", b)' <=> Has("tx", b) \/ b = t
        /\ \A A : Once("tx", A) /\ t \notin A => Once("tx", A)'
        /\ \A A : (\A b \in A : ~Has("tx", b)) => Once("tx", A)'
    BY <1>1, <2>6, AppendedHas
  <2>8. \A u \in Tokens : Once("tx", {u})'
    <3>1. Once("tx", {t})'
      BY <2>5, <2>7
    <3>2. ASSUME NEW u \in Tokens, u # t PROVE Once("tx", {u})'
      BY <1>1, <2>7, <3>2 DEF OwnersOk
    <3>3. QED
      BY <3>1, <3>2
  <2>9. Ordered("tx", Tokens)'
    BY <1>1, <2>4, <2>6, AppendedOrder DEF OrderOk
  <2>10. \A u \in Tokens, c \in Callers : Current(c, u)' <=> Current(c, u) /\ c # a
    BY <1>1, <1>2, <1>3, <2>1 DEF Current
  <2>11. \A u \in Tokens : Current(a, u) => u = t
    BY <2>2 DEF Current
  <2>12. OwnersOk'
    BY <1>1, <1>4, <2>5, <2>7, <2>8, <2>10 DEF OwnersOk
  <2>13. \A u \in Tokens : Owned(u)' <=> Owned(u)
    BY <1>4, <2>3, <2>7, <2>10, <2>11 DEF Owned
  <2>14. CountsOk'
    BY <1>1, <1>3, <2>1, <2>13, CountsKept
  <2>15. OrderOk'
    BY <1>3, <2>4, <2>9 DEF OrderOk
  <2>16. CallsOk'
    BY <1>1, <1>3, <2>1 DEF CallsOk
  <2>17. QED
    BY <2>1, <2>12, <2>14, <2>15, <2>16 DEF TokensOk
<1>10. CASE ReleaseFree(a)
  <2>1. /\ UNCHANGED <<queue, tlife>> /\ apc[a] = "release" /\ Fresh(a)
        /\ apc' = [apc EXCEPT ![a] = "idle"] /\ tok' = [tok EXCEPT ![a] = None]
        /\ PoolFree("tx", tok[a])
    BY <1>10 DEF ReleaseFree, work
  <2>2. PICK t \in Tokens : t = tok[a]
    BY <1>1, <2>1 DEF Fresh
  <2>3. tlife[a] = life /\ tok[a] # None /\ Current(a, t) /\ PoolFree("tx", t)
    BY <2>1, <2>2 DEF Fresh, Current
  <2>4. wpc["tx"] \notin {"create", "ready"}
    BY <1>1, <2>3, CallInLife
  <2>5. /\ ~Has("tx", t) /\ ~Sending(t) /\ \A c \in Callers : Current(c, t) => c = a
    BY <1>1, <2>3 DEF OwnersOk
  <2>6. /\ \A u \in Tokens : (Has("tx", u)' <=> Has("tx", u)) /\ Once("tx", {u})'
        /\ Ordered("tx", Tokens)'
    BY <1>1, <2>1, SameMessages
  <2>7. \A u \in Tokens, c \in Callers : Current(c, u)' <=> Current(c, u) /\ c # a
    BY <1>1, <1>2, <1>3, <2>1 DEF Current
  <2>8. \A u \in Tokens : Current(a, u) => u = t
    BY <2>2 DEF Current
  <2>9. OwnersOk'
    BY <1>1, <1>4, <2>6, <2>7, OwnersKept
  <2>10. ~Owned(t)' /\ Owned(t) /\ \A u \in Tokens : u # t => (Owned(u)' <=> Owned(u))
    BY <1>4, <2>3, <2>5, <2>6, <2>7, <2>8 DEF Owned
  <2>11. refs[t] = 1
    BY <1>1, <2>10 DEF CountsOk
  <2>12. CountsOk' /\ UNCHANGED ended
    BY <1>1, <1>3, <2>3, <2>4, <2>10, <2>11, CountsFreed
  <2>13. OrderOk'
    BY <1>3, <2>4, <2>6 DEF OrderOk
  <2>14. CallsOk'
    BY <1>1, <1>3, <2>1 DEF CallsOk
  <2>15. QED
    BY <2>9, <2>12, <2>13, <2>14 DEF TokensOk
<1>11. QED
  BY <1>5, <1>6, <1>7, <1>8, <1>9, <1>10 DEF CallerStep

\* A call never makes the exception go away.
LEMMA StaleStays ==
  ASSUME TypeInv, stale, ended = "no" /\ Running
  PROVE  stale'
<1>1. ASSUME NEW s \in Sides, WorkerStep(s) \/ asyncio_release_rx_buffer(s) PROVE stale'
  BY <1>1, WorkerFrame
<1>2. ASSUME NEW a \in Callers,
             \/ asyncio_allocate_tx_token(a) \/ asyncio_send_buffer(a)
             \/ asyncio_release_tx_token(a) \/ Forget(a) \/ CallerStep(a)
      PROVE  stale'
  BY <1>2 DEF asyncio_allocate_tx_token, asyncio_send_buffer, asyncio_release_tx_token, Forget,
     CallerStep, TokenAlloc, SendDispatch, ReleaseFree, CallerOnly
<1>3. CASE asyncio_start \/ asyncio_stop \/ asyncio_destroy_instance \/ ControllerStep \/ Timeout
  BY <1>3 DEF asyncio_start, asyncio_stop, asyncio_destroy_instance, ControllerStep, Timeout,
     StartClear, StartRun, StartReturn, StopTest, StopClear, StopSet, StopReturn, DestroyFlag,
     StartStore, StartDispatch, StopClaim, StopDispatch, callers
<1>4. QED
  BY <1>1, <1>2, <1>3 DEF Running

\* The tokens, and why the program ends, in the first state ...
LEMMA TokenInit == Init => TokenInv /\ EndOk
<1> SUFFICES ASSUME Init PROVE TokenInv /\ EndOk
  OBVIOUS
<1>1. /\ side["tx"] = "Uninitialized" /\ queue["tx"] = <<>> /\ wpc["tx"] = "wait"
      /\ free = {} /\ ended = "no" /\ phase = "stopped" /\ \A t \in Tokens : refs[t] = 0
      /\ \A a \in Callers : tok[a] = None
  BY DEF Init, Sides, Blocks
<1>2. \A t \in Tokens : ~Has("tx", t) /\ Once("tx", {t}) /\ ~Sending(t)
  BY <1>1 DEF Has, Once, Sending, TransmitSteps
<1>3. Ordered("tx", Tokens)
  BY <1>1 DEF Ordered
<1>4. \A t \in Tokens, a \in Callers : ~Current(a, t)
  BY <1>1, AsyncioAssumption DEF Current, Blocks
<1>5. \A t \in Tokens : ~Owned(t)
  BY <1>2, <1>4 DEF Owned
<1>6. OwnersOk /\ OrderOk
  BY <1>2, <1>3, <1>4 DEF OwnersOk, OrderOk
<1>7. CountsOk /\ CallsOk
  BY <1>1, <1>5 DEF CountsOk, CallsOk
<1>8. QED
  BY <1>1, <1>6, <1>7 DEF TokenInv, TokensOk, EndOk

\* ... and after every step.
LEMMA TokenNext ==
  TypeInv /\ ControlInv /\ TokenInv /\ EndOk /\ [Next]_vars => TokenInv' /\ EndOk'
<1> SUFFICES ASSUME TypeInv, ControlInv, TokenInv, EndOk, [Next]_vars PROVE TokenInv' /\ EndOk'
  OBVIOUS
<1>1. CASE UNCHANGED vars
  <2>1. UNCHANGED <<side, queue, wpc, wact, wbuf, free, refs, tok, tlife, life, apc, phase, stale, ended>>
    BY <1>1 DEF vars
  <2>2. EndOk'
    BY <2>1 DEF EndOk
  <2>3. ASSUME TokensOk PROVE TokensOk'
    <3>1. OwnersOk /\ CountsOk /\ OrderOk /\ CallsOk
      BY <2>3 DEF TokensOk
    <3>2. /\ \A t \in Tokens : (Has("tx", t)' <=> Has("tx", t)) /\ Once("tx", {t})'
          /\ Ordered("tx", Tokens)'
      BY <2>1, <3>1, SameMessages
    <3>3. /\ \A t \in Tokens : Sending(t)' <=> Sending(t)
          /\ \A t \in Tokens, a \in Callers : Current(a, t)' <=> Current(a, t)
      BY <2>1 DEF Sending, Current
    <3>4. OwnersOk' /\ CountsOk' /\ OrderOk'
      BY <2>1, <3>1, <3>2, <3>3, TokensKept
    <3>5. CallsOk'
      BY <2>1, <3>1, CallsKept
    <3>6. QED
      BY <3>4, <3>5 DEF TokensOk
  <2>4. QED
    BY <2>1, <2>2, <2>3 DEF TokenInv
<1>2. CASE ended = "no" /\ Running
  <2>1. CASE stale
    BY <1>2, <2>1, StaleStays DEF TokenInv, EndOk
  <2>2. CASE ~stale
    <3>1. TokensOk
      BY <2>2 DEF TokenInv
    <3>2. CASE asyncio_start \/ asyncio_stop \/ asyncio_destroy_instance \/ ControllerStep \/ Timeout
      <4>1. TokensOk'
        BY <3>1, <3>2, ControllerTokens
      <4>2. ended' # "double_free"
        BY <1>2, <3>2 DEF asyncio_start, asyncio_stop, asyncio_destroy_instance, ControllerStep,
           Timeout, StartClear, StartRun, StartReturn, StopTest, StopClear, StopSet, StopReturn,
           DestroyFlag, StartStore, StartDispatch, StopClaim, StopDispatch, End
      <4>3. QED
        BY <4>1, <4>2 DEF TokenInv, EndOk
    <3>3. CASE WorkerStep("tx")
      <4>1. TokensOk' /\ (ended' = "double_free" => ended = "double_free")
        BY <3>1, <3>3, TransmitTokens
      <4>2. QED
        BY <1>2, <4>1 DEF TokenInv, EndOk
    <3>4. CASE WorkerStep("rx") \/ asyncio_release_rx_buffer("rx")
      <4>1. TokensOk'
        BY <3>1, <3>4, ReceiverTokens
      <4>2. /\ Runs("rx", wpc["rx"], wact["rx"])
            /\ wpc["rx"] \in BufferSteps => wbuf \in Buffers
        BY DEF TypeInv, WorkInv, Sides
      <4>3. ended' = "double_free" =>
              wpc["rx"] \in {"rx_free", "callback"} /\ refs[wbuf] = 0 /\ UNCHANGED <<refs, wbuf>>
        BY <1>2, <3>4, <4>2 DEF WorkerStep, WorkerTake, WorkerDone, StarterCreate, StarterReady,
           StarterPost, StartedRx, StartedTx, StartedStore, StartedSend, Finisher, FinisherDestroy,
           StoppedRx, StoppedTx, StoppedStore, StoppedSend, Receive, ReceiveAlloc, ReceiveRead,
           asyncio_release_rx_buffer, ReceiveCallback, ReceiveRepost, ReceiveFree, Transmit,
           TransmitWrite, TransmitFree, WorkerOnly, PoolFree, End, work, Runs, TransmitSteps
      <4>4. EndOk'
        BY <4>2, <4>3 DEF EndOk, BufferSteps
      <4>5. QED
        BY <4>1, <4>4 DEF TokenInv
    <3>5. ASSUME NEW a \in Callers,
                 \/ asyncio_allocate_tx_token(a) \/ asyncio_send_buffer(a)
                 \/ asyncio_release_tx_token(a) \/ Forget(a) \/ CallerStep(a)
          PROVE  TokenInv' /\ EndOk'
      BY <1>2, <3>1, <3>5, CallerTokens DEF TokenInv, EndOk
    <3>6. ~asyncio_release_rx_buffer("tx")
      BY DEF asyncio_release_rx_buffer, TypeInv, WorkInv, Runs, ReceiverSteps, BufferSteps, Sides
    <3>7. QED
      BY <1>2, <3>2, <3>3, <3>4, <3>5, <3>6 DEF Running, Sides
  <2>3. QED
    BY <2>1, <2>2
<1>3. QED
  BY <1>1, <1>2 DEF Next, Finished

\* The tokens, in every state.
LEMMA TokensAlways == Spec => [](TypeInv /\ ControlInv /\ ReceiverInv /\ TokenInv /\ EndOk)
<1>1. Init => ReceiverInv /\ TokenInv /\ EndOk
  BY ReceiverInit, TokenInit
<1>2. TypeInv /\ ControlInv /\ ReceiverInv /\ TokenInv /\ EndOk /\ [Next]_vars =>
        (ReceiverInv /\ TokenInv /\ EndOk)'
  BY ReceiverNext, TokenNext
<1>3. QED
  BY <1>1, <1>2, ControlAlways, PTL DEF Spec

-----------------------------------------------------------------------------
(* What the invariants of the tokens and of the chain give.                *)

\* While the transmit side is up, a token is free exactly when nobody has it, and
\* no token has two references, whatever a stop has dropped.
THEOREM TokensAlwaysConserved == Spec => []TokensConserved
<1>1. ASSUME TypeInv, TokenInv PROVE TokensConserved
  <2>1. SUFFICES ASSUME side["tx"] \in {"Initialized", "Uninitializing"}, ~stale, NEW t \in Tokens
                 PROVE  refs[t] = Cardinality(TokenOwners(t)) /\ (t \in free <=> refs[t] = 0)
    BY DEF TokensConserved
  <2>2. /\ OwnersOk /\ CountsOk /\ "tx" \in Sides /\ queue["tx"] \in Seq(Actions)
    BY <1>1, <2>1 DEF TokenInv, TokensOk, TypeInv, WorkInv, WorkType, Sides
  <2>3. refs[t] \in {0, 1} /\ (refs[t] = 1 <=> Owned(t)) /\ (t \in free <=> refs[t] = 0)
    BY <2>1, <2>2 DEF CountsOk
  <2> DEFINE C == {x \in Callers : tok[x] = t /\ tlife[x] = life}
             Q == {j \in DOMAIN queue["tx"] : queue["tx"][j] = t}
             W == {x \in {"tx"} : wact[x] = t /\ wpc[x] \in {"tx", "write", "tx_free"}}
  <2>4. /\ C = {x \in Callers : Current(x, t)}
        /\ Q = {j \in 1..Len(queue["tx"]) : queue["tx"][j] = t}
        /\ W = IF Sending(t) THEN {"tx"} ELSE {}
    BY <2>2 DEF Current, Sending, TransmitSteps
  <2>5. TokenOwners(t) = {<<"caller", a>> : a \in C} \cup {<<"queue", i>> : i \in Q}
                            \cup {<<"worker", s>> : s \in W}
    BY DEF TokenOwners
  <2> HIDE DEF C, Q, W
  <2>6. CASE ~Owned(t)
    <3>1. C = {} /\ Q = {} /\ W = {}
      BY <2>4, <2>6 DEF Owned, Has
    <3>2. TokenOwners(t) = {}
      BY <2>5, <3>1
    <3>3. QED
      BY <2>3, <2>6, <3>2, FS_EmptySet
  <2>7. CASE Owned(t)
    <3>1. \E x : TokenOwners(t) = {x}
      <4>1. CASE Has("tx", t)
        <5>1. PICK i \in 1..Len(queue["tx"]) : queue["tx"][i] = t
          BY <4>1 DEF Has
        <5>2. Q = {i}
          BY <2>2, <2>4, <5>1 DEF OwnersOk, Once
        <5>3. C = {} /\ W = {}
          BY <2>2, <2>4, <4>1 DEF OwnersOk
        <5>4. TokenOwners(t) = {<<"queue", i>>}
          BY <2>5, <5>2, <5>3
        <5>5. QED
          BY <5>4
      <4>2. CASE Sending(t)
        <5>1. W = {"tx"} /\ C = {} /\ ~Has("tx", t)
          BY <2>2, <2>4, <4>2 DEF OwnersOk
        <5>2. Q = {}
          BY <2>4, <5>1 DEF Has
        <5>3. TokenOwners(t) = {<<"worker", "tx">>}
          BY <2>5, <5>1, <5>2
        <5>4. QED
          BY <5>3
      <4>3. CASE \E a \in Callers : Current(a, t)
        <5>1. PICK a \in Callers : Current(a, t)
          BY <4>3
        <5>2. C = {a} /\ ~Has("tx", t) /\ W = {}
          BY <2>2, <2>4, <5>1 DEF OwnersOk
        <5>3. Q = {}
          BY <2>4, <5>2 DEF Has
        <5>4. TokenOwners(t) = {<<"caller", a>>}
          BY <2>5, <5>2, <5>3
        <5>5. QED
          BY <5>4
      <4>4. QED
        BY <2>7, <4>1, <4>2, <4>3 DEF Owned
    <3>2. PICK x : TokenOwners(t) = {x}
      BY <3>1
    <3>3. Cardinality({x}) = 1
      BY FS_Singleton
    <3>4. QED
      BY <2>3, <2>7, <3>2, <3>3
  <2>8. QED
    BY <2>6, <2>7
<1>2. QED
  BY <1>1, TokensAlways, PTL

\* The queue of the receive side has at most a starter or a finisher, and an rx_f.
LEMMA ReceiveQueue ==
  ASSUME TypeInv, ControlInv, ReceiverInv
  PROVE  Len(queue["rx"]) \in Nat /\ Len(queue["rx"]) <= 2
<1> DEFINE n == Len(queue["rx"])
<1>1. /\ "rx" \in Sides /\ queue["rx"] \in Seq(Actions) /\ n \in Nat
  BY DEF TypeInv, WorkInv, WorkType, Sides
<1>2. \A i \in 1..n : queue["rx"][i] \in {"start", "finish"} \/ queue["rx"][i] \in {"rx"}
  BY <1>1 DEF TypeInv, WorkInv, QueuesOk, ActionsOf
<1>3. /\ \A i, j \in 1..n : queue["rx"][i] \in {"start", "finish"} /\ queue["rx"][j] \in {"start", "finish"} => i = j
      /\ \A i, j \in 1..n : queue["rx"][i] \in {"rx"} /\ queue["rx"][j] \in {"rx"} => i = j
  BY <1>1 DEF ControlInv, SideOk, ReceiverInv, ChainOk, Once
<1>4. ASSUME n > 2 PROVE FALSE
  <2>1. 1 \in 1..n /\ 2 \in 1..n /\ 3 \in 1..n
    BY <1>1, <1>4
  <2>2. QED
    BY <1>2, <1>3, <2>1
<1> HIDE DEF n
<1>5. n \in Nat /\ n <= 2
  BY <1>1, <1>4
<1>6. QED
  BY <1>5 DEF n

\* The queue of the transmit side has at most a starter or a finisher, and every
\* token once.
LEMMA TransmitQueue ==
  ASSUME TypeInv, ControlInv, TokensOk
  PROVE  /\ Len(queue["tx"]) \in Nat /\ Cardinality(Tokens) \in Nat
         /\ Len(queue["tx"]) <= Cardinality(Tokens) + 1
<1> DEFINE n == Len(queue["tx"])
           T == Tokens \cup {None}
           f == [i \in 1..n |-> IF queue["tx"][i] \in Tokens THEN queue["tx"][i] ELSE None]
<1>1. /\ "tx" \in Sides /\ queue["tx"] \in Seq(Actions) /\ n \in Nat
  BY DEF TypeInv, WorkInv, WorkType, Sides
<1>2. IsFiniteSet(Tokens) /\ None \notin Tokens
  BY AsyncioAssumption DEF Blocks
<1>3. \A i \in 1..n : queue["tx"][i] \in {"start", "finish"} \/ queue["tx"][i] \in Tokens
  BY <1>1 DEF TypeInv, WorkInv, QueuesOk, ActionsOf
<1>4. /\ \A i, j \in 1..n : queue["tx"][i] \in {"start", "finish"} /\ queue["tx"][j] \in {"start", "finish"} => i = j
      /\ \A i, j \in 1..n : queue["tx"][i] \in Tokens /\ queue["tx"][j] = queue["tx"][i] => i = j
  BY <1>1 DEF ControlInv, SideOk, TokensOk, OwnersOk, Once
<1>5. /\ IsFiniteSet(T) /\ Cardinality(T) = Cardinality(Tokens) + 1
      /\ Cardinality(Tokens) \in Nat
  BY <1>2, FS_AddElement, FS_CardinalityType
<1>6. IsFiniteSet(1..n) /\ Cardinality(1..n) = n
  <2> HIDE DEF n
  <2>1. 1 \in Int /\ n \in Int
    BY <1>1
  <2>2. /\ IsFiniteSet(1..n) /\ Cardinality(1..n) = IF 1 > n THEN 0 ELSE n - 1 + 1
    BY <2>1, FS_Interval
  <2>3. QED
    BY <1>1, <2>2
<1>7. f \in [1..n -> T]
  OBVIOUS
<1>8. \A i, j \in 1..n : f[i] = f[j] => i = j
  BY <1>2, <1>3, <1>4
<1> HIDE DEF f, T, n
<1>9. ASSUME Cardinality(T) < Cardinality(1..n) PROVE FALSE
  <2>1. \E i, j \in 1..n : i # j /\ f[i] = f[j]
    BY <1>5, <1>6, <1>7, <1>9, FS_PigeonHole
  <2>2. QED
    BY <1>8, <2>1
<1>10. QED
  BY <1>1, <1>5, <1>6, <1>9 DEF n

\* Why the program can end, and how many blocks the dispatch queues need.
THEOREM EndsHaveCauses == Spec => []EndCauses
<1>1. ASSUME TypeInv, ControlInv, ReceiverInv, TokenInv, EndOk PROVE EndCauses
  <2>1. ended # "unexpected_state"
    BY <1>1 DEF ControlInv
  <2>2. ended = "double_free" => stale \/ \E b \in Buffers : wbuf = b /\ refs[b] = 0
    BY <1>1 DEF EndOk
  <2>3. Demand("rx") <= 3
    <3>1. Len(queue["rx"]) \in Nat /\ Len(queue["rx"]) <= 2
      BY <1>1, ReceiveQueue
    <3>2. PICK n \in Nat : n = Len(queue["rx"]) /\ n <= 2
      BY <3>1
    <3>3. Demand("rx") = n + 0 \/ Demand("rx") = n + 1
      BY <3>2, Zenon DEF Demand
    <3>4. QED
      BY <3>2, <3>3
  <2>4. ASSUME ~stale PROVE Demand("tx") <= Cardinality(Tokens) + 2
    <3>1. /\ Len(queue["tx"]) \in Nat /\ Cardinality(Tokens) \in Nat
          /\ Len(queue["tx"]) <= Cardinality(Tokens) + 1
      BY <1>1, <2>4, TransmitQueue DEF TokenInv
    <3>2. PICK n \in Nat : n = Len(queue["tx"])
      BY <3>1
    <3>3. Demand("tx") = n + 0 \/ Demand("tx") = n + 1
      BY <3>2, Zenon DEF Demand
    <3>4. QED
      BY <3>1, <3>2, <3>3
  <2>5. QED
    BY <2>1, <2>2, <2>3, <2>4 DEF EndCauses
<1>2. QED
  BY <1>1, TokensAlways, PTL
=============================================================================
